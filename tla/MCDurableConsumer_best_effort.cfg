\* A consumer without a dead letter topic.
CONSTANTS
  Consumers = {a}
  NoConsumer = nobody
  k1 = k1
  k2 = k2
  Records = 3
  KeyOf <- MCKeyOf
  Control = {3}
  Lanes = 2
  MaxBatch = 2
  Deployments <- BestEffort
SPECIFICATION Spec
INVARIANTS CommittedIsSettled
