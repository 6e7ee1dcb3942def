\* Two members, three records, a batch or deque of two; the last record is a control.
CONSTANTS
  Consumers = {a, b}
  NoConsumer = nobody
  k1 = k1
  k2 = k2
  Records = 3
  KeyOf <- MCKeyOf
  Control = {3}
  Lanes = 2
  MaxBatch = 2
  Deployments <- Durable
SPECIFICATION FairSpec
INVARIANTS TypeOK CommittedIsSettled TurnsInOrder
PROPERTIES ImplementsOrderedTopic EveryRecordIsSettled
