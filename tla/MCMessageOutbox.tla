-------------------------- MODULE MCMessageOutbox --------------------------
EXTENDS MessageOutbox, TLC, Functions

\* keys and bodies are only compared
KeySymmetry == Permutations(Keys) \cup Permutations(Contents)

\* Without rows of the older allocator no step reads sessionLast.
WithoutSessionLast == <<lastSeq, stage, original, stored, kafkaVars, logicVars, jobPc, acked>>

\* Logic died with the numbers 1..n prepared: one prepared row each, nothing in Kafka.
\* Without writers what is left is the recovery thread, Kafka and the Job.
Crashed(n) ==
  /\ lastSeq = n /\ sessionLast = 0
  /\ stage = [s \in Seqs |-> IF s <= n THEN Prepared ELSE Gone]
  /\ LET first == CHOOSE f \in [1..n -> Message] : IsInjective(f) IN
       original = [s \in Seqs |-> IF s <= n THEN first[s] ELSE NoMessage]
  /\ stored = [s \in Seqs |-> NoMessage]
  /\ inflight = {} /\ log = <<>> /\ committed = 0 /\ dlq = {}
  /\ pc = [o \in Senders |-> "idle"] /\ rec = [o \in Senders |-> NoMessage]
  /\ todo = {} /\ jobPc = "insert" /\ acked = {}

CrashedSpec == Crashed(MaxSeq) /\ [][Next]_vars /\ Fairness /\ TroubleEnds

=============================================================================
