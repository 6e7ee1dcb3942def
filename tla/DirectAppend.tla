---------------------------- MODULE DirectAppend ----------------------------
(***************************************************************************)
(* The other way into the message table: ConversationStore::AppendMessage, *)
(* which SendLegacyText and SendDanmaku call, takes a reservation and then *)
(* writes the row itself, without PrepareOutbox and without Kafka.  It runs*)
(* beside the outbox of module MessageOutbox, on the same tables.          *)
(***************************************************************************)
EXTENDS MessageOutbox

CONSTANTS
  Appenders,  \* Logic threads inside AppendMessage, under no per-session mutex
  Grace       \* whether an append always ends within the 10 minutes Seal waits

ASSUME DirectAssumption == Grace \in BOOLEAN /\ NoMessage \notin Record

VARIABLES
  at,         \* the next statement of each appender
  mine        \* the message each appender got from its reservation

directVars == <<at, mine>>

To(a, place) == at' = [at EXCEPT ![a] = place]

\* Mutant of DirectReserve: the counter is read and not moved.
BadDirectReserve(a, m) ==
  /\ at[a] = "idle"
  /\ Holding(m.key) = {}
  /\ PreviousSeq < MaxSeq
  /\ mine' = [mine EXCEPT ![a] = [seq |-> PreviousSeq + 1, msg |-> m]]
  /\ To(a, "insert")
  /\ UNCHANGED vars

\* Mutant of DirectReserve: the number is taken from the counter without a reservation.
BadUnreserved(a, m) ==
  /\ at[a] = "idle"
  /\ PreviousSeq < MaxSeq
  /\ lastSeq' = PreviousSeq + 1
  /\ mine' = [mine EXCEPT ![a] = [seq |-> PreviousSeq + 1, msg |-> m]]
  /\ To(a, "insert")
  /\ UNCHANGED <<stage, original, stored, sessionLast, kafkaVars, logicVars, jobPc, acked>>

\* AppendMessageHotPath with an empty client_msg_id: the key is a fresh random one.
DirectReserve(a, m) ==
  /\ at[a] = "idle"
  /\ Holding(m.key) = {}
  /\ PreviousSeq < MaxSeq
  /\ LET s == PreviousSeq + 1 IN
       /\ lastSeq' = s
       /\ stage' = [stage EXCEPT ![s] = Reserved]
       /\ original' = [original EXCEPT ![s] = m]
       /\ mine' = [mine EXCEPT ![a] = [seq |-> s, msg |-> m]]
  /\ To(a, "insert")
  /\ UNCHANGED <<stored, sessionLast, kafkaVars, logicVars, jobPc, acked>>

DirectInsert(a) ==
  /\ at[a] = "insert"
  /\ stored[mine[a].seq] \in {NoMessage, mine[a].msg}
  /\ stored' = [stored EXCEPT ![mine[a].seq] = mine[a].msg]
  /\ To(a, "mark")
  /\ UNCHANGED <<lastSeq, stage, original, sessionLast, kafkaVars, logicVars, jobPc, acked, mine>>

\* Persisted: stage = 3 unless the row is sealed or gone
DirectMark(a) ==
  /\ at[a] = "mark"
  /\ stage' = [stage EXCEPT ![mine[a].seq] = IF @ \in {Gone, Sealed} THEN @ ELSE Persisted]
  /\ To(a, "last")
  /\ UNCHANGED <<lastSeq, original, stored, sessionLast, kafkaVars, logicVars, jobPc, acked, mine>>

\* UpdateLastMessageSeqAtLeast, and AppendMessage returns true.
DirectLast(a) ==
  /\ at[a] = "last"
  /\ sessionLast' = IF sessionLast < mine[a].seq THEN mine[a].seq ELSE sessionLast
  /\ at' = [at EXCEPT ![a] = "idle"]
  /\ mine' = [mine EXCEPT ![a] = NoMessage]
  /\ UNCHANGED <<lastSeq, stage, original, stored, kafkaVars, logicVars, jobPc, acked>>

\* A statement fails: AppendMessage returns false and takes nothing back.
DirectFail(a) ==
  /\ at[a] # "idle"
  /\ at' = [at EXCEPT ![a] = "idle"]
  /\ mine' = [mine EXCEPT ![a] = NoMessage]
  /\ UNCHANGED vars

Direct(a) ==
  \/ \E m \in Message : DirectReserve(a, m)
  \/ DirectInsert(a) \/ DirectMark(a) \/ DirectLast(a) \/ DirectFail(a)

\* With Grace, the outbox seals no reservation under an append that still runs.
InTime(a) ==
  Grace /\ at[a] # "idle" /\ stage'[mine[a].seq] = Sealed => stage[mine[a].seq] = Sealed

DirectInit ==
  /\ Init
  /\ at = [a \in Appenders |-> "idle"]
  /\ mine = [a \in Appenders |-> NoMessage]

DirectNext ==
  \/ Next /\ (\A a \in Appenders : InTime(a)) /\ UNCHANGED directVars
  \/ \E a \in Appenders : Direct(a)

DirectSpec == DirectInit /\ [][DirectNext]_<<vars, directVars>>

-----------------------------------------------------------------------------

\* The type invariant: an appender holds a record exactly while it has statements left.
DirectTypeOK ==
  /\ TypeOK
  /\ at \in [Appenders -> {"idle", "insert", "mark", "last"}]
  /\ mine \in [Appenders -> Record \cup {NoMessage}]
  /\ \A a \in Appenders : at[a] = "idle" <=> mine[a] = NoMessage

\* An append never finds another message under its number: it and the outbox draw from
\* one counter, whatever is sealed, collected or replayed meanwhile (InsertMessage).
NoCollision ==
  \A a \in Appenders : at[a] # "idle" =>
    stored[mine[a].seq] \in {NoMessage, mine[a].msg}

\* What is still to be stored is ahead of every cursor, whoever stores it: until its row is
\* there, an append that has its number but not its row, a record of the outbox and a replayed
\* dead letter each hold the safe prefix below them, although the counter has passed them and
\* others are sealed, collected or fail half-way (AppendMessage, SafePrefix).
WritersStayAhead ==
  /\ SentStaysAhead
  /\ \A a \in Appenders : at[a] = "insert" =>
       HasRow(mine[a].seq) \/ SafePrefix < mine[a].seq

=============================================================================
