--------------------------- MODULE MessageOutbox ---------------------------
(***************************************************************************)
(* The durable path of one conversation, from the reservation of a         *)
(* sequence number to the row of the `message` table:                      *)
(*                                                                         *)
(*   Logic   Submit / HandleHermesReply -> PersistToTopic                  *)
(*           (logic/services/message_service.cpp)                          *)
(*   MySQL   message_sequence, message_reservation, message, session       *)
(*           (logic/message_reservation.cpp, logic/message_dao.cpp)        *)
(*   Kafka   SendAndWait and the persist topic (common/kafka_producer.cpp) *)
(*   Logic   outbox_recovery, once a second (logic/main.cpp)               *)
(*   Job     PersistMessage under a durable KafkaConsumer (job/service.cpp,*)
(*           common/kafka_consumer.cpp) and its dead letter topic          *)
(*                                                                         *)
(* One SQL transaction or autocommit statement is one step.  The clock is  *)
(* left out: a reservation may be "older than 10 minutes" or "older than a *)
(* day" at any time, so every interleaving of the code with its timers is  *)
(* a behaviour of the model.                                               *)
(***************************************************************************)
EXTENDS Integers, Sequences, FiniteSets, FiniteSetsExt

CONSTANTS
  Submitters,  \* Logic threads inside Submit: one per session at a time (KeyedMutex)
  Repliers,    \* other writers of the session, not under that mutex (HandleHermesReply,
               \* a second Logic process)
  Recovery,    \* the outbox_recovery thread
  Keys,        \* (sender_id, client_msg_id) pairs
  Contents,    \* message bodies
  MaxSeq,      \* the largest sequence number (int64 max in the code)
  MaxHistory,  \* bound on the rows older than the message_sequence table
  ScanLimit,   \* rows one recovery round reads (10 in logic/main.cpp)
  MaxCopies,   \* bound: copies of one record the topic keeps (more are alike)
  NoOne,       \* "owner" of a produce whose caller no longer waits
  NoMessage    \* SQL NULL, no row

Workers == Submitters \cup Repliers
Senders == Workers \cup {Recovery}

ASSUME OutboxAssumption ==
  /\ MaxSeq \in Nat \ {0}
  /\ MaxHistory \in 0..MaxSeq
  /\ ScanLimit \in Nat \ {0}
  /\ MaxCopies \in Nat \ {0}
  /\ Recovery \notin Workers
  /\ NoOne \notin Senders
  /\ NoMessage \notin [key : Keys, content : Contents]

Seqs    == 1..MaxSeq
Message == [key : Keys, content : Contents]
Record  == [seq : Seqs, msg : Message]     \* a PersistMessageRequest

\* message_reservation.stage; Gone stands for "no such row"
Gone      == -1
Reserved  == 0
Prepared  == 1
Published == 2
Persisted == 3
Sealed    == 4
Stages    == Gone..Sealed
\* Mutant of Unsettled: published counts as settled.
BadUnsettled == {Reserved, Prepared}

\* stage < 3
Unsettled == {Reserved, Prepared, Published}

VARIABLES
  lastSeq,      \* message_sequence.last_seq, 0 while the row does not exist
  stage,        \* message_reservation.stage by msg_seq
  original,     \* message_reservation.original_message by msg_seq
  stored,       \* the message table by msg_seq
  sessionLast,  \* session.last_msg_seq
  inflight,     \* produced, neither delivered nor given up by librdkafka
  log,          \* the persist topic
  committed,    \* the consumer group's offset in it
  dlq,          \* the dead letter topic
  pc,           \* where each sender is
  rec,          \* the record each sender works on
  todo,         \* what is left of the recovery thread's scan
  jobPc,        \* where the Job's consumer thread is with record committed + 1
  acked         \* history: messages reported accepted to a client

sqlVars   == <<lastSeq, stage, original, stored, sessionLast>>
kafkaVars == <<inflight, log, committed, dlq>>
logicVars == <<pc, rec, todo>>
vars == <<sqlVars, kafkaVars, logicVars, jobPc, acked>>

-----------------------------------------------------------------------------
(* The tables.                                                             *)

HasRow(s) == stored[s] # NoMessage

Rows == {s \in Seqs : HasRow(s)}

\* Mutant of HistoryFloor: a new counter starts at zero.
BadHistoryFloor == 0

\* SELECT GREATEST(MAX(message.msg_seq), MAX(session.last_msg_seq))
HistoryFloor == Max(Rows \cup {sessionLast})

PreviousSeq == IF lastSeq = 0 THEN HistoryFloor ELSE lastSeq

\* the reservations that hold the deduplication key k
Holding(k) == {s \in Seqs : stage[s] # Gone /\ original[s].key = k}

\* GREATEST(stage, n) under the guard stage <> 4, as PrepareOutbox and Published do
RaiseStage(s, n) ==
  stage' = [stage EXCEPT ![s] = IF @ \in {Gone, Sealed} \/ @ >= n THEN @ ELSE n]

\* SafePrefix: the least of last_seq and of one less than the first reservation whose
\* stage is below 3; MAX(message.msg_seq) counts only while there is no last_seq.
SafePrefix ==
  Min({IF lastSeq > 0 THEN lastSeq ELSE Max(Rows \cup {0})}
        \cup {s - 1 : s \in {r \in Seqs : stage[r] \in Unsettled}})

-----------------------------------------------------------------------------
(* Submit and PersistToTopic, one step per call that reads or writes.      *)

Goto(o, place) == pc' = [pc EXCEPT ![o] = place]

Leave(o) == Goto(o, "idle") /\ rec' = [rec EXCEPT ![o] = NoMessage]

\* KeyedMutex: one Submit per session at a time in this process
MayEnter(w) == w \in Submitters => \A v \in Submitters : pc[v] = "idle"

\* ReserveImpl hits a reservation with the same content: an idempotent retry.
ReserveAgain(w, m) ==
  /\ pc[w] = "idle" /\ MayEnter(w)
  /\ \E s \in Holding(m.key) :
       /\ stage[s] # Sealed
       /\ original[s] = m
       /\ rec' = [rec EXCEPT ![w] = [seq |-> s, msg |-> original[s]]]
  /\ Goto(w, "prepare")
  /\ UNCHANGED <<sqlVars, kafkaVars, todo, jobPc, acked>>

\* Mutant of ReserveFresh: no check for an exhausted sequence.
BadReserveFresh(w, m) ==
  /\ pc[w] = "idle" /\ MayEnter(w)
  /\ Holding(m.key) = {}
  /\ lastSeq' = PreviousSeq + 1
  /\ stage' = [s \in Seqs |-> IF s = lastSeq' THEN Reserved ELSE stage[s]]
  /\ original' = [s \in Seqs |-> IF s = lastSeq' THEN m ELSE original[s]]
  /\ rec' = [rec EXCEPT ![w] = [seq |-> lastSeq', msg |-> m]]
  /\ Goto(w, "prepare")
  /\ UNCHANGED <<stored, sessionLast, kafkaVars, todo, jobPc, acked>>

\* ReserveImpl allocates the next number.  An expired reservation, a reused key
\* with other content and an exhausted sequence change nothing: no step.
ReserveFresh(w, m) ==
  /\ pc[w] = "idle" /\ MayEnter(w)
  /\ Holding(m.key) = {}
  /\ PreviousSeq < MaxSeq
  /\ LET s == PreviousSeq + 1 IN
       /\ lastSeq' = s
       /\ stage' = [stage EXCEPT ![s] = Reserved]
       /\ original' = [original EXCEPT ![s] = m]
       /\ rec' = [rec EXCEPT ![w] = [seq |-> s, msg |-> m]]
  /\ Goto(w, "prepare")
  /\ UNCHANGED <<stored, sessionLast, kafkaVars, todo, jobPc, acked>>

\* PrepareOutbox, the UPDATE.  The payload is a function of the canonical message,
\* so "payload IS NULL OR payload = ?" holds whenever the row is there.
Prepare(w) ==
  /\ pc[w] = "prepare"
  /\ RaiseStage(rec[w].seq, Prepared)
  /\ Goto(w, "readback")
  /\ UNCHANGED <<lastSeq, original, stored, sessionLast, kafkaVars, rec, todo, jobPc, acked>>

\* a record handed to librdkafka by o, which waits for the delivery report
Flight(r, o) == [record |-> r, owner |-> o]

\* Mutant of ReadBack: the row is not read back before the record is produced.
BadReadBack(w) ==
  /\ pc[w] = "readback"
  /\ inflight' = inflight \cup {Flight(rec[w], w)}
  /\ Goto(w, "wait")
  /\ UNCHANGED <<sqlVars, log, committed, dlq, rec, todo, jobPc, acked>>

\* PrepareOutbox, the SELECT: exactly one row, not sealed, the same payload; then
\* SendAndWait up to a successful produce().  Otherwise 503.
ReadBack(w) ==
  /\ pc[w] = "readback"
  /\ LET s == rec[w].seq IN
       IF stage[s] \notin {Gone, Sealed} /\ original[s] = rec[w].msg
       THEN /\ inflight' = inflight \cup {Flight(rec[w], w)}
            /\ Goto(w, "wait")
            /\ UNCHANGED rec
       ELSE /\ Leave(w)
            /\ UNCHANGED inflight
  /\ UNCHANGED <<sqlVars, log, committed, dlq, todo, jobPc, acked>>

\* Published, after which PersistToTopic returns true and Submit sets accepted.
Accept(w) ==
  /\ w \in Workers /\ pc[w] = "confirmed"
  /\ RaiseStage(rec[w].seq, Published)
  /\ acked' = acked \cup {rec[w].msg}
  /\ Leave(w)
  /\ UNCHANGED <<lastSeq, original, stored, sessionLast, kafkaVars, todo, jobPc>>

\* the records in flight once nobody in gone waits for them
Abandoned(gone) == {IF f.owner \in gone THEN [f EXCEPT !.owner = NoOne] ELSE f : f \in inflight}

\* A statement fails, produce() is refused or SendAndWait times out: 503.  A record
\* already produced stays in librdkafka with nobody waiting for its report.
Refuse(w) ==
  /\ w \in Workers /\ pc[w] # "idle"
  /\ inflight' = Abandoned({w})
  /\ Leave(w)
  /\ UNCHANGED <<sqlVars, log, committed, dlq, todo, jobPc, acked>>

-----------------------------------------------------------------------------
(* librdkafka and the broker.                                              *)

Copies(r) == Cardinality({i \in DOMAIN log : log[i] = r})

\* The broker appends a record.  Its delivery report may be lost or late, in
\* which case the waiting caller can only time out.
Deliver(f, reported) ==
  /\ f \in inflight
  /\ inflight' = inflight \ {f}
  /\ log' = IF Copies(f.record) < MaxCopies THEN Append(log, f.record) ELSE log
  /\ pc' = [o \in Senders |-> IF reported /\ o = f.owner THEN "confirmed" ELSE pc[o]]
  /\ UNCHANGED <<sqlVars, committed, dlq, rec, todo, jobPc, acked>>

\* message.timeout.ms passes: librdkafka gives the record up.
GiveUp(f) ==
  /\ f \in inflight
  /\ inflight' = inflight \ {f}
  /\ UNCHANGED <<sqlVars, log, committed, dlq, logicVars, jobPc, acked>>

-----------------------------------------------------------------------------
(* outbox_recovery: Pending, then SendAndWait and Published per record.    *)

\* Rows at stage 0 created before the cut-off are sealed.
Seal ==
  /\ pc[Recovery] = "idle"
  /\ \E cut \in 0..MaxSeq :
       stage' = [s \in Seqs |-> IF stage[s] = Reserved /\ s <= cut THEN Sealed ELSE stage[s]]
  /\ Goto(Recovery, "collect")
  /\ UNCHANGED <<lastSeq, original, stored, sessionLast, kafkaVars, rec, todo, jobPc, acked>>

\* Settled rows older than a day are deleted, as many as the LIMIT allows.
Collect ==
  /\ pc[Recovery] = "collect"
  /\ \E old \in SUBSET {s \in Seqs : stage[s] \in {Persisted, Sealed}} :
       /\ stage' = [s \in Seqs |-> IF s \in old THEN Gone ELSE stage[s]]
       /\ original' = [s \in Seqs |-> IF s \in old THEN NoMessage ELSE original[s]]
  /\ Goto(Recovery, "scan")
  /\ UNCHANGED <<lastSeq, stored, sessionLast, kafkaVars, rec, todo, jobPc, acked>>

\* SELECT ... WHERE stage = 1 ORDER BY created_at LIMIT ?
Scan ==
  /\ pc[Recovery] = "scan"
  /\ LET due == {s \in Seqs : stage[s] = Prepared} IN
       todo' = {[seq |-> s, msg |-> original[s]] :
                  s \in {d \in due : Cardinality({t \in due : t < d}) < ScanLimit}}
  /\ Goto(Recovery, "next")
  /\ UNCHANGED <<sqlVars, kafkaVars, rec, jobPc, acked>>

\* Mutant of Resend: the row is marked published without waiting for the report.
BadResend ==
  /\ pc[Recovery] = "next"
  /\ \E r \in todo :
       /\ \A q \in todo : r.seq <= q.seq
       /\ RaiseStage(r.seq, Published)
       /\ todo' = todo \ {r}
       /\ inflight' = inflight \cup {Flight(r, NoOne)}
  /\ UNCHANGED <<lastSeq, original, stored, sessionLast, log, committed, dlq, pc, rec, jobPc, acked>>

\* SendAndWait of the oldest record of the scan, as the bytes the scan read
Resend ==
  /\ pc[Recovery] = "next"
  /\ \E r \in todo :
       /\ \A q \in todo : r.seq <= q.seq
       /\ rec' = [rec EXCEPT ![Recovery] = r]
       /\ todo' = todo \ {r}
       /\ inflight' = inflight \cup {Flight(r, Recovery)}
  /\ Goto(Recovery, "wait")
  /\ UNCHANGED <<sqlVars, log, committed, dlq, jobPc, acked>>

RoundDone ==
  /\ pc[Recovery] = "next" /\ todo = {}
  /\ Leave(Recovery)
  /\ UNCHANGED <<sqlVars, kafkaVars, todo, jobPc, acked>>

ResendConfirmed ==
  /\ pc[Recovery] = "confirmed"
  /\ RaiseStage(rec[Recovery].seq, Published)
  /\ Goto(Recovery, "next")
  /\ rec' = [rec EXCEPT ![Recovery] = NoMessage]
  /\ UNCHANGED <<lastSeq, original, stored, sessionLast, kafkaVars, todo, jobPc, acked>>

\* Pending, SendAndWait or Published fails: the round is abandoned.
Break ==
  /\ pc[Recovery] \in {"collect", "scan", "wait", "confirmed"} \/ todo # {}
  /\ todo' = {}
  /\ inflight' = Abandoned({Recovery})
  /\ Leave(Recovery)
  /\ UNCHANGED <<sqlVars, log, committed, dlq, jobPc, acked>>

\* The Logic process dies.  What it had handed to the broker may still arrive.
LogicCrash ==
  /\ \E o \in Senders : pc[o] # "idle"
  /\ pc' = [o \in Senders |-> "idle"]
  /\ rec' = [o \in Senders |-> NoMessage]
  /\ todo' = {}
  /\ inflight' = Abandoned(Senders)
  /\ UNCHANGED <<sqlVars, log, committed, dlq, jobPc, acked>>

-----------------------------------------------------------------------------
(* The Job: PersistMessage for the record at the committed offset.         *)

Current == log[committed + 1]
JobGoto(place) == jobPc' = place

Polled == committed < Len(log)

\* InsertMessage: a duplicate key is a success if the row is the same message.
Insert ==
  /\ jobPc = "insert" /\ Polled
  /\ stored[Current.seq] \in {NoMessage, Current.msg}
  /\ stored' = [stored EXCEPT ![Current.seq] = Current.msg]
  /\ JobGoto("mark")
  /\ UNCHANGED <<lastSeq, stage, original, sessionLast, kafkaVars, logicVars, acked>>

\* MySqlMessageReservations::Persisted: stage = 3 unless sealed, or no row
MarkPersisted ==
  /\ jobPc = "mark"
  /\ stage' = [stage EXCEPT ![Current.seq] = IF @ \in {Gone, Sealed} THEN @ ELSE Persisted]
  /\ JobGoto("last")
  /\ UNCHANGED <<lastSeq, original, stored, sessionLast, kafkaVars, logicVars, acked>>

\* UpdateLastMessageSeqAtLeast
AdvanceSession ==
  /\ jobPc = "last"
  /\ sessionLast' = IF sessionLast < Current.seq THEN Current.seq ELSE sessionLast
  /\ JobGoto("commit")
  /\ UNCHANGED <<lastSeq, stage, original, stored, kafkaVars, logicVars, acked>>

\* One of the three fails, or the insert collides: PersistMessage starts over, or
\* its attempts (and the consumer's) are exhausted and the record goes to the DLQ.
Fail ==
  /\ jobPc \in {"insert", "mark", "last"} /\ Polled
  /\ \E place \in {"insert", "deadletter"} : JobGoto(place)
  /\ UNCHANGED <<sqlVars, kafkaVars, logicVars, acked>>

\* Mutant of DeadLetter: the offset moves on although the dead letter is not confirmed.
BadDeadLetter ==
  /\ jobPc = "deadletter"
  /\ dlq' \in {dlq, dlq \cup {Current}}
  /\ JobGoto("commit")
  /\ UNCHANGED <<sqlVars, inflight, log, committed, logicVars, acked>>

\* SendAndWait to the dead letter topic.  Unconfirmed, it halts the consumer with
\* the offset where it was, although the record may have arrived.
DeadLetter ==
  /\ jobPc = "deadletter"
  /\ \/ dlq' = dlq \cup {Current} /\ JobGoto("commit")
     \/ dlq' \in {dlq, dlq \cup {Current}} /\ JobGoto("halted")
  /\ UNCHANGED <<sqlVars, inflight, log, committed, logicVars, acked>>

\* commitSync; in durable mode a failed commit halts the consumer.
Commit ==
  /\ jobPc = "commit"
  /\ \/ committed' = committed + 1 /\ JobGoto("insert")
     \/ committed' = committed /\ JobGoto("halted")
  /\ UNCHANGED <<sqlVars, inflight, log, dlq, logicVars, acked>>

\* The Job dies, or is restarted after it halted: it polls from the committed offset.
JobRestart ==
  /\ jobPc # "insert"
  /\ JobGoto("insert")
  /\ UNCHANGED <<sqlVars, kafkaVars, logicVars, acked>>

\* An operator runs tools/dlq_replay; the DLQ keeps its record.
Replay(r) ==
  /\ r \in dlq
  /\ Copies(r) < MaxCopies
  /\ log' = Append(log, r)
  /\ UNCHANGED <<sqlVars, inflight, committed, dlq, logicVars, jobPc, acked>>

-----------------------------------------------------------------------------

\* Before the first reservation the session may hold rows, and a session.last_msg_seq,
\* of the allocator that message_sequence replaced.
Init ==
  /\ lastSeq = 0
  /\ stage = [s \in Seqs |-> Gone]
  /\ original = [s \in Seqs |-> NoMessage]
  /\ \E old \in SUBSET (1..MaxHistory), m \in Message :
       stored = [s \in Seqs |-> IF s \in old THEN m ELSE NoMessage]
  /\ sessionLast \in 0..MaxHistory
  /\ inflight = {} /\ log = <<>> /\ committed = 0 /\ dlq = {}
  /\ pc = [o \in Senders |-> "idle"]
  /\ rec = [o \in Senders |-> NoMessage]
  /\ todo = {}
  /\ jobPc = "insert"
  /\ acked = {}

Submit(w) ==
  \/ \E m \in Message : ReserveAgain(w, m) \/ ReserveFresh(w, m)
  \/ Prepare(w) \/ ReadBack(w) \/ Accept(w) \/ Refuse(w)

Recover ==
  \/ Seal \/ Collect \/ Scan \/ Resend \/ RoundDone \/ ResendConfirmed \/ Break

Kafka ==
  \/ \E f \in inflight, reported \in BOOLEAN : Deliver(f, reported)
  \/ \E f \in inflight : GiveUp(f)

Job ==
  \/ Insert \/ MarkPersisted \/ AdvanceSession \/ Fail \/ DeadLetter
  \/ Commit \/ JobRestart

Next ==
  \/ \E w \in Workers : Submit(w)
  \/ Recover \/ Kafka \/ Job \/ LogicCrash
  \/ \E r \in dlq : Replay(r)

Spec == Init /\ [][Next]_vars

\* The threads keep running: the 1 s timer, librdkafka's delivery thread and the
\* Job's consumer take steps, failed ones included.
Fairness ==
  /\ WF_vars(Recover) /\ WF_vars(Job)
  /\ WF_vars(\E f \in inflight, reported \in BOOLEAN :
               f.owner = Recovery /\ (Deliver(f, reported) \/ GiveUp(f)))

\* SendAndWait's deadline passes and no report can come any more
TimedOut == pc[Recovery] = "wait" /\ \A f \in inflight : f.owner # Recovery

\* A round stopped half-way, a resend that is lost or whose report is, a record that
\* the Job starts over or that halts it.
Trouble ==
  \/ /\ pc[Recovery] # "idle" /\ pc'[Recovery] = "idle"
     /\ ~TimedOut /\ ~(pc[Recovery] = "next" /\ todo = {})
  \/ /\ \E f \in inflight : f.owner = Recovery /\ f \notin inflight'
     /\ pc'[Recovery] # "confirmed"
  \/ jobPc # "halted" /\ jobPc' = "halted"
  \/ jobPc \notin {"insert", "halted"} /\ jobPc' = "insert" /\ committed' = committed

\* MySQL, Kafka and the processes may fail any number of times, not for ever.
TroubleEnds == <>[][~Trouble]_vars

FairSpec == Spec /\ Fairness /\ TroubleEnds

-----------------------------------------------------------------------------
(* Properties.                                                             *)

Flights == [record : Record, owner : Senders \cup {NoOne}]
Places  == {"idle", "prepare", "readback", "wait", "confirmed", "collect", "scan", "next"}
Busy    == {"prepare", "readback", "wait", "confirmed"}      \* holding a record
JobPlaces == {"insert", "mark", "last", "commit", "deadletter", "halted"}

\* The type invariant: the range of every variable, and a sender away from "idle"
\* and from the scan holds a record.
TypeOK ==
  /\ lastSeq \in 0..MaxSeq /\ sessionLast \in 0..MaxSeq
  /\ stage \in [Seqs -> Stages]
  /\ original \in [Seqs -> Message \cup {NoMessage}]
  /\ stored \in [Seqs -> Message \cup {NoMessage}]
  /\ inflight \subseteq Flights
  /\ log \in Seq(Record)
  /\ committed \in 0..Len(log)
  /\ dlq \subseteq Record
  /\ pc \in [Senders -> Places]
  /\ rec \in [Senders -> Record \cup {NoMessage}]
  /\ \A o \in Senders : pc[o] \in Busy => rec[o] \in Record
  /\ todo \subseteq Record
  /\ jobPc \in JobPlaces
  /\ jobPc \in {"mark", "last", "commit", "deadletter"} => committed < Len(log)
  /\ acked \subseteq Message

\* Every record on its way to, in, or past Kafka: handed to librdkafka or about to
\* be, in the topic, in the DLQ, or in the recovery thread's hands.
Sent ==
  {rec[o] : o \in {x \in Senders : pc[x] \in {"wait", "confirmed"}}}
    \cup {f.record : f \in inflight} \cup {log[i] : i \in DOMAIN log} \cup dlq \cup todo

\* What can still be read back of a message once it was accepted: its row, an
\* unconsumed record of the topic, or its dead letter.
Durable(m) ==
  \/ \E s \in Seqs : stored[s] = m
  \/ \E i \in committed + 1..Len(log) : log[i].msg = m
  \/ \E r \in dlq : r.msg = m

\* A client that got accepted_ack never loses the message, with exactly the content
\* it submitted, whatever crashes, times out or is sent twice (Submit, stage 7).
AcceptedIsDurable == \A m \in acked : Durable(m)

\* A sequence number stands for one message: no two records, rows or reservations
\* of one number differ, so InsertMessage never reports a sequence collision.
OneMessagePerSeq ==
  /\ \A r1, r2 \in Sent : r1.seq = r2.seq => r1.msg = r2.msg
  /\ \A r \in Sent : /\ HasRow(r.seq) => stored[r.seq] = r.msg
                     /\ stage[r.seq] # Gone => original[r.seq] = r.msg

\* "Raw-only reservations cannot have reached Kafka": a reservation that is still
\* raw, or was sealed, has no record anywhere and no row (Pending).
SealedNeverSent ==
  \A s \in Seqs : stage[s] \in {Reserved, Sealed} =>
    /\ ~HasRow(s)
    /\ \A r \in Sent : r.seq # s

\* A message on its way is ahead of every cursor: until its row is there, whatever was sealed,
\* collected, persisted or replayed around it, the safe prefix stays below its number (SafePrefix
\* takes the first reservation below stage 3), so a live push of it is never below a cursor.
SentStaysAhead == \A r \in Sent : HasRow(r.seq) \/ SafePrefix < r.seq

\* No row ever appears at or below the safe prefix of the moment, no row changes, and
\* the prefix never moves back: a cursor that was moved to it (every sync cursor is) has
\* skipped nothing, whatever late reports and new reservations follow.
Stable == INSTANCE StableLog WITH rows <- stored, prefix <- SafePrefix

ImplementsStableLog == Stable!StableSpec

\* A prepared message reaches the message table or the DLQ although the request
\* that prepared it gave up: the recovery thread and the Job see to it.
PreparedIsSettled ==
  \A s \in Seqs :
    stage[s] = Prepared ~> (HasRow(s) \/ \E r \in dlq : r.seq = s)

=============================================================================
