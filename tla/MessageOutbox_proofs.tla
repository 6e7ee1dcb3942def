------------------------ MODULE MessageOutbox_proofs ------------------------
(***************************************************************************)
(* Proofs about module MessageOutbox, for every set of threads, keys and   *)
(* contents, every number of sequence numbers and every bound; the last    *)
(* section is about the appends of module DirectAppend beside it.          *)
(***************************************************************************)
EXTENDS DirectAppend, Extrema, FiniteSetTheorems, TLAPS

-----------------------------------------------------------------------------
(* Types.                                                                  *)

\* HistoryFloor is the least number that no row and no session.last_msg_seq exceeds.
LEMMA HistoryFloorFact ==
  ASSUME TypeOK
  PROVE  /\ HistoryFloor \in 0..MaxSeq
         /\ sessionLast <= HistoryFloor
         /\ \A s \in Seqs : HasRow(s) => s <= HistoryFloor
         /\ HistoryFloor = sessionLast \/ HistoryFloor \in Rows
<1> DEFINE S == Rows \cup {sessionLast}
<1>1. MaxSeq \in Nat
  BY OutboxAssumption
<1>2. S \in SUBSET (0..MaxSeq) /\ S # {}
  BY <1>1 DEF TypeOK, Rows, Seqs
<1>3. Max(S) \in S /\ \A y \in S : y <= Max(S)
  BY <1>1, <1>2, MaxBounded
<1> QED
  BY <1>2, <1>3 DEF HistoryFloor, Rows

\* A flight with an owner is the one record that its owner waits for.
Waiting ==
  \A f \in inflight : f.owner # NoOne => pc[f.owner] = "wait" /\ rec[f.owner] = f.record

\* original_message is NOT NULL: every reservation holds a message.
NotNull == \A s \in Seqs : stage[s] # Gone => original[s] \in Message

TypeInv == TypeOK /\ Waiting /\ NotNull

LEMMA CurrentType == TypeOK /\ Polled => Current \in Record
  BY DEF TypeOK, Polled, Current

LEMMA PreviousSeqType == TypeOK => PreviousSeq \in 0..MaxSeq
  BY HistoryFloorFact DEF PreviousSeq, TypeOK

LEMMA InitType == Init => TypeInv
<1> SUFFICES ASSUME Init PROVE TypeInv
  OBVIOUS
<1>1. stored \in [Seqs -> Message \cup {NoMessage}]
  BY DEF Init
<1>2. sessionLast \in 0..MaxSeq
  BY OutboxAssumption DEF Init
<1> QED
  BY <1>1, <1>2, OutboxAssumption
  DEF Init, TypeInv, TypeOK, Waiting, NotNull, Stages, Gone, Sealed, Places, Busy, JobPlaces, Record, Flights

\* A flight left behind is as before, or has no owner and carries the same record.
LEMMA AbandonedFact ==
  ASSUME TypeOK, NEW gone, NEW f \in Abandoned(gone)
  PROVE  /\ f \in Flights
         /\ f.owner # NoOne => f \in inflight /\ f.owner \notin gone
         /\ \E g \in inflight : f.record = g.record
<1>1. PICK g \in inflight : f = IF g.owner \in gone THEN [g EXCEPT !.owner = NoOne] ELSE g
  BY DEF Abandoned
<1>2. g \in Flights
  BY DEF TypeOK
<1>3. CASE g.owner \in gone
  <2>1. f = [record |-> g.record, owner |-> NoOne]
    BY <1>1, <1>2, <1>3 DEF Flights
  <2> QED
    BY <2>1, <1>2 DEF Flights
<1>4. CASE g.owner \notin gone
  BY <1>1, <1>2, <1>4
<1> QED
  BY <1>3, <1>4

\* The scan picks prepared reservations, with the message each of them holds.
LEMMA ScanFact ==
  ASSUME Scan, NEW r \in todo'
  PROVE  \E s \in Seqs : stage[s] = Prepared /\ r = [seq |-> s, msg |-> original[s]]
<1> DEFINE due == {s \in Seqs : stage[s] = Prepared}
           first == {d \in due : Cardinality({t \in due : t < d}) < ScanLimit}
<1>1. todo' = {[seq |-> s, msg |-> original[s]] : s \in first}
  BY DEF Scan
<1>2. first \subseteq due
  OBVIOUS
<1> HIDE DEF first
<1> QED
  BY <1>1, <1>2

LEMMA RaiseStageType ==
  ASSUME TypeOK, NEW s, NEW n \in Stages, RaiseStage(s, n)
  PROVE  stage' \in [Seqs -> Stages]
BY DEF TypeOK, RaiseStage

LEMMA TypeStep == TypeInv /\ [Next]_vars => TypeOK'
<1> SUFFICES ASSUME TypeInv, [Next]_vars PROVE TypeOK'
  OBVIOUS
<1> USE TypeInv DEF TypeInv
<1> USE DEF sqlVars, kafkaVars, logicVars, Goto, Leave
<1>0. MaxSeq \in Nat \ {0}
  BY OutboxAssumption
<1>1. ASSUME NEW w \in Workers, NEW m \in Message, ReserveAgain(w, m)
      PROVE  TypeOK'
  BY <1>1 DEF TypeOK, ReserveAgain, Holding, Record, Places, Busy, Senders
<1>2. ASSUME NEW w \in Workers, NEW m \in Message, ReserveFresh(w, m)
      PROVE  TypeOK'
  <2>1. PreviousSeq + 1 \in Seqs
    BY <1>0, <1>2, PreviousSeqType DEF ReserveFresh, Seqs
  <2>2. stage' \in [Seqs -> Stages]
    BY <1>2, <2>1 DEF TypeOK, ReserveFresh, Stages, Gone, Sealed, Reserved
  <2>3. lastSeq' \in 0..MaxSeq
    BY <1>0, <1>2, <2>1 DEF TypeOK, ReserveFresh, Seqs
  <2>4. [seq |-> PreviousSeq + 1, msg |-> m] \in Record
    BY <2>1 DEF Record
  <2>5. original' \in [Seqs -> Message \cup {NoMessage}]
    BY <1>2, <2>1 DEF TypeOK, ReserveFresh
  <2> QED
    BY <1>2, <2>2, <2>3, <2>4, <2>5 DEF TypeOK, ReserveFresh, Places, Busy, Senders
<1>3. ASSUME NEW w \in Workers, Prepare(w)
      PROVE  TypeOK'
  <2>1. stage' \in [Seqs -> Stages]
    BY <1>3, RaiseStageType DEF Prepare, Stages, Gone, Sealed, Prepared
  <2> QED
    BY <1>3, <2>1 DEF TypeOK, Prepare, Places, Busy, Senders
<1>4. ASSUME NEW w \in Workers, ReadBack(w)
      PROVE  TypeOK'
  BY <1>4 DEF TypeOK, ReadBack, Flight, Flights, Places, Busy, Senders
<1>5. ASSUME NEW w \in Workers, Accept(w)
      PROVE  TypeOK'
  <2>1. stage' \in [Seqs -> Stages]
    BY <1>5, RaiseStageType DEF Accept, Stages, Gone, Sealed, Published
  <2> QED
    BY <1>5, <2>1 DEF TypeOK, Accept, Places, Busy, Record, Senders
<1>6. ASSUME NEW w \in Workers, Refuse(w)
      PROVE  TypeOK'
  BY <1>6 DEF TypeOK, Refuse, Abandoned, Flights, Places, Busy
<1>7. CASE Seal
  <2>1. stage' \in [Seqs -> Stages]
    BY <1>7 DEF TypeOK, Seal, Stages, Gone, Sealed
  <2> QED
    BY <1>7, <2>1 DEF TypeOK, Seal, Places, Busy
<1>8. CASE Collect
  <2>1. /\ stage' \in [Seqs -> Stages]
        /\ original' \in [Seqs -> Message \cup {NoMessage}]
    BY <1>8 DEF TypeOK, Collect, Stages, Gone, Sealed
  <2> QED
    BY <1>8, <2>1 DEF TypeOK, Collect, Places, Busy
<1>9. CASE Scan
  <2>1. \A s \in Seqs : stage[s] = Prepared => original[s] \in Message
    BY DEF TypeInv, NotNull, Prepared, Gone
  <2> QED
    <3>1. todo' \subseteq Record
      BY <1>9, <2>1, ScanFact DEF Record
    <3> QED
      BY <1>9, <3>1 DEF TypeOK, Scan, Places, Busy
<1>10. CASE Resend
  BY <1>10 DEF TypeOK, Resend, Places, Busy, Flight, Flights, Senders
<1>11. CASE RoundDone
  BY <1>11 DEF TypeOK, RoundDone, Places, Busy
<1>12. CASE ResendConfirmed
  <2>1. stage' \in [Seqs -> Stages]
    BY <1>12, RaiseStageType DEF ResendConfirmed, Stages, Gone, Sealed, Published
  <2> QED
    BY <1>12, <2>1 DEF TypeOK, ResendConfirmed, Places, Busy
<1>13. CASE Break
  BY <1>13 DEF TypeOK, Break, Abandoned, Flights, Places, Busy
<1>14. ASSUME NEW f \in inflight, NEW reported \in BOOLEAN, Deliver(f, reported)
       PROVE  TypeOK'
  <2>1. f.record \in Record
    BY DEF TypeOK, Flights
  <2>2. log' \in Seq(Record) /\ committed \in 0..Len(log')
    BY <1>14, <2>1 DEF TypeOK, Deliver
  <2>3. pc' \in [Senders -> Places]
    BY <1>14 DEF TypeOK, Deliver, Places
  <2> QED
    <3>1. \A o \in Senders : pc'[o] \in Busy => pc[o] \in Busy
      BY <1>14, OutboxAssumption DEF TypeOK, Deliver, Busy, Waiting, Flights
    <3> QED
      BY <1>14, <2>2, <2>3, <3>1 DEF TypeOK, Deliver
<1>15. ASSUME NEW f \in inflight, GiveUp(f)
       PROVE  TypeOK'
  BY <1>15 DEF TypeOK, GiveUp
<1>16. CASE Insert
  <2>1. Current \in Record
    BY <1>16, CurrentType DEF Insert
  <2>2. stored' \in [Seqs -> Message \cup {NoMessage}]
    BY <1>16, <2>1 DEF TypeOK, Insert, Record
  <2> QED
    BY <1>16, <2>2 DEF TypeOK, Insert, Polled, JobGoto, JobPlaces
<1>17. CASE MarkPersisted
  <2>1. stage' \in [Seqs -> Stages]
    <3>1. stage \in [Seqs -> Stages] /\ Persisted \in Stages
      BY DEF TypeOK, Stages, Gone, Sealed, Persisted
    <3> QED
      BY <1>17, <3>1 DEF MarkPersisted
  <2> QED
    BY <1>17, <2>1 DEF TypeOK, MarkPersisted, JobGoto, JobPlaces
<1>18. CASE AdvanceSession
  <2>1. Current.seq \in 1..MaxSeq
    BY <1>18, CurrentType DEF TypeOK, AdvanceSession, Polled, Record, Seqs
  <2>2. sessionLast' \in 0..MaxSeq
    BY <1>0, <1>18, <2>1 DEF TypeOK, AdvanceSession
  <2> QED
    BY <1>18, <2>2 DEF TypeOK, AdvanceSession, JobGoto, JobPlaces
<1>19. CASE Fail
  BY <1>19 DEF TypeOK, Fail, Polled, JobGoto, JobPlaces
<1>20. CASE DeadLetter
  BY <1>20 DEF TypeOK, DeadLetter, Current, JobGoto, JobPlaces
<1>21. CASE Commit
  BY <1>21 DEF TypeOK, Commit, JobGoto, JobPlaces
<1>22. CASE JobRestart
  BY <1>22 DEF TypeOK, JobRestart, JobGoto, JobPlaces
<1>23. CASE LogicCrash
  BY <1>23 DEF TypeOK, LogicCrash, Abandoned, Flights, Places, Busy
<1>24. ASSUME NEW r \in dlq, Replay(r)
       PROVE  TypeOK'
  BY <1>24 DEF TypeOK, Replay
<1>25. CASE UNCHANGED vars
  BY <1>25 DEF TypeOK, vars
<1> QED
  BY <1>1, <1>2, <1>3, <1>4, <1>5, <1>6, <1>7, <1>8, <1>9, <1>10, <1>11, <1>12, <1>13,
     <1>14, <1>15, <1>16, <1>17, <1>18, <1>19, <1>20, <1>21, <1>22, <1>23, <1>24, <1>25
  DEF Next, Submit, Recover, Kafka, Job

LEMMA WaitingStep == TypeInv /\ [Next]_vars => Waiting'
<1> SUFFICES ASSUME TypeInv, [Next]_vars PROVE Waiting'
  OBVIOUS
<1> USE DEF TypeInv, Waiting, sqlVars, kafkaVars, logicVars, Goto, Leave
<1>0. /\ pc \in [Senders -> Places] /\ rec \in [Senders -> Record \cup {NoMessage}]
      /\ \A f \in inflight : f.owner \in Senders \cup {NoOne}
      /\ NoOne \notin Senders /\ Recovery \notin Workers
  BY OutboxAssumption DEF TypeOK, Flights
<1>1. ASSUME NEW w \in Workers, NEW m \in Message, ReserveAgain(w, m) \/ ReserveFresh(w, m)
      PROVE  Waiting'
  BY <1>0, <1>1 DEF ReserveAgain, ReserveFresh
<1>2. ASSUME NEW w \in Workers, Prepare(w) \/ ReadBack(w)
      PROVE  Waiting'
  BY <1>0, <1>2 DEF Prepare, ReadBack, Flight, Senders
<1>3. ASSUME NEW w \in Workers, Accept(w)
      PROVE  Waiting'
  BY <1>0, <1>3 DEF Accept
<1>4. ASSUME NEW w \in Workers, Refuse(w)
      PROVE  Waiting'
  <2> SUFFICES ASSUME NEW f \in Abandoned({w}), f.owner # NoOne
               PROVE  pc'[f.owner] = "wait" /\ rec'[f.owner] = f.record
    BY <1>4 DEF Refuse
  <2>1. f \in inflight /\ f.owner # w
    BY AbandonedFact
  <2> QED
    BY <1>0, <1>4, <2>1 DEF Refuse
<1>5. CASE Seal \/ Collect \/ Scan \/ RoundDone \/ ResendConfirmed
  BY <1>0, <1>5 DEF Seal, Collect, Scan, RoundDone, ResendConfirmed
<1>6. CASE Resend
  BY <1>0, <1>6 DEF Resend, Flight, Senders
<1>7. CASE Break
  <2> SUFFICES ASSUME NEW f \in Abandoned({Recovery}), f.owner # NoOne
               PROVE  pc'[f.owner] = "wait" /\ rec'[f.owner] = f.record
    BY <1>7 DEF Break
  <2>1. f \in inflight /\ f.owner # Recovery
    BY AbandonedFact
  <2> QED
    BY <1>0, <1>7, <2>1 DEF Break
<1>8. ASSUME NEW f \in inflight, NEW reported \in BOOLEAN, Deliver(f, reported)
      PROVE  Waiting'
  BY <1>0, <1>8 DEF Deliver, TypeOK, Flights
<1>9. ASSUME NEW f \in inflight, GiveUp(f)
      PROVE  Waiting'
  BY <1>9 DEF GiveUp
<1>10. CASE Job
  BY <1>10 DEF Job, Insert, MarkPersisted, AdvanceSession, Fail, DeadLetter, Commit, JobRestart
<1>11. CASE LogicCrash
  <2> SUFFICES ASSUME NEW f \in Abandoned(Senders), f.owner # NoOne PROVE FALSE
    BY <1>11 DEF LogicCrash
  <2> QED
    BY <1>0, AbandonedFact
<1>12. ASSUME NEW r \in dlq, Replay(r)
       PROVE  Waiting'
  BY <1>12 DEF Replay
<1>13. CASE UNCHANGED vars
  BY <1>13 DEF vars
<1> QED
  BY <1>1, <1>2, <1>3, <1>4, <1>5, <1>6, <1>7, <1>8, <1>9, <1>10, <1>11, <1>12, <1>13
  DEF Next, Submit, Recover, Kafka

LEMMA NotNullStep == TypeInv /\ [Next]_vars => NotNull'
<1> SUFFICES ASSUME TypeInv, [Next]_vars PROVE NotNull'
  OBVIOUS
<1> USE DEF TypeInv, NotNull, sqlVars, kafkaVars, logicVars
<1>0. stage \in [Seqs -> Stages] /\ original \in [Seqs -> Message \cup {NoMessage}]
  BY DEF TypeOK
<1>1. ASSUME NEW w \in Workers, NEW m \in Message, ReserveFresh(w, m)
      PROVE  NotNull'
  BY <1>0, <1>1 DEF ReserveFresh
<1>2. ASSUME NEW s, NEW n, RaiseStage(s, n), UNCHANGED original
      PROVE  NotNull'
  BY <1>0, <1>2 DEF RaiseStage
<1>3. CASE Seal
  BY <1>0, <1>3 DEF Seal, Reserved, Gone
<1>4. CASE Collect
  BY <1>0, <1>4 DEF Collect
<1>5. CASE MarkPersisted
  BY <1>0, <1>5 DEF MarkPersisted
<1>6. CASE UNCHANGED <<stage, original>>
  BY <1>6
<1> QED
  BY <1>1, <1>2, <1>3, <1>4, <1>5, <1>6
  DEF Next, Submit, Recover, Kafka, Job, vars, ReserveAgain, Prepare, ReadBack, Accept, Refuse, Scan,
      Resend, RoundDone, ResendConfirmed, Break, Deliver, GiveUp, Insert, AdvanceSession, Fail,
      DeadLetter, Commit, JobRestart, LogicCrash, Replay

\* Every variable keeps its range, and a sender that must hold a record holds one.
THEOREM TypeCorrect == Spec => []TypeOK
<1>1. TypeInv /\ [Next]_vars => TypeInv'
  BY TypeStep, WaitingStep, NotNullStep DEF TypeInv
<1>2. TypeInv => TypeOK
  BY DEF TypeInv
<1> QED
  BY InitType, <1>1, <1>2, PTL DEF Spec

-----------------------------------------------------------------------------
(* The inductive invariant.                                                *)

\* the records sent, those of workers that have not sent theirs yet, and what the
\* reservations stand for
Issued ==
  Sent \cup {rec[o] : o \in {x \in Senders : pc[x] \in {"prepare", "readback"}}}
       \cup {[seq |-> s, msg |-> original[s]] : s \in {x \in Seqs : stage[x] # Gone}}

RowRecords == {[seq |-> s, msg |-> stored[s]] : s \in Rows}

\* The counter is past every number in use, and a number stands for one message.
Agree ==
  /\ \A r \in Issued : r.seq <= lastSeq
  /\ lastSeq > 0 => \A s \in Rows : s <= lastSeq
  /\ \A r1, r2 \in Issued \cup RowRecords : r1.seq = r2.seq => r1.msg = r2.msg

\* Raw and sealed reservations have no row: the outbox alone keeps it so, direct appends do not.
RawHasNoRow == \A s \in Seqs : stage[s] \in {Reserved, Sealed} => ~HasRow(s)

\* What else a reservation's stage says: persisted ones have a row, and a worker that has
\* prepared its reservation does not find it raw.
StageAgrees ==
  /\ \A s \in Seqs : stage[s] = Persisted => HasRow(s)
  /\ \A o \in Senders : pc[o] = "readback" => stage[rec[o].seq] # Reserved

\* A record is sent after its reservation was prepared, and the reservation is collected
\* after the record got its row.
SentAgrees ==
  \A r \in Sent : /\ stage[r.seq] \notin {Reserved, Sealed}
                  /\ stage[r.seq] = Gone => HasRow(r.seq)

\* What the Job has done with the topic so far.
JobAgrees ==
  /\ jobPc \in {"mark", "last"} => HasRow(Current.seq)
  /\ jobPc = "commit" => HasRow(Current.seq) \/ Current \in dlq
  /\ \A i \in 1..committed : HasRow(log[i].seq) \/ log[i] \in dlq

\* A confirmed record is in the topic.
ReportsAreTrue ==
  \A o \in Senders : pc[o] = "confirmed" => \E i \in DOMAIN log : log[i] = rec[o]

IInv ==
  /\ TypeInv /\ Agree /\ RawHasNoRow /\ StageAgrees /\ SentAgrees
  /\ JobAgrees /\ ReportsAreTrue /\ AcceptedIsDurable

-----------------------------------------------------------------------------
(* Where records and rows come from.                                       *)

\* A record is new on its way only when a worker produces it after reading its
\* reservation back, or when the scan picks it up.
LEMMA SentStep ==
  ASSUME TypeInv, [Next]_vars, NEW r \in Sent'
  PROVE  \/ r \in Sent
         \/ \E w \in Workers : ReadBack(w) /\ r = rec[w] /\ stage[r.seq] \notin {Gone, Sealed}
         \/ Scan /\ \E s \in Seqs : stage[s] = Prepared /\ r = [seq |-> s, msg |-> original[s]]
<1> USE DEF sqlVars, kafkaVars, logicVars, Goto, Leave
<1>0. /\ pc \in [Senders -> Places] /\ rec \in [Senders -> Record \cup {NoMessage}]
      /\ Workers \subseteq Senders /\ Recovery \in Senders
      /\ log \in Seq(Record) /\ committed \in 0..Len(log)
  BY DEF TypeInv, TypeOK, Senders
\* Where r is after the step, and what puts it in Sent before.
<1>a. \/ \E o \in Senders : pc'[o] \in {"wait", "confirmed"} /\ r = rec'[o]
      \/ \E f \in inflight' : r = f.record
      \/ \E i \in DOMAIN log' : r = log'[i]
      \/ r \in dlq'
      \/ r \in todo'
  BY DEF Sent
<1>b. ASSUME \/ \E o \in Senders : pc[o] \in {"wait", "confirmed"} /\ r = rec[o]
             \/ \E f \in inflight : r = f.record
             \/ \E i \in DOMAIN log : r = log[i]
             \/ r \in dlq
             \/ r \in todo
      PROVE  r \in Sent
  BY <1>b DEF Sent
\* A step that moves senders away from "wait" or leaves them, and adds no record.
<1>c. ASSUME \A o \in Senders : pc'[o] \in {"wait", "confirmed"} => pc[o] = pc'[o] /\ rec'[o] = rec[o],
             \A f \in inflight' : \E g \in inflight : f.record = g.record,
             UNCHANGED <<log, dlq>>,
             todo' \subseteq todo
      PROVE  r \in Sent
  BY <1>a, <1>b, <1>c
<1>1. ASSUME NEW w \in Workers, NEW m \in Message, ReserveAgain(w, m) \/ ReserveFresh(w, m)
      PROVE  r \in Sent
  <2>1. \A o \in Senders : pc'[o] \in {"wait", "confirmed"} => pc[o] = pc'[o] /\ rec'[o] = rec[o]
    BY <1>0, <1>1 DEF ReserveAgain, ReserveFresh
  <2>2. UNCHANGED <<inflight, log, dlq, todo>>
    BY <1>1 DEF ReserveAgain, ReserveFresh
  <2> QED
    BY <1>c, <2>1, <2>2
<1>2. ASSUME NEW w \in Workers, Prepare(w) \/ Accept(w)
      PROVE  r \in Sent
  <2>1. \A o \in Senders : pc'[o] \in {"wait", "confirmed"} => pc[o] = pc'[o] /\ rec'[o] = rec[o]
    BY <1>0, <1>2 DEF Prepare, Accept
  <2>2. UNCHANGED <<inflight, log, dlq, todo>>
    BY <1>2 DEF Prepare, Accept
  <2> QED
    BY <1>c, <2>1, <2>2
<1>3. ASSUME NEW w \in Workers, ReadBack(w)
      PROVE  r \in Sent \/ (r = rec[w] /\ stage[r.seq] \notin {Gone, Sealed})
  <2>1. /\ \A f \in inflight' : f \in inflight \/ f.record = rec[w]
        /\ UNCHANGED <<log, dlq, todo>>
    BY <1>3 DEF ReadBack, Flight
  <2>2. \A o \in Senders \ {w} : pc'[o] = pc[o] /\ rec'[o] = rec[o]
    BY <1>0, <1>3 DEF ReadBack
  <2>3. CASE stage[rec[w].seq] \in {Gone, Sealed}
    <3>1. pc'[w] = "idle" /\ inflight' = inflight
      BY <1>0, <1>3, <2>3 DEF ReadBack
    <3> QED
      BY <1>c, <2>1, <2>2, <3>1
  <2>4. CASE stage[rec[w].seq] \notin {Gone, Sealed}
    <3>1. pc'[w] = "wait" => rec'[w] = rec[w]
      BY <1>0, <1>3 DEF ReadBack
    <3>2. pc'[w] # "confirmed"
      BY <1>0, <1>3 DEF ReadBack
    <3> QED
      BY <1>a, <1>b, <2>1, <2>2, <2>4, <3>1, <3>2
  <2> QED
    BY <2>3, <2>4
<1>4. ASSUME NEW w \in Workers, Refuse(w)
      PROVE  r \in Sent
  <2>1. \A f \in Abandoned({w}) : \E g \in inflight : f.record = g.record
    BY AbandonedFact DEF TypeInv
  <2>2. \A o \in Senders : pc'[o] \in {"wait", "confirmed"} => pc[o] = pc'[o] /\ rec'[o] = rec[o]
    BY <1>0, <1>4 DEF Refuse
  <2>3. inflight' = Abandoned({w}) /\ UNCHANGED <<log, dlq, todo>>
    BY <1>4 DEF Refuse
  <2> QED
    BY <1>c, <2>1, <2>2, <2>3
<1>5. CASE Seal \/ Collect \/ RoundDone \/ ResendConfirmed
  <2>1. \A o \in Senders : pc'[o] \in {"wait", "confirmed"} => pc[o] = pc'[o] /\ rec'[o] = rec[o]
    BY <1>0, <1>5 DEF Seal, Collect, RoundDone, ResendConfirmed
  <2>2. UNCHANGED <<inflight, log, dlq, todo>>
    BY <1>5 DEF Seal, Collect, RoundDone, ResendConfirmed
  <2> QED
    BY <1>c, <2>1, <2>2
<1>6. CASE Scan
  <2>1. \A o \in Senders : pc'[o] \in {"wait", "confirmed"} => pc[o] = pc'[o] /\ rec'[o] = rec[o]
    BY <1>0, <1>6 DEF Scan
  <2>2. UNCHANGED <<inflight, log, dlq>>
    BY <1>6 DEF Scan
  <2>3. r \in Sent \/ r \in todo'
    BY <1>a, <1>b, <2>1, <2>2
  <2> QED
    BY <1>6, <2>3, ScanFact
<1>7. CASE Resend
  <2>1. PICK q \in todo : /\ rec' = [rec EXCEPT ![Recovery] = q]
                          /\ todo' = todo \ {q}
                          /\ inflight' = inflight \cup {Flight(q, Recovery)}
                          /\ pc' = [pc EXCEPT ![Recovery] = "wait"]
                          /\ UNCHANGED <<log, dlq>>
    BY <1>7 DEF Resend
  <2>2. rec'[Recovery] = q /\ \A o \in Senders \ {Recovery} : pc'[o] = pc[o] /\ rec'[o] = rec[o]
    BY <1>0, <2>1
  <2>3. \A f \in inflight' : f \in inflight \/ f.record = q
    BY <2>1 DEF Flight
  <2> QED
    BY <1>a, <1>b, <2>1, <2>2, <2>3
<1>8. CASE Break
  <2>1. \A f \in Abandoned({Recovery}) : \E g \in inflight : f.record = g.record
    BY AbandonedFact DEF TypeInv
  <2>2. \A o \in Senders : pc'[o] \in {"wait", "confirmed"} => pc[o] = pc'[o] /\ rec'[o] = rec[o]
    BY <1>0, <1>8 DEF Break
  <2>3. inflight' = Abandoned({Recovery}) /\ todo' = {} /\ UNCHANGED <<log, dlq>>
    BY <1>8 DEF Break
  <2> QED
    BY <1>c, <2>1, <2>2, <2>3
<1>9. ASSUME NEW f \in inflight, NEW reported \in BOOLEAN, Deliver(f, reported)
      PROVE  r \in Sent
  <2>1. \A i \in DOMAIN log' : log'[i] = f.record \/ \E j \in DOMAIN log : log'[i] = log[j]
    BY <1>0, <1>9 DEF Deliver, TypeInv, TypeOK, Flights
  <2>2. \A o \in Senders : pc'[o] \in {"wait", "confirmed"} => pc[o] \in {"wait", "confirmed"} \/ rec[o] = f.record
    BY <1>0, <1>9, OutboxAssumption DEF Deliver, TypeInv, Waiting, TypeOK, Flights
  <2>3. inflight' \subseteq inflight /\ UNCHANGED <<dlq, rec, todo>>
    BY <1>9 DEF Deliver
  <2> QED
    BY <1>a, <1>b, <2>1, <2>2, <2>3
<1>10. ASSUME NEW f \in inflight, GiveUp(f)
       PROVE  r \in Sent
  BY <1>a, <1>b, <1>10 DEF GiveUp
<1>11. CASE Job
  <2>1. UNCHANGED <<inflight, log, pc, rec, todo>>
    BY <1>11 DEF Job, Insert, MarkPersisted, AdvanceSession, Fail, DeadLetter, Commit, JobRestart
  <2>2. dlq' \subseteq dlq \cup {log[i] : i \in DOMAIN log}
    <3>1. CASE DeadLetter
      <4>1. committed < Len(log)
        BY <3>1 DEF DeadLetter, TypeInv, TypeOK
      <4>2. committed + 1 \in DOMAIN log
        BY <1>0, <4>1
      <4> QED
        BY <3>1, <4>2 DEF DeadLetter, Current
    <3>2. CASE ~DeadLetter
      BY <1>11, <3>2 DEF Job, Insert, MarkPersisted, AdvanceSession, Fail, Commit, JobRestart
    <3> QED
      BY <3>1, <3>2
  <2> QED
    BY <1>a, <1>b, <2>1, <2>2
<1>12. CASE LogicCrash
  <2>1. \A f \in Abandoned(Senders) : \E g \in inflight : f.record = g.record
    BY AbandonedFact DEF TypeInv
  <2>2. \A o \in Senders : pc'[o] = "idle"
    BY <1>12 DEF LogicCrash
  <2>3. inflight' = Abandoned(Senders) /\ todo' = {} /\ UNCHANGED <<log, dlq>>
    BY <1>12 DEF LogicCrash
  <2> QED
    BY <1>c, <2>1, <2>2, <2>3
<1>13. ASSUME NEW q \in dlq, Replay(q)
       PROVE  r \in Sent
  <2>1. \A i \in DOMAIN log' : log'[i] = q \/ \E j \in DOMAIN log : log'[i] = log[j]
    BY <1>0, <1>13 DEF Replay, TypeInv, TypeOK
  <2>2. UNCHANGED <<inflight, dlq, pc, rec, todo>>
    BY <1>13 DEF Replay
  <2> QED
    BY <1>a, <1>b, <2>1, <2>2
<1>14. CASE UNCHANGED vars
  BY <1>a, <1>b, <1>14 DEF vars
<1> QED
  BY <1>1, <1>2, <1>3, <1>4, <1>5, <1>6, <1>7, <1>8, <1>9, <1>10, <1>11, <1>12, <1>13, <1>14
  DEF Next, Submit, Recover, Kafka

\* A number is in use for a new message only from the step that reserves it.
LEMMA IssuedStep ==
  ASSUME TypeInv, [Next]_vars, NEW r \in Issued'
  PROVE  \/ r \in Issued
         \/ \E w \in Workers, m \in Message : ReserveFresh(w, m) /\ r = [seq |-> PreviousSeq + 1, msg |-> m]
<1> USE DEF sqlVars, kafkaVars, logicVars, Goto, Leave
<1>0. /\ pc \in [Senders -> Places] /\ rec \in [Senders -> Record \cup {NoMessage}]
      /\ stage \in [Seqs -> Stages] /\ original \in [Seqs -> Message \cup {NoMessage}]
      /\ Workers \subseteq Senders /\ Recovery \in Senders
  BY DEF TypeInv, TypeOK, Senders
<1>1. CASE r \in Sent'
  <2>1. ASSUME NEW w \in Workers, ReadBack(w), r = rec[w]
        PROVE  r \in Issued
    BY <1>0, <2>1 DEF ReadBack, Issued
  <2>2. ASSUME NEW s \in Seqs, stage[s] = Prepared, r = [seq |-> s, msg |-> original[s]]
        PROVE  r \in Issued
    BY <2>2 DEF Issued, Prepared, Gone
  <2> QED
    BY <1>1, <2>1, <2>2, SentStep DEF Issued
<1>2. ASSUME NEW o \in Senders, pc'[o] \in {"prepare", "readback"}, r = rec'[o]
      PROVE  \/ r \in Issued
             \/ \E w \in Workers, m \in Message : ReserveFresh(w, m) /\ r = [seq |-> PreviousSeq + 1, msg |-> m]
  <2>1. CASE pc[o] \in {"prepare", "readback"} /\ rec'[o] = rec[o]
    BY <1>2, <2>1 DEF Issued
  <2>2. ASSUME NEW w \in Workers, NEW m \in Message, ReserveAgain(w, m), w = o
        PROVE  r \in Issued
    BY <1>0, <1>2, <2>2 DEF ReserveAgain, Holding, Issued
  <2>3. ASSUME NEW w \in Workers, NEW m \in Message, ReserveFresh(w, m), w = o
        PROVE  r = [seq |-> PreviousSeq + 1, msg |-> m]
    BY <1>0, <1>2, <2>3 DEF ReserveFresh
  <2>4. ASSUME NEW w \in Workers, NEW m \in Message, ReserveAgain(w, m) \/ ReserveFresh(w, m), w # o
        PROVE  pc[o] \in {"prepare", "readback"} /\ rec'[o] = rec[o]
    BY <1>0, <1>2, <2>4 DEF ReserveAgain, ReserveFresh
  <2>5. ASSUME NEW w \in Workers, Prepare(w) \/ ReadBack(w) \/ Accept(w) \/ Refuse(w)
        PROVE  pc[o] \in {"prepare", "readback"} /\ rec'[o] = rec[o]
    BY <1>0, <1>2, <2>5 DEF Prepare, ReadBack, Accept, Refuse
  <2>6. ASSUME Recover
        PROVE  pc[o] \in {"prepare", "readback"} /\ rec'[o] = rec[o]
    BY <1>0, <1>2, <2>6 DEF Recover, Seal, Collect, Scan, Resend, RoundDone, ResendConfirmed, Break
  <2>7. ASSUME Kafka
        PROVE  pc[o] \in {"prepare", "readback"} /\ rec'[o] = rec[o]
    BY <1>0, <1>2, <2>7 DEF Kafka, Deliver, GiveUp
  <2>8. ASSUME Job \/ LogicCrash
        PROVE  pc[o] \in {"prepare", "readback"} /\ rec'[o] = rec[o]
    BY <1>0, <1>2, <2>8 DEF Job, Insert, MarkPersisted, AdvanceSession, Fail, DeadLetter, Commit,
                            JobRestart, LogicCrash
  <2>9. ASSUME UNCHANGED vars \/ \E q \in dlq : Replay(q)
        PROVE  pc[o] \in {"prepare", "readback"} /\ rec'[o] = rec[o]
    BY <1>2, <2>9 DEF vars, Replay
  <2> QED
    BY <2>1, <2>2, <2>3, <2>4, <2>5, <2>6, <2>7, <2>8, <2>9 DEF Next, Submit
<1>3. ASSUME NEW s \in Seqs, stage'[s] # Gone, r = [seq |-> s, msg |-> original'[s]]
      PROVE  \/ r \in Issued
             \/ \E w \in Workers, m \in Message : ReserveFresh(w, m) /\ r = [seq |-> PreviousSeq + 1, msg |-> m]
  <2>1. CASE stage[s] # Gone /\ original'[s] = original[s]
    BY <1>3, <2>1 DEF Issued
  <2>2. ASSUME NEW w \in Workers, NEW m \in Message, ReserveFresh(w, m)
        PROVE  \/ stage[s] # Gone /\ original'[s] = original[s]
               \/ r = [seq |-> PreviousSeq + 1, msg |-> m]
    BY <1>0, <1>3, <2>2 DEF ReserveFresh
  <2>3. ASSUME NEW q, NEW n, RaiseStage(q, n), UNCHANGED original
        PROVE  stage[s] # Gone /\ original'[s] = original[s]
    BY <1>0, <1>3, <2>3 DEF RaiseStage
  <2>4. ASSUME Seal \/ Collect \/ MarkPersisted
        PROVE  stage[s] # Gone /\ original'[s] = original[s]
    BY <1>0, <1>3, <2>4 DEF Seal, Collect, MarkPersisted, Reserved, Gone
  <2>5. ASSUME UNCHANGED <<stage, original>>
        PROVE  stage[s] # Gone /\ original'[s] = original[s]
    BY <1>3, <2>5
  <2> QED
    BY <2>1, <2>2, <2>3, <2>4, <2>5
    DEF Next, Submit, Recover, Kafka, Job, vars, ReserveAgain, Prepare, ReadBack, Accept, Refuse, Scan,
        Resend, RoundDone, ResendConfirmed, Break, Deliver, GiveUp, Insert, AdvanceSession, Fail,
        DeadLetter, Commit, JobRestart, LogicCrash, Replay
<1> QED
  BY <1>1, <1>2, <1>3 DEF Issued

\* Only Insert writes a row, of the record it works on; no row changes or goes away.
LEMMA RowStep ==
  ASSUME TypeInv, [Next]_vars, NEW s \in Seqs
  PROVE  \/ stored'[s] = stored[s]
         \/ /\ Insert /\ ~HasRow(s) /\ Current \in Sent
            /\ s = Current.seq /\ stored'[s] = Current.msg
<1>1. CASE UNCHANGED stored
  BY <1>1
<1>2. CASE Insert
  <2>1. stored \in [Seqs -> Message \cup {NoMessage}] /\ log \in Seq(Record) /\ committed \in 0..Len(log)
    BY DEF TypeInv, TypeOK
  <2>2. Current \in Sent
    BY <1>2, <2>1 DEF Insert, Polled, Current, Sent
  <2> QED
    BY <1>2, <2>1, <2>2 DEF Insert, HasRow
<1> QED
  BY <1>1, <1>2
  DEF Next, Submit, Recover, Kafka, Job, vars, ReserveAgain, ReserveFresh, Prepare, ReadBack, Accept, Refuse,
      Seal, Collect, Scan, Resend, RoundDone, ResendConfirmed, Break, Deliver, GiveUp, MarkPersisted,
      AdvanceSession, Fail, DeadLetter, Commit, JobRestart, LogicCrash, Replay, sqlVars

\* How a reservation's stage changes.
LEMMA StageStep ==
  ASSUME TypeInv, [Next]_vars, NEW s \in Seqs, stage'[s] # stage[s]
  PROVE  \/ \E w \in Workers, m \in Message : ReserveFresh(w, m) /\ s = PreviousSeq + 1 /\ stage'[s] = Reserved
         \/ stage[s] = Reserved /\ stage'[s] = Sealed
         \/ stage[s] \in {Persisted, Sealed} /\ stage'[s] = Gone
         \/ stage[s] \in {Reserved, Prepared} /\ stage'[s] \in {Prepared, Published}
         \/ stage[s] \in Unsettled /\ stage'[s] = Persisted /\ MarkPersisted /\ s = Current.seq
<1>0. stage \in [Seqs -> Stages]
  BY DEF TypeInv, TypeOK
<1> USE <1>0 DEF sqlVars, Gone, Reserved, Prepared, Published, Persisted, Sealed
<1>1. ASSUME NEW w \in Workers, NEW m \in Message, ReserveFresh(w, m)
      PROVE  s = PreviousSeq + 1 /\ stage'[s] = Reserved
  BY <1>1 DEF ReserveFresh
<1>2. ASSUME NEW q, NEW n \in {Prepared, Published}, RaiseStage(q, n)
      PROVE  stage[s] \in {Reserved, Prepared} /\ stage'[s] \in {Prepared, Published}
  BY <1>2 DEF RaiseStage, Stages
<1>3. CASE Seal
  BY <1>3 DEF Seal
<1>4. CASE Collect
  BY <1>4 DEF Collect
<1>5. CASE MarkPersisted
  BY <1>5 DEF MarkPersisted, Unsettled, Stages
<1>6. ~UNCHANGED stage
  OBVIOUS
<1> QED
  BY <1>1, <1>2, <1>3, <1>4, <1>5, <1>6
  DEF Next, Submit, Recover, Kafka, Job, vars, ReserveAgain, Prepare, ReadBack, Accept, Refuse, Scan,
      Resend, RoundDone, ResendConfirmed, Break, Deliver, GiveUp, Insert, AdvanceSession, Fail,
      DeadLetter, Commit, JobRestart, LogicCrash, Replay

-----------------------------------------------------------------------------
(* The invariant is inductive.                                             *)

LEMMA InitIInv == Init => IInv
<1> SUFFICES ASSUME Init PROVE IInv
  OBVIOUS
<1>1. TypeInv
  BY InitType
<1>2. Sent = {} /\ Issued = {}
  BY DEF Init, Sent, Issued
<1>3. Agree
  BY <1>2 DEF Init, Agree, RowRecords
<1>4. RawHasNoRow /\ StageAgrees /\ SentAgrees
  BY <1>2 DEF Init, RawHasNoRow, StageAgrees, SentAgrees, Gone, Reserved, Persisted, Sealed
<1>5. JobAgrees /\ ReportsAreTrue /\ AcceptedIsDurable
  BY DEF Init, JobAgrees, ReportsAreTrue, AcceptedIsDurable
<1> QED
  BY <1>1, <1>3, <1>4, <1>5 DEF IInv

LEMMA IssuedType == TypeInv => Issued \subseteq Record
<1> SUFFICES ASSUME TypeInv, NEW r \in Issued PROVE r \in Record
  OBVIOUS
<1>1. ASSUME NEW o \in Senders, pc[o] \in Busy, r = rec[o]
      PROVE  r \in Record
  BY <1>1 DEF TypeInv, TypeOK
<1>2. ASSUME NEW s \in Seqs, stage[s] # Gone, r = [seq |-> s, msg |-> original[s]]
      PROVE  r \in Record
  BY <1>2 DEF TypeInv, NotNull, Record
<1>3. CASE r \in dlq \cup todo \/ \E f \in inflight : r = f.record
  BY <1>3 DEF TypeInv, TypeOK, Flights
<1>4. CASE \E i \in DOMAIN log : r = log[i]
  BY <1>4 DEF TypeInv, TypeOK
<1> QED
  BY <1>1, <1>2, <1>3, <1>4 DEF Issued, Sent, Busy

\* The number that ReserveFresh takes is past every number in use.
LEMMA FreshNumber ==
  ASSUME TypeInv, Agree, PreviousSeq < MaxSeq
  PROVE  /\ PreviousSeq + 1 \in Seqs
         /\ \A r \in Issued \cup RowRecords : r.seq <= PreviousSeq
<1>0. MaxSeq \in Nat \ {0} /\ lastSeq \in 0..MaxSeq
  BY OutboxAssumption DEF TypeInv, TypeOK
<1>1. PreviousSeq \in 0..MaxSeq
  BY PreviousSeqType DEF TypeInv
<1>2. ASSUME NEW r \in Issued
      PROVE  r.seq <= PreviousSeq
  <2>1. r.seq \in Seqs /\ r.seq <= lastSeq
    BY IssuedType DEF Agree, Record
  <2> QED
    BY <1>0, <2>1 DEF PreviousSeq, Seqs
<1>3. ASSUME NEW s \in Rows
      PROVE  s <= PreviousSeq
  <2>1. lastSeq > 0 => s <= lastSeq
    BY DEF Agree
  <2>2. s <= HistoryFloor
    BY HistoryFloorFact DEF TypeInv, Rows
  <2> QED
    BY <1>0, <2>1, <2>2 DEF PreviousSeq
<1> QED
  BY <1>0, <1>1, <1>2, <1>3 DEF Seqs, RowRecords

LEMMA LastSeqStep ==
  ASSUME TypeInv, Agree, [Next]_vars
  PROVE  \/ lastSeq' = lastSeq
         \/ \E w \in Workers, m \in Message : ReserveFresh(w, m) /\ lastSeq' = PreviousSeq + 1
BY DEF Next, Submit, Recover, Kafka, Job, vars, ReserveAgain, ReserveFresh, Prepare, ReadBack, Accept, Refuse,
       Seal, Collect, Scan, Resend, RoundDone, ResendConfirmed, Break, Deliver, GiveUp, Insert, MarkPersisted,
       AdvanceSession, Fail, DeadLetter, Commit, JobRestart, LogicCrash, Replay, sqlVars

LEMMA AgreeStep == TypeInv /\ Agree /\ [Next]_vars => Agree'
<1> SUFFICES ASSUME TypeInv, Agree, [Next]_vars PROVE Agree'
  OBVIOUS
<1>0. /\ MaxSeq \in Nat \ {0} /\ lastSeq \in 0..MaxSeq /\ PreviousSeq \in 0..MaxSeq
      /\ Issued \subseteq Record
  BY OutboxAssumption, PreviousSeqType, IssuedType DEF TypeInv, TypeOK
\* a row's record is one of before, or of the record being inserted
<1>1. \A r \in RowRecords' : r \in RowRecords \/ (r \in Issued /\ Insert)
  <2> SUFFICES ASSUME NEW s \in Seqs, HasRow(s)'
               PROVE  LET r == [seq |-> s, msg |-> stored'[s]] IN r \in RowRecords \/ (r \in Issued /\ Insert)
    BY DEF RowRecords, Rows
  <2>1. CASE stored'[s] = stored[s]
    BY <2>1 DEF RowRecords, Rows, HasRow
  <2>2. CASE Insert /\ Current \in Sent /\ s = Current.seq /\ stored'[s] = Current.msg
    <3>1. Current \in Issued /\ Current \in Record
      BY <1>0, <2>2 DEF Issued
    <3> QED
      BY <2>2, <3>1 DEF Record
  <2> QED
    BY <2>1, <2>2, RowStep
<1>2. CASE lastSeq' = lastSeq /\ ~\E w \in Workers, m \in Message : ReserveFresh(w, m)
  <2>1. Issued' \subseteq Issued
    BY <1>2, IssuedStep
  <2>2. \A s \in Rows' : s \in Rows \/ \E r \in Issued : r.seq = s
    <3> SUFFICES ASSUME NEW s \in Rows' PROVE s \in Rows \/ \E r \in Issued : r.seq = s
      OBVIOUS
    <3> DEFINE r == [seq |-> s, msg |-> stored'[s]]
    <3>1. r \in RowRecords'
      BY DEF RowRecords
    <3>2. ASSUME r \in RowRecords
          PROVE  s \in Rows
      BY <3>2 DEF RowRecords
    <3> QED
      BY <1>1, <3>1, <3>2
  <2>3. lastSeq' > 0 => \A s \in Rows' : s <= lastSeq'
    BY <1>2, <2>2 DEF Agree
  <2> QED
    BY <1>1, <1>2, <2>1, <2>3 DEF Agree
<1>3. ASSUME NEW w \in Workers, NEW m \in Message, ReserveFresh(w, m)
      PROVE  Agree'
  <2> DEFINE new == [seq |-> PreviousSeq + 1, msg |-> m]
  <2>1. lastSeq' = PreviousSeq + 1 /\ PreviousSeq < MaxSeq /\ UNCHANGED stored
    BY <1>3 DEF ReserveFresh
  <2>2. RowRecords' = RowRecords /\ Rows' = Rows
    BY <2>1 DEF RowRecords, Rows, HasRow
  <2>3. \A r \in Issued' : r \in Issued \/ r = new
    <3> SUFFICES ASSUME NEW r \in Issued' PROVE r \in Issued \/ r = new
      OBVIOUS
    <3>1. ASSUME NEW v \in Workers, NEW n \in Message, ReserveFresh(v, n), r = [seq |-> PreviousSeq + 1, msg |-> n]
          PROVE  r \in Issued \/ r = new
      \* the reservation holds one message, so both are the step's
      <4>1. original' = [original EXCEPT ![PreviousSeq + 1] = m] /\ original' = [original EXCEPT ![PreviousSeq + 1] = n]
        BY <1>3, <3>1 DEF ReserveFresh
      <4>2. PreviousSeq + 1 \in DOMAIN original
        BY <1>0, <2>1, FreshNumber DEF TypeInv, TypeOK
      <4>3. m = n
        BY <4>1, <4>2
      <4> QED
        BY <3>1, <4>3
    <3> QED
      BY <3>1, IssuedStep
  <2>4. \A r \in Issued \cup RowRecords : r.seq \in Seqs /\ r.seq <= PreviousSeq
    BY <1>0, <2>1, FreshNumber DEF Record, RowRecords, Rows
  <2>5. ASSUME NEW s \in Rows
        PROVE  s <= PreviousSeq
    <3>1. [seq |-> s, msg |-> stored[s]] \in RowRecords
      BY DEF RowRecords
    <3> QED
      BY <2>4, <3>1
  <2>6. \A r \in Issued' : r.seq <= lastSeq'
    BY <1>0, <2>1, <2>3, <2>4 DEF Seqs
  <2>7. \A s \in Rows' : s <= lastSeq'
    BY <1>0, <2>1, <2>2, <2>5 DEF Rows, Seqs
  <2>8. \A r1, r2 \in (Issued \cup RowRecords)' : r1.seq = r2.seq => r1.msg = r2.msg
    <3> SUFFICES ASSUME NEW r1 \in (Issued \cup RowRecords)', NEW r2 \in (Issued \cup RowRecords)', r1.seq = r2.seq
                 PROVE  r1.msg = r2.msg
      OBVIOUS
    <3>1. (r1 \in Issued \cup RowRecords \/ r1 = new) /\ (r2 \in Issued \cup RowRecords \/ r2 = new)
      BY <2>2, <2>3
    <3>2. r1 \in Issued \cup RowRecords <=> r1.seq <= PreviousSeq
      BY <1>0, <2>4, <3>1
    <3>3. r2 \in Issued \cup RowRecords <=> r2.seq <= PreviousSeq
      BY <1>0, <2>4, <3>1
    <3> QED
      BY <3>1, <3>2, <3>3 DEF Agree
  <2> QED
    BY <2>6, <2>7, <2>8 DEF Agree
<1> QED
  BY <1>2, <1>3, LastSeqStep

\* Every record on its way or in the topic belongs to a number in use.
LEMMA SentIssued == TypeInv => Sent \subseteq Issued /\ Sent \subseteq Record
BY IssuedType DEF Issued

LEMMA RawStep == TypeInv /\ Agree /\ RawHasNoRow /\ SentAgrees /\ [Next]_vars => RawHasNoRow'
<1> SUFFICES ASSUME TypeInv, Agree, RawHasNoRow, SentAgrees, [Next]_vars,
                    NEW s \in Seqs, stage'[s] \in {Reserved, Sealed}
             PROVE  ~HasRow(s)'
  BY DEF RawHasNoRow
<1> USE DEF Gone, Reserved, Prepared, Published, Persisted, Sealed
\* a number being reserved has no row
<1>1. ASSUME NEW w \in Workers, NEW m \in Message, ReserveFresh(w, m)
      PROVE  ~HasRow(PreviousSeq + 1)
  <2>1. PreviousSeq < MaxSeq
    BY <1>1 DEF ReserveFresh
  <2>2. [seq |-> PreviousSeq + 1, msg |-> stored[PreviousSeq + 1]] \notin RowRecords
    BY <2>1, FreshNumber, PreviousSeqType, OutboxAssumption DEF TypeInv
  <2> QED
    BY <2>1, <2>2, FreshNumber DEF RowRecords, Rows
<1>2. stored'[s] # stored[s] => stage[s] \notin {Reserved, Sealed} /\ UNCHANGED stage
  BY RowStep DEF SentAgrees, Insert
<1>3. stored'[s] = stored[s]
  BY <1>2
<1>4. ~HasRow(s)
  BY <1>1, StageStep DEF RawHasNoRow
<1> QED
  BY <1>3, <1>4 DEF HasRow

LEMMA StageAgreesStep == TypeInv /\ Agree /\ StageAgrees /\ JobAgrees /\ [Next]_vars => StageAgrees'
<1> SUFFICES ASSUME TypeInv, Agree, StageAgrees, JobAgrees, [Next]_vars PROVE StageAgrees'
  OBVIOUS
<1> USE DEF Gone, Reserved, Prepared, Published, Persisted, Sealed
<1>0. /\ stage \in [Seqs -> Stages] /\ stored \in [Seqs -> Message \cup {NoMessage}]
      /\ pc \in [Senders -> Places] /\ rec \in [Senders -> Record \cup {NoMessage}]
      /\ PreviousSeq \in 0..MaxSeq
  BY PreviousSeqType DEF TypeInv, TypeOK
<1>3. ASSUME NEW s \in Seqs, stage'[s] = Persisted
      PROVE  HasRow(s)'
  <2>1. HasRow(s)
    BY <1>3, StageStep DEF StageAgrees, JobAgrees, MarkPersisted
  <2> QED
    BY <2>1, RowStep DEF HasRow
<1>4. ASSUME NEW o \in Senders, pc'[o] = "readback"
      PROVE  stage'[rec'[o].seq] # Reserved
  <2> USE DEF sqlVars, kafkaVars, logicVars, Goto, Leave
  <2>1. ASSUME pc[o] = "readback" /\ rec'[o] = rec[o]
        PROVE  stage'[rec'[o].seq] # Reserved
    <3>1. rec[o] \in Issued /\ rec[o] \in Record
      BY <2>1, IssuedType DEF Issued
    <3>2. PreviousSeq < MaxSeq => rec[o].seq <= PreviousSeq
      BY <3>1, FreshNumber DEF Record
    <3>3. ASSUME NEW w \in Workers, NEW m \in Message, ReserveFresh(w, m)
          PROVE  rec[o].seq # PreviousSeq + 1
      BY <1>0, <3>2, <3>3 DEF ReserveFresh, Seqs
    <3>4. rec[o].seq \in Seqs
      BY <3>1 DEF Record
    <3> QED
      BY <2>1, <3>3, <3>4, StageStep DEF StageAgrees
  <2>2. ASSUME NEW w \in Workers, Prepare(w), w = o
        PROVE  stage'[rec'[o].seq] # Reserved
    <3>1. rec[o].seq \in Seqs /\ rec'[o] = rec[o]
      BY <2>2 DEF Prepare, TypeInv, TypeOK, Busy, Record
    <3> QED
      BY <1>0, <2>2, <3>1 DEF Prepare, RaiseStage
  <2>3. ASSUME NEW w \in Workers, Prepare(w), w # o
        PROVE  pc[o] = "readback" /\ rec'[o] = rec[o]
    BY <1>0, <1>4, <2>3 DEF Prepare
  <2>4. ASSUME NEW w \in Workers, NEW m \in Message, ReserveAgain(w, m) \/ ReserveFresh(w, m)
        PROVE  pc[o] = "readback" /\ rec'[o] = rec[o]
    BY <1>0, <1>4, <2>4 DEF ReserveAgain, ReserveFresh
  <2>5. ASSUME NEW w \in Workers, ReadBack(w) \/ Accept(w) \/ Refuse(w)
        PROVE  pc[o] = "readback" /\ rec'[o] = rec[o]
    BY <1>0, <1>4, <2>5 DEF ReadBack, Accept, Refuse
  <2>6. ASSUME Recover
        PROVE  pc[o] = "readback" /\ rec'[o] = rec[o]
    BY <1>0, <1>4, <2>6 DEF Recover, Seal, Collect, Scan, Resend, RoundDone, ResendConfirmed, Break
  <2>7. ASSUME Kafka
        PROVE  pc[o] = "readback" /\ rec'[o] = rec[o]
    BY <1>0, <1>4, <2>7 DEF Kafka, Deliver, GiveUp
  <2>8. ASSUME Job \/ LogicCrash
        PROVE  pc[o] = "readback" /\ rec'[o] = rec[o]
    BY <1>0, <1>4, <2>8 DEF Job, Insert, MarkPersisted, AdvanceSession, Fail, DeadLetter, Commit,
                            JobRestart, LogicCrash
  <2>9. ASSUME UNCHANGED vars \/ \E q \in dlq : Replay(q)
        PROVE  pc[o] = "readback" /\ rec'[o] = rec[o]
    BY <1>4, <2>9 DEF vars, Replay
  <2> QED
    BY <2>1, <2>2, <2>3, <2>4, <2>5, <2>6, <2>7, <2>8, <2>9 DEF Next, Submit
<1> QED
  BY <1>3, <1>4 DEF StageAgrees

LEMMA SentAgreesStep == TypeInv /\ Agree /\ StageAgrees /\ SentAgrees /\ [Next]_vars => SentAgrees'
<1> SUFFICES ASSUME TypeInv, Agree, StageAgrees, SentAgrees, [Next]_vars, NEW r \in Sent'
             PROVE  /\ stage'[r.seq] \notin {Reserved, Sealed}
                    /\ stage'[r.seq] = Gone => HasRow(r.seq)'
  BY DEF SentAgrees
<1> USE DEF Gone, Reserved, Prepared, Published, Persisted, Sealed
<1>0. /\ stage \in [Seqs -> Stages] /\ PreviousSeq \in 0..MaxSeq /\ MaxSeq \in Nat \ {0}
  BY PreviousSeqType, OutboxAssumption DEF TypeInv, TypeOK
<1>1. r \in Issued
  <2>1. ASSUME NEW w \in Workers, ReadBack(w), r = rec[w]
        PROVE  r \in Issued
    BY <2>1 DEF ReadBack, Issued, Senders
  <2>2. ASSUME NEW s \in Seqs, stage[s] = Prepared, r = [seq |-> s, msg |-> original[s]]
        PROVE  r \in Issued
    BY <2>2 DEF Issued
  <2> QED
    BY <2>1, <2>2, SentStep DEF Issued
<1>2. r.seq \in Seqs
  BY <1>1, IssuedType DEF Record
<1>3. /\ stage[r.seq] \notin {Reserved, Sealed}
      /\ stage[r.seq] = Gone => HasRow(r.seq)
  <2>1. CASE r \in Sent
    BY <2>1 DEF SentAgrees
  <2>2. ASSUME NEW w \in Workers, ReadBack(w), r = rec[w], stage[r.seq] \notin {Gone, Sealed}
        PROVE  stage[r.seq] \notin {Gone, Reserved, Sealed}
    BY <2>2 DEF ReadBack, StageAgrees, Senders
  <2>3. ASSUME NEW s \in Seqs, stage[s] = Prepared, r = [seq |-> s, msg |-> original[s]]
        PROVE  stage[r.seq] \notin {Gone, Reserved, Sealed}
    BY <2>3
  <2> QED
    BY <2>1, <2>2, <2>3, SentStep
<1>4. ASSUME NEW w \in Workers, NEW m \in Message, ReserveFresh(w, m)
      PROVE  r.seq # PreviousSeq + 1
  BY <1>0, <1>1, <1>2, <1>4, FreshNumber DEF ReserveFresh, Seqs
<1>5. HasRow(r.seq) => HasRow(r.seq)'
  BY <1>2, RowStep DEF HasRow
<1> QED
  BY <1>2, <1>3, <1>4, <1>5, StageStep DEF StageAgrees

\* What reached the topic stays there, in its place; so do dead letters and rows.
LEMMA TopicStep ==
  ASSUME TypeInv, [Next]_vars
  PROVE  /\ Len(log) <= Len(log') /\ \A i \in DOMAIN log : log'[i] = log[i]
         /\ dlq \subseteq dlq'
         /\ \A s \in Seqs : HasRow(s) => HasRow(s)' /\ stored'[s] = stored[s]
<1>0. log \in Seq(Record) /\ dlq \subseteq Record
  BY DEF TypeInv, TypeOK
<1>1. ASSUME NEW r \in Record, log' = Append(log, r)
      PROVE  Len(log) <= Len(log') /\ \A i \in DOMAIN log : log'[i] = log[i]
  BY <1>0, <1>1
<1>2. ASSUME NEW f \in inflight, NEW reported \in BOOLEAN, Deliver(f, reported)
      PROVE  (f.record \in Record /\ log' = Append(log, f.record)) \/ UNCHANGED log
  BY <1>2 DEF Deliver, TypeInv, TypeOK, Flights
<1>3. ASSUME NEW r \in dlq, Replay(r)
      PROVE  r \in Record /\ log' = Append(log, r)
  BY <1>0, <1>3 DEF Replay
<1>4. (\E r \in Record : log' = Append(log, r)) \/ UNCHANGED log
  BY <1>2, <1>3
  DEF Next, Submit, Recover, Kafka, Job, vars, ReserveAgain, ReserveFresh, Prepare, ReadBack, Accept, Refuse,
      Seal, Collect, Scan, Resend, RoundDone, ResendConfirmed, Break, GiveUp, Insert, MarkPersisted,
      AdvanceSession, Fail, DeadLetter, Commit, JobRestart, LogicCrash, kafkaVars
<1>5. dlq \subseteq dlq'
  BY DEF Next, Submit, Recover, Kafka, Job, vars, ReserveAgain, ReserveFresh, Prepare, ReadBack, Accept, Refuse,
         Seal, Collect, Scan, Resend, RoundDone, ResendConfirmed, Break, Deliver, GiveUp, Insert, MarkPersisted,
         AdvanceSession, Fail, DeadLetter, Commit, JobRestart, LogicCrash, Replay, kafkaVars
<1>6. \A s \in Seqs : HasRow(s) => HasRow(s)' /\ stored'[s] = stored[s]
  BY RowStep DEF HasRow
<1> QED
  BY <1>1, <1>4, <1>5, <1>6

LEMMA JobAgreesStep == TypeInv /\ JobAgrees /\ [Next]_vars => JobAgrees'
<1> SUFFICES ASSUME TypeInv, JobAgrees, [Next]_vars PROVE JobAgrees'
  OBVIOUS
<1> USE DEF JobGoto, sqlVars, kafkaVars, logicVars
<1>0. log \in Seq(Record) /\ log' \in Seq(Record) /\ committed \in 0..Len(log) /\ committed' \in 0..Len(log')
      /\ stored \in [Seqs -> Message \cup {NoMessage}]
  BY TypeStep DEF TypeInv, TypeOK
\* a record dealt with stays dealt with
<1>1. ASSUME NEW i \in DOMAIN log, HasRow(log[i].seq) \/ log[i] \in dlq
      PROVE  (HasRow(log[i].seq) \/ log[i] \in dlq)'
  <2>1. log[i] \in Record
    BY <1>0
  <2> QED
    BY <1>1, <2>1, TopicStep DEF Record, HasRow
<1>2. \A i \in 1..committed : (HasRow(log[i].seq) \/ log[i] \in dlq)'
  BY <1>0, <1>1 DEF JobAgrees
<1>3. CASE UNCHANGED <<jobPc, committed>>
  <2>1. jobPc \in {"mark", "last", "commit"} => committed + 1 \in DOMAIN log
    BY <1>0 DEF TypeInv, TypeOK
  <2>2. jobPc \in {"mark", "last", "commit"} => Current' = Current /\ Current \in Record
    BY <1>0, <1>3, <2>1, TopicStep DEF Current
  <2>3. jobPc \in {"mark", "last"} => HasRow(Current.seq)'
    BY <2>2, TopicStep DEF JobAgrees, Record
  <2>4. jobPc = "commit" => HasRow(Current.seq)' \/ Current \in dlq'
    BY <2>2, TopicStep DEF JobAgrees, Record
  <2> QED
    BY <1>2, <1>3, <2>2, <2>3, <2>4 DEF JobAgrees, HasRow
<1>4. CASE Insert
  <2>1. Current \in Record
    BY <1>4, CurrentType DEF Insert, TypeInv
  <2>2. stored'[Current.seq] = Current.msg /\ Current.msg # NoMessage
    BY <1>0, <1>4, <2>1, OutboxAssumption DEF Insert, Record, Message
  <2>3. Current' = Current
    BY <1>4 DEF Insert, Current
  <2> QED
    BY <1>2, <1>4, <2>2, <2>3 DEF Insert, JobAgrees, HasRow
<1>5. CASE MarkPersisted \/ AdvanceSession
  BY <1>2, <1>5 DEF MarkPersisted, AdvanceSession, JobAgrees, Current, HasRow
<1>6. CASE Fail \/ JobRestart
  BY <1>2, <1>6 DEF Fail, JobRestart, JobAgrees
<1>7. CASE DeadLetter
  BY <1>2, <1>7 DEF DeadLetter, JobAgrees, Current
<1>8. CASE Commit
  <2>1. CASE committed' = committed /\ jobPc' = "halted"
    BY <1>2, <1>8, <2>1 DEF JobAgrees
  <2>2. CASE committed' = committed + 1 /\ jobPc' = "insert"
    <3>1. committed + 1 \in DOMAIN log
      BY <1>0, <1>8 DEF Commit, TypeInv, TypeOK
    <3>2. stored'[log'[committed + 1].seq] # NoMessage \/ log'[committed + 1] \in dlq'
      BY <1>1, <1>8, <3>1 DEF Commit, JobAgrees, Current, HasRow
    <3>3. \A i \in 1..committed' : i \in 1..committed \/ i = committed + 1
      BY <1>0, <2>2
    <3> QED
      BY <1>2, <2>2, <3>2, <3>3 DEF JobAgrees, HasRow
  <2> QED
    BY <1>8, <2>1, <2>2 DEF Commit
<1> QED
  BY <1>3, <1>4, <1>5, <1>6, <1>7, <1>8
  DEF Next, Submit, Recover, Kafka, Job, vars, ReserveAgain, ReserveFresh, Prepare, ReadBack, Accept, Refuse,
      Seal, Collect, Scan, Resend, RoundDone, ResendConfirmed, Break, Deliver, GiveUp, LogicCrash, Replay

LEMMA ReportsStep == TypeInv /\ ReportsAreTrue /\ [Next]_vars => ReportsAreTrue'
<1> SUFFICES ASSUME TypeInv, ReportsAreTrue, [Next]_vars, NEW o \in Senders, pc'[o] = "confirmed"
             PROVE  \E i \in DOMAIN log' : log'[i] = rec'[o]
  BY DEF ReportsAreTrue
<1> USE DEF sqlVars, kafkaVars, logicVars, Goto, Leave
<1>0. /\ pc \in [Senders -> Places] /\ rec \in [Senders -> Record \cup {NoMessage}]
      /\ log \in Seq(Record) /\ log' \in Seq(Record) /\ Workers \subseteq Senders /\ Recovery \in Senders
  BY TypeStep DEF TypeInv, TypeOK, Senders
<1>1. ASSUME pc[o] = "confirmed" /\ rec'[o] = rec[o]
      PROVE  \E i \in DOMAIN log' : log'[i] = rec'[o]
  <2>1. PICK i \in DOMAIN log : log[i] = rec[o]
    BY <1>1 DEF ReportsAreTrue
  <2>2. i \in DOMAIN log' /\ log'[i] = log[i]
    BY <1>0, <2>1, TopicStep
  <2> QED
    BY <1>1, <2>1, <2>2
<1>2. ASSUME NEW f \in inflight, NEW reported \in BOOLEAN, Deliver(f, reported), pc[o] # "confirmed"
      PROVE  \E i \in DOMAIN log' : log'[i] = rec'[o]
  <2>1. rec'[o] = f.record
    BY <1>0, <1>2, OutboxAssumption DEF Deliver, TypeInv, Waiting
  <2>2. f.record \in Record
    BY DEF TypeInv, TypeOK, Flights
  <2>3. CASE Copies(f.record) < MaxCopies
    <3>1. log' = Append(log, f.record)
      BY <1>2, <2>3 DEF Deliver
    <3>2. Len(log) + 1 \in DOMAIN log' /\ log'[Len(log) + 1] = f.record
      BY <1>0, <2>2, <3>1
    <3> QED
      BY <2>1, <3>2
  \* a topic that keeps MaxCopies of the record keeps one
  <2>4. CASE ~(Copies(f.record) < MaxCopies)
    <3>1. {i \in DOMAIN log : log[i] = f.record} # {}
      BY <2>4, FS_EmptySet, OutboxAssumption DEF Copies
    <3> QED
      BY <1>2, <2>1, <2>4, <3>1 DEF Deliver
  <2> QED
    BY <2>3, <2>4
<1>3. ASSUME NEW f \in inflight, NEW reported \in BOOLEAN, Deliver(f, reported), pc[o] = "confirmed"
      PROVE  pc[o] = "confirmed" /\ rec'[o] = rec[o]
  BY <1>3 DEF Deliver
<1>4. ASSUME NEW w \in Workers, Submit(w)
      PROVE  pc[o] = "confirmed" /\ rec'[o] = rec[o]
  BY <1>0, <1>4 DEF Submit, ReserveAgain, ReserveFresh, Prepare, ReadBack, Accept, Refuse
<1>5. ASSUME Recover
      PROVE  pc[o] = "confirmed" /\ rec'[o] = rec[o]
  BY <1>0, <1>5 DEF Recover, Seal, Collect, Scan, Resend, RoundDone, ResendConfirmed, Break
<1>6. ASSUME NEW f \in inflight, GiveUp(f)
      PROVE  pc[o] = "confirmed" /\ rec'[o] = rec[o]
  BY <1>6 DEF GiveUp
<1>7. ASSUME Job \/ LogicCrash
      PROVE  pc[o] = "confirmed" /\ rec'[o] = rec[o]
  BY <1>0, <1>7 DEF Job, Insert, MarkPersisted, AdvanceSession, Fail, DeadLetter, Commit, JobRestart, LogicCrash
<1>8. ASSUME UNCHANGED vars \/ \E r \in dlq : Replay(r)
      PROVE  pc[o] = "confirmed" /\ rec'[o] = rec[o]
  BY <1>8 DEF vars, Replay
<1> QED
  BY <1>1, <1>2, <1>3, <1>4, <1>5, <1>6, <1>7, <1>8 DEF Next, Kafka

\* A record with a row has the row of its own message: Agree, on a record in use.
LEMMA OwnRow ==
  ASSUME TypeInv, Agree, NEW r \in Sent, HasRow(r.seq)
  PROVE  stored[r.seq] = r.msg
<1>1. r \in Issued /\ r.seq \in Seqs
  BY SentIssued DEF Record
<1>2. [seq |-> r.seq, msg |-> stored[r.seq]] \in RowRecords
  BY <1>1 DEF RowRecords, Rows
<1> QED
  BY <1>1, <1>2 DEF Agree

LEMMA AcceptedStep ==
  ASSUME TypeInv, Agree, JobAgrees, ReportsAreTrue, AcceptedIsDurable, [Next]_vars
  PROVE  AcceptedIsDurable'
<1> SUFFICES ASSUME NEW m \in acked' PROVE Durable(m)'
  BY DEF AcceptedIsDurable
<1>0. log \in Seq(Record) /\ log' \in Seq(Record) /\ committed \in 0..Len(log) /\ committed' \in 0..Len(log')
  BY TypeStep DEF TypeInv, TypeOK
<1>1. ASSUME NEW r \in Sent, HasRow(r.seq) \/ r \in dlq
      PROVE  Durable(r.msg)'
  <2>1. CASE HasRow(r.seq)
    <3>1. r.seq \in Seqs /\ stored[r.seq] = r.msg
      BY <2>1, OwnRow, SentIssued DEF Record
    <3>2. stored'[r.seq] = r.msg
      BY <2>1, <3>1, TopicStep
    <3> QED
      BY <3>1, <3>2 DEF Durable
  <2>2. CASE r \in dlq
    BY <2>2, TopicStep DEF Durable
  <2> QED
    BY <1>1, <2>1, <2>2
<1>2. \A i \in DOMAIN log : log[i] \in Sent
  BY DEF Sent
<1>3. committed' = committed \/ (Commit /\ committed' = committed + 1)
  BY DEF Next, Submit, Recover, Kafka, Job, vars, ReserveAgain, ReserveFresh, Prepare, ReadBack, Accept, Refuse,
         Seal, Collect, Scan, Resend, RoundDone, ResendConfirmed, Break, Deliver, GiveUp, Insert, MarkPersisted,
         AdvanceSession, Fail, DeadLetter, Commit, JobRestart, LogicCrash, Replay, kafkaVars
<1>4. ASSUME Durable(m)
      PROVE  Durable(m)'
  <2>1. ASSUME NEW s \in Seqs, stored[s] = m, m # NoMessage
        PROVE  Durable(m)'
    <3>1. stored'[s] = m
      BY <2>1, TopicStep DEF HasRow
    <3> QED
      BY <3>1 DEF Durable
  <2>2. ASSUME NEW i \in committed + 1..Len(log), log[i].msg = m
        PROVE  Durable(m)'
    <3>1. i \in DOMAIN log /\ log'[i] = log[i] /\ i <= Len(log')
      BY <1>0, TopicStep
    <3>2. CASE i > committed'
      <4>1. i \in committed' + 1..Len(log')
        BY <1>0, <3>1, <3>2
      <4> QED
        BY <2>2, <3>1, <4>1 DEF Durable
    <3>3. CASE ~(i > committed')
      <4>1. Commit /\ i = committed + 1
        BY <1>0, <1>3, <3>3
      <4>2. HasRow(log[i].seq) \/ log[i] \in dlq
        BY <4>1 DEF Commit, JobAgrees, Current
      <4> QED
        BY <1>1, <1>2, <2>2, <3>1, <4>2
    <3> QED
      BY <3>2, <3>3
  <2>3. ASSUME NEW r \in dlq, r.msg = m
        PROVE  Durable(m)'
    BY <2>3, TopicStep DEF Durable
  <2>4. m # NoMessage
    <3>1. m \in Message
      BY TypeStep DEF TypeInv, TypeOK
    <3> QED
      BY <3>1, OutboxAssumption DEF Message
  <2> QED
    BY <1>4, <2>1, <2>2, <2>3, <2>4 DEF Durable
<1>5. ASSUME NEW w \in Workers, Accept(w), m = rec[w].msg
      PROVE  Durable(m)'
  <2>1. PICK i \in DOMAIN log : log[i] = rec[w]
    BY <1>5 DEF Accept, ReportsAreTrue, Senders
  <2>2. CASE i > committed
    <3>1. UNCHANGED <<log, committed>> /\ i \in committed + 1..Len(log)
      BY <1>0, <1>5, <2>2 DEF Accept, kafkaVars
    <3> QED
      BY <1>5, <2>1, <3>1 DEF Durable
  <2>3. CASE ~(i > committed)
    <3>1. HasRow(log[i].seq) \/ log[i] \in dlq
      BY <1>0, <2>3 DEF JobAgrees
    <3> QED
      BY <1>1, <1>2, <1>5, <2>1, <3>1
  <2> QED
    BY <2>2, <2>3
<1>6. m \in acked \/ \E w \in Workers : Accept(w) /\ m = rec[w].msg
  BY DEF Next, Submit, Recover, Kafka, Job, vars, ReserveAgain, ReserveFresh, Prepare, ReadBack, Accept, Refuse,
         Seal, Collect, Scan, Resend, RoundDone, ResendConfirmed, Break, Deliver, GiveUp, Insert, MarkPersisted,
         AdvanceSession, Fail, DeadLetter, Commit, JobRestart, LogicCrash, Replay
<1> QED
  BY <1>4, <1>5, <1>6 DEF AcceptedIsDurable

LEMMA Inductive == Spec => []IInv
<1>1. IInv /\ [Next]_vars => IInv'
  BY TypeStep, WaitingStep, NotNullStep, AgreeStep, RawStep, StageAgreesStep, SentAgreesStep, JobAgreesStep,
     ReportsStep, AcceptedStep DEF IInv, TypeInv
<1> QED
  BY InitIInv, <1>1, PTL DEF Spec

-----------------------------------------------------------------------------
(* The safety properties.                                                  *)

\* A message reported accepted (Submit's accepted_ack) is in the message table, in the
\* unconsumed part of the topic or in the DLQ, after any number of crashes, lost reports,
\* retries and resends.
THEOREM AcceptedStaysDurable == Spec => []AcceptedIsDurable
<1>1. IInv => AcceptedIsDurable
  BY DEF IInv
<1> QED
  BY Inductive, <1>1, PTL

\* One message per number is what Agree says of the records that are on their way.
LEMMA OneMessageFact == TypeInv /\ Agree => OneMessagePerSeq
<1> SUFFICES ASSUME TypeInv, Agree PROVE OneMessagePerSeq
  OBVIOUS
<1>1. \A r1, r2 \in Sent : r1.seq = r2.seq => r1.msg = r2.msg
  BY SentIssued DEF Agree
<1>2. ASSUME NEW r \in Sent, stage[r.seq] # Gone
      PROVE  original[r.seq] = r.msg
  <2>1. r \in Issued /\ r.seq \in Seqs
    BY SentIssued DEF Record
  <2>2. [seq |-> r.seq, msg |-> original[r.seq]] \in Issued
    BY <1>2, <2>1 DEF Issued
  <2> QED
    BY <2>1, <2>2 DEF Agree
<1> QED
  BY <1>1, <1>2, OwnRow DEF OneMessagePerSeq

\* A sequence number never stands for two messages: InsertMessage never finds another
\* message under the number it is about to insert.
THEOREM NumbersAreUnique == Spec => []OneMessagePerSeq
<1>1. IInv => OneMessagePerSeq
  BY OneMessageFact DEF IInv
<1> QED
  BY Inductive, <1>1, PTL

\* A reservation that Pending may seal, or has sealed, was never sent and has no row:
\* what makes it right for SafePrefix and for the cursors to pass its number.
THEOREM SealedIsSafe == Spec => []SealedNeverSent
<1>1. IInv => SealedNeverSent
  BY DEF IInv, RawHasNoRow, SentAgrees, SealedNeverSent
<1> QED
  BY Inductive, <1>1, PTL

-----------------------------------------------------------------------------
(* The refinement of StableLog.                                            *)

LastRow == Max(Rows \cup {0})

IsLastRow ==
  /\ LastRow \in 0..MaxSeq /\ (LastRow \in Rows \/ LastRow = 0)
  /\ \A s \in Rows : s <= LastRow

LEMMA LastRowFact == TypeInv => IsLastRow
<1> SUFFICES ASSUME TypeInv PROVE IsLastRow
  OBVIOUS
<1> DEFINE S == Rows \cup {0}
<1>1. MaxSeq \in Nat
  BY OutboxAssumption
<1>2. S \in SUBSET (0..MaxSeq) /\ S # {}
  BY <1>1 DEF Rows, Seqs
<1>3. Max(S) \in S /\ \A y \in S : y <= Max(S)
  BY <1>1, <1>2, MaxBounded
<1> QED
  BY <1>2, <1>3 DEF LastRow, IsLastRow

\* the numbers that SafePrefix is the least of
Limits ==
  {IF lastSeq > 0 THEN lastSeq ELSE LastRow}
    \cup {s - 1 : s \in {r \in Seqs : stage[r] \in Unsettled}}

IsSafePrefix ==
  /\ SafePrefix \in Limits /\ SafePrefix \in 0..MaxSeq
  /\ \A n \in Limits : SafePrefix <= n

LEMMA SafePrefixFact == TypeInv => IsSafePrefix
<1> SUFFICES ASSUME TypeInv PROVE IsSafePrefix
  OBVIOUS
<1>1. MaxSeq \in Nat /\ lastSeq \in 0..MaxSeq
  BY OutboxAssumption DEF TypeInv, TypeOK
<1>2. Limits \in SUBSET (0..MaxSeq) /\ Limits # {}
  <2>1. \A s \in Seqs : s - 1 \in 0..MaxSeq
    BY <1>1 DEF Seqs
  <2> QED
    BY <1>1, <2>1, LastRowFact DEF Limits, IsLastRow
<1>3. SafePrefix = Min(Limits)
  BY DEF SafePrefix, Limits, LastRow
<1>4. Min(Limits) \in Limits /\ \A n \in Limits : Min(Limits) <= n
  BY <1>1, <1>2, MinNat
<1> QED
  BY <1>2, <1>3, <1>4 DEF IsSafePrefix

\* A record that is sent and has no row has a reservation that was prepared and neither
\* persisted nor collected: it is one of the limits of the safe prefix.
LEMMA SentAheadFact == TypeInv /\ StageAgrees /\ SentAgrees => SentStaysAhead
<1> SUFFICES ASSUME TypeInv, StageAgrees, SentAgrees, NEW r \in Sent, ~HasRow(r.seq)
             PROVE  SafePrefix < r.seq
  BY DEF SentStaysAhead
<1>1. r.seq \in Seqs /\ stage[r.seq] \in Stages
  BY SentIssued DEF Record, TypeInv, TypeOK
<1>2. stage[r.seq] \in Unsettled
  BY <1>1 DEF SentAgrees, StageAgrees, Stages, Unsettled, Gone, Reserved, Prepared, Published, Persisted, Sealed
<1>3. SafePrefix <= r.seq - 1 /\ SafePrefix \in 0..MaxSeq
  BY <1>1, <1>2, SafePrefixFact DEF IsSafePrefix, Limits
<1> QED
  BY <1>1, <1>3, OutboxAssumption DEF Seqs

\* A message on its way to the message table is never below a cursor: the safe prefix stays
\* below its number until the row is there, through crashes, lost reports, sealing,
\* collection and replays.
THEOREM SentMessagesStayAhead == Spec => []SentStaysAhead
<1>1. IInv => SentStaysAhead
  BY SentAheadFact DEF IInv
<1> QED
  BY Inductive, <1>1, PTL

\* Every limit of the safe prefix after a step is at or above the safe prefix before it.
LEMMA SafePrefixGrows ==
  ASSUME TypeInv, TypeInv', Agree, [Next]_vars
  PROVE  SafePrefix <= SafePrefix'
<1>1a. IsLastRow /\ IsSafePrefix
  BY LastRowFact, SafePrefixFact
<1>1b. TypeInv' => IsLastRow' /\ IsSafePrefix'
  BY LastRowFact, SafePrefixFact, PTL
<1> USE DEF IsLastRow, IsSafePrefix
<1>0. /\ MaxSeq \in Nat /\ lastSeq \in 0..MaxSeq /\ lastSeq' \in 0..MaxSeq
      /\ LastRow \in 0..MaxSeq /\ LastRow' \in 0..MaxSeq
      /\ SafePrefix \in 0..MaxSeq /\ PreviousSeq \in 0..MaxSeq
  BY <1>1a, <1>1b, OutboxAssumption, PreviousSeqType DEF TypeInv, TypeOK
<1>1. IF lastSeq > 0 THEN SafePrefix <= lastSeq ELSE SafePrefix <= LastRow
  BY <1>1a DEF Limits
<1>2. LastRow <= LastRow'
  <2>1. Rows \subseteq Rows'
    BY TopicStep DEF Rows
  <2> QED
    BY <1>0, <2>1, <1>1a, <1>1b
\* a number that is reserved follows the safe prefix
<1>3. SafePrefix <= PreviousSeq
  <2>1. LastRow <= HistoryFloor
    BY <1>1a, HistoryFloorFact DEF TypeInv, Rows
  <2> QED
    BY <1>0, <1>1, <2>1, HistoryFloorFact DEF PreviousSeq, TypeInv
<1>4. IF lastSeq' > 0 THEN SafePrefix <= lastSeq' ELSE SafePrefix <= LastRow'
  BY <1>0, <1>1, <1>2, <1>3, LastSeqStep
<1>5. ASSUME NEW s \in Seqs, stage'[s] \in Unsettled
      PROVE  SafePrefix <= s - 1
  <2>1. CASE stage[s] \in Unsettled
    BY <2>1, <1>1a DEF Limits
  <2>2. CASE s = PreviousSeq + 1
    BY <1>0, <1>3, <2>2
  <2>3. stage[s] \in Unsettled \/ s = PreviousSeq + 1
    BY <1>5, StageStep DEF Unsettled, Gone, Reserved, Prepared, Published, Persisted, Sealed
  <2> QED
    BY <2>1, <2>2, <2>3
<1>6. \A n \in Limits' : SafePrefix <= n
  BY <1>4, <1>5 DEF Limits
<1>7. SafePrefix' \in Limits'
  BY <1>1b
<1> QED
  BY <1>6, <1>7

\* A step of the outbox is a step of the log.  The record the Job inserts was sent, so its
\* reservation was prepared; it has no row, so the reservation is neither persisted nor
\* collected: it still holds the safe prefix below its number.
LEMMA OutboxKeepsLog ==
  ASSUME TypeInv, TypeInv', Agree, StageAgrees, SentAgrees, [Next]_vars
  PROVE  [Stable!StableNext]_<<stored, SafePrefix>>
<1>0. IsSafePrefix /\ (TypeInv' => IsSafePrefix')
  BY SafePrefixFact, PTL
<1>1. SafePrefix' \in SafePrefix..MaxSeq
  BY <1>0, SafePrefixGrows, OutboxAssumption DEF IsSafePrefix
<1>2. CASE UNCHANGED stored
  BY <1>1, <1>2 DEF Stable!StableNext, Stable!Settle
<1>3. CASE stored' # stored
  <2>1. PICK s \in Seqs : stored'[s] # stored[s]
    BY <1>3 DEF TypeInv, TypeOK
  <2>2. Insert /\ ~HasRow(s) /\ Current \in Sent /\ s = Current.seq
    BY <2>1, RowStep
  <2>3. stage[s] \in Unsettled
    BY <2>2 DEF SentAgrees, StageAgrees, TypeInv, TypeOK, Stages, Unsettled, Gone, Reserved, Prepared,
                Published, Persisted, Sealed
  <2>4. SafePrefix <= s - 1
    BY <1>0, <2>3 DEF Limits, IsSafePrefix
  <2>5. SafePrefix < s
    BY <1>0, <2>4, OutboxAssumption DEF Seqs, IsSafePrefix
  <2>6. Current.msg \in Message
    BY <2>2, CurrentType DEF Insert, Record, TypeInv
  <2>7. Stable!Store(s, Current.msg)
    BY <1>1, <2>2, <2>5 DEF Stable!Store, Insert, HasRow
  <2> QED
    BY <2>6, <2>7 DEF Stable!StableNext, Stable!Seqs, Seqs
<1> QED
  BY <1>2, <1>3

LEMMA LogBegins == Init => Stable!StableInit
<1> SUFFICES ASSUME Init PROVE Stable!StableInit
  OBVIOUS
<1>1. TypeInv
  BY InitType
<1> QED
  BY <1>1, SafePrefixFact DEF IsSafePrefix, Stable!StableInit, Stable!Seqs, Seqs, TypeInv, TypeOK

\* The outbox implements the log that readers of the conversation rely on: a row appears
\* only above the safe prefix of its moment, rows do not change and the prefix does not
\* move back.
THEOREM OutboxImplementsStableLog == Spec => ImplementsStableLog
<1>1. ASSUME IInv, IInv', [Next]_vars
      PROVE  [Stable!StableNext]_<<stored, SafePrefix>>
  BY <1>1, OutboxKeepsLog DEF IInv
<1> QED
  BY Inductive, LogBegins, <1>1, PTL DEF Spec, ImplementsStableLog, Stable!StableSpec

-----------------------------------------------------------------------------
(* Direct appends (module DirectAppend).                                    *)

\* the records that appenders still have to write or to mark
Held == {mine[a] : a \in {x \in Appenders : at[x] # "idle"}}

\* Agree, with what the appenders hold.
DirectAgree ==
  /\ \A r \in Issued \cup Held : r.seq <= lastSeq
  /\ lastSeq > 0 => \A s \in Rows : s <= lastSeq
  /\ \A r1, r2 \in Issued \cup RowRecords \cup Held : r1.seq = r2.seq => r1.msg = r2.msg

DirectTypeInv == DirectTypeOK /\ Waiting /\ NotNull

LEMMA DirectAgreeFact == DirectAgree => Agree
BY DEF DirectAgree, Agree

LEMMA HeldType ==
  ASSUME DirectTypeInv
  PROVE  /\ Held \subseteq Record /\ TypeInv
         /\ \A a \in Appenders : at[a] # "idle" => mine[a] \in Held
BY DEF DirectTypeInv, DirectTypeOK, TypeInv, Held

\* The number that is reserved next is past every number in use.
LEMMA DirectFresh ==
  ASSUME DirectTypeInv, DirectAgree, PreviousSeq < MaxSeq
  PROVE  /\ PreviousSeq + 1 \in Seqs /\ PreviousSeq \in Nat /\ lastSeq <= PreviousSeq
         /\ \A r \in Issued \cup RowRecords \cup Held : r.seq \in Seqs /\ r.seq <= PreviousSeq
<1>1. TypeInv /\ Agree /\ Held \subseteq Record
  BY HeldType, DirectAgreeFact
<1>2. PreviousSeq + 1 \in Seqs /\ PreviousSeq \in Nat
  BY <1>1, FreshNumber, PreviousSeqType DEF TypeInv
<1>3. \A r \in Issued \cup RowRecords : r.seq \in Seqs /\ r.seq <= PreviousSeq
  <2>1. Issued \subseteq Record
    BY <1>1, IssuedType
  <2> QED
    BY <1>1, <2>1, FreshNumber DEF Record, RowRecords, Rows
<1>4. lastSeq <= PreviousSeq
  <2>1. lastSeq \in Nat
    BY <1>1, OutboxAssumption DEF TypeInv, TypeOK
  <2> QED
    BY <1>2, <2>1 DEF PreviousSeq
<1>5. ASSUME NEW r \in Held
      PROVE  r.seq \in Seqs /\ r.seq <= PreviousSeq
  <2>1. r.seq \in Seqs /\ r.seq <= lastSeq
    BY <1>1 DEF DirectAgree, Record
  <2>2. lastSeq \in 0..MaxSeq /\ MaxSeq \in Nat
    BY <1>1, OutboxAssumption DEF TypeInv, TypeOK
  <2> QED
    BY <1>2, <1>4, <2>1, <2>2 DEF Seqs
<1> QED
  BY <1>2, <1>3, <1>4, <1>5

\* A step that reserves no number, and whose records and rows are records of before.
LEMMA DirectAgreeStays ==
  ASSUME DirectAgree, lastSeq' = lastSeq,
         Issued' \subseteq Issued, Held' \subseteq Held,
         RowRecords' \subseteq Issued \cup RowRecords \cup Held
  PROVE  DirectAgree'
<1>1. ASSUME lastSeq > 0, NEW s \in Rows'
      PROVE  s <= lastSeq
  <2> DEFINE r == [seq |-> s, msg |-> stored'[s]]
  <2>1. r \in RowRecords'
    BY DEF RowRecords
  <2>2. r \in RowRecords => s \in Rows
    BY DEF RowRecords
  <2> QED
    BY <1>1, <2>1, <2>2 DEF DirectAgree
<1> QED
  BY <1>1 DEF DirectAgree

\* A step that reserves the next number for message m and writes no row.
LEMMA DirectAgreeGrows ==
  ASSUME DirectTypeInv, DirectAgree, PreviousSeq < MaxSeq, lastSeq' = PreviousSeq + 1, NEW m,
         Issued' \cup Held' \subseteq Issued \cup Held \cup {[seq |-> PreviousSeq + 1, msg |-> m]},
         UNCHANGED stored
  PROVE  DirectAgree'
<1> DEFINE new == [seq |-> PreviousSeq + 1, msg |-> m]
           old == Issued \cup RowRecords \cup Held
<1>1. /\ PreviousSeq \in Nat /\ lastSeq <= PreviousSeq
      /\ \A r \in old : r.seq \in Seqs /\ r.seq <= PreviousSeq
  BY DirectFresh
<1>2. Rows' = Rows /\ RowRecords' = RowRecords
  BY DEF Rows, RowRecords, HasRow
<1>3. \A r \in Issued' \cup Held' : r \in old \/ r = new
  OBVIOUS
<1>4. \A r \in Issued' \cup Held' : r.seq <= lastSeq'
  BY <1>1, <1>3 DEF Seqs
<1>5. ASSUME NEW s \in Rows'
      PROVE  s <= lastSeq'
  <2>1. [seq |-> s, msg |-> stored[s]] \in RowRecords
    BY <1>2, <1>5 DEF RowRecords
  <2>2. s \in Seqs /\ s <= PreviousSeq
    BY <1>1, <2>1
  <2> QED
    BY <1>1, <2>2 DEF Seqs
<1>6. ASSUME NEW r1 \in (Issued \cup RowRecords \cup Held)', NEW r2 \in (Issued \cup RowRecords \cup Held)',
             r1.seq = r2.seq
      PROVE  r1.msg = r2.msg
  <2>1. (r1 \in old \/ r1 = new) /\ (r2 \in old \/ r2 = new)
    BY <1>2, <1>3
  <2>2. \A r \in old : r.seq # new.seq
    BY <1>1 DEF Seqs
  <2>3. CASE r1 \in old /\ r2 \in old
    BY <1>6, <2>3 DEF DirectAgree
  <2> QED
    BY <1>6, <2>1, <2>2, <2>3
<1> QED
  BY <1>4, <1>5, <1>6 DEF DirectAgree

\* The outbox keeps the appenders' records in agreement with its own.
LEMMA OutboxKeepsHeld ==
  ASSUME DirectTypeInv, DirectAgree, Next, UNCHANGED directVars
  PROVE  DirectAgree'
<1>1. TypeInv /\ Agree /\ [Next]_vars /\ Held' = Held
  BY HeldType, DirectAgreeFact DEF Held, directVars
<1>2. CASE \E w \in Workers, m \in Message : ReserveFresh(w, m)
  <2>1. PICK w \in Workers, m \in Message : ReserveFresh(w, m)
    BY <1>2
  <2>2. lastSeq' = PreviousSeq + 1 /\ PreviousSeq < MaxSeq /\ UNCHANGED stored
        /\ original' = [original EXCEPT ![PreviousSeq + 1] = m]
    BY <2>1 DEF ReserveFresh
  <2>3. PreviousSeq + 1 \in DOMAIN original
    BY <1>1, <2>2, DirectFresh DEF TypeInv, TypeOK
  <2>4. ASSUME NEW r \in Issued', NEW v \in Workers, NEW n \in Message, ReserveFresh(v, n),
               r = [seq |-> PreviousSeq + 1, msg |-> n]
        PROVE  n = m
    BY <2>2, <2>3, <2>4 DEF ReserveFresh
  <2>5. Issued' \subseteq Issued \cup {[seq |-> PreviousSeq + 1, msg |-> m]}
    BY <1>1, <2>4, IssuedStep
  <2> QED
    BY <1>1, <2>2, <2>5, DirectAgreeGrows
<1>3. CASE ~\E w \in Workers, m \in Message : ReserveFresh(w, m)
  <2>1. lastSeq' = lastSeq
    BY <1>1, <1>3, LastSeqStep
  <2>2. Issued' \subseteq Issued
    BY <1>1, <1>3, IssuedStep
  <2>3. ASSUME NEW s \in Rows'
        PROVE  [seq |-> s, msg |-> stored'[s]] \in Issued \cup RowRecords
    <3>1. CASE stored'[s] = stored[s]
      BY <3>1 DEF RowRecords, Rows, HasRow
    <3>2. CASE Current \in Sent /\ s = Current.seq /\ stored'[s] = Current.msg
      <4>1. Current \in Issued /\ Current \in Record
        BY <1>1, <3>2, SentIssued
      <4> QED
        BY <3>2, <4>1 DEF Record
    <3> QED
      BY <1>1, <3>1, <3>2, RowStep DEF Rows
  <2>4. RowRecords' \subseteq Issued \cup RowRecords
    BY <2>3 DEF RowRecords
  <2> QED
    BY <1>1, <2>1, <2>2, <2>4, DirectAgreeStays
<1> QED
  BY <1>2, <1>3

\* An append moves the records of its own thread only.
LEMMA DirectTypeStep ==
  ASSUME DirectTypeInv, NEW a \in Appenders, Direct(a)
  PROVE  DirectTypeInv'
<1> USE DEF DirectTypeInv, To, sqlVars, kafkaVars, logicVars
<1>0. /\ TypeOK /\ at \in [Appenders -> {"idle", "insert", "mark", "last"}]
      /\ mine \in [Appenders -> Record \cup {NoMessage}]
      /\ \A b \in Appenders : at[b] = "idle" <=> mine[b] = NoMessage
      /\ NoMessage \notin Record /\ MaxSeq \in Nat \ {0}
  BY DirectAssumption, OutboxAssumption DEF DirectTypeOK
<1>1. UNCHANGED <<kafkaVars, logicVars, jobPc, acked>>
  BY DEF Direct, DirectReserve, DirectInsert, DirectMark, DirectLast, DirectFail, vars
<1>2. Waiting'
  BY <1>1 DEF Waiting
<1>3. ASSUME NEW m \in Message, DirectReserve(a, m)
      PROVE  DirectTypeOK' /\ NotNull'
  <2> DEFINE s == PreviousSeq + 1
  <2>1. s \in Seqs
    BY <1>0, <1>3, PreviousSeqType DEF DirectReserve, Seqs
  <2>2. [seq |-> s, msg |-> m] \in Record
    BY <2>1 DEF Record
  <2>3. /\ stage' = [stage EXCEPT ![s] = Reserved] /\ original' = [original EXCEPT ![s] = m]
        /\ lastSeq' = s /\ mine' = [mine EXCEPT ![a] = [seq |-> s, msg |-> m]]
        /\ at' = [at EXCEPT ![a] = "insert"] /\ UNCHANGED <<stored, sessionLast>>
    BY <1>3 DEF DirectReserve
  <2> HIDE DEF s
  <2>4. stage' \in [Seqs -> Stages] /\ original' \in [Seqs -> Message \cup {NoMessage}] /\ lastSeq' \in 0..MaxSeq
    BY <1>0, <2>1, <2>3 DEF TypeOK, Stages, Gone, Sealed, Reserved, Seqs
  <2>5. TypeOK'
    BY <1>0, <1>1, <2>3, <2>4 DEF TypeOK
  <2>6. NotNull'
    BY <1>0, <2>1, <2>3 DEF NotNull, TypeOK
  <2>7. \A b \in Appenders : at'[b] = "idle" <=> mine'[b] = NoMessage
    BY <1>0, <2>2, <2>3
  <2>8. /\ at' \in [Appenders -> {"idle", "insert", "mark", "last"}]
        /\ mine' \in [Appenders -> Record \cup {NoMessage}]
    BY <1>0, <2>2, <2>3
  <2> QED
    BY <2>5, <2>6, <2>7, <2>8 DEF DirectTypeOK
<1>4. ASSUME at[a] # "idle"
      PROVE  mine[a] \in Record /\ mine[a].seq \in Seqs /\ mine[a].msg \in Message
  BY <1>0, <1>4 DEF Record
<1>5. ASSUME at[a] # "idle", UNCHANGED mine, NEW place \in {"insert", "mark", "last"}, To(a, place)
      PROVE  DirectTypeOK' <=> TypeOK'
  BY <1>0, <1>5 DEF DirectTypeOK
<1>6. CASE DirectInsert(a)
  <2>1. at[a] # "idle" /\ UNCHANGED <<mine, lastSeq, stage, original, sessionLast>> /\ To(a, "mark")
        /\ stored' = [stored EXCEPT ![mine[a].seq] = mine[a].msg]
    BY <1>6 DEF DirectInsert
  <2>2. stored' \in [Seqs -> Message \cup {NoMessage}]
    BY <1>0, <1>4, <2>1 DEF TypeOK
  <2>3. TypeOK'
    BY <1>0, <1>1, <2>1, <2>2 DEF TypeOK
  <2> QED
    BY <1>2, <1>5, <2>1, <2>3 DEF NotNull
<1>7. CASE DirectMark(a)
  <2>1. at[a] # "idle" /\ UNCHANGED <<mine, lastSeq, stored, original, sessionLast>> /\ To(a, "last")
        /\ stage' = [stage EXCEPT ![mine[a].seq] = IF @ \in {Gone, Sealed} THEN @ ELSE Persisted]
    BY <1>7 DEF DirectMark
  <2>2. stage' \in [Seqs -> Stages] /\ \A s \in Seqs : stage'[s] # Gone => stage[s] # Gone
    BY <1>0, <1>4, <2>1 DEF TypeOK, Stages, Gone, Sealed, Persisted
  <2>3. TypeOK'
    BY <1>0, <1>1, <2>1, <2>2 DEF TypeOK
  <2> QED
    BY <1>2, <1>5, <2>1, <2>2, <2>3 DEF NotNull
<1>8. CASE DirectLast(a) \/ DirectFail(a)
  <2>1. /\ UNCHANGED <<lastSeq, stage, stored, original>>
        /\ sessionLast' \in {sessionLast, mine[a].seq} /\ at[a] # "idle"
        /\ at' = [at EXCEPT ![a] = "idle"] /\ mine' = [mine EXCEPT ![a] = NoMessage]
    BY <1>8 DEF DirectLast, DirectFail, vars
  <2>2. TypeOK'
    BY <1>0, <1>1, <1>4, <2>1 DEF TypeOK, Seqs
  <2>3. DirectTypeOK'
    BY <1>0, <2>1, <2>2 DEF DirectTypeOK
  <2> QED
    BY <1>2, <2>1, <2>3 DEF NotNull
<1> QED
  BY <1>2, <1>3, <1>6, <1>7, <1>8 DEF Direct

LEMMA DirectAgreeStep ==
  ASSUME DirectTypeInv, DirectAgree, NEW a \in Appenders, Direct(a)
  PROVE  DirectAgree'
<1> USE DEF To, sqlVars, kafkaVars, logicVars
<1>0. /\ TypeInv /\ Held \subseteq Record /\ (at[a] # "idle" => mine[a] \in Held)
      /\ stage \in [Seqs -> Stages] /\ original \in [Seqs -> Message \cup {NoMessage}]
      /\ stored \in [Seqs -> Message \cup {NoMessage}]
      /\ at \in [Appenders -> {"idle", "insert", "mark", "last"}]
      /\ mine \in [Appenders -> Record \cup {NoMessage}]
  BY HeldType DEF TypeInv, TypeOK, DirectTypeInv, DirectTypeOK
<1>1. UNCHANGED Sent /\ UNCHANGED <<pc, rec>>
  <2>1. UNCHANGED <<kafkaVars, logicVars>>
    BY DEF Direct, DirectReserve, DirectInsert, DirectMark, DirectLast, DirectFail, vars
  <2> QED
    BY <2>1 DEF Sent
<1>2. ASSUME \A s \in Seqs : stage'[s] # Gone => stage[s] # Gone, UNCHANGED original
      PROVE  Issued' \subseteq Issued
  BY <1>1, <1>2 DEF Issued
<1>3. ASSUME UNCHANGED stored
      PROVE  RowRecords' = RowRecords
  BY <1>3 DEF RowRecords, Rows, HasRow
<1>4. ASSUME NEW m \in Message, DirectReserve(a, m)
      PROVE  DirectAgree'
  <2> DEFINE new == [seq |-> PreviousSeq + 1, msg |-> m]
  <2>1. /\ PreviousSeq < MaxSeq /\ lastSeq' = PreviousSeq + 1 /\ UNCHANGED stored
        /\ stage' = [stage EXCEPT ![PreviousSeq + 1] = Reserved]
        /\ original' = [original EXCEPT ![PreviousSeq + 1] = m]
        /\ mine' = [mine EXCEPT ![a] = new] /\ at' = [at EXCEPT ![a] = "insert"]
    BY <1>4 DEF DirectReserve
  <2>2. PreviousSeq + 1 \in Seqs
    BY <2>1, DirectFresh
  <2>3. Held' \subseteq Held \cup {new}
    BY <1>0, <2>1 DEF Held
  <2>4. ASSUME NEW s \in Seqs, stage'[s] # Gone
        PROVE  [seq |-> s, msg |-> original'[s]] \in Issued \cup {new}
    <3>1. CASE s = PreviousSeq + 1
      BY <1>0, <2>1, <2>2, <3>1
    <3>2. CASE s # PreviousSeq + 1
      <4>1. stage[s] # Gone /\ original'[s] = original[s]
        BY <1>0, <2>1, <2>4, <3>2
      <4> QED
        BY <4>1 DEF Issued
    <3> QED
      BY <3>1, <3>2
  <2>5. Issued' \subseteq Issued \cup {new}
    <3> SUFFICES ASSUME NEW r \in Issued' PROVE r \in Issued \cup {new}
      OBVIOUS
    <3>1. CASE r \in Sent' \/ \E o \in Senders : pc'[o] \in {"prepare", "readback"} /\ r = rec'[o]
      BY <1>1, <3>1 DEF Issued
    <3>2. CASE \E s \in Seqs : stage'[s] # Gone /\ r = [seq |-> s, msg |-> original'[s]]
      BY <2>4, <3>2
    <3> QED
      BY <3>1, <3>2 DEF Issued
  <2> QED
    BY <2>1, <2>3, <2>5, DirectAgreeGrows
<1>5. CASE DirectInsert(a)
  <2>1. /\ at[a] # "idle" /\ UNCHANGED <<lastSeq, stage, original, mine>>
        /\ stored' = [stored EXCEPT ![mine[a].seq] = mine[a].msg]
        /\ at' = [at EXCEPT ![a] = "mark"]
    BY <1>5 DEF DirectInsert
  <2>2. Held' \subseteq Held
    BY <1>0, <2>1 DEF Held
  <2>3. Issued' \subseteq Issued
    BY <1>2, <2>1
  <2>4. mine[a] \in Held /\ mine[a] = [seq |-> mine[a].seq, msg |-> mine[a].msg]
    <3>1. mine[a] \in Held /\ mine[a] \in Record
      BY <1>0, <2>1
    <3> QED
      BY <3>1 DEF Record
  <2>5. ASSUME NEW s \in Rows'
        PROVE  [seq |-> s, msg |-> stored'[s]] \in RowRecords \cup Held
    <3>1. CASE s = mine[a].seq
      BY <1>0, <2>1, <2>4, <3>1 DEF Rows
    <3>2. CASE s # mine[a].seq
      <4>1. stored'[s] = stored[s] /\ s \in Seqs /\ stored'[s] # NoMessage
        BY <1>0, <2>1, <3>2 DEF Rows, HasRow
      <4> QED
        BY <4>1 DEF RowRecords, Rows, HasRow
    <3> QED
      BY <3>1, <3>2
  <2>6. RowRecords' \subseteq RowRecords \cup Held
    BY <2>5 DEF RowRecords
  <2> QED
    BY <2>1, <2>2, <2>3, <2>6, DirectAgreeStays
<1>6. CASE DirectMark(a) \/ DirectLast(a) \/ DirectFail(a)
  <2>1. at[a] # "idle" /\ UNCHANGED <<lastSeq, stored, original>>
    BY <1>6 DEF DirectMark, DirectLast, DirectFail, vars
  <2>2. Held' \subseteq Held
    <3>1. CASE DirectMark(a)
      BY <1>0, <3>1 DEF DirectMark, Held
    <3>2. CASE DirectLast(a) \/ DirectFail(a)
      <4>1. at' = [at EXCEPT ![a] = "idle"] /\ mine' = [mine EXCEPT ![a] = NoMessage]
        BY <3>2 DEF DirectLast, DirectFail
      <4> QED
        BY <1>0, <4>1 DEF Held
    <3> QED
      BY <1>6, <3>1, <3>2
  <2>3. \A s \in Seqs : stage'[s] # Gone => stage[s] # Gone
    BY <1>0, <1>6 DEF DirectMark, DirectLast, DirectFail, vars, Gone, Persisted, Sealed
  <2> QED
    BY <1>2, <1>3, <2>1, <2>2, <2>3, DirectAgreeStays
<1> QED
  BY <1>4, <1>5, <1>6 DEF Direct

\* An append whose row is written, and one whose row is not: as long as no append outlives
\* the 10 minutes, the reservation of the second holds the safe prefix below its number.
AppendsAgree ==
  \A a \in Appenders :
    /\ at[a] \in {"mark", "last"} => HasRow(mine[a].seq)
    /\ Grace /\ at[a] = "insert" => HasRow(mine[a].seq) \/ stage[mine[a].seq] \in Unsettled

DirectInv ==
  /\ DirectTypeInv /\ DirectAgree /\ AppendsAgree
  /\ StageAgrees /\ SentAgrees /\ JobAgrees /\ ReportsAreTrue /\ AcceptedIsDurable

\* What an append does to the tables.
LEMMA AppendStep ==
  ASSUME DirectTypeInv, DirectAgree, NEW a \in Appenders, Direct(a)
  PROVE  /\ UNCHANGED <<kafkaVars, logicVars, jobPc, Sent>>
         /\ \A s \in Seqs :
              \/ stage'[s] = stage[s]
              \/ DirectMark(a) /\ s = mine[a].seq /\ stage[s] \notin {Gone, Sealed} /\ stage'[s] = Persisted
              \/ PreviousSeq < MaxSeq /\ s = PreviousSeq + 1 /\ stage'[s] = Reserved
         /\ \A s \in Seqs :
              \/ stored'[s] = stored[s]
              \/ /\ DirectInsert(a) /\ s = mine[a].seq /\ ~HasRow(s)
                 /\ stored'[s] = mine[a].msg /\ mine[a].msg \in Message
<1> USE DEF sqlVars, kafkaVars, logicVars, To
<1>0. /\ stage \in [Seqs -> Stages] /\ stored \in [Seqs -> Message \cup {NoMessage}]
      /\ mine \in [Appenders -> Record \cup {NoMessage}]
      /\ at[a] # "idle" => mine[a] \in Record
  BY HeldType DEF DirectTypeInv, DirectTypeOK, TypeOK
<1>1. UNCHANGED <<kafkaVars, logicVars, jobPc>>
  BY DEF Direct, DirectReserve, DirectInsert, DirectMark, DirectLast, DirectFail, vars
<1>2. UNCHANGED Sent
  BY <1>1 DEF Sent
<1>3. ASSUME NEW s \in Seqs
      PROVE  \/ stage'[s] = stage[s]
             \/ DirectMark(a) /\ s = mine[a].seq /\ stage[s] \notin {Gone, Sealed} /\ stage'[s] = Persisted
             \/ PreviousSeq < MaxSeq /\ s = PreviousSeq + 1 /\ stage'[s] = Reserved
  BY <1>0 DEF Direct, DirectReserve, DirectInsert, DirectMark, DirectLast, DirectFail, vars
<1>4. ASSUME NEW s \in Seqs
      PROVE  \/ stored'[s] = stored[s]
             \/ /\ DirectInsert(a) /\ s = mine[a].seq /\ ~HasRow(s)
                /\ stored'[s] = mine[a].msg /\ mine[a].msg \in Message
  <2>1. CASE DirectInsert(a)
    <3>1. /\ mine[a].msg \in Message /\ stored[mine[a].seq] \in {NoMessage, mine[a].msg}
          /\ stored' = [stored EXCEPT ![mine[a].seq] = mine[a].msg]
      BY <1>0, <2>1 DEF DirectInsert, Record
    <3> QED
      BY <1>0, <2>1, <3>1 DEF HasRow
  <2>2. CASE ~DirectInsert(a)
    BY <2>2 DEF Direct, DirectReserve, DirectMark, DirectLast, DirectFail, vars
  <2> QED
    BY <2>1, <2>2
<1> QED
  BY <1>1, <1>2, <1>3, <1>4

\* No append takes a row away.
LEMMA AppendKeepsRows ==
  ASSUME DirectTypeInv, DirectAgree, NEW a \in Appenders, Direct(a)
  PROVE  \A s \in Seqs : HasRow(s) => stored'[s] # NoMessage
<1>1. \A m \in Message : m # NoMessage
  BY OutboxAssumption DEF Message
<1> QED
  BY <1>1, AppendStep DEF HasRow

\* An append leaves what the stages say, what was sent and what the Job did as it was.
LEMMA AppendKeepsOutbox ==
  ASSUME DirectInv, NEW a \in Appenders, Direct(a)
  PROVE  StageAgrees' /\ SentAgrees' /\ JobAgrees'
<1> USE DEF Gone, Reserved, Persisted, Sealed
<1>0. /\ DirectTypeInv /\ DirectAgree /\ TypeInv /\ Issued \subseteq Record
      /\ UNCHANGED <<kafkaVars, logicVars, jobPc, Sent>>
  BY HeldType, IssuedType, AppendStep DEF DirectInv
<1>1. ASSUME NEW s \in Seqs, stage'[s] = Persisted
      PROVE  HasRow(s)'
  <2>1. DirectMark(a) => HasRow(mine[a].seq)
    BY DEF DirectMark, DirectInv, AppendsAgree
  <2>2. HasRow(s)
    BY <1>0, <1>1, <2>1, AppendStep DEF DirectInv, StageAgrees
  <2> QED
    BY <1>0, <2>2, AppendKeepsRows DEF HasRow
\* the reservation of a record in use is not the one being made
<1>2. ASSUME NEW r \in Issued
      PROVE  /\ r.seq \in Seqs
             /\ \/ stage'[r.seq] = stage[r.seq]
                \/ stage[r.seq] \notin {Gone, Sealed} /\ stage'[r.seq] = Persisted
  <2>1. r.seq \in Seqs
    BY <1>0 DEF Record
  <2>2. PreviousSeq < MaxSeq => r.seq # PreviousSeq + 1
    BY <1>0, <2>1, DirectFresh DEF Seqs
  <2> QED
    BY <1>0, <2>1, <2>2, AppendStep
<1>3. ASSUME NEW o \in Senders, pc'[o] = "readback"
      PROVE  stage'[rec'[o].seq] # Reserved
  <2>1. pc[o] = "readback" /\ rec'[o] = rec[o]
    BY <1>0, <1>3 DEF logicVars
  <2>2. rec[o] \in Issued
    BY <2>1 DEF Issued
  <2> QED
    BY <1>2, <2>1, <2>2 DEF DirectInv, StageAgrees
<1>4. StageAgrees'
  BY <1>1, <1>3 DEF StageAgrees
<1>5. SentAgrees'
  <2> SUFFICES ASSUME NEW r \in Sent
               PROVE  /\ stage'[r.seq] \notin {Reserved, Sealed}
                      /\ stage'[r.seq] = Gone => stored'[r.seq] # NoMessage
    BY <1>0 DEF SentAgrees, HasRow
  <2>1. r \in Issued
    BY DEF Issued
  <2>2. stage[r.seq] \notin {Reserved, Sealed} /\ (stage[r.seq] = Gone => HasRow(r.seq))
    BY DEF DirectInv, SentAgrees
  <2> QED
    BY <1>0, <1>2, <2>1, <2>2, AppendKeepsRows
<1>6. JobAgrees'
  <2>1. /\ UNCHANGED <<log, committed, dlq, jobPc>> /\ Current' = Current
        /\ log \in Seq(Record) /\ committed \in 0..Len(log)
        /\ jobPc \in {"mark", "last", "commit"} => committed < Len(log)
    BY <1>0 DEF kafkaVars, Current, TypeInv, TypeOK, JobPlaces
  <2>2. ASSUME NEW i \in DOMAIN log
        PROVE  log[i].seq \in Seqs
    <3>1. log[i] \in Record
      BY <2>1
    <3> QED
      BY <3>1 DEF Record
  <2>3. ASSUME NEW i \in DOMAIN log, HasRow(log[i].seq)
        PROVE  stored'[log[i].seq] # NoMessage
    BY <1>0, <2>2, <2>3, AppendKeepsRows
  <2>4. \A i \in 1..committed : i \in DOMAIN log
    BY <2>1
  <2>5. jobPc \in {"mark", "last", "commit"} => committed + 1 \in DOMAIN log
    BY <2>1
  <2>6. jobPc \in {"mark", "last", "commit"} => (HasRow(Current.seq) => stored'[Current.seq] # NoMessage)
    BY <2>1, <2>3, <2>5 DEF Current
  <2>7. \A i \in 1..committed : stored'[log[i].seq] # NoMessage \/ log[i] \in dlq
    BY <2>3, <2>4 DEF DirectInv, JobAgrees
  <2> QED
    BY <2>1, <2>6, <2>7 DEF DirectInv, JobAgrees, HasRow
<1> QED
  BY <1>4, <1>5, <1>6

\* An append confirms no record and takes nothing away from an accepted message.
LEMMA AppendKeepsAccepted ==
  ASSUME DirectInv, NEW a \in Appenders, Direct(a)
  PROVE  ReportsAreTrue' /\ AcceptedIsDurable'
<1>0. /\ DirectTypeInv /\ DirectAgree /\ UNCHANGED <<kafkaVars, logicVars>>
  BY AppendStep DEF DirectInv
<1>1. UNCHANGED acked
  BY DEF Direct, DirectReserve, DirectInsert, DirectMark, DirectLast, DirectFail, vars
<1>2. acked \subseteq Message /\ \A m \in Message : m # NoMessage
  BY <1>0, OutboxAssumption DEF DirectTypeInv, DirectTypeOK, TypeOK, Message
<1>3. ASSUME NEW s \in Seqs, HasRow(s)
      PROVE  stored'[s] = stored[s]
  BY <1>0, <1>3, AppendStep
<1>4. ASSUME NEW m \in acked
      PROVE  Durable(m)'
  <2>1. Durable(m) /\ m # NoMessage
    BY <1>2 DEF DirectInv, AcceptedIsDurable
  <2>2. ASSUME NEW s \in Seqs, stored[s] = m
        PROVE  stored'[s] = m
    BY <1>3, <2>1, <2>2 DEF HasRow
  <2> QED
    BY <1>0, <2>1, <2>2 DEF Durable, kafkaVars
<1> QED
  BY <1>0, <1>1, <1>4 DEF DirectInv, ReportsAreTrue, AcceptedIsDurable, kafkaVars, logicVars

\* The appends themselves, whether it is one of them that moves or the outbox.
LEMMA AppendsAgreeStep ==
  ASSUME DirectInv, NEW a \in Appenders, Direct(a)
  PROVE  AppendsAgree'
<1> USE DEF Gone, Reserved, Persisted, Sealed
<1>0. /\ DirectTypeInv /\ DirectAgree /\ Held \subseteq Record
      /\ at \in [Appenders -> {"idle", "insert", "mark", "last"}]
      /\ mine \in [Appenders -> Record \cup {NoMessage}]
      /\ stage \in [Seqs -> Stages] /\ stored \in [Seqs -> Message \cup {NoMessage}]
      /\ \A b \in Appenders : at[b] # "idle" => mine[b] \in Held /\ mine[b].seq \in Seqs
  BY HeldType DEF DirectInv, DirectTypeInv, DirectTypeOK, TypeOK, Record
<1> SUFFICES ASSUME NEW b \in Appenders
             PROVE  /\ at'[b] \in {"mark", "last"} => stored'[mine'[b].seq] # NoMessage
                    /\ Grace /\ at'[b] = "insert" =>
                         stored'[mine'[b].seq] # NoMessage \/ stage'[mine'[b].seq] \in Unsettled
  BY DEF AppendsAgree, HasRow
<1>1. ASSUME at'[b] = at[b], mine'[b] = mine[b], at[b] # "idle"
      PROVE  /\ at'[b] \in {"mark", "last"} => stored'[mine'[b].seq] # NoMessage
             /\ Grace /\ at'[b] = "insert" =>
                  stored'[mine'[b].seq] # NoMessage \/ stage'[mine'[b].seq] \in Unsettled
  <2> DEFINE s == mine[b].seq
  <2>1. s \in Seqs /\ mine[b] \in Held
    BY <1>0, <1>1
  <2>2. HasRow(s) => stored'[s] # NoMessage
    BY <1>0, <2>1, AppendKeepsRows
  <2>3. DirectMark(a) => HasRow(mine[a].seq)
    BY DEF DirectMark, DirectInv, AppendsAgree
  <2>4. PreviousSeq < MaxSeq => s # PreviousSeq + 1
    BY <1>0, <2>1, DirectFresh DEF Seqs
  <2>5. stage'[s] = stage[s] \/ HasRow(s)
    BY <1>0, <2>1, <2>3, <2>4, AppendStep
  <2> QED
    BY <1>1, <2>2, <2>5 DEF DirectInv, AppendsAgree, HasRow
<1>2. CASE b # a
  <2>1. at'[b] = at[b] /\ mine'[b] = mine[b]
    BY <1>0, <1>2 DEF Direct, DirectReserve, DirectInsert, DirectMark, DirectLast, DirectFail, To
  <2> QED
    BY <1>1, <2>1
<1>3. CASE b = a
  <2>1. ASSUME NEW m \in Message, DirectReserve(a, m)
        PROVE  at'[a] = "insert" /\ stage'[mine'[a].seq] \in Unsettled
    <3>1. PreviousSeq + 1 \in Seqs
      BY <1>0, <2>1, DirectFresh DEF DirectReserve
    <3> QED
      BY <1>0, <2>1, <3>1 DEF DirectReserve, To, Unsettled
  <2>2. CASE DirectInsert(a)
    <3>1. /\ at'[a] = "mark" /\ mine'[a] = mine[a] /\ mine[a] \in Record
          /\ stored' = [stored EXCEPT ![mine[a].seq] = mine[a].msg]
      BY <1>0, <2>2 DEF DirectInsert, To
    <3>2. stored'[mine[a].seq] = mine[a].msg /\ mine[a].msg \in Message
      BY <1>0, <3>1 DEF Record
    <3>3. mine[a].msg # NoMessage
      BY <3>2, OutboxAssumption DEF Message
    <3> QED
      BY <1>3, <3>1, <3>2, <3>3 DEF HasRow
  <2>3. CASE DirectMark(a)
    <3>1. /\ at[a] = "mark" /\ at'[a] = "last" /\ mine'[a] = mine[a] /\ UNCHANGED stored
      BY <1>0, <2>3 DEF DirectMark, To, sqlVars
    <3> QED
      BY <1>3, <3>1 DEF DirectInv, AppendsAgree, HasRow
  <2>4. CASE DirectLast(a) \/ DirectFail(a)
    <3>1. at'[a] = "idle"
      BY <1>0, <2>4 DEF DirectLast, DirectFail
    <3> QED
      BY <1>3, <3>1
  <2> QED
    BY <1>3, <2>1, <2>2, <2>3, <2>4 DEF Direct
<1> QED
  BY <1>2, <1>3

LEMMA OutboxKeepsAppends ==
  ASSUME DirectInv, Next, \A a \in Appenders : InTime(a), UNCHANGED directVars
  PROVE  AppendsAgree'
<1> USE DEF Gone, Reserved, Prepared, Published, Persisted, Sealed, Unsettled
<1>0. /\ DirectTypeInv /\ DirectAgree /\ TypeInv /\ [Next]_vars
      /\ stage \in [Seqs -> Stages]
      /\ \A b \in Appenders : at[b] # "idle" => mine[b] \in Held /\ mine[b].seq \in Seqs
  BY HeldType DEF DirectInv, TypeInv, TypeOK, Record
<1> SUFFICES ASSUME NEW a \in Appenders, at[a] # "idle"
             PROVE  /\ at[a] \in {"mark", "last"} => stored'[mine[a].seq] # NoMessage
                    /\ Grace /\ at[a] = "insert" => stored'[mine[a].seq] # NoMessage \/ stage'[mine[a].seq] \in Unsettled
  BY DEF AppendsAgree, HasRow, directVars
<1> DEFINE s == mine[a].seq
<1>1. s \in Seqs /\ mine[a] \in Held
  BY <1>0
<1>2. HasRow(s) => stored'[s] # NoMessage
  BY <1>0, <1>1, TopicStep DEF HasRow
<1>3. Grace => (stage'[s] = Sealed => stage[s] = Sealed)
  BY DEF InTime
<1>4. ASSUME NEW w \in Workers, NEW m \in Message, ReserveFresh(w, m)
      PROVE  s # PreviousSeq + 1
  BY <1>0, <1>1, <1>4, DirectFresh DEF ReserveFresh, Seqs
<1>5. ASSUME MarkPersisted, s = Current.seq
      PROVE  HasRow(s)
  BY <1>5 DEF DirectInv, JobAgrees, MarkPersisted
<1>6. Grace /\ stage[s] \in Unsettled => stage'[s] \in Unsettled \/ HasRow(s)
  BY <1>0, <1>1, <1>3, <1>4, <1>5, StageStep
<1> QED
  BY <1>1, <1>2, <1>6 DEF DirectInv, AppendsAgree, HasRow

LEMMA DirectStep ==
  ASSUME DirectInv, [DirectNext]_<<vars, directVars>>
  PROVE  DirectInv'
<1> USE DEF DirectInv
<1>0. TypeInv /\ Agree
  BY HeldType, DirectAgreeFact
<1>1. ASSUME Next, \A a \in Appenders : InTime(a), UNCHANGED directVars
      PROVE  DirectInv'
  <2>1. TypeInv'
    BY <1>0, <1>1, TypeStep, WaitingStep, NotNullStep DEF TypeInv
  <2>2. DirectTypeInv'
    BY <1>1, <2>1 DEF DirectTypeInv, DirectTypeOK, TypeInv, directVars
  <2>3. DirectAgree' /\ AppendsAgree'
    BY <1>1, OutboxKeepsHeld, OutboxKeepsAppends
  <2>4. StageAgrees' /\ SentAgrees' /\ JobAgrees'
    BY <1>0, <1>1, StageAgreesStep, SentAgreesStep, JobAgreesStep
  <2>5. ReportsAreTrue' /\ AcceptedIsDurable'
    BY <1>0, <1>1, ReportsStep, AcceptedStep
  <2> QED
    BY <2>2, <2>3, <2>4, <2>5
<1>2. ASSUME NEW a \in Appenders, Direct(a)
      PROVE  DirectInv'
  BY <1>2, DirectTypeStep, DirectAgreeStep, AppendKeepsOutbox, AppendKeepsAccepted, AppendsAgreeStep
<1>3. CASE UNCHANGED <<vars, directVars>>
  <2>1. [Next]_vars
    BY <1>3
  <2>2. TypeInv'
    BY <1>0, <2>1, TypeStep, WaitingStep, NotNullStep DEF TypeInv
  <2>3. DirectTypeInv'
    BY <1>3, <2>2 DEF DirectTypeInv, DirectTypeOK, TypeInv, directVars
  <2>4. UNCHANGED <<lastSeq, Rows, RowRecords, Issued, Held>>
    BY <1>3 DEF vars, sqlVars, kafkaVars, logicVars, directVars, Rows, RowRecords, HasRow, Issued, Sent, Held
  <2>5. DirectAgree'
    BY <2>4, DirectAgreeStays
  <2>6. AppendsAgree'
    BY <1>3 DEF AppendsAgree, HasRow, vars, sqlVars, directVars
  <2>7. StageAgrees' /\ SentAgrees' /\ JobAgrees'
    BY <1>0, <2>1, StageAgreesStep, SentAgreesStep, JobAgreesStep
  <2>8. ReportsAreTrue' /\ AcceptedIsDurable'
    BY <1>0, <2>1, ReportsStep, AcceptedStep
  <2> QED
    BY <2>3, <2>5, <2>6, <2>7, <2>8
<1> QED
  BY <1>1, <1>2, <1>3 DEF DirectNext

LEMMA DirectInductive == DirectSpec => []DirectInv
<1>1. DirectInit => DirectInv
  <2> SUFFICES ASSUME DirectInit PROVE DirectInv
    OBVIOUS
  <2>1. IInv
    BY InitIInv DEF DirectInit
  <2>2. Held = {} /\ DirectTypeInv /\ AppendsAgree
    BY <2>1 DEF DirectInit, Held, DirectTypeInv, DirectTypeOK, IInv, TypeInv, AppendsAgree
  <2>3. DirectAgree
    BY <2>1, <2>2 DEF IInv, Agree, DirectAgree
  <2> QED
    BY <2>1, <2>2, <2>3 DEF IInv, DirectInv
<1> QED
  BY <1>1, DirectStep, PTL DEF DirectSpec

\* Beside the outbox and its recovery, an appender holds a record exactly while it has
\* statements left, and every table keeps its types.
THEOREM DirectTypes == DirectSpec => []DirectTypeOK
<1>1. DirectInv => DirectTypeOK
  BY DEF DirectInv, DirectTypeInv
<1> QED
  BY <1>1, DirectInductive, PTL

\* However long an append takes, and whatever the outbox seals, collects, resends or
\* replays meanwhile, InsertMessage finds no other message under the append's number.
THEOREM AppendsNeverCollide == DirectSpec => []NoCollision
<1>1. DirectInv => NoCollision
  <2> SUFFICES ASSUME DirectInv, NEW a \in Appenders, at[a] # "idle",
                      stored[mine[a].seq] # NoMessage
               PROVE  stored[mine[a].seq] = mine[a].msg
    BY DEF NoCollision
  <2> DEFINE row == [seq |-> mine[a].seq, msg |-> stored[mine[a].seq]]
  <2>1. mine[a] \in Held /\ mine[a] \in Record
    BY HeldType DEF DirectInv
  <2>2. row \in RowRecords
    BY <2>1 DEF RowRecords, Rows, HasRow, Record
  <2>3. row.seq = mine[a].seq
    OBVIOUS
  <2> HIDE DEF row
  <2>4. row.msg = mine[a].msg
    BY <2>1, <2>2, <2>3 DEF DirectInv, DirectAgree
  <2> QED
    BY <2>4 DEF row
<1> QED
  BY <1>1, DirectInductive, PTL

\* Appends beside the outbox cost no accepted message: none of them writes over a row, and
\* none takes a number whose record is still on its way.
THEOREM AppendsKeepAccepted == DirectSpec => []AcceptedIsDurable
<1>1. DirectInv => AcceptedIsDurable
  BY DEF DirectInv
<1> QED
  BY <1>1, DirectInductive, PTL

\* With two kinds of writers on one counter a number still stands for one message, in the
\* reservations, the rows and every record.
THEOREM AppendsKeepNumbers == DirectSpec => []OneMessagePerSeq
<1>1. DirectInv => OneMessagePerSeq
  BY HeldType, DirectAgreeFact, OneMessageFact DEF DirectInv
<1> QED
  BY <1>1, DirectInductive, PTL

\* A record that is sent stays ahead of the safe prefix beside direct appends too, even when
\* an append outlives the 10 minutes: what a late append breaks is only its own number.
THEOREM AppendsKeepSentAhead == DirectSpec => []SentStaysAhead
<1>1. DirectInv => SentStaysAhead
  BY HeldType, SentAheadFact DEF DirectInv
<1> QED
  BY <1>1, DirectInductive, PTL

\* With the grace kept an append is ahead of every cursor as well until its row is there: its
\* reservation is neither sealed nor collected under it, and holds the safe prefix below its number.
THEOREM AppendsStayAhead == Grace => (DirectSpec => []WritersStayAhead)
<1>1. ASSUME Grace, DirectInv
      PROVE  WritersStayAhead
  <2>1. TypeInv /\ IsSafePrefix /\ SentStaysAhead
    BY <1>1, HeldType, SafePrefixFact, SentAheadFact DEF DirectInv
  <2>2. ASSUME NEW a \in Appenders, at[a] = "insert", ~HasRow(mine[a].seq)
        PROVE  SafePrefix < mine[a].seq
    <3>1. mine[a].seq \in Seqs /\ stage[mine[a].seq] \in Unsettled
      BY <1>1, <2>2, HeldType DEF DirectInv, AppendsAgree, Record
    <3>2. SafePrefix <= mine[a].seq - 1
      BY <2>1, <3>1 DEF IsSafePrefix, Limits
    <3> QED
      BY <2>1, <3>1, <3>2, OutboxAssumption DEF Seqs, IsSafePrefix
  <2> QED
    BY <2>1, <2>2 DEF WritersStayAhead
<1>2. CASE Grace
  <2>1. DirectInv => WritersStayAhead
    BY <1>1, <1>2
  <2> QED
    BY <2>1, DirectInductive, PTL
<1> QED
  BY <1>2

\* An append leaves the safe prefix where it is or moves it up, as the outbox does.
LEMMA AppendGrows ==
  ASSUME DirectInv, DirectInv', NEW a \in Appenders, Direct(a)
  PROVE  SafePrefix <= SafePrefix'
<1> USE DEF IsLastRow, IsSafePrefix
<1>1a. DirectTypeInv /\ DirectAgree /\ TypeInv /\ IsLastRow /\ IsSafePrefix
  BY HeldType, LastRowFact, SafePrefixFact DEF DirectInv
<1>1b. IsLastRow' /\ IsSafePrefix'
  <2>1. DirectTypeInv'
    BY DEF DirectInv
  <2>2. DirectTypeInv' => TypeInv'
    BY HeldType, PTL
  <2>3. TypeInv' => IsLastRow' /\ IsSafePrefix'
    BY LastRowFact, SafePrefixFact, PTL
  <2> QED
    BY <2>1, <2>2, <2>3
<1>0. /\ MaxSeq \in Nat /\ lastSeq \in 0..MaxSeq
      /\ LastRow \in 0..MaxSeq /\ LastRow' \in 0..MaxSeq
      /\ SafePrefix \in 0..MaxSeq /\ PreviousSeq \in 0..MaxSeq
  BY <1>1a, <1>1b, OutboxAssumption, PreviousSeqType DEF TypeInv, TypeOK
<1>1. IF lastSeq > 0 THEN SafePrefix <= lastSeq ELSE SafePrefix <= LastRow
  BY <1>1a DEF Limits
<1>2. LastRow <= LastRow'
  <2>1. Rows \subseteq Rows'
    BY <1>1a, AppendKeepsRows DEF Rows, HasRow
  <2> QED
    BY <1>0, <2>1, <1>1a, <1>1b
<1>3. SafePrefix <= PreviousSeq
  <2>1. LastRow <= HistoryFloor
    BY <1>1a, HistoryFloorFact DEF TypeInv, Rows
  <2> QED
    BY <1>0, <1>1, <2>1, <1>1a, HistoryFloorFact DEF PreviousSeq, TypeInv
<1>4. lastSeq' = lastSeq \/ lastSeq' = PreviousSeq + 1
  BY DEF Direct, DirectReserve, DirectInsert, DirectMark, DirectLast, DirectFail, vars, sqlVars
<1>5. IF lastSeq' > 0 THEN SafePrefix <= lastSeq' ELSE SafePrefix <= LastRow'
  BY <1>0, <1>1, <1>2, <1>3, <1>4
<1>6. ASSUME NEW s \in Seqs, stage'[s] \in Unsettled
      PROVE  SafePrefix <= s - 1
  <2>1. CASE stage[s] \in Unsettled
    BY <2>1, <1>1a DEF Limits
  <2>2. CASE s = PreviousSeq + 1
    BY <1>0, <1>3, <2>2
  <2>3. stage[s] \in Unsettled \/ s = PreviousSeq + 1
    BY <1>1a, <1>6, AppendStep DEF Unsettled, Reserved, Prepared, Published, Persisted
  <2> QED
    BY <2>1, <2>2, <2>3
<1>7. \A n \in Limits' : SafePrefix <= n
  BY <1>5, <1>6 DEF Limits
<1>8. SafePrefix' \in Limits'
  BY <1>1b
<1> QED
  BY <1>7, <1>8

\* A step of the writers is a step of the log: until its row is there, an append's reservation holds
\* the safe prefix below its number.
LEMMA WritersKeepLog ==
  ASSUME Grace, DirectInv, DirectInv', [DirectNext]_<<vars, directVars>>
  PROVE  [Stable!StableNext]_<<stored, SafePrefix>>
<1>1. TypeInv /\ Agree
  BY HeldType, DirectAgreeFact DEF DirectInv
<1>2. TypeInv'
  <2>1. DirectTypeInv'
    BY DEF DirectInv
  <2>2. DirectTypeInv' => TypeInv'
    BY HeldType, PTL
  <2> QED
    BY <2>1, <2>2
<1>3. CASE [Next]_vars
  BY <1>1, <1>2, <1>3, OutboxKeepsLog DEF DirectInv
<1>4. ASSUME NEW a \in Appenders, Direct(a)
      PROVE  [Stable!StableNext]_<<stored, SafePrefix>>
  <2>0. IsSafePrefix /\ (TypeInv' => IsSafePrefix')
    BY <1>1, SafePrefixFact, PTL
  <2>1. SafePrefix' \in SafePrefix..MaxSeq
    BY <1>2, <1>4, <2>0, AppendGrows, OutboxAssumption DEF IsSafePrefix
  <2>2. CASE UNCHANGED stored
    BY <2>1, <2>2 DEF Stable!StableNext, Stable!Settle
  <2>3. CASE stored' # stored
    <3>1. PICK s \in Seqs : stored'[s] # stored[s]
      BY <1>1, <1>2, <2>3 DEF TypeInv, TypeOK
    <3>2. DirectInsert(a) /\ ~HasRow(s) /\ s = mine[a].seq /\ mine[a].msg \in Message
      BY <1>4, <3>1, AppendStep DEF DirectInv
    <3>3. stage[s] \in Unsettled
      BY <3>2 DEF DirectInv, AppendsAgree, DirectInsert
    <3>4. SafePrefix <= s - 1
      <4>1. s - 1 \in Limits
        BY <3>3 DEF Limits
      <4> QED
        BY <2>0, <4>1 DEF IsSafePrefix
    <3>5. SafePrefix < s
      BY <2>0, <3>4, OutboxAssumption DEF Seqs, IsSafePrefix
    <3>6. Stable!Store(s, mine[a].msg)
      BY <2>1, <3>2, <3>5 DEF Stable!Store, DirectInsert, HasRow
    <3> QED
      BY <3>2, <3>6 DEF Stable!StableNext, Stable!Seqs, Seqs
  <2> QED
    BY <2>2, <2>3
<1> QED
  BY <1>3, <1>4 DEF DirectNext

\* The log that readers rely on holds with the second writer beside the outbox too, as long
\* as an append ends within the 10 minutes that Seal waits: until its row is there, its
\* reservation holds the safe prefix below its number.
THEOREM AppendsKeepStableLog == Grace => (DirectSpec => ImplementsStableLog)
<1>1. DirectInit => Stable!StableInit
  BY LogBegins DEF DirectInit
<1>2. CASE Grace
  <2>1. DirectInv /\ DirectInv' /\ [DirectNext]_<<vars, directVars>> => [Stable!StableNext]_<<stored, SafePrefix>>
    BY <1>2, WritersKeepLog
  <2> QED
    BY DirectInductive, <1>1, <2>1, PTL DEF DirectSpec, ImplementsStableLog, Stable!StableSpec
<1> QED
  BY <1>2

=============================================================================
