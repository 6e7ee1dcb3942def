-------------------------- MODULE DurableConsumer --------------------------
(***************************************************************************)
(* common/kafka_consumer.cpp: how the members of one consumer group poll,  *)
(* handle and commit the records of one partition, in each of the three    *)
(* loops the class has:                                                    *)
(*                                                                         *)
(*   serial    one record at a time (Job, Logic)                           *)
(*   batch     lanes of records with the same key, one commit round for    *)
(*             the whole batch (hermes_bridge, processing_workers > 1)     *)
(*   controls  a deque whose front one worker handles while the loop polls *)
(*             on and handles control records at once (hermes_bridge with  *)
(*             interrupt_predicate)                                        *)
(*                                                                         *)
(* The three attempts of HandleMessage and the business callback are one   *)
(* "running" phase with the outcomes the code tells apart.  The broker may *)
(* give the partition to another member at any moment.                     *)
(***************************************************************************)
EXTENDS Integers, Sequences, FiniteSets, FiniteSetsExt, SequencesExt

CONSTANTS
  Consumers,    \* the members of the group, one per process
  NoConsumer,   \* nobody holds the partition
  Records,      \* number of records in the partition
  KeyOf,        \* Kafka key by offset
  Control,      \* offsets for which interrupt_predicate holds
  Lanes,        \* processing_workers of the batch loop
  MaxBatch,     \* max_batch_records
  Deployments   \* the options the processes are run with

Offsets == 1..Records

ASSUME ConsumerAssumption ==
  /\ Records \in Nat /\ MaxBatch \in Nat \ {0} /\ Lanes \in Nat \ {0}
  /\ NoConsumer \notin Consumers
  /\ Control \subseteq Offsets
  /\ DOMAIN KeyOf = Offsets
  /\ Deployments \subseteq [loop : {"serial", "batch", "controls"}, dlq : BOOLEAN]

VARIABLES
  opt,        \* Options of the deployment, the same for every member
  committed,  \* the group's offset: records 1..committed are consumed
  owner,      \* the member that holds the partition
  position,   \* the last record polled by the member that holds the partition
  pending,    \* per member, the records it polled and has not committed
  phase,      \* per member: "poll", "work" and "commit" of a batch, "failed"
  settled     \* history: records whose callback succeeded or whose DLQ record is confirmed

vars == <<opt, committed, owner, position, pending, phase, settled>>

-----------------------------------------------------------------------------

Serial   == opt.loop = "serial"
Batch    == opt.loop = "batch"
Controls == opt.loop = "controls"

Entry(r) == [off |-> r, st |-> "polled", lane |-> 0]

IsControl(e) == Controls /\ e.off \in Control

Slots(c) == DOMAIN pending[c]
Oldest(c) == pending[c][1]
Running(c) == {i \in Slots(c) : pending[c][i].st = "running"}

\* the loop thread is inside HandleMessage of a control record
Blocked(c) == \E i \in Running(c) : IsControl(pending[c][i])

Mark(c, i, st) == pending' = [pending EXCEPT ![c][i].st = st]

\* failed_ = true, running_ = false
Halt(c) == phase' = [phase EXCEPT ![c] = "failed"]

\* Mutant of Poll: the bounds of the batch and of the deque are off by one.
BadPoll(c) ==
  /\ phase[c] = "poll" /\ owner = c /\ position < Records
  /\ \/ Serial /\ pending[c] = <<>>
     \/ ~Serial /\ Len(pending[c]) <= MaxBatch /\ ~Blocked(c)
  /\ position' = position + 1
  /\ LET e == Entry(position + 1) IN
       pending' = [pending EXCEPT ![c] =
                     Append(@, IF Serial \/ IsControl(e) THEN [e EXCEPT !.st = "running"] ELSE e)]
  /\ UNCHANGED <<opt, committed, owner, phase, settled>>

\* consume(): the next record of the partition, in each loop where it calls it
Poll(c) ==
  /\ phase[c] = "poll" /\ owner = c /\ position < Records
  /\ \/ Serial /\ pending[c] = <<>>
     \/ Batch /\ Len(pending[c]) < MaxBatch
     \/ /\ Controls /\ Len(pending[c]) < MaxBatch /\ ~Blocked(c)
        /\ pending[c] # <<>> => Oldest(c).st # "polled"
  /\ position' = position + 1
  /\ LET e == Entry(position + 1) IN
       pending' = [pending EXCEPT ![c] =
                     Append(@, IF Serial \/ IsControl(e) THEN [e EXCEPT !.st = "running"] ELSE e)]
  /\ UNCHANGED <<opt, committed, owner, phase, settled>>

LaneCount(c) == Min({Len(pending[c]), Lanes})

Key(c, i) == KeyOf[pending[c][i].off]

\* records before the i-th that lane l has
Load(c, lane, i, l) == Cardinality({j \in 1..i - 1 : lane[j] = l})

\* Mutant of Assigned: every record goes to the shortest lane, whatever its key.
BadAssigned(c, lane) ==
  \A i \in Slots(c), l \in 1..LaneCount(c) :
    Load(c, lane, i, lane[i]) <= Load(c, lane, i, l)

\* assigned: a key keeps its lane, and a new key gets the first of the shortest ones.
Assigned(c, lane) ==
  \A i \in Slots(c) :
    LET same == {j \in 1..i - 1 : Key(c, j) = Key(c, i)} IN
      IF same # {} THEN \A j \in same : lane[i] = lane[j]
      ELSE \A l \in 1..LaneCount(c) :
             /\ Load(c, lane, i, lane[i]) <= Load(c, lane, i, l)
             /\ l < lane[i] => Load(c, lane, i, lane[i]) < Load(c, lane, i, l)

\* The window closes: ProcessBatch gives every key a lane.
StartBatch(c) ==
  /\ Batch /\ phase[c] = "poll" /\ pending[c] # <<>>
  /\ \E lane \in [Slots(c) -> 1..LaneCount(c)] :
       /\ Assigned(c, lane)
       /\ pending' = [pending EXCEPT ![c] =
                        [i \in Slots(c) |-> [pending[c][i] EXCEPT !.lane = lane[i]]]]
  /\ phase' = [phase EXCEPT ![c] = "work"]
  /\ UNCHANGED <<opt, committed, owner, position, settled>>

\* record i is next in its lane
NextInLane(c, i) ==
  /\ pending[c][i].st = "polled"
  /\ \A j \in 1..i - 1 : pending[c][j].lane = pending[c][i].lane => pending[c][j].st = "done"

\* A worker begins a record: the next of its lane, or the front of the deque.
Begin(c, i) ==
  /\ \/ Batch /\ phase[c] = "work" /\ NextInLane(c, i)
     \/ Controls /\ phase[c] = "poll" /\ ~Blocked(c) /\ i = 1 /\ Oldest(c).st = "polled"
  /\ Mark(c, i, "running")
  /\ UNCHANGED <<opt, committed, owner, position, phase, settled>>

\* HandleMessage returns true: the callback succeeded or the DLQ confirmed.
Handled(c, i) ==
  /\ i \in Running(c)
  /\ settled' = settled \cup {pending[c][i].off}
  /\ Mark(c, i, "done")
  /\ UNCHANGED <<opt, committed, owner, position, phase>>

\* Mutant of Unhandled: an unconfirmed dead letter counts as handled.
BadUnhandled(c, i) ==
  /\ i \in Running(c)
  /\ Mark(c, i, "done")
  /\ UNCHANGED <<opt, committed, owner, position, phase, settled>>

\* The attempts are exhausted.  With a DLQ, it did not confirm (the record may be there):
\* the consumer halts.  Without one, the serial loop goes on to commit and the others
\* return false: the lane ends, and the batch, or the controls loop, halts.
Unhandled(c, i) ==
  /\ i \in Running(c)
  /\ IF Serial /\ ~opt.dlq
     THEN Mark(c, i, "done") /\ UNCHANGED phase
     ELSE Mark(c, i, "lost") /\ (IF Batch /\ ~opt.dlq THEN UNCHANGED phase ELSE Halt(c))
  /\ UNCHANGED <<opt, committed, owner, position, settled>>

\* The workers of ProcessBatch are joined: commit if every record is durable, else halt.
Join(c) ==
  /\ Batch /\ phase[c] = "work"
  /\ Running(c) = {} /\ \A i \in Slots(c) : ~NextInLane(c, i)
  /\ phase' = [phase EXCEPT ![c] =
                 IF \A i \in Slots(c) : pending[c][i].st = "done" THEN "commit" ELSE "failed"]
  /\ UNCHANGED <<opt, committed, owner, position, pending, settled>>

\* the loop has reached commitSync for the oldest record it holds
MayCommit(c) ==
  /\ pending[c] # <<>> /\ Oldest(c).st = "done"
  /\ phase[c] = IF Batch THEN "commit" ELSE "poll"
  /\ ~Blocked(c)

\* After the last record of a batch the loop polls again.
AfterCommit(c) ==
  /\ pending' = [pending EXCEPT ![c] = Tail(@)]
  /\ phase' = [phase EXCEPT ![c] = IF Len(pending[c]) = 1 THEN "poll" ELSE @]

\* Mutant of Commit: a record is committed as soon as it is done.
BadCommit(c) ==
  /\ owner = c /\ phase[c] # "failed" /\ ~Blocked(c)
  /\ \E i \in Slots(c) :
       /\ pending[c][i].st = "done"
       /\ committed' = pending[c][i].off
       /\ pending' = [pending EXCEPT ![c] = RemoveAt(@, i)]
  /\ UNCHANGED <<opt, owner, position, phase, settled>>

\* commitSync, which the broker accepts from the member that holds the partition
Commit(c) ==
  /\ MayCommit(c) /\ owner = c
  /\ committed' = Oldest(c).off
  /\ AfterCommit(c)
  /\ UNCHANGED <<opt, owner, position, settled>>

\* commitSync fails: durable consumers halt, the others go on.
CommitFails(c) ==
  /\ MayCommit(c)
  /\ IF Serial /\ ~opt.dlq THEN AfterCommit(c) ELSE Halt(c) /\ UNCHANGED pending
  /\ UNCHANGED <<opt, committed, owner, position, settled>>

\* The process of a halted consumer exits once its workers are joined, and is restarted;
\* or it dies at any moment.  Closing the consumer, or its session timeout, frees the partition.
Leave(c) ==
  /\ owner' = IF owner = c THEN NoConsumer ELSE owner
  /\ pending' = [pending EXCEPT ![c] = <<>>]
  /\ phase' = [phase EXCEPT ![c] = "poll"]
  /\ UNCHANGED <<opt, committed, position, settled>>

\* Mutant of Restart: a halted process waits until it holds no record.
BadRestart(c) == phase[c] = "failed" /\ pending[c] = <<>> /\ Leave(c)

Restart(c) == phase[c] = "failed" /\ Running(c) = {} /\ Leave(c)
Crash(c)   == pending[c] # <<>> /\ Leave(c)

\* The partition is assigned to c, at the committed offset.
Assign(c) ==
  /\ owner # c /\ phase[c] # "failed"
  /\ owner' = c
  /\ position' = committed
  /\ UNCHANGED <<opt, committed, pending, phase, settled>>

Init ==
  /\ opt \in Deployments
  /\ committed = 0 /\ owner = NoConsumer /\ position = 0 /\ settled = {}
  /\ pending = [c \in Consumers |-> <<>>]
  /\ phase = [c \in Consumers |-> "poll"]

Loop(c) ==
  \/ Poll(c) \/ StartBatch(c) \/ Join(c) \/ Commit(c) \/ CommitFails(c)
  \/ \E i \in Slots(c) : Begin(c, i) \/ Handled(c, i) \/ Unhandled(c, i)

Next == \E c \in Consumers : Loop(c) \/ Restart(c) \/ Crash(c) \/ Assign(c)

Spec == Init /\ [][Next]_vars

\* The threads run, a halted process exits (the main loops poll failed() every 200 ms),
\* is restarted, and the group assigns a partition that nobody holds.
Fairness ==
  /\ \A c \in Consumers : WF_vars(Loop(c)) /\ WF_vars(Restart(c))
  /\ WF_vars(owner = NoConsumer /\ \E c \in Consumers : Assign(c))

\* A process dies, the partition is taken away from a member that is alive, the broker
\* refuses its commit, or a dead letter is not confirmed.
Trouble ==
  \/ \E c \in Consumers : Crash(c) \/ (owner = c /\ CommitFails(c))
  \/ \E c \in Consumers, i \in 1..MaxBatch : i \in Slots(c) /\ Unhandled(c, i)
  \/ owner # NoConsumer /\ owner' \notin {owner, NoConsumer}

\* It happens any number of times, not for ever.
TroubleEnds == <>[][~Trouble]_vars

FairSpec == Spec /\ Fairness /\ TroubleEnds

-----------------------------------------------------------------------------
(* Properties.                                                             *)

Statuses == {"polled", "running", "done", "lost"}

\* The type invariant; what a member holds never exceeds the window.
TypeOK ==
  /\ opt \in Deployments
  /\ committed \in 0..Records /\ position \in 0..Records
  /\ owner \in Consumers \cup {NoConsumer}
  /\ phase \in [Consumers -> {"poll", "work", "commit", "failed"}]
  /\ settled \subseteq Offsets
  /\ \A c \in Consumers :
       /\ pending[c] \in Seq([off : Offsets, st : Statuses, lane : 0..Lanes])
       /\ Len(pending[c]) <= MaxBatch

\* HandleMessage: "offsets are committed only after the business callback succeeded or the
\* DLQ write was confirmed", in every loop, whoever else holds the partition meanwhile.
CommittedIsSettled == 1..committed \subseteq settled

\* A session's turns reach the callback in their order: when a record is being handled,
\* every earlier one (of its key, in the batch loop) is over, also across batches, restarts
\* and rebalances.  Only a control record may overtake.
TurnsInOrder ==
  \A c \in Consumers : \A i \in Running(c) : ~IsControl(pending[c][i]) =>
    \A q \in 1..pending[c][i].off - 1 :
      q \in settled \/ (Batch /\ KeyOf[q] # KeyOf[pending[c][i].off])

\* The earlier records a record must follow: those of its key in the batch loop, none for a
\* control record, all of them otherwise.
Order ==
  [r \in Offsets |->
     IF Controls /\ r \in Control THEN {} ELSE {q \in 1..r - 1 : Batch => KeyOf[q] = KeyOf[r]}]

\* HandleMessage, ProcessBatch and LoopWithControls give every producer an ordered topic: a
\* step of any member settles one record after all it must follow, or moves the group's offset
\* to a place before which everything is settled, or is invisible.
Ordered == INSTANCE OrderedTopic WITH before <- Order

ImplementsOrderedTopic == Ordered!TopicSpec

\* With a DLQ every record is handled or dead-lettered in the end: no halt, restart or rebalance
\* leaves one behind.
EveryRecordIsSettled == \A r \in Offsets : opt.dlq ~> r \in settled

=============================================================================
