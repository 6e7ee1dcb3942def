----------------------- MODULE DurableConsumer_proofs -----------------------
(***************************************************************************)
(* Proofs about module DurableConsumer, for every group, partition length, *)
(* assignment of keys, number of lanes and window.                         *)
(***************************************************************************)
EXTENDS DurableConsumer, SequenceTheorems, TLAPS

\* consumers that commit nothing they have not settled
IsDurable == opt.dlq \/ ~Serial

Entries == [off : Offsets, st : Statuses, lane : Int]

\* the part of the type invariant the proof needs
Shape ==
  /\ opt \in [loop : {"serial", "batch", "controls"}, dlq : BOOLEAN]
  /\ committed \in 0..Records /\ position \in 0..Records
  /\ owner \in Consumers \cup {NoConsumer}
  /\ settled \subseteq Offsets
  /\ pending \in [Consumers -> Seq(Entries)]
  /\ phase \in [Consumers -> {"poll", "work", "commit", "failed"}]

\* a record is settled or among the first n that c holds
Covered(c, q, n) == q \in settled \/ \E j \in Slots(c) : j <= n /\ pending[c][j].off = q

\* A member holds no gap: before each record it holds, and up to its position, every
\* record is settled or among those it holds.
NoGap ==
  /\ \A c \in Consumers : \A i \in Slots(c) :
       /\ pending[c][i].st = "done" => pending[c][i].off \in settled
       /\ \A q \in 1..pending[c][i].off - 1 : Covered(c, q, i - 1)
  /\ owner # NoConsumer => \A q \in 1..position : Covered(owner, q, Len(pending[owner]))

Safe == IsDurable => CommittedIsSettled /\ NoGap

Inv == Shape /\ Safe

LEMMA InitInv == Init => Inv
<1> SUFFICES ASSUME Init PROVE Inv
  OBVIOUS
<1>1. Shape
  BY ConsumerAssumption DEF Init, Shape
<1>2. CommittedIsSettled /\ NoGap
  BY DEF Init, CommittedIsSettled, NoGap, Slots
<1> QED
  BY <1>1, <1>2 DEF Inv, Safe

\* A record's status changes and its place does not.
LEMMA MarkShape ==
  ASSUME Shape, NEW c \in Consumers, NEW i \in Slots(c), NEW st \in Statuses, Mark(c, i, st)
  PROVE  /\ pending' \in [Consumers -> Seq(Entries)]
         /\ \A d \in Consumers : Slots(d)' = Slots(d)
         /\ \A d \in Consumers : \A j \in Slots(d) :
              /\ pending'[d][j].off = pending[d][j].off
              /\ pending'[d][j].st = IF d = c /\ j = i THEN st ELSE pending[d][j].st
              /\ pending'[d][j].lane = pending[d][j].lane
<1>1. /\ pending \in [Consumers -> Seq(Entries)]
      /\ pending' = [pending EXCEPT ![c] = [pending[c] EXCEPT ![i] = [pending[c][i] EXCEPT !.st = st]]]
  BY DEF Shape, Mark
<1>2. pending[c][i] \in Entries /\ pending[c] \in Seq(Entries)
  BY <1>1 DEF Slots
<1>3. [pending[c][i] EXCEPT !.st = st] \in Entries
  BY <1>2 DEF Entries
<1>4. [pending[c] EXCEPT ![i] = [pending[c][i] EXCEPT !.st = st]] \in Seq(Entries)
  BY <1>2, <1>3 DEF Slots
<1>5. pending' \in [Consumers -> Seq(Entries)]
  BY <1>1, <1>4
<1>6. \A d \in Consumers \ {c} : pending'[d] = pending[d]
  BY <1>1
<1>7. pending'[c] = [pending[c] EXCEPT ![i] = [pending[c][i] EXCEPT !.st = st]]
  BY <1>1
<1>8. /\ DOMAIN pending'[c] = DOMAIN pending[c]
      /\ \A j \in Slots(c) : /\ pending'[c][j].off = pending[c][j].off
                             /\ pending'[c][j].st = IF j = i THEN st ELSE pending[c][j].st
                             /\ pending'[c][j].lane = pending[c][j].lane
  BY <1>2, <1>7 DEF Entries, Slots
<1> QED
  BY <1>5, <1>6, <1>8 DEF Slots

\* Marking a record keeps NoGap, if a record marked done is settled.
LEMMA MarkNoGap ==
  ASSUME Shape, NoGap, NEW c \in Consumers, NEW i \in Slots(c), NEW st \in Statuses, Mark(c, i, st),
         settled \subseteq settled', st = "done" => pending[c][i].off \in settled',
         UNCHANGED <<owner, position>>
  PROVE  NoGap'
<1>1. /\ \A d \in Consumers : Slots(d)' = Slots(d)
      /\ \A d \in Consumers : \A j \in Slots(d) :
           /\ pending'[d][j].off = pending[d][j].off
           /\ pending'[d][j].st = IF d = c /\ j = i THEN st ELSE pending[d][j].st
  BY MarkShape
<1>2. \A d \in Consumers : \A q, n : Covered(d, q, n) => Covered(d, q, n)'
  BY <1>1 DEF Covered
<1>3. \A d \in Consumers : Len(pending'[d]) = Len(pending[d])
  <2> SUFFICES ASSUME NEW d \in Consumers PROVE Len(pending'[d]) = Len(pending[d])
    OBVIOUS
  <2>1. pending[d] \in Seq(Entries) /\ pending'[d] \in Seq(Entries)
    BY MarkShape DEF Shape
  <2> QED
    BY <1>1, <2>1 DEF Slots
<1>4. ASSUME NEW d \in Consumers, NEW j \in Slots(d)'
      PROVE  /\ pending'[d][j].st = "done" => pending'[d][j].off \in settled'
             /\ \A q \in 1..pending'[d][j].off - 1 : Covered(d, q, j - 1)'
  BY <1>1, <1>2 DEF NoGap
<1>5. owner' # NoConsumer => \A q \in 1..position' : Covered(owner, q, Len(pending[owner]))'
  <2> SUFFICES ASSUME owner # NoConsumer, NEW q \in 1..position
               PROVE  Covered(owner, q, Len(pending[owner]))'
    OBVIOUS
  <2>1. owner \in Consumers /\ Len(pending'[owner]) = Len(pending[owner])
    BY <1>3 DEF Shape
  <2>2. Covered(owner, q, Len(pending[owner]))
    BY DEF NoGap
  <2> QED
    BY <1>1, <2>1, <2>2 DEF Covered
<1> QED
  BY <1>4, <1>5 DEF NoGap

\* A record with the highest offset polled so far joins the records held.
LEMMA PollStep ==
  ASSUME Shape, NEW c \in Consumers, Poll(c)
  PROVE  Shape' /\ (CommittedIsSettled /\ NoGap => (CommittedIsSettled /\ NoGap)')
<1>0. Records \in Nat
  BY ConsumerAssumption
<1> PICK e \in Entries : /\ e.off = position + 1 /\ e.st # "done"
                         /\ pending' = [pending EXCEPT ![c] = Append(pending[c], e)]
  <2>1. position + 1 \in Offsets
    BY <1>0 DEF Poll, Shape, Offsets
  <2>2. /\ Entry(position + 1) \in Entries
        /\ [Entry(position + 1) EXCEPT !.st = "running"] \in Entries
    BY <2>1 DEF Entry, Entries, Statuses
  <2> QED
    BY <2>2 DEF Poll, Entry
<1>1. /\ owner = c /\ position < Records /\ position' = position + 1
      /\ UNCHANGED <<opt, committed, owner, phase, settled>>
  BY DEF Poll
<1>2. /\ pending[c] \in Seq(Entries) /\ pending'[c] = Append(pending[c], e)
      /\ \A d \in Consumers \ {c} : pending'[d] = pending[d]
      /\ pending' \in [Consumers -> Seq(Entries)]
  BY DEF Shape
<1>3. Shape'
  BY <1>0, <1>1, <1>2 DEF Shape
<1>4. ASSUME CommittedIsSettled, NoGap
      PROVE  (CommittedIsSettled /\ NoGap)'
  <2> PICK n \in Nat : n = Len(pending[c])
    BY <1>2
  <2>1. /\ n \in Nat /\ Slots(c) = 1..n /\ Slots(c)' = 1..n + 1
        /\ pending'[c][n + 1] = e /\ \A j \in 1..n : pending'[c][j] = pending[c][j]
    BY <1>2 DEF Slots
  <2>2. \A q, k : k \in Nat /\ k <= n /\ Covered(c, q, k) => Covered(c, q, k)'
    BY <1>1, <2>1 DEF Covered
  <2>3. \A d \in Consumers \ {c} : Slots(d)' = Slots(d) /\ \A q, k : Covered(d, q, k)' <=> Covered(d, q, k)
    BY <1>1, <1>2 DEF Covered, Slots
  <2>4. \A q \in 1..position : Covered(c, q, n)
    <3>1. owner # NoConsumer
      BY <1>1, ConsumerAssumption
    <3> QED
      BY <1>1, <1>4, <3>1 DEF NoGap
  <2>5. ASSUME NEW d \in Consumers, NEW i \in Slots(d)'
        PROVE  /\ pending'[d][i].st = "done" => pending'[d][i].off \in settled'
               /\ \A q \in 1..pending'[d][i].off - 1 : Covered(d, q, i - 1)'
    <3>1. CASE d # c
      BY <1>1, <1>2, <1>4, <2>3, <3>1 DEF NoGap
    <3>2. CASE d = c /\ i = n + 1
      <4>1. pending'[d][i].off - 1 = position /\ i - 1 = n
        <5>1. position \in Nat /\ pending'[d][i] = e
          BY <1>0, <2>1, <3>2 DEF Shape
        <5> QED
          BY <5>1, <3>2
      <4> QED
        BY <2>1, <2>2, <2>4, <3>2, <4>1
    <3>3. CASE d = c /\ i \in 1..n
      <4>1. i - 1 \in Nat /\ i - 1 <= n
        BY <2>1, <3>3
      <4>2. i \in Slots(c) /\ pending'[c][i] = pending[c][i]
        BY <2>1, <3>3
      <4>3. pending[c][i].st = "done" => pending[c][i].off \in settled
        BY <1>4, <4>2 DEF NoGap
      <4>4. \A q \in 1..pending[c][i].off - 1 : Covered(c, q, i - 1)
        BY <1>4, <4>2 DEF NoGap
      <4>5. \A q \in 1..pending[c][i].off - 1 : Covered(c, q, i - 1)'
        BY <2>2, <4>1, <4>4
      <4> QED
        BY <1>1, <3>3, <4>2, <4>3, <4>5
    <3> QED
      BY <2>1, <3>1, <3>2, <3>3
  <2>6. \A q \in 1..position' : Covered(c, q, Len(pending[c]))'
    <3> SUFFICES ASSUME NEW q \in 1..position + 1
                 PROVE  Covered(c, q, Len(pending[c]))'
      BY <1>1
    <3>1. Len(pending'[c]) = n + 1
      BY <1>2, <2>1
    <3>2. CASE q = position + 1
      BY <2>1, <3>1, <3>2 DEF Covered
    <3>3. CASE q \in 1..position
      <4>1. Covered(c, q, n)'
        BY <2>1, <2>2, <2>4, <3>3
      <4> QED
        BY <2>1, <3>1, <4>1 DEF Covered
    <3> QED
      BY <3>2, <3>3 DEF Shape
  <2> QED
    BY <1>1, <1>4, <2>5, <2>6 DEF NoGap, CommittedIsSettled
<1> QED
  BY <1>3, <1>4

\* The lanes are given out: nothing else about the records changes.
LEMMA StartBatchStep ==
  ASSUME Shape, NEW c \in Consumers, StartBatch(c)
  PROVE  Shape' /\ (CommittedIsSettled /\ NoGap => (CommittedIsSettled /\ NoGap)')
<1> PICK lane \in [Slots(c) -> 1..LaneCount(c)] :
      pending' = [pending EXCEPT ![c] = [i \in Slots(c) |-> [pending[c][i] EXCEPT !.lane = lane[i]]]]
  BY DEF StartBatch
<1>1. pending[c] \in Seq(Entries)
  BY DEF Shape
<1> PICK n \in Nat : n = Len(pending[c]) /\ Slots(c) = 1..n
  BY <1>1 DEF Slots
<1>2. pending'[c] = [i \in 1..n |-> [pending[c][i] EXCEPT !.lane = lane[i]]]
  BY DEF Shape
<1>3. \A i \in 1..n : /\ [pending[c][i] EXCEPT !.lane = lane[i]] \in Entries
                      /\ pending'[c][i].off = pending[c][i].off /\ pending'[c][i].st = pending[c][i].st
  <2> SUFFICES ASSUME NEW i \in 1..n
               PROVE  /\ [pending[c][i] EXCEPT !.lane = lane[i]] \in Entries
                      /\ pending'[c][i].off = pending[c][i].off /\ pending'[c][i].st = pending[c][i].st
    OBVIOUS
  <2>1. pending[c][i] \in Entries
    BY <1>1
  <2>2. lane[i] \in Int
    OBVIOUS
  <2>3. pending'[c][i] = [pending[c][i] EXCEPT !.lane = lane[i]]
    BY <1>2
  <2> QED
    BY <2>1, <2>2, <2>3 DEF Entries
<1>4. pending'[c] \in Seq(Entries) /\ Len(pending'[c]) = n /\ Slots(c)' = 1..n
  <2>1. pending'[c] \in [1..n -> Entries]
    <3> DEFINE relabelled(i) == [pending[c][i] EXCEPT !.lane = lane[i]]
    <3>1. \A i \in 1..n : relabelled(i) \in Entries
      BY <1>3
    <3>2. pending'[c] = [i \in 1..n |-> relabelled(i)]
      BY <1>2
    <3> HIDE DEF relabelled
    <3> QED
      BY <3>1, <3>2
  <2>2. pending'[c] \in Seq(Entries)
    BY <2>1
  <2>3. DOMAIN pending'[c] = 1..n
    BY <2>1
  <2> QED
    BY <2>2, <2>3 DEF Slots
<1>5. \A d \in Consumers \ {c} : pending'[d] = pending[d] /\ Slots(d)' = Slots(d)
  BY DEF Shape, Slots
<1>6. UNCHANGED <<opt, committed, owner, position, settled>> /\ phase' = [phase EXCEPT ![c] = "work"]
  BY DEF StartBatch
<1>7. Shape'
  BY <1>4, <1>6 DEF Shape
<1>8. \A d \in Consumers : \A q, k : Covered(d, q, k) => Covered(d, q, k)'
  BY <1>3, <1>4, <1>5, <1>6 DEF Covered
<1>9. ASSUME CommittedIsSettled, NoGap
      PROVE  (CommittedIsSettled /\ NoGap)'
  <2>1. ASSUME NEW d \in Consumers, NEW i \in Slots(d)'
        PROVE  /\ pending'[d][i].st = "done" => pending'[d][i].off \in settled'
               /\ \A q \in 1..pending'[d][i].off - 1 : Covered(d, q, i - 1)'
    <3>1. /\ i \in Slots(d)
          /\ pending'[d][i].off = pending[d][i].off /\ pending'[d][i].st = pending[d][i].st
      BY <1>3, <1>4, <1>5
    <3> QED
      BY <1>6, <1>8, <1>9, <3>1 DEF NoGap
  <2>2. ASSUME owner' # NoConsumer, NEW q \in 1..position'
        PROVE  Covered(owner, q, Len(pending[owner]))'
    <3> PICK o \in Consumers : o = owner /\ o = owner'
      BY <1>6, <2>2 DEF Shape
    <3>1. Len(pending'[o]) = Len(pending[o])
      BY <1>4, <1>5
    <3> PICK k \in {Len(pending[o])} : k = Len(pending[o])
      OBVIOUS
    <3>2. Covered(o, q, k)
      BY <1>6, <1>9, <2>2 DEF NoGap
    <3>3. Covered(o, q, k)'
      BY <1>8, <3>2
    <3> QED
      BY <3>1, <3>3 DEF Covered
  <2> QED
    BY <1>6, <1>9, <2>1, <2>2 DEF NoGap, CommittedIsSettled
<1> QED
  BY <1>7, <1>9

\* The oldest record is committed: it is settled, and so is every record before it.
LEMMA CommitStep ==
  ASSUME Shape, NEW c \in Consumers, Commit(c)
  PROVE  Shape' /\ (CommittedIsSettled /\ NoGap => (CommittedIsSettled /\ NoGap)')
<1>1. pending[c] \in Seq(Entries) /\ pending[c] # <<>>
  BY DEF Shape, Commit, MayCommit
<1> PICK n \in Nat : n = Len(pending[c]) /\ Slots(c) = 1..n /\ n >= 1
  BY <1>1 DEF Slots
<1>2. /\ pending' = [pending EXCEPT ![c] = Tail(pending[c])]
      /\ committed' = pending[c][1].off /\ pending[c][1].st = "done"
      /\ UNCHANGED <<opt, owner, position, settled>>
      /\ phase' \in [Consumers -> {"poll", "work", "commit", "failed"}]
  BY DEF Commit, AfterCommit, MayCommit, Oldest, Shape
<1>3. /\ pending'[c] = Tail(pending[c])
      /\ \A d \in Consumers \ {c} : pending'[d] = pending[d] /\ Slots(d)' = Slots(d)
  BY <1>2 DEF Shape, Slots
<1>4. /\ pending'[c] \in Seq(Entries) /\ Slots(c)' = 1..n - 1 /\ Len(pending'[c]) = n - 1
      /\ \A j \in 1..n - 1 : pending'[c][j] = pending[c][j + 1]
  BY <1>1, <1>3 DEF Slots
<1>5. pending[c][1] \in Entries /\ pending[c][1].off \in Offsets
  <2>1. 1 \in 1..n
    OBVIOUS
  <2>2. pending[c][1] \in Entries
    BY <1>1, <2>1
  <2> QED
    BY <2>2 DEF Entries
<1>6. Shape'
  BY <1>2, <1>4, <1>5 DEF Shape, Offsets
<1>7. ASSUME CommittedIsSettled, NoGap
      PROVE  (CommittedIsSettled /\ NoGap)'
  <2>1. pending[c][1].off \in settled
    BY <1>2, <1>7 DEF NoGap
  <2>2. \A q \in 1..pending[c][1].off - 1 : q \in settled
    BY <1>7 DEF NoGap, Covered, Slots
  <2>3. CommittedIsSettled'
    BY <1>2, <1>5, <2>1, <2>2 DEF CommittedIsSettled, Offsets
  <2>4. ASSUME NEW q, NEW k \in Int, Covered(c, q, k + 1)
        PROVE  Covered(c, q, k)'
    <3>1. CASE q \in settled
      BY <1>2, <3>1 DEF Covered
    <3>2. ASSUME NEW j \in 1..n, j <= k + 1, pending[c][j].off = q
          PROVE  Covered(c, q, k)'
      <4>1. CASE j = 1
        BY <1>2, <2>1, <3>2, <4>1 DEF Covered
      <4>2. CASE j # 1
        <5>1. j - 1 \in 1..n - 1 /\ j - 1 <= k
          BY <3>2, <4>2
        <5>2. pending'[c][j - 1] = pending[c][j]
          BY <1>4, <5>1
        <5> QED
          BY <1>4, <3>2, <5>1, <5>2 DEF Covered
      <4> QED
        BY <4>1, <4>2
    <3> QED
      BY <2>4, <3>1, <3>2 DEF Covered
  <2>5. \A d \in Consumers \ {c} : \A q, k : Covered(d, q, k)' <=> Covered(d, q, k)
    BY <1>2, <1>3 DEF Covered
  <2>6. ASSUME NEW d \in Consumers, NEW i \in Slots(d)'
        PROVE  /\ pending'[d][i].st = "done" => pending'[d][i].off \in settled'
               /\ \A q \in 1..pending'[d][i].off - 1 : Covered(d, q, i - 1)'
    <3>1. CASE d # c
      BY <1>2, <1>3, <1>7, <2>5, <3>1 DEF NoGap
    <3>2. CASE d = c
      <4>1. i \in 1..n - 1 /\ i + 1 \in 1..n /\ pending'[c][i] = pending[c][i + 1]
        BY <1>4, <3>2
      <4>2. \A q \in 1..pending[c][i + 1].off - 1 : Covered(c, q, i)
        <5>1. (i + 1) - 1 = i
          BY <4>1
        <5> QED
          BY <1>7, <4>1, <5>1 DEF NoGap
      <4>3. i - 1 \in Int /\ (i - 1) + 1 = i
        BY <4>1
      <4> QED
        BY <1>2, <1>7, <2>4, <3>2, <4>1, <4>2, <4>3 DEF NoGap
    <3> QED
      BY <3>1, <3>2
  <2>7. ASSUME NEW q \in 1..position'
        PROVE  Covered(owner, q, Len(pending[owner]))'
    <3>1. owner = c /\ owner' = c /\ owner # NoConsumer
      BY <1>2, ConsumerAssumption DEF Commit
    <3>2. Covered(c, q, n)
      BY <1>2, <1>7, <3>1 DEF NoGap
    <3>3. n - 1 \in Int /\ (n - 1) + 1 = n
      OBVIOUS
    <3>4. Covered(c, q, n - 1)'
      BY <2>4, <3>2, <3>3
    <3> QED
      BY <1>4, <3>1, <3>4 DEF Covered
  <2> QED
    BY <2>3, <2>6, <2>7 DEF NoGap
<1> QED
  BY <1>6, <1>7

\* Joining the workers changes no record.
LEMMA JoinStep ==
  ASSUME Shape, NEW c \in Consumers, Join(c)
  PROVE  Shape' /\ (CommittedIsSettled /\ NoGap => (CommittedIsSettled /\ NoGap)')
<1>1. /\ UNCHANGED <<opt, committed, owner, position, pending, settled>>
      /\ phase' \in [Consumers -> {"poll", "work", "commit", "failed"}]
  BY DEF Join, Shape
<1> QED
  BY <1>1 DEF Shape, CommittedIsSettled, NoGap, Covered, Slots

\* A worker begins a record, settles it, or gives it up.
LEMMA WorkStep ==
  ASSUME Inv, NEW c \in Consumers, NEW i \in Slots(c), Begin(c, i) \/ Handled(c, i) \/ Unhandled(c, i)
  PROVE  Inv'
<1> USE DEF Inv
<1>1. PICK st \in Statuses : Mark(c, i, st) /\ (IsDurable /\ st = "done" => pending[c][i].off \in settled')
  BY DEF Begin, Handled, Unhandled, Statuses, IsDurable, Serial
<1>2. /\ UNCHANGED <<opt, committed, owner, position>> /\ settled \subseteq settled'
      /\ settled' \in {settled, settled \cup {pending[c][i].off}}
      /\ phase' \in [Consumers -> {"poll", "work", "commit", "failed"}]
  BY DEF Begin, Handled, Unhandled, Halt, Shape
<1>3. pending[c][i].off \in Offsets
  <2>1. pending[c] \in Seq(Entries)
    BY DEF Shape
  <2>2. pending[c][i] \in Entries
    BY <2>1 DEF Slots
  <2> QED
    BY <2>2 DEF Entries
<1>4. pending' \in [Consumers -> Seq(Entries)]
  BY <1>1, MarkShape
<1>5. Shape'
  BY <1>2, <1>3, <1>4 DEF Shape
<1>6. ASSUME IsDurable', Safe
      PROVE  (CommittedIsSettled /\ NoGap)'
  <2>1. IsDurable /\ CommittedIsSettled /\ NoGap
    BY <1>2, <1>6 DEF Safe, IsDurable, Serial
  <2>2. NoGap'
    BY <1>1, <1>2, <2>1, MarkNoGap
  <2> QED
    BY <1>2, <2>1, <2>2 DEF CommittedIsSettled
<1> QED
  BY <1>5, <1>6 DEF Safe

\* A refused commit halts a durable consumer, with the records it holds.
LEMMA CommitFailsStep ==
  ASSUME Inv, NEW c \in Consumers, CommitFails(c)
  PROVE  Inv'
<1> USE DEF Inv
<1>1. /\ UNCHANGED <<opt, committed, owner, position, settled>>
      /\ phase' \in [Consumers -> {"poll", "work", "commit", "failed"}]
      /\ \/ IsDurable /\ UNCHANGED pending
         \/ ~IsDurable /\ pending' = [pending EXCEPT ![c] = Tail(pending[c])]
  BY DEF CommitFails, AfterCommit, Halt, Shape, IsDurable
<1>2. pending' \in [Consumers -> Seq(Entries)]
  <2>1. pending[c] \in Seq(Entries) /\ pending[c] # <<>>
    BY DEF Shape, CommitFails, MayCommit
  <2>2. Tail(pending[c]) \in Seq(Entries)
    BY <2>1
  <2> QED
    BY <1>1, <2>2 DEF Shape
<1>3. Shape'
  BY <1>1, <1>2 DEF Shape
<1>4. IsDurable' <=> IsDurable
  BY <1>1 DEF IsDurable, Serial
<1>5. IsDurable => Safe'
  BY <1>1, <1>4 DEF Safe, CommittedIsSettled, NoGap, Covered, Slots
<1> QED
  BY <1>3, <1>4, <1>5 DEF Safe

\* A process that ends forgets the records it holds, and gives the partition up.
LEMMA LeaveStep ==
  ASSUME Shape, NEW c \in Consumers, Leave(c)
  PROVE  Shape' /\ (CommittedIsSettled /\ NoGap => (CommittedIsSettled /\ NoGap)')
<1>1. /\ UNCHANGED <<opt, committed, position, settled>>
      /\ owner' \in Consumers \cup {NoConsumer} /\ (owner' # NoConsumer => owner' = owner /\ owner # c)
      /\ phase' \in [Consumers -> {"poll", "work", "commit", "failed"}]
      /\ pending' \in [Consumers -> Seq(Entries)]
      /\ pending'[c] = <<>> /\ \A d \in Consumers \ {c} : pending'[d] = pending[d]
  BY DEF Leave, Shape
<1>2. Shape'
  BY <1>1 DEF Shape
<1>3. \A d \in Consumers \ {c} : Slots(d)' = Slots(d) /\ \A q, k : Covered(d, q, k)' <=> Covered(d, q, k)
  BY <1>1 DEF Covered, Slots
<1>4. Slots(c)' = {}
  BY <1>1 DEF Slots
<1>5. ASSUME CommittedIsSettled, NoGap
      PROVE  (CommittedIsSettled /\ NoGap)'
  <2>1. ASSUME NEW d \in Consumers, NEW i \in Slots(d)'
        PROVE  /\ pending'[d][i].st = "done" => pending'[d][i].off \in settled'
               /\ \A q \in 1..pending'[d][i].off - 1 : Covered(d, q, i - 1)'
    <3>1. d # c /\ i \in Slots(d) /\ pending'[d] = pending[d]
      BY <1>1, <1>3, <1>4, <2>1
    <3> QED
      BY <1>1, <1>3, <1>5, <3>1 DEF NoGap
  <2>2. ASSUME owner' # NoConsumer, NEW q \in 1..position'
        PROVE  Covered(owner, q, Len(pending[owner]))'
    <3> PICK o \in Consumers \ {c} : o = owner /\ o = owner'
      BY <1>1, <2>2 DEF Shape
    <3> PICK k \in {Len(pending[o])} : k = Len(pending[o]) /\ k = Len(pending'[o])
      BY <1>1
    <3>1. Covered(o, q, k)
      BY <1>1, <1>5, <2>2 DEF NoGap
    <3>2. Covered(o, q, k)'
      BY <1>3, <3>1
    <3> QED
      BY <3>2 DEF Covered
  <2> QED
    BY <1>1, <1>5, <2>1, <2>2 DEF NoGap, CommittedIsSettled
<1> QED
  BY <1>2, <1>5

\* A new holder starts at the committed offset, and what is committed is settled.
LEMMA AssignStep ==
  ASSUME Shape, NEW c \in Consumers, Assign(c)
  PROVE  Shape' /\ (CommittedIsSettled /\ NoGap => (CommittedIsSettled /\ NoGap)')
<1>1. /\ UNCHANGED <<opt, committed, pending, phase, settled>> /\ owner' = c /\ position' = committed
  BY DEF Assign
<1>2. Shape'
  BY <1>1 DEF Shape
<1>3. \A d, q, k : Slots(d)' = Slots(d) /\ (Covered(d, q, k)' <=> Covered(d, q, k))
  BY <1>1 DEF Covered, Slots
<1>4. ASSUME CommittedIsSettled, NoGap
      PROVE  (CommittedIsSettled /\ NoGap)'
  <2>1. \A q \in 1..position' : Covered(owner, q, Len(pending[owner]))'
    BY <1>1, <1>4 DEF CommittedIsSettled, Covered
  <2>2. ASSUME NEW d \in Consumers, NEW i \in Slots(d)'
        PROVE  /\ pending'[d][i].st = "done" => pending'[d][i].off \in settled'
               /\ \A q \in 1..pending'[d][i].off - 1 : Covered(d, q, i - 1)'
    BY <1>1, <1>3, <1>4 DEF NoGap
  <2> QED
    BY <1>1, <1>4, <2>1, <2>2 DEF NoGap, CommittedIsSettled
<1> QED
  BY <1>2, <1>4

\* Inv holds initially and every step keeps it.
LEMMA Inductive == Spec => []Inv
<1>1. Init => Inv
  BY InitInv
<1>2. Inv /\ [Next]_vars => Inv'
  <2> SUFFICES ASSUME Inv, [Next]_vars PROVE Inv'
    OBVIOUS
  <2> DEFINE Kept == Shape' /\ (CommittedIsSettled /\ NoGap => (CommittedIsSettled /\ NoGap)')
  <2>1. ASSUME Kept, UNCHANGED opt PROVE Inv'
    BY <2>1 DEF Inv, Safe, IsDurable, Serial
  <2>2. CASE UNCHANGED vars
    BY <2>2 DEF vars, Inv, Shape, Safe, IsDurable, Serial, CommittedIsSettled, NoGap, Covered, Slots
  <2>3. ASSUME NEW c \in Consumers, Loop(c) PROVE Inv'
    <3>1. CASE Poll(c)
      BY <2>1, <3>1, PollStep DEF Inv, Poll
    <3>2. CASE StartBatch(c)
      BY <2>1, <3>2, StartBatchStep DEF Inv, StartBatch
    <3>3. CASE Join(c)
      BY <2>1, <3>3, JoinStep DEF Inv, Join
    <3>4. CASE Commit(c)
      BY <2>1, <3>4, CommitStep DEF Inv, Commit
    <3>5. CASE CommitFails(c)
      BY <3>5, CommitFailsStep
    <3>6. CASE \E i \in Slots(c) : Begin(c, i) \/ Handled(c, i) \/ Unhandled(c, i)
      BY <3>6, WorkStep
    <3> QED
      BY <2>3, <3>1, <3>2, <3>3, <3>4, <3>5, <3>6 DEF Loop
  <2>4. ASSUME NEW c \in Consumers, Restart(c) \/ Crash(c) PROVE Inv'
    <3>1. Leave(c)
      BY <2>4 DEF Restart, Crash
    <3> QED
      BY <2>1, <3>1, LeaveStep DEF Inv, Leave
  <2>5. ASSUME NEW c \in Consumers, Assign(c) PROVE Inv'
    BY <2>1, <2>5, AssignStep DEF Inv, Assign
  <2> QED
    BY <2>2, <2>3, <2>4, <2>5 DEF Next
<1> QED
  BY <1>1, <1>2, PTL DEF Spec

\* No durable consumer (one with a DLQ topic, or with the batch or the controls loop) ever
\* commits past a record that was neither handled nor dead-lettered, whatever the group, the
\* keys, the lanes and the window are, and however often the partition moves.
THEOREM DurableCommits == Spec => [](IsDurable => CommittedIsSettled)
<1>1. Inv => (IsDurable => CommittedIsSettled)
  BY DEF Inv, Safe
<1> QED
  BY <1>1, Inductive, PTL

-----------------------------------------------------------------------------
(* The order of turns and the window.                                       *)

\* A record is being handled at the front of the deque (or alone, in the serial loop), or
\* after every record of its key that came before it in the batch.
Turns(c) ==
  \A i \in Running(c) :
    IF Batch THEN \A j \in 1..i - 1 : Key(c, j) = Key(c, i) => pending[c][j].st = "done"
    ELSE i = 1 \/ IsControl(pending[c][i])

\* While a batch is worked on, a key has one lane.
SameLane(c) ==
  Batch /\ phase[c] = "work" =>
    \A i, j \in Slots(c) : Key(c, i) = Key(c, j) => pending[c][i].lane = pending[c][j].lane

Window(c) == Len(pending[c]) <= MaxBatch /\ \A i \in Slots(c) : pending[c][i].lane \in 0..Lanes

Orderly(c) == Turns(c) /\ SameLane(c) /\ Window(c)

OrderInv == opt \in Deployments /\ \A c \in Consumers : Orderly(c)

\* A member whose records and phase do not change stays orderly.
LEMMA OthersOrderly ==
  ASSUME NEW d \in Consumers, Orderly(d),
         UNCHANGED <<opt, pending[d], phase[d]>>
  PROVE  Orderly(d)'
BY DEF Orderly, Turns, SameLane, Window, Running, Slots, Batch, Controls, Key, IsControl

\* A polled record comes last, and nothing waits in front of a control record's handling.
LEMMA PollOrder ==
  ASSUME Shape, NEW c \in Consumers, Poll(c), Orderly(c)
  PROVE  Orderly(c)'
<1> DEFINE e == IF Serial \/ IsControl(Entry(position + 1))
                THEN [Entry(position + 1) EXCEPT !.st = "running"] ELSE Entry(position + 1)
<1> PICK n \in Nat : n = Len(pending[c]) /\ Slots(c) = 1..n
  BY DEF Shape, Slots
<1>0. Records \in Nat /\ MaxBatch \in Nat \ {0} /\ Lanes \in Nat \ {0}
  BY ConsumerAssumption
<1>1. e \in Entries /\ e.off = position + 1 /\ e.lane = 0
  <2>1. position + 1 \in Offsets
    BY <1>0 DEF Poll, Shape, Offsets
  <2> QED
    BY <2>1 DEF Entry, Entries, Statuses
<1>2. pending[c] \in Seq(Entries) /\ pending'[c] = Append(pending[c], e)
  BY DEF Shape, Poll
<1>3. /\ Len(pending'[c]) = n + 1 /\ Slots(c)' = 1..n + 1
      /\ pending'[c][n + 1] = e /\ \A j \in 1..n : pending'[c][j] = pending[c][j]
  BY <1>1, <1>2 DEF Slots
<1>4. phase'[c] = "poll" /\ opt' = opt
  BY DEF Poll, Shape
<1>5. Window(c)'
  <2>1. n + 1 <= MaxBatch
    BY <1>0 DEF Poll, Shape, Serial, Batch, Controls
  <2>2. \A i \in 1..n + 1 : pending'[c][i].lane \in 0..Lanes
    <3>1. 0 \in 0..Lanes /\ \A i \in 1..n : pending[c][i].lane \in 0..Lanes
      BY <1>0 DEF Orderly, Window
    <3>2. \A i \in 1..n + 1 : i = n + 1 \/ i \in 1..n
      OBVIOUS
    <3> QED
      BY <1>1, <1>3, <3>1, <3>2
  <2> QED
    BY <1>3, <2>1, <2>2 DEF Window
<1>6. ASSUME NEW i \in Running(c)'
      PROVE  IF Batch' THEN \A j \in 1..i - 1 : Key(c, j)' = Key(c, i)' => pending'[c][j].st = "done"
             ELSE i = 1 \/ IsControl(pending[c][i])'
  <2>1. i \in 1..n + 1 /\ pending'[c][i].st = "running"
    BY <1>3 DEF Running
  <2>2. CASE i = n + 1
    <3>1. e.st = "running"
      BY <1>3, <2>1, <2>2
    <3>2. Serial \/ IsControl(Entry(position + 1))
      BY <3>1 DEF Entry
    <3>3. CASE Serial
      <4>1. n = 0 /\ ~Batch'
        BY <1>4, <3>3 DEF Poll, Serial, Batch, Controls
      <4> QED
        BY <2>2, <4>1
    <3>4. CASE IsControl(Entry(position + 1))
      <4>1. Controls /\ position + 1 \in Control
        BY <3>4 DEF IsControl, Entry
      <4>2. Controls' /\ pending'[c][i].off \in Control
        BY <1>1, <1>3, <1>4, <2>2, <4>1 DEF Controls
      <4>3. ~Batch'
        BY <4>2 DEF Batch, Controls
      <4> QED
        BY <4>2, <4>3 DEF IsControl
    <3> QED
      BY <3>2, <3>3, <3>4
  <2>3. CASE i \in 1..n
    <3>1. i \in Running(c) /\ pending'[c][i] = pending[c][i]
      BY <1>3, <2>1, <2>3 DEF Running
    <3>2. \A j \in 1..i - 1 : pending'[c][j] = pending[c][j]
      BY <1>3, <2>3
    <3> QED
      BY <1>4, <3>1, <3>2 DEF Orderly, Turns, Batch, Controls, Key, IsControl
  <2> QED
    BY <2>1, <2>2, <2>3
<1> QED
  BY <1>4, <1>5, <1>6 DEF Orderly, Turns, SameLane

\* The number of lanes is one the options allow.
LEMMA LaneFact ==
  ASSUME NEW n \in Nat \ {0}, NEW m \in Nat \ {0}
  PROVE  Min({n, m}) \in 1..m
<1>1. \E x \in {n, m} : \A y \in {n, m} : x <= y
  <2>1. CASE n <= m
    BY <2>1
  <2>2. CASE m <= n
    BY <2>2
  <2> QED
    BY <2>1, <2>2
<1>2. Min({n, m}) \in {n, m} /\ \A y \in {n, m} : Min({n, m}) <= y
  BY <1>1 DEF Min
<1> QED
  BY <1>2

\* A key keeps its lane while a batch is given out.
LEMMA StartOrder ==
  ASSUME Shape, NEW c \in Consumers, StartBatch(c), Orderly(c)
  PROVE  Orderly(c)'
<1> PICK lane \in [Slots(c) -> 1..LaneCount(c)] :
      /\ Assigned(c, lane)
      /\ pending' = [pending EXCEPT ![c] = [i \in Slots(c) |-> [pending[c][i] EXCEPT !.lane = lane[i]]]]
  BY DEF StartBatch
<1>1. pending[c] \in Seq(Entries) /\ pending[c] # <<>>
  BY DEF Shape, StartBatch
<1> PICK n \in Nat \ {0} : n = Len(pending[c]) /\ Slots(c) = 1..n
  BY <1>1 DEF Slots
<1>2. pending'[c] = [i \in 1..n |-> [pending[c][i] EXCEPT !.lane = lane[i]]]
  BY DEF Shape
<1>3. /\ Slots(c)' = 1..n /\ Len(pending'[c]) = n
      /\ opt' = opt
  <2>1. pending'[c] \in Seq(Entries)
    BY StartBatchStep DEF Shape
  <2>2. DOMAIN pending'[c] = 1..n
    BY <1>2
  <2> QED
    BY <2>1, <2>2 DEF Slots, StartBatch
<1>4. \A i \in 1..n : /\ pending'[c][i].off = pending[c][i].off /\ pending'[c][i].st = pending[c][i].st
                      /\ pending'[c][i].lane = lane[i]
  <2> SUFFICES ASSUME NEW i \in 1..n
               PROVE  /\ pending'[c][i].off = pending[c][i].off /\ pending'[c][i].st = pending[c][i].st
                      /\ pending'[c][i].lane = lane[i]
    OBVIOUS
  <2>1. pending[c][i] \in Entries
    BY <1>1
  <2> QED
    BY <1>2, <2>1 DEF Entries
<1>5. Window(c)'
  <2>1. LaneCount(c) \in 1..Lanes /\ Lanes \in Nat
    BY LaneFact, ConsumerAssumption DEF LaneCount
  <2>2. \A i \in 1..n : lane[i] \in 0..Lanes
    BY <2>1
  <2> QED
    BY <1>3, <1>4, <2>2 DEF Orderly, Window
<1>6. SameLane(c)'
  <2>1. \A i, j \in 1..n : j < i /\ Key(c, j) = Key(c, i) => lane[i] = lane[j]
    BY DEF Assigned
  <2>2. \A i, j \in 1..n : Key(c, j) = Key(c, i) => lane[i] = lane[j]
    BY <2>1
  <2>3. \A i \in 1..n : Key(c, i)' = Key(c, i) /\ pending'[c][i].lane = lane[i]
    BY <1>4 DEF Key
  <2>4. \A i, j \in Slots(c)' : Key(c, i)' = Key(c, j)' => pending'[c][i].lane = pending'[c][j].lane
    <3> SUFFICES ASSUME NEW i \in 1..n, NEW j \in 1..n, Key(c, i)' = Key(c, j)'
                 PROVE  pending'[c][i].lane = pending'[c][j].lane
      BY <1>3
    <3>1. Key(c, i) = Key(c, j)
      BY <2>3
    <3>2. lane[i] = lane[j]
      BY <2>2, <3>1
    <3>3. pending'[c][i].lane = lane[i] /\ pending'[c][j].lane = lane[j]
      BY <2>3
    <3> QED
      BY <3>2, <3>3, Zenon
  <2> QED
    BY <2>4 DEF SameLane
<1>7. Turns(c)'
  <2>1. Running(c)' = Running(c)
    BY <1>3, <1>4 DEF Running
  <2>2. \A i \in Running(c) : i \in 1..n /\ \A j \in 1..i - 1 : j \in 1..n
    BY DEF Running
  <2> QED
    BY <1>3, <1>4, <2>1, <2>2 DEF Orderly, Turns, Batch, Controls, Key, IsControl
<1> QED
  BY <1>5, <1>6, <1>7 DEF Orderly

\* A worker begins a record only after those of its key before it.
LEMMA WorkOrder ==
  ASSUME Shape, NEW c \in Consumers, NEW i \in Slots(c), Orderly(c),
         Begin(c, i) \/ Handled(c, i) \/ Unhandled(c, i)
  PROVE  Orderly(c)'
<1>1. PICK st \in Statuses : Mark(c, i, st) /\ (st = "running" => Begin(c, i))
                             /\ (pending[c][i].st = "done" => FALSE)
  BY DEF Begin, Handled, Unhandled, Statuses, NextInLane, Oldest, Running
<1>2. /\ Slots(c)' = Slots(c)
      /\ \A j \in Slots(c) : /\ pending'[c][j].off = pending[c][j].off
                             /\ pending'[c][j].st = IF j = i THEN st ELSE pending[c][j].st
                             /\ pending'[c][j].lane = pending[c][j].lane
  BY <1>1, MarkShape
<1> PICK n \in Nat : n = Len(pending[c]) /\ Slots(c) = 1..n
  BY DEF Shape, Slots
<1>3. Len(pending'[c]) = n
  <2>1. pending'[c] \in Seq(Entries)
    BY <1>1, MarkShape
  <2> QED
    BY <1>2, <2>1 DEF Slots
<1>4. /\ opt' = opt /\ (phase'[c] = "work" => phase[c] = "work")
  BY DEF Begin, Handled, Unhandled, Halt, Shape
<1>5. Window(c)'
  BY <1>2, <1>3 DEF Orderly, Window
<1>k. \A j \in Slots(c) : Key(c, j)' = Key(c, j)
  BY <1>2 DEF Key
<1>6. SameLane(c)'
  <2>1. Batch' => Batch
    BY <1>4 DEF Batch
  <2>2. SameLane(c)
    BY DEF Orderly
  <2> QED
    BY <1>2, <1>4, <1>k, <2>1, <2>2 DEF SameLane
<1>7. ASSUME NEW k \in Running(c)'
      PROVE  IF Batch' THEN \A j \in 1..k - 1 : Key(c, j)' = Key(c, k)' => pending'[c][j].st = "done"
             ELSE k = 1 \/ IsControl(pending[c][k])'
  <2>1. k \in 1..n /\ pending'[c][k].st = "running" /\ \A j \in 1..k - 1 : j \in 1..n
    BY <1>2 DEF Running
  <2>2. \A j \in 1..n : pending[c][j].st = "done" => pending'[c][j].st = "done"
    BY <1>1, <1>2
  <2>3. CASE k \in Running(c)
    <3>1. (Batch' <=> Batch) /\ (IsControl(pending[c][k])' <=> IsControl(pending[c][k]))
      BY <1>2, <1>4, <2>1 DEF Batch, Controls, IsControl
    <3>2. IF Batch THEN \A j \in 1..k - 1 : Key(c, j) = Key(c, k) => pending[c][j].st = "done"
          ELSE k = 1 \/ IsControl(pending[c][k])
      BY <2>3 DEF Orderly, Turns
    <3> QED
      BY <1>k, <2>1, <2>2, <3>1, <3>2
  <2>4. CASE k \notin Running(c)
    <3>1. k = i /\ Begin(c, i)
      BY <1>1, <1>2, <2>1, <2>4 DEF Running
    <3>2. CASE Batch /\ phase[c] = "work" /\ NextInLane(c, i)
      <4>1. \A j \in 1..k - 1 : Key(c, j) = Key(c, k) => pending[c][j].lane = pending[c][k].lane
        BY <2>1, <3>2 DEF Orderly, SameLane
      <4>2. \A j \in 1..k - 1 : Key(c, j) = Key(c, k) => pending[c][j].st = "done"
        BY <3>1, <3>2, <4>1 DEF NextInLane
      <4>3. Batch' /\ \A j \in 1..n : Key(c, j)' = Key(c, j)
        BY <1>2, <1>4, <3>2 DEF Batch, Key
      <4> QED
        BY <2>1, <2>2, <4>2, <4>3
    <3>3. CASE Controls /\ i = 1
      <4>1. ~Batch'
        BY <1>4, <3>3 DEF Batch, Controls
      <4> QED
        BY <3>1, <3>3, <4>1
    <3> QED
      BY <3>1, <3>2, <3>3 DEF Begin
  <2> QED
    BY <2>3, <2>4
<1> QED
  BY <1>5, <1>6, <1>7 DEF Orderly, Turns

\* Without its oldest record a member stays orderly, as it is not inside a batch.
LEMMA TailOrder ==
  ASSUME Shape, NEW c \in Consumers, Orderly(c), UNCHANGED opt, pending[c] # <<>>,
         pending' = [pending EXCEPT ![c] = Tail(pending[c])],
         phase'[c] # "work"
  PROVE  Orderly(c)'
<1>1. pending[c] \in Seq(Entries) /\ pending'[c] = Tail(pending[c])
  BY DEF Shape
<1> PICK n \in Nat \ {0} : n = Len(pending[c]) /\ Slots(c) = 1..n
  BY <1>1 DEF Slots
<1>2. /\ Slots(c)' = 1..n - 1 /\ Len(pending'[c]) = n - 1
      /\ \A j \in 1..n - 1 : pending'[c][j] = pending[c][j + 1]
  <2>1. /\ pending'[c] \in Seq(Entries) /\ Len(pending'[c]) = n - 1
        /\ \A j \in 1..n - 1 : pending'[c][j] = pending[c][j + 1]
    BY <1>1, HeadTailProperties
  <2> QED
    BY <2>1 DEF Slots
<1>3. Window(c)'
  <2>1. \A j \in 1..n - 1 : pending'[c][j].lane \in 0..Lanes
    BY <1>2 DEF Orderly, Window
  <2>2. n - 1 <= MaxBatch
    BY ConsumerAssumption DEF Orderly, Window
  <2> QED
    BY <1>2, <2>1, <2>2 DEF Window
<1>4. ASSUME NEW i \in Running(c)'
      PROVE  IF Batch' THEN \A j \in 1..i - 1 : Key(c, j)' = Key(c, i)' => pending'[c][j].st = "done"
             ELSE i = 1 \/ IsControl(pending[c][i])'
  <2>1. i \in 1..n - 1 /\ pending'[c][i] = pending[c][i + 1] /\ i + 1 \in Running(c)
    BY <1>2 DEF Running
  <2>2. CASE Batch
    <3>1. \A k \in 1..(i + 1) - 1 : Key(c, k) = Key(c, i + 1) => pending[c][k].st = "done"
      BY <2>1, <2>2 DEF Orderly, Turns
    <3>2. ASSUME NEW j \in 1..i - 1, Key(c, j)' = Key(c, i)'
          PROVE  pending'[c][j].st = "done"
      <4>1. j + 1 \in 1..(i + 1) - 1 /\ j \in 1..n - 1
        BY <2>1
      <4>2. pending'[c][j] = pending[c][j + 1]
        BY <1>2, <4>1
      <4>3. Key(c, j + 1) = Key(c, i + 1)
        BY <2>1, <3>2, <4>2 DEF Key
      <4> QED
        BY <3>1, <4>1, <4>2, <4>3
    <3> QED
      BY <2>2, <3>2 DEF Batch
  <2>3. CASE ~Batch
    <3>1. i + 1 # 1 /\ IsControl(pending[c][i + 1])
      BY <2>1, <2>3 DEF Orderly, Turns
    <3> QED
      BY <2>1, <2>3, <3>1 DEF Batch, Controls, IsControl
  <2> QED
    BY <2>2, <2>3
<1>5. SameLane(c)'
  BY DEF SameLane
<1> QED
  BY <1>3, <1>4, <1>5 DEF Orderly, Turns

\* Every step keeps every member orderly.
LEMMA OrderStep ==
  ASSUME Shape, OrderInv, [Next]_vars
  PROVE  OrderInv'
<1>1. CASE UNCHANGED vars
  <2>1. \A d \in Consumers : Orderly(d)'
    BY <1>1, OthersOrderly DEF vars, OrderInv
  <2> QED
    BY <1>1, <2>1 DEF vars, OrderInv
<1>2. ASSUME NEW c \in Consumers, Loop(c) \/ Restart(c) \/ Crash(c) \/ Assign(c)
      PROVE  OrderInv'
  <2>1. /\ opt' = opt
        /\ \A d \in Consumers \ {c} : UNCHANGED <<pending[d], phase[d]>>
    <3>1. CASE Poll(c)
      BY <3>1 DEF Poll, Shape
    <3>2. CASE StartBatch(c)
      BY <3>2 DEF StartBatch, Shape
    <3>3. CASE Join(c)
      BY <3>3 DEF Join, Shape
    <3>4. CASE Commit(c) \/ CommitFails(c)
      BY <3>4 DEF Commit, CommitFails, AfterCommit, Halt, Shape
    <3>5. ASSUME NEW i \in Slots(c), Begin(c, i) \/ Handled(c, i) \/ Unhandled(c, i)
          PROVE  /\ opt' = opt
                 /\ \A d \in Consumers \ {c} : UNCHANGED <<pending[d], phase[d]>>
      BY <3>5 DEF Begin, Handled, Unhandled, Mark, Halt, Shape
    <3>6. CASE Leave(c) \/ Assign(c)
      BY <3>6 DEF Leave, Assign, Shape
    <3> QED
      BY <1>2, <3>1, <3>2, <3>3, <3>4, <3>5, <3>6 DEF Loop, Restart, Crash
  <2>2. Orderly(c)'
    <3>0. Orderly(c)
      BY DEF OrderInv
    <3>1. CASE Poll(c)
      BY <3>0, <3>1, PollOrder
    <3>2. CASE StartBatch(c)
      BY <3>0, <3>2, StartOrder
    <3>3. CASE Join(c)
      <4>1. UNCHANGED pending /\ phase'[c] # "work" /\ opt' = opt
        BY <3>3 DEF Join, Shape
      <4> QED
        BY <3>0, <4>1 DEF Orderly, Turns, SameLane, Window, Running, Slots, Batch, Controls, Key, IsControl
    <3>4. CASE Commit(c) \/ CommitFails(c)
      <4>1. /\ pending[c] # <<>> /\ phase[c] # "work"
            /\ UNCHANGED pending \/ pending' = [pending EXCEPT ![c] = Tail(pending[c])]
            /\ phase'[c] # "work"
        BY <3>4 DEF Commit, CommitFails, MayCommit, AfterCommit, Halt, Shape
      <4>2. CASE UNCHANGED pending
        BY <2>1, <3>0, <4>1, <4>2
           DEF Orderly, Turns, SameLane, Window, Running, Slots, Batch, Controls, Key, IsControl
      <4>3. CASE pending' = [pending EXCEPT ![c] = Tail(pending[c])]
        BY <2>1, <3>0, <4>1, <4>3, TailOrder
      <4> QED
        BY <4>1, <4>2, <4>3
    <3>5. ASSUME NEW i \in Slots(c), Begin(c, i) \/ Handled(c, i) \/ Unhandled(c, i)
          PROVE  Orderly(c)'
      BY <3>0, <3>5, WorkOrder
    <3>6. CASE Leave(c)
      <4>1. pending'[c] = <<>> /\ phase'[c] = "poll"
        BY <3>6 DEF Leave, Shape
      <4>2. Slots(c)' = {} /\ Running(c)' = {} /\ Len(pending'[c]) = 0
        BY <4>1 DEF Slots, Running
      <4> QED
        BY <4>1, <4>2, ConsumerAssumption DEF Orderly, Turns, SameLane, Window
    <3>7. CASE Assign(c)
      BY <3>0, <3>7, OthersOrderly DEF Assign
    <3> QED
      BY <1>2, <3>1, <3>2, <3>3, <3>4, <3>5, <3>6, <3>7 DEF Loop, Restart, Crash
  <2>3. \A d \in Consumers \ {c} : Orderly(d)'
    BY <2>1, OthersOrderly DEF OrderInv
  <2> QED
    BY <2>1, <2>2, <2>3 DEF OrderInv
<1> QED
  BY <1>1, <1>2 DEF Next

LEMMA OrderHolds == Spec => []OrderInv
<1>1. Init => OrderInv
  <2> SUFFICES ASSUME Init, NEW c \in Consumers PROVE Orderly(c)
    BY DEF Init, OrderInv
  <2>1. pending[c] = <<>> /\ phase[c] = "poll"
    BY DEF Init
  <2>2. Slots(c) = {} /\ Running(c) = {} /\ Len(pending[c]) = 0
    BY <2>1 DEF Slots, Running
  <2> QED
    BY <2>1, <2>2, ConsumerAssumption DEF Orderly, Turns, SameLane, Window
<1>2. Inv /\ OrderInv /\ [Next]_vars => OrderInv'
  BY OrderStep DEF Inv
<1> QED
  BY <1>1, <1>2, Inductive, PTL DEF Spec

\* The loops keep within their window and lanes, and every field has its type.
THEOREM ConsumerTypes == Spec => []TypeOK
<1>1. Inv /\ OrderInv => TypeOK
  <2> SUFFICES ASSUME Inv, OrderInv, NEW c \in Consumers
               PROVE  /\ pending[c] \in Seq([off : Offsets, st : Statuses, lane : 0..Lanes])
                      /\ Len(pending[c]) <= MaxBatch
    BY DEF Inv, Shape, OrderInv, TypeOK
  <2>1. pending[c] \in Seq(Entries) /\ Window(c)
    BY DEF Inv, Shape, OrderInv, Orderly
  <2>2. \A i \in 1..Len(pending[c]) : pending[c][i] \in [off : Offsets, st : Statuses, lane : 0..Lanes]
    <3> SUFFICES ASSUME NEW i \in 1..Len(pending[c])
                 PROVE  pending[c][i] \in [off : Offsets, st : Statuses, lane : 0..Lanes]
      OBVIOUS
    <3>1. pending[c][i] \in Entries /\ pending[c][i].lane \in 0..Lanes
      BY <2>1 DEF Window, Slots
    <3> QED
      BY <3>1 DEF Entries
  <2> DEFINE T == [off : Offsets, st : Statuses, lane : 0..Lanes]
  <2> HIDE DEF T
  <2>3. pending[c] \in [1..Len(pending[c]) -> Entries] /\ Len(pending[c]) \in Nat
    BY <2>1, LenProperties
  <2>4. pending[c] \in [1..Len(pending[c]) -> T]
    BY <2>2, <2>3 DEF T
  <2>5. pending[c] \in Seq(T)
    BY <2>3, <2>4, SeqDef
  <2> QED
    BY <2>1, <2>5 DEF T, Window
<1> QED
  BY <1>1, Inductive, OrderHolds, PTL

\* The member that handles a record has nothing unsettled before it, but for other keys.
LEMMA TurnsFact == Inv /\ OrderInv => (IsDurable => TurnsInOrder)
<1> SUFFICES ASSUME Inv, OrderInv, IsDurable, NEW c \in Consumers, NEW i \in Running(c),
                    ~IsControl(pending[c][i]), NEW q \in 1..pending[c][i].off - 1,
                    q \notin settled
             PROVE  Batch /\ KeyOf[q] # KeyOf[pending[c][i].off]
  BY DEF TurnsInOrder
<1>1. NoGap /\ Turns(c) /\ i \in Slots(c)
  BY DEF Inv, Safe, OrderInv, Orderly, Running
<1>2. PICK j \in Slots(c) : j <= i - 1 /\ pending[c][j].off = q
  BY <1>1 DEF NoGap, Covered
<1>3. j \in 1..i - 1 /\ pending[c][j].st # "done"
  <2>1. \E n \in Nat : Slots(c) = 1..n
    BY DEF Inv, Shape, Slots
  <2> QED
    BY <1>1, <1>2, <2>1 DEF NoGap
<1>4. Batch
  <2>1. i # 1
    BY <1>3
  <2> QED
    BY <1>1, <2>1 DEF Turns
<1>5. Key(c, j) # Key(c, i)
  BY <1>1, <1>3, <1>4 DEF Turns
<1> QED
  BY <1>2, <1>4, <1>5 DEF Key

\* In a durable consumer a session's turns reach the callback in their order, for any keys,
\* lanes, window and group, across batches, restarts and rebalances (HandleMessage).
THEOREM TurnsStayInOrder == Spec => [](IsDurable => TurnsInOrder)
BY Inductive, OrderHolds, TurnsFact, PTL

-----------------------------------------------------------------------------
(* The group implements the ordered topic.                                   *)

\* A record is handled after all that it must follow.
LEMMA HandledSettles ==
  ASSUME Inv, OrderInv, IsDurable, NEW c \in Consumers, NEW i \in Slots(c), Handled(c, i)
  PROVE  \E r \in Offsets : Ordered!Settle(r)
<1> DEFINE r == pending[c][i].off
<1>1. r \in Offsets
  <2>1. pending[c] \in Seq(Entries)
    BY DEF Inv, Shape
  <2>2. pending[c][i] \in Entries
    BY <2>1 DEF Slots
  <2> QED
    BY <2>2 DEF Entries
<1>2. i \in Running(c) /\ settled' = settled \cup {r} /\ UNCHANGED <<opt, committed>>
  BY DEF Handled
<1>3. Order' = Order
  BY <1>2 DEF Order, Controls, Batch
<1>4. Order[r] \subseteq settled
  <2>1. CASE Controls /\ r \in Control
    BY <1>1, <2>1 DEF Order
  <2>2. CASE ~(Controls /\ r \in Control)
    <3>1. \A q \in 1..r - 1 : q \in settled \/ (Batch /\ KeyOf[q] # KeyOf[r])
      BY <1>2, <2>2, TurnsFact DEF TurnsInOrder, IsControl
    <3>2. Order[r] = {q \in 1..r - 1 : Batch => KeyOf[q] = KeyOf[r]}
      BY <1>1, <2>2 DEF Order
    <3> QED
      BY <3>1, <3>2
  <2> QED
    BY <2>1, <2>2
<1> QED
  BY <1>1, <1>2, <1>3, <1>4 DEF Ordered!Settle, Ordered!Offsets, Offsets

\* A commit moves the offset to a record that is settled, as all before it are.
LEMMA CommitMoves ==
  ASSUME Inv, IsDurable, NEW c \in Consumers, Commit(c)
  PROVE  \E n \in 0..Records : Ordered!CommitTo(n)
<1>1. UNCHANGED <<opt, settled>>
  BY DEF Commit
<1>2. Order' = Order
  BY <1>1 DEF Order, Controls, Batch
<1>3. committed' \in 0..Records /\ CommittedIsSettled'
  BY CommitStep DEF Inv, Safe, Shape
<1> QED
  BY <1>1, <1>2, <1>3 DEF Ordered!CommitTo, CommittedIsSettled

\* Every other step leaves what is settled and what is committed as it is.
LEMMA OthersAreInvisible ==
  ASSUME Shape, NEW c \in Consumers, Loop(c) \/ Restart(c) \/ Crash(c) \/ Assign(c)
  PROVE  \/ Commit(c)
         \/ \E i \in Slots(c) : Handled(c, i)
         \/ UNCHANGED <<opt, settled, committed>>
BY DEF Loop, Poll, StartBatch, Join, CommitFails, Begin, Unhandled, Restart, Crash, Leave, Assign

\* The deployment never changes.
LEMMA OptIsFixed == Shape /\ [Next]_vars => opt' = opt
<1> SUFFICES ASSUME Shape, [Next]_vars, Next PROVE opt' = opt
  BY DEF vars
<1> PICK c \in Consumers : Loop(c) \/ Restart(c) \/ Crash(c) \/ Assign(c)
  BY DEF Next
<1> QED
  BY OthersAreInvisible DEF Commit, Handled

\* A durable group, in any of the loops, gives its producers an ordered topic: whoever holds
\* the partition, records are settled in their order and the offset never stands past one that
\* is not (HandleMessage, ProcessBatch, LoopWithControls).
THEOREM TopicIsOrdered == Spec => (IsDurable => ImplementsOrderedTopic)
<1>1. Init => Ordered!TopicInit
  <2> SUFFICES ASSUME Init PROVE Order \in [Offsets -> SUBSET Offsets]
    BY DEF Init, Ordered!TopicInit, Ordered!Offsets, Offsets
  <2>1. ASSUME NEW r \in Offsets PROVE 1..r - 1 \subseteq Offsets
    BY ConsumerAssumption DEF Offsets
  <2> QED
    BY <2>1 DEF Order
<1>2. Inv /\ OrderInv /\ IsDurable /\ [Next]_vars
        => [Ordered!TopicNext]_<<settled, committed, Order>>
  <2> SUFFICES ASSUME Inv, OrderInv, IsDurable, [Next]_vars
               PROVE  Ordered!TopicNext \/ UNCHANGED <<settled, committed, Order>>
    OBVIOUS
  <2>1. UNCHANGED <<opt, settled, committed>> => UNCHANGED <<settled, committed, Order>>
    BY DEF Order, Controls, Batch
  <2>2. CASE UNCHANGED vars
    BY <2>1, <2>2 DEF vars
  <2>3. CASE Next
    <3> PICK c \in Consumers : Loop(c) \/ Restart(c) \/ Crash(c) \/ Assign(c)
      BY <2>3 DEF Next
    <3>1. CASE Commit(c)
      BY <3>1, CommitMoves DEF Ordered!TopicNext
    <3>2. ASSUME NEW i \in Slots(c), Handled(c, i)
          PROVE  Ordered!TopicNext
      <4>1. \E r \in Offsets : Ordered!Settle(r)
        BY <3>2, HandledSettles
      <4> QED
        BY <4>1 DEF Ordered!TopicNext, Ordered!Offsets, Offsets
    <3> QED
      BY <2>1, <3>1, <3>2, OthersAreInvisible DEF Inv
  <2> QED
    BY <2>2, <2>3
<1>3. Inv /\ IsDurable /\ [Next]_vars => IsDurable'
  BY OptIsFixed DEF Inv, IsDurable, Serial
<1> QED
  BY <1>1, <1>2, <1>3, Inductive, OrderHolds, PTL DEF Spec, ImplementsOrderedTopic, Ordered!TopicSpec

=============================================================================
