-------------------------- MODULE CursorSync_proofs --------------------------
(***************************************************************************)
(* Proof about CursorSync, for any number of messages and any limit of     *)
(* pages, buffers, requests and frames: the client's cursor skips nothing. *)
(***************************************************************************)
EXTENDS CursorSync, Extrema, SequenceTheorems, TLAPS

Frames ==
  [type : {"message"}, seq : Seqs] \cup
  [type : {"sync_end"}, after : 0..MaxSeq, next : 0..MaxSeq, safe : 0..MaxSeq, more : BOOLEAN]
Requests == [after : 0..MaxSeq, safe : {None} \cup 0..MaxSeq]

Shape == TypeOK /\ wire \in Seq(Frames) /\ asked \in Seq(Requests)

\* what the client has, or found no place for
Kept == shown \cup Pending \cup dropped

\* a number below the cursor is kept, or settled without a row
Covered ==
  \A s \in Seqs : base < s /\ s <= cursor => s \in Kept \/ (s <= prefix /\ s \notin Rows)

\* the frames before the n-th
Ahead(n) == {s \in Seqs : \E j \in 1..(n - 1) : wire[j] = MessageFrame(s)}

\* a sync_end says "safe" only of rows that the client has or meets before it
Honest ==
  \A n \in DOMAIN wire : wire[n].type = "sync_end" =>
    /\ wire[n].safe <= prefix
    /\ \A s \in Rows : wire[n].after < s /\ s <= wire[n].safe => s \in Kept \cup Ahead(n)

\* the prefix a request was given is one the table has reached
Early == \A i \in DOMAIN asked : asked[i].safe <= prefix

IInv == Shape /\ seen \subseteq Kept /\ Covered /\ Honest /\ Early

-----------------------------------------------------------------------------
(* Helpers.                                                                 *)

LEMMA ConstFact == MaxSeq \in Nat /\ SeenLimit \in Nat /\ PendingLimit \in Nat /\ Seqs \subseteq Nat
BY CursorAssumption DEF Seqs

\* Run ends a contiguous stretch of S.
LEMMA RunFact ==
  ASSUME NEW c \in 0..MaxSeq, NEW S
  PROVE  Run(S, c) \in c..MaxSeq /\ (c + 1)..Run(S, c) \subseteq S
<1> DEFINE T == {n \in c..MaxSeq : (c + 1)..n \subseteq S}
<1>1. MaxSeq \in Nat
  BY ConstFact
<1>2. c \in T
  <2>1. (c + 1)..c = {}
    OBVIOUS
  <2> QED
    BY <1>1, <2>1
<1>3. T \in SUBSET (0..MaxSeq) /\ T # {}
  BY <1>1, <1>2
<1>4. Max(T) \in T
  BY <1>1, <1>3, MaxBounded
<1> QED
  BY <1>4 DEF Run

\* Finite sets of numbers: a subset has at most as many elements.
LEMMA FewSeqs ==
  ASSUME NEW S \in SUBSET Seqs
  PROVE  IsFiniteSet(S) /\ Cardinality(S) \in Nat
<1>1. IsFiniteSet(Seqs)
  BY ConstFact, FS_Interval DEF Seqs
<1> QED
  BY <1>1, FS_Subset, FS_CardinalityType

\* advanceSessionCursor moves the cursor over kept numbers only and remembers kept numbers.
LEMMA AdvanceFact ==
  ASSUME IInv, NEW c \in 0..MaxSeq, NEW batch \in SUBSET Seqs, NEW K,
         seen \cup batch \subseteq K, Advance(c, batch)
  PROVE  /\ cursor' \in c..MaxSeq /\ (c + 1)..cursor' \subseteq K
         /\ seen' \subseteq Seqs /\ seen' \subseteq K /\ Cardinality(seen') <= SeenLimit
<1>1. cursor' = Run(seen \cup batch, c)
  BY DEF Advance
<1>2. cursor' \in c..MaxSeq /\ (c + 1)..cursor' \subseteq K
  BY <1>1, RunFact, Zenon
<1> DEFINE left == Left(seen \cup batch, c, cursor')
<1>3. left \subseteq Seqs /\ left \subseteq K
  BY DEF Left, IInv, Shape, TypeOK
<1>4. Cardinality(left) \in Nat
  BY <1>3, FewSeqs
<1>5. CASE Overfull(left)
  <2> HIDE DEF left
  <2>1. PICK n \in batch : seen' = {s \in left \cap batch : s > n} /\ ~Overfull(seen')
    BY <1>5 DEF Advance, left
  <2>2. seen' \subseteq Seqs /\ seen' \subseteq K
    BY <1>3, <2>1
  <2>3. Cardinality(seen') \in Nat
    BY <2>2, FewSeqs
  <2> QED
    BY <1>2, <2>1, <2>2, <2>3, ConstFact DEF Overfull
<1>6. CASE ~Overfull(left)
  <2> HIDE DEF left
  <2>1. seen' = left
    BY <1>6 DEF Advance, left
  <2> QED
    BY <1>2, <1>3, <1>4, <1>6, <2>1, ConstFact DEF Overfull
<1> QED
  BY <1>5, <1>6

\* What the requests of a step have to be.
Asked ==
  /\ asked' \in Seq(Requests) /\ active' \in {None} \cup 0..MaxSeq
  /\ \A i \in DOMAIN asked' : asked'[i].safe <= prefix
  /\ ~link => asked' = asked

LEMMA SyncFact ==
  ASSUME NEW q \in Seq(Requests), NEW after \in 0..MaxSeq, prefix \in Nat,
         \A i \in DOMAIN q : q[i].safe <= prefix
  PROVE  /\ Append(q, Sync(after)) \in Seq(Requests)
         /\ \A i \in DOMAIN Append(q, Sync(after)) : Append(q, Sync(after))[i].safe <= prefix
<1>1. Sync(after) \in Requests /\ Sync(after).safe <= prefix
  BY ConstFact DEF Sync, Requests, None
<1> QED
  BY <1>1

LEMMA AskFact ==
  ASSUME IInv, NEW after \in 0..MaxSeq, Ask(after) \/ AskAnew(after) \/ AskNothing
  PROVE  Asked
<1>1. asked \in Seq(Requests) /\ active \in {None} \cup 0..MaxSeq /\ prefix \in Nat
  BY ConstFact DEF IInv, Shape, TypeOK
<1>2. \A i \in DOMAIN asked : asked[i].safe <= prefix
  BY DEF IInv, Early
<1>3. CASE UNCHANGED asked /\ active' \in {active, None}
  BY <1>1, <1>2, <1>3 DEF Asked
<1>4. CASE link /\ asked' = Append(asked, Sync(after)) /\ active' = after
  BY <1>1, <1>2, <1>4, SyncFact DEF Asked
<1> QED
  BY <1>3, <1>4 DEF Ask, AskAnew, AskNothing

-----------------------------------------------------------------------------
(* The wire.                                                                *)

\* Honest does not mind that the client keeps more.
LEMMA HonestStays ==
  ASSUME IInv, UNCHANGED <<rows, prefix, wire>>, Kept \subseteq Kept'
  PROVE  Honest'
BY DEF IInv, Honest, Ahead, Rows

\* Taking the first frame, when a message is kept by that.
LEMMA HonestTail ==
  ASSUME IInv, UNCHANGED <<rows, prefix>>, wire # <<>>, wire' = Tail(wire), Kept \subseteq Kept',
         Head(wire).type = "message" => Head(wire).seq \in Kept'
  PROVE  Honest' /\ wire' \in Seq(Frames) /\ Len(wire') < Len(wire)
<1>1. wire \in Seq(Frames) /\ wire' \in Seq(Frames) /\ Len(wire') < Len(wire)
  BY DEF IInv, Shape
<1>2. DOMAIN wire' = 1..(Len(wire) - 1) /\ \A n \in 1..(Len(wire) - 1) : wire'[n] = wire[n + 1]
  BY <1>1
<1>3. SUFFICES ASSUME NEW n \in DOMAIN wire', wire'[n].type = "sync_end"
               PROVE  /\ wire'[n].safe <= prefix
                      /\ \A s \in Rows : wire'[n].after < s /\ s <= wire'[n].safe => s \in Kept' \cup Ahead(n)'
  BY <1>1 DEF Honest, Rows
<1>4. n + 1 \in DOMAIN wire /\ wire'[n] = wire[n + 1] /\ n \in Nat
  BY <1>1, <1>2
<1>5. /\ wire[n + 1].safe <= prefix
      /\ \A s \in Rows : wire[n + 1].after < s /\ s <= wire[n + 1].safe => s \in Kept \cup Ahead(n + 1)
  BY <1>3, <1>4 DEF IInv, Honest
<1>6. \A s \in Ahead(n + 1) : s \in Kept' \cup Ahead(n)'
  <2> SUFFICES ASSUME NEW s \in Seqs, NEW j \in 1..n, wire[j] = MessageFrame(s)
               PROVE  s \in Kept' \cup Ahead(n)'
    BY <1>4 DEF Ahead
  <2>1. CASE j = 1
    BY <1>1, <2>1 DEF MessageFrame
  <2>2. CASE j # 1
    <3>1. j - 1 \in 1..(n - 1) /\ wire'[j - 1] = wire[j]
      BY <1>1, <1>2, <1>4, <2>2
    <3> QED
      BY <3>1 DEF Ahead, MessageFrame, Seqs
  <2> QED
    BY <2>1, <2>2
<1> QED
  BY <1>4, <1>5, <1>6

\* Adding frames: only what the new ends say is to be shown.
LEMMA HonestGrows ==
  ASSUME IInv, UNCHANGED <<rows, prefix>>, Kept \subseteq Kept',
         wire' \in Seq(Frames), Len(wire) <= Len(wire'),
         \A n \in 1..Len(wire) : wire'[n] = wire[n],
         \A n \in (Len(wire) + 1)..Len(wire') : wire'[n].type = "sync_end" =>
           /\ wire'[n].safe <= prefix
           /\ \A s \in Rows : wire'[n].after < s /\ s <= wire'[n].safe => s \in Ahead(n)'
  PROVE  Honest'
<1>1. SUFFICES ASSUME NEW n \in DOMAIN wire', wire'[n].type = "sync_end"
               PROVE  /\ wire'[n].safe <= prefix
                      /\ \A s \in Rows : wire'[n].after < s /\ s <= wire'[n].safe => s \in Kept' \cup Ahead(n)'
  BY DEF Honest, Rows
<1>2. n \in 1..Len(wire') /\ Len(wire) \in Nat
  BY DEF IInv, Shape
<1>3. CASE n > Len(wire)
  BY <1>1, <1>2, <1>3
<1>4. CASE n <= Len(wire)
  <2>1. n \in DOMAIN wire /\ wire'[n] = wire[n]
    BY <1>2, <1>4 DEF IInv, Shape
  <2>2. \A s \in Ahead(n) : s \in Ahead(n)'
    BY <1>2, <1>4 DEF Ahead, MessageFrame, Seqs
  <2> QED
    BY <1>1, <2>1, <2>2 DEF IInv, Honest
<1> QED
  BY <1>2, <1>3, <1>4

-----------------------------------------------------------------------------
(* Steps of the client.                                                     *)

\* Covered holds again if it holds up to c and the cursor moved from there over kept numbers.
LEMMA CoveredMoves ==
  ASSUME IInv, UNCHANGED <<rows, prefix>>, NEW c \in 0..MaxSeq,
         \A s \in Seqs : base' < s /\ s <= c => s \in Kept' \/ (s <= prefix /\ s \notin Rows),
         cursor' \in 0..MaxSeq, (c + 1)..cursor' \subseteq Kept'
  PROVE  Covered'
<1>1. SUFFICES ASSUME NEW s \in Seqs, base' < s, s <= cursor'
               PROVE  s \in Kept' \/ (s <= prefix /\ s \notin Rows)
  BY DEF Covered, Rows, Seqs
<1>2. s \in Nat /\ cursor' \in Nat /\ c \in Nat
  BY ConstFact
<1>3. CASE s <= c
  BY <1>1, <1>3
<1>4. CASE c < s
  BY <1>1, <1>2, <1>4
<1> QED
  BY <1>2, <1>3, <1>4

\* What is kept of the buffer: a message appended to it, or its end.
LEMMA PendingFact ==
  ASSUME IInv
  PROVE  /\ Pending \subseteq Seqs
         /\ \A s \in Seqs : pending' = Append(pending, s) =>
              Pending' = Pending \cup {s} /\ pending' \in Seq(Seqs) /\ Len(pending') = Len(pending) + 1
         /\ pending' = <<>> => Pending' = {}
<1>1. pending \in Seq(Seqs)
  BY DEF IInv, Shape, TypeOK
<1>2. ASSUME NEW s \in Seqs, pending' = Append(pending, s)
      PROVE  Pending' = Pending \cup {s} /\ pending' \in Seq(Seqs) /\ Len(pending') = Len(pending) + 1
  <2>1. /\ pending' \in Seq(Seqs) /\ Len(pending') = Len(pending) + 1
        /\ pending'[Len(pending) + 1] = s
        /\ \A n \in 1..Len(pending) : pending'[n] = pending[n]
    BY <1>1, <1>2
  <2>2. DOMAIN pending' = 1..(Len(pending) + 1) /\ DOMAIN pending = 1..Len(pending) /\ Len(pending) \in Nat
    BY <1>1, <2>1
  <2> QED
    BY <2>1, <2>2 DEF Pending
<1> QED
  BY <1>1, <1>2 DEF Pending

\* receiveConversationMessage keeps the message in one way or another.
LEMMA KeepFact ==
  ASSUME IInv, NEW s \in Seqs, Keep(s)
  PROVE  /\ Kept' = Kept \cup {s}
         /\ shown' \subseteq Seqs /\ dropped' \subseteq Seqs
         /\ pending' \in Seq(Seqs) /\ Len(pending') <= PendingLimit
         /\ {buffer', recover'} \subseteq {None} \cup 0..MaxSeq
<1>1. /\ shown \subseteq Seqs /\ dropped \subseteq Seqs /\ cursor \in 0..MaxSeq
      /\ pending \in Seq(Seqs) /\ Len(pending) <= PendingLimit
      /\ {buffer, recover} \subseteq {None} \cup 0..MaxSeq
  BY DEF IInv, Shape, TypeOK
<1>2. CASE Visible
  <2>1. shown' = shown \cup {s} /\ UNCHANGED <<pending, buffer, recover, dropped>>
    BY <1>2 DEF Keep, bufVars
  <2> QED
    BY <1>1, <2>1 DEF Kept, Pending
<1>3. CASE ~Visible
  <2> DEFINE start == IF buffer = None THEN cursor ELSE buffer
  <2>1. start \in 0..MaxSeq
    BY <1>1
  <2>2. shown' = shown /\ buffer' = start
    BY <1>3 DEF Keep
  <2>3. CASE Len(pending) < PendingLimit
    <3>1. pending' = Append(pending, s) /\ UNCHANGED <<recover, dropped>>
      BY <1>3, <2>3 DEF Keep
    <3>2. Pending' = Pending \cup {s} /\ pending' \in Seq(Seqs) /\ Len(pending') = Len(pending) + 1
      BY <3>1, PendingFact
    <3> QED
      BY <1>1, <2>1, <2>2, <2>3, <3>1, <3>2, ConstFact DEF Kept
  <2>4. CASE ~(Len(pending) < PendingLimit)
    <3>1. /\ recover' = IF recover = None \/ recover > start THEN start ELSE recover
          /\ dropped' = dropped \cup {s} /\ pending' = pending
      BY <1>3, <2>4 DEF Keep
    <3>2. recover' \in {recover, start}
      BY <3>1
    <3> HIDE DEF start
    <3> QED
      BY <1>1, <2>1, <2>2, <3>1, <3>2 DEF Kept, Pending
  <2> QED
    BY <2>3, <2>4
<1> QED
  BY <1>2, <1>3

\* What a step of the client has to show.
Good ==
  /\ Kept \subseteq Kept' /\ seen' \subseteq Kept'
  /\ cursor' \in 0..MaxSeq /\ seen' \subseteq Seqs /\ Cardinality(seen') <= SeenLimit
  /\ shown' \subseteq Seqs /\ dropped' \subseteq Seqs
  /\ pending' \in Seq(Seqs) /\ Len(pending') <= PendingLimit
  /\ {buffer', recover'} \subseteq {None} \cup 0..MaxSeq
  /\ base' \in 0..MaxSeq

\* A step that leaves the table and the view's fields in order.
LEMMA GoodStep ==
  ASSUME IInv, Good, Asked, Bounds, Covered', Honest', UNCHANGED <<rows, prefix, link>>,
         wire' \in Seq(Frames), ~link => wire' = <<>>,
         view' \in {"away", "asked", "read", "shown"}, page' \subseteq Rows,
         ready' \in BOOLEAN, retry' \in BOOLEAN, timer' \in BOOLEAN
  PROVE  IInv'
<1>1. TypeOK'
  BY DEF IInv, Shape, TypeOK, Good, Asked, Bounds, Rows
<1>2. Early'
  BY DEF Asked, Early
<1> QED
  BY <1>1, <1>2 DEF IInv, Shape, Good, Asked

\* handleWebSocketMessage with a message
LEMMA ReceiveMessageStep == IInv /\ ReceiveMessage /\ Bounds => IInv'
<1> SUFFICES ASSUME IInv, ReceiveMessage, Bounds PROVE IInv'
  OBVIOUS
<1> DEFINE s == Head(wire).seq
<1>1. /\ wire # <<>> /\ Head(wire).type = "message" /\ wire' = Tail(wire)
      /\ Keep(s)
      /\ UNCHANGED <<rows, prefix, link, view, page, ready, retry, timer, base>>
  BY DEF ReceiveMessage, logVars, viewVars
<1>2. s \in Seqs
  <2>1. Head(wire) \in Frames
    BY <1>1 DEF IInv, Shape
  <2> QED
    BY <1>1, <2>1 DEF Frames
<1>3. /\ Kept' = Kept \cup {s}
      /\ shown' \subseteq Seqs /\ dropped' \subseteq Seqs
      /\ pending' \in Seq(Seqs) /\ Len(pending') <= PendingLimit
      /\ {buffer', recover'} \subseteq {None} \cup 0..MaxSeq
  BY <1>1, <1>2, KeepFact
<1>4. /\ cursor' \in cursor..MaxSeq /\ (cursor + 1)..cursor' \subseteq Kept'
      /\ seen' \subseteq Seqs /\ seen' \subseteq Kept' /\ Cardinality(seen') <= SeenLimit
      /\ Asked
  <2>1. CASE view = "away" \/ ready
    <3>1. Advance(cursor, {s}) /\ (Ask(cursor') \/ AskNothing)
      BY <2>1 DEF ReceiveMessage
    <3>2. cursor \in 0..MaxSeq /\ {s} \in SUBSET Seqs /\ seen \cup {s} \subseteq Kept'
      BY <1>2, <1>3 DEF IInv, Shape, TypeOK
    <3>3. /\ cursor' \in cursor..MaxSeq /\ (cursor + 1)..cursor' \subseteq Kept'
          /\ seen' \subseteq Seqs /\ seen' \subseteq Kept' /\ Cardinality(seen') <= SeenLimit
      BY <3>1, <3>2, AdvanceFact
    <3>4. cursor' \in 0..MaxSeq
      BY <3>2, <3>3
    <3> QED
      BY <3>1, <3>3, <3>4, AskFact
  <2>2. CASE ~(view = "away" \/ ready)
    <3>1. UNCHANGED <<cursor, seen>> /\ AskNothing
      BY <2>2 DEF ReceiveMessage, posVars
    <3>2. cursor \in 0..MaxSeq /\ MaxSeq \in Nat
      BY ConstFact DEF IInv, Shape, TypeOK
    <3>3. (cursor + 1)..cursor' = {} /\ cursor' \in cursor..MaxSeq
      BY <3>1, <3>2
    <3>4. Asked
      BY <3>1, <3>2, AskFact
    <3> QED
      BY <1>3, <3>1, <3>3, <3>4 DEF IInv, Shape, TypeOK
  <2> QED
    BY <2>1, <2>2
<1> HIDE DEF s
<1>5. cursor \in 0..MaxSeq /\ cursor' \in 0..MaxSeq /\ MaxSeq \in Nat
  BY <1>4, ConstFact DEF IInv, Shape, TypeOK
<1>6. Good
  BY <1>1, <1>3, <1>4, <1>5 DEF Good, IInv, Shape, TypeOK
<1>7. Covered'
  <2>1. \A t \in Seqs : base' < t /\ t <= cursor => t \in Kept' \/ (t <= prefix /\ t \notin Rows)
    BY <1>1, <1>3 DEF IInv, Covered
  <2> QED
    BY <1>1, <1>4, <1>5, <2>1, CoveredMoves
<1>8. Honest' /\ wire' \in Seq(Frames)
  BY <1>1, <1>3, HonestTail DEF s
<1>9. link
  BY <1>1 DEF IInv, Shape, TypeOK
<1> QED
  BY <1>1, <1>4, <1>6, <1>7, <1>8, <1>9, GoodStep DEF IInv, Shape, TypeOK

\* The cursor may jump to the safe position of a page that began at or below it.
LEMMA JumpFact ==
  ASSUME IInv, wire # <<>>, Head(wire).type = "sync_end"
  PROVE  /\ Jump(Head(wire)) \in cursor..MaxSeq
         /\ \A s \in Seqs : base < s /\ s <= Jump(Head(wire)) => s \in Kept \/ (s <= prefix /\ s \notin Rows)
<1> DEFINE f == Head(wire)
<1>1. 1 \in DOMAIN wire /\ f = wire[1] /\ f \in Frames
  BY DEF IInv, Shape
<1>2. f.after \in 0..MaxSeq /\ f.safe \in 0..MaxSeq
  BY <1>1 DEF Frames
<1>3. f.safe <= prefix /\ \A s \in Rows : f.after < s /\ s <= f.safe => s \in Kept
  <2>1. Ahead(1) = {}
    BY DEF Ahead
  <2> QED
    BY <1>1, <2>1 DEF IInv, Honest
<1>4. cursor \in 0..MaxSeq /\ prefix \in 0..MaxSeq /\ MaxSeq \in Nat
  BY ConstFact DEF IInv, Shape, TypeOK
<1> HIDE DEF f
<1>5. Jump(f) \in cursor..MaxSeq
  BY <1>2, <1>4 DEF Jump
<1>6. ASSUME NEW s \in Seqs, base < s, s <= Jump(f)
      PROVE  s \in Kept \/ (s <= prefix /\ s \notin Rows)
  <2>1. s \in Nat
    BY ConstFact
  <2>2. CASE s <= cursor
    BY <1>6, <2>2 DEF IInv, Covered
  <2>3. CASE cursor < s
    <3>1. Jump(f) = f.safe /\ f.after <= cursor
      BY <1>4, <1>6, <2>1, <2>3 DEF Jump
    <3> QED
      BY <1>2, <1>3, <1>4, <1>6, <2>1, <2>3, <3>1
  <2> QED
    BY <1>4, <2>1, <2>2, <2>3
<1> QED
  BY <1>5, <1>6 DEF f

\* What a step leaves alone of the message buffer and what is rendered.
LEMMA KeptStays ==
  ASSUME UNCHANGED <<shown, pending, dropped>>
  PROVE  Kept' = Kept
BY DEF Kept, Pending

\* A step that leaves all messages and the cursor alone.
LEMMA StillGood ==
  ASSUME IInv, UNCHANGED <<rows, prefix, shown, bufVars, posVars, base>>
  PROVE  Good /\ Covered' /\ Kept \subseteq Kept'
<1>1. UNCHANGED <<shown, pending, dropped, buffer, recover, cursor, seen>>
  BY DEF bufVars, posVars
<1>2. Kept' = Kept
  BY <1>1, KeptStays
<1> QED
  BY <1>1, <1>2 DEF IInv, Shape, TypeOK, Good, Covered, Rows

\* handleSyncEnd
LEMMA ReceiveSyncEndStep == IInv /\ ReceiveSyncEnd /\ Bounds => IInv'
<1> SUFFICES ASSUME IInv, ReceiveSyncEnd, Bounds PROVE IInv'
  OBVIOUS
<1> DEFINE f == Head(wire)
<1>1. /\ wire # <<>> /\ f.type = "sync_end" /\ wire' = Tail(wire)
      /\ UNCHANGED <<rows, prefix, link, view, page, ready, retry, pending, buffer, recover, dropped, shown, base>>
  BY DEF ReceiveSyncEnd, logVars, viewVars, bufVars
<1>2. Kept' = Kept
  BY <1>1, KeptStays
<1>3. Honest' /\ wire' \in Seq(Frames)
  BY <1>1, <1>2, HonestTail
<1>4. link
  BY <1>1 DEF IInv, Shape, TypeOK
<1>5. cursor \in 0..MaxSeq /\ active \in {None} \cup 0..MaxSeq /\ timer \in BOOLEAN /\ MaxSeq \in Nat
  BY ConstFact DEF IInv, Shape, TypeOK
<1>6. CASE active \notin {None, f.after}
  <2>1. UNCHANGED <<asked, active, cursor, seen, timer>>
    BY <1>6 DEF ReceiveSyncEnd, posVars
  <2>2. Good /\ Covered'
    BY <1>1, <2>1, StillGood DEF bufVars, posVars
  <2>3. Asked
    BY <1>5, <2>1, AskFact DEF AskNothing
  <2> QED
    BY <1>1, <1>3, <1>4, <2>1, <2>2, <2>3, GoodStep DEF IInv, Shape, TypeOK
<1>7. CASE active \in {None, f.after}
  <2> DEFINE left == {s \in seen : s > Jump(f)}
  <2>1. /\ cursor' = Run(left, Jump(f))
        /\ seen' = {s \in left : s > cursor'}
    BY <1>7 DEF ReceiveSyncEnd
  <2>2. Jump(f) \in 0..MaxSeq
    BY <1>1, <1>5, JumpFact
  <2>3. /\ cursor' \in Jump(f)..MaxSeq /\ (Jump(f) + 1)..cursor' \subseteq left
    BY <2>1, <2>2, RunFact
  <2>4. (Jump(f) + 1)..cursor' \subseteq Kept'
    BY <1>2, <2>3 DEF IInv
  <2>5. cursor' \in 0..MaxSeq
    BY <1>5, <2>2, <2>3
  <2>6. \A s \in Seqs : base' < s /\ s <= Jump(f) => s \in Kept' \/ (s <= prefix /\ s \notin Rows)
    BY <1>1, <1>2, JumpFact
  <2>7. Covered'
    BY <1>1, <2>2, <2>4, <2>5, <2>6, CoveredMoves
  <2>8. seen' \subseteq seen /\ Cardinality(seen') <= SeenLimit
    <3>1. seen' \subseteq seen /\ seen \in SUBSET Seqs /\ Cardinality(seen) <= SeenLimit
      BY <2>1 DEF IInv, Shape, TypeOK
    <3>2. IsFiniteSet(seen) /\ Cardinality(seen) \in Nat /\ Cardinality(seen') \in Nat
      BY <3>1, FewSeqs
    <3>3. Cardinality(seen') <= Cardinality(seen)
      BY <3>1, <3>2, FS_Subset
    <3> QED
      BY <3>1, <3>2, <3>3, ConstFact
  <2>9. Good
    BY <1>1, <1>2, <2>5, <2>8 DEF Good, IInv, Shape, TypeOK
  <2>10. Asked /\ timer' \in BOOLEAN
    <3>1. CASE f.more /\ f.next > f.after
      <4>1. AskAnew(f.next) /\ timer' = timer
        BY <1>7, <3>1 DEF ReceiveSyncEnd
      <4>2. f \in Frames
        BY <1>1 DEF IInv, Shape
      <4>3. f.next \in 0..MaxSeq
        BY <1>1, <4>2 DEF Frames
      <4> QED
        BY <1>5, <4>1, <4>3, AskFact
    <3>2. CASE ~(f.more /\ f.next > f.after)
      <4>1. active' = None /\ asked' = asked /\ timer' = (timer \/ Gap(seen', cursor'))
        BY <1>7, <3>2 DEF ReceiveSyncEnd
      <4> QED
        BY <1>5, <4>1 DEF Asked, IInv, Shape, Early, Gap
    <3> QED
      BY <3>1, <3>2
  <2> QED
    BY <1>1, <1>3, <1>4, <2>7, <2>9, <2>10, GoodStep DEF IInv, Shape, TypeOK
<1> QED
  BY <1>6, <1>7

\* Timer and reconcileCurrentConversation
LEMMA TimerStep == IInv /\ (Timer \/ Reconcile) /\ Bounds => IInv'
<1> SUFFICES ASSUME IInv, Timer \/ Reconcile, Bounds PROVE IInv'
  OBVIOUS
<1>1. /\ Ask(cursor) /\ timer' \in BOOLEAN
      /\ UNCHANGED <<rows, prefix, link, wire, view, page, ready, retry, cursor, seen, bufVars, shown, base>>
  BY DEF Timer, Reconcile, logVars, viewVars, posVars, IInv, Shape, TypeOK
<1>2. Good /\ Covered' /\ Kept \subseteq Kept'
  BY <1>1, StillGood DEF posVars
<1>3. Honest'
  BY <1>1, <1>2, HonestStays
<1>4. Asked
  BY <1>1, AskFact DEF IInv, Shape, TypeOK
<1> QED
  BY <1>1, <1>2, <1>3, <1>4, GoodStep DEF IInv, Shape, TypeOK

\* What Flush with a full buffer's recovery leaves under way.
LEMMA RecoverFact ==
  ASSUME IInv, NEW end \in 0..MaxSeq, NEW back \in 0..MaxSeq, NEW early \in {<<>>, <<Sync(end)>>},
         early # <<>> => link,
         asked' = asked \o early \o (IF link THEN <<Sync(back)>> ELSE <<>>),
         active' = IF link THEN back ELSE None
  PROVE  Asked
<1>1. asked \in Seq(Requests) /\ prefix \in Nat /\ \A i \in DOMAIN asked : asked[i].safe <= prefix
  BY ConstFact DEF IInv, Shape, TypeOK, Early
<1>2. Sync(end) \in Requests /\ Sync(back) \in Requests
  BY DEF Sync, Requests
<1>3. CASE ~link
  <2>1. asked' = asked
    BY <1>1, <1>3
  <2> QED
    BY <1>1, <1>3, <2>1 DEF Asked
<1>4. CASE link /\ early = <<>>
  <2>1. asked' = Append(asked, Sync(back))
    BY <1>1, <1>2, <1>4
  <2> QED
    BY <1>1, <1>4, <2>1, SyncFact DEF Asked
<1>5. CASE link /\ early = <<Sync(end)>>
  <2>1. asked' = Append(Append(asked, Sync(end)), Sync(back))
    BY <1>1, <1>2, <1>5
  <2>2. /\ Append(asked, Sync(end)) \in Seq(Requests)
        /\ \A i \in DOMAIN Append(asked, Sync(end)) : Append(asked, Sync(end))[i].safe <= prefix
    BY <1>1, SyncFact
  <2> HIDE DEF Requests
  <2>3. /\ asked' \in Seq(Requests)
        /\ \A i \in DOMAIN asked' : asked'[i].safe <= prefix
    BY <1>1, <2>1, <2>2, SyncFact
  <2> QED
    BY <1>5, <2>3 DEF Asked
<1> QED
  BY <1>3, <1>4, <1>5

\* flushPendingLiveMessages renders what waited; the cursor moves over what was rendered.
LEMMA FlushFact ==
  ASSUME IInv, NEW c \in 0..MaxSeq, NEW history \in SUBSET Seqs, Flush(c, history),
         UNCHANGED <<rows, prefix, wire>>, base' \in 0..MaxSeq,
         \A s \in Seqs : base' < s /\ s <= c => s \in Kept \/ (s <= prefix /\ s \notin Rows)
  PROVE  Good /\ Asked /\ Covered' /\ Honest'
<1> DEFINE batch == history \cup Pending
           end   == Run(seen \cup batch, c)
           first == Run(seen \cup history, c)
<1>1. /\ shown' = shown \cup batch
      /\ pending' = <<>> /\ buffer' = None /\ recover' = None /\ dropped' = dropped
  BY DEF Flush
<1>2. Pending \subseteq Seqs /\ Pending' = {}
  BY <1>1, PendingFact
<1>3. Kept' = Kept \cup history
  BY <1>1, <1>2 DEF Kept
<1>4. batch \in SUBSET Seqs /\ seen \cup batch \subseteq Kept'
  BY <1>2, <1>3 DEF IInv, Kept
<1>5. end \in 0..MaxSeq /\ (c + 1)..end \subseteq Kept' /\ first \in 0..MaxSeq
  <2>1. end \in c..MaxSeq /\ (c + 1)..end \subseteq seen \cup batch
    BY RunFact
  <2>2. first \in c..MaxSeq
    BY RunFact
  <2> QED
    BY <1>4, <2>1, <2>2
<1>6. /\ cursor' \in 0..MaxSeq /\ (c + 1)..cursor' \subseteq Kept'
      /\ seen' \subseteq Seqs /\ seen' \subseteq Kept' /\ Cardinality(seen') <= SeenLimit
      /\ Asked
  <2>1. CASE recover = None
    <3>1. Advance(c, batch) /\ Ask(IF Gap(history, first) THEN first ELSE end)
      BY <2>1 DEF Flush
    <3> DEFINE after == IF Gap(history, first) THEN first ELSE end
    <3>2. after \in 0..MaxSeq
      BY <1>5
    <3> HIDE DEF after, batch, end, first
    <3>3. /\ cursor' \in c..MaxSeq /\ (c + 1)..cursor' \subseteq Kept'
          /\ seen' \subseteq Seqs /\ seen' \subseteq Kept' /\ Cardinality(seen') <= SeenLimit
      BY <1>4, <3>1, AdvanceFact
    <3>4. Asked
      <4>1. Ask(after)
        BY <3>1 DEF after, first, end, batch
      <4> QED
        BY <3>2, <4>1, AskFact
    <3>5. cursor' \in 0..MaxSeq
      BY <3>3, ConstFact
    <3> QED
      BY <3>3, <3>4, <3>5
  <2>2. CASE recover # None
    <3>1. recover \in 0..MaxSeq
      BY <2>2 DEF IInv, Shape, TypeOK
    <3>2. /\ cursor' = (IF end < recover THEN end ELSE recover) /\ seen' = {}
          /\ active' = IF link THEN recover ELSE None
      BY <2>2 DEF Flush
    <3>3. PICK early \in {<<>>, <<Sync(end)>>} :
               /\ IF early = <<>> THEN ~Gap(batch, end) \/ active # None \/ ~link
                                  ELSE Gap(batch, end) /\ link
               /\ asked' = asked \o early \o (IF link THEN <<Sync(recover)>> ELSE <<>>)
      BY <2>2 DEF Flush
    <3> HIDE DEF end, batch, first
    <3>4. cursor' \in 0..MaxSeq /\ cursor' <= end
      BY <1>5, <3>1, <3>2, ConstFact
    <3>5. (c + 1)..cursor' \subseteq Kept'
      BY <1>5, <3>4, ConstFact
    <3>6. early # <<>> => link
      BY <3>3
    <3>7. Asked
      BY <1>5, <3>1, <3>2, <3>3, <3>6, RecoverFact
    <3>8. Cardinality(seen') = 0
      BY <3>2, FS_EmptySet
    <3> QED
      BY <3>2, <3>4, <3>5, <3>7, <3>8, ConstFact
  <2> QED
    BY <2>1, <2>2
<1> HIDE DEF batch, end, first
<1>7. Covered'
  <2>1. \A s \in Seqs : base' < s /\ s <= c => s \in Kept' \/ (s <= prefix /\ s \notin Rows)
    BY <1>3
  <2> QED
    BY <1>6, <2>1, CoveredMoves
<1>8. Good
  <2>1. shown' \subseteq Seqs /\ dropped' \subseteq Seqs
    BY <1>1, <1>4 DEF IInv, Shape, TypeOK
  <2>2. pending' \in Seq(Seqs) /\ Len(pending') <= PendingLimit
    BY <1>1, ConstFact
  <2> QED
    BY <1>1, <1>3, <1>6, <2>1, <2>2 DEF Good
<1>9. Honest'
  BY <1>3, HonestStays
<1> QED
  BY <1>6, <1>7, <1>8, <1>9

\* showChatWindow
LEMMA ShowStep == IInv /\ Show /\ Bounds => IInv'
<1> SUFFICES ASSUME IInv, Show, Bounds PROVE IInv'
  OBVIOUS
<1>1. /\ UNCHANGED <<rows, prefix, link, wire, page, ready, retry, timer, base>>
      /\ view' \in {"asked", "shown"}
  BY DEF Show, logVars
<1>2. cursor \in 0..MaxSeq /\ {} \in SUBSET Seqs /\ base' \in 0..MaxSeq
  BY <1>1 DEF IInv, Shape, TypeOK
<1>3. Good /\ Asked /\ Covered' /\ Honest'
  <2>1. CASE Flush(cursor, {})
    <3>1. \A s \in Seqs : base' < s /\ s <= cursor => s \in Kept \/ (s <= prefix /\ s \notin Rows)
      BY <1>1 DEF IInv, Covered
    <3> QED
      BY <1>1, <1>2, <2>1, <3>1, FlushFact
  <2>2. CASE AskNothing /\ UNCHANGED <<posVars, bufVars, shown>>
    <3>1. Good /\ Covered' /\ Kept \subseteq Kept'
      BY <1>1, <2>2, StillGood
    <3> QED
      BY <1>1, <1>2, <2>2, <3>1, AskFact, HonestStays
  <2> QED
    BY <2>1, <2>2 DEF Show
<1> QED
  BY <1>1, <1>3, GoodStep DEF IInv, Shape, TypeOK

\* parkCurrentWorkspace, and the history page arrives
LEMMA ParkStep == IInv /\ (Park \/ ReadHistory) /\ Bounds => IInv'
<1> SUFFICES ASSUME IInv, Park \/ ReadHistory, Bounds PROVE IInv'
  OBVIOUS
<1>1. /\ UNCHANGED <<rows, prefix, link, wire, asked, ready, retry, posVars, bufVars, active, timer, shown, base>>
      /\ view' \in {"away", "read"} /\ page' \subseteq Rows
  BY DEF Park, ReadHistory, logVars
<1>2. Good /\ Covered' /\ Kept \subseteq Kept'
  BY <1>1, StillGood
<1>3. Honest'
  BY <1>1, <1>2, HonestStays
<1>4. Asked
  BY <1>1 DEF Asked, IInv, Shape, TypeOK, Early
<1> QED
  BY <1>1, <1>2, <1>3, <1>4, GoodStep DEF IInv, Shape, TypeOK

\* loadHistory
LEMMA LoadHistoryStep == IInv /\ LoadHistory /\ Bounds => IInv'
<1> SUFFICES ASSUME IInv, LoadHistory, Bounds PROVE IInv'
  OBVIOUS
<1> DEFINE c == IF cursor = 0 /\ page # {} THEN Edge ELSE cursor
<1>1. /\ UNCHANGED <<rows, prefix, link, wire, timer>>
      /\ Flush(c, page) /\ base' = IF cursor = 0 /\ page # {} THEN c ELSE base
      /\ view' = "shown" /\ page' = {} /\ ready' = TRUE /\ retry' = FALSE
  BY DEF LoadHistory, logVars
<1>2. page \in SUBSET Seqs /\ base \in 0..MaxSeq /\ cursor \in 0..MaxSeq
  BY DEF IInv, Shape, TypeOK, Rows
<1>3. page # {} => Edge \in 0..MaxSeq
  <2>1. Pending \subseteq Seqs /\ seen \subseteq Seqs
    BY PendingFact DEF IInv, Shape, TypeOK
  <2> DEFINE S == page \cup Pending \cup seen
  <2>2. S \in SUBSET Seqs /\ S \in SUBSET Nat
    BY <1>2, <2>1, ConstFact
  <2>3. S # {} => Min(S) \in S
    BY <2>2, MinNat
  <2>4. S # {} => Min(S) \in 1..MaxSeq
    BY <2>2, <2>3 DEF Seqs
  <2>5. S # {} => Min(S) - 1 \in 0..MaxSeq
    BY <2>4, ConstFact
  <2> QED
    BY <2>5 DEF Edge
<1>4. c \in 0..MaxSeq /\ base' \in 0..MaxSeq
  BY <1>1, <1>2, <1>3
<1>5. \A s \in Seqs : base' < s /\ s <= c => s \in Kept \/ (s <= prefix /\ s \notin Rows)
  <2>1. CASE cursor = 0 /\ page # {}
    BY <1>1, <1>4, <2>1, ConstFact
  <2>2. CASE ~(cursor = 0 /\ page # {})
    BY <1>1, <2>2 DEF IInv, Covered
  <2> QED
    BY <2>1, <2>2
<1> HIDE DEF c
<1>6. Good /\ Asked /\ Covered' /\ Honest'
  BY <1>1, <1>2, <1>4, <1>5, FlushFact
<1> QED
  BY <1>1, <1>6, GoodStep DEF IInv, Shape, TypeOK

LEMMA LoadFailsStep == IInv /\ LoadFails /\ Bounds => IInv'
<1> SUFFICES ASSUME IInv, LoadFails, Bounds PROVE IInv'
  OBVIOUS
<1>1. /\ UNCHANGED <<rows, prefix, link, wire, timer, base>>
      /\ Flush(cursor, {})
      /\ view' = "shown" /\ page' = {} /\ ready' = TRUE /\ retry' = TRUE
  BY DEF LoadFails, logVars
<1>2. cursor \in 0..MaxSeq /\ {} \in SUBSET Seqs /\ base' \in 0..MaxSeq
  BY <1>1 DEF IInv, Shape, TypeOK
<1>3. \A s \in Seqs : base' < s /\ s <= cursor => s \in Kept \/ (s <= prefix /\ s \notin Rows)
  BY <1>1 DEF IInv, Covered
<1>4. Good /\ Asked /\ Covered' /\ Honest'
  BY <1>1, <1>2, <1>3, FlushFact
<1> QED
  BY <1>1, <1>4, GoodStep DEF IInv, Shape, TypeOK

-----------------------------------------------------------------------------
(* The connection.                                                          *)

\* connectWebSocket
LEMMA ConnectStep == IInv /\ Connect /\ Bounds => IInv'
<1> SUFFICES ASSUME IInv, Connect, Bounds PROVE IInv'
  OBVIOUS
<1>1. /\ ~link /\ link' = TRUE /\ timer' = FALSE
      /\ UNCHANGED <<rows, prefix, wire, view, page, ready, retry, cursor, seen, bufVars, shown, base>>
      /\ asked' \in {<<>>, <<Sync(cursor)>>} /\ active' \in {None, cursor}
  BY DEF Connect, logVars, viewVars, posVars
<1>2. Good /\ Covered' /\ Kept \subseteq Kept'
  BY <1>1, StillGood DEF posVars
<1>3. Honest'
  BY <1>1, <1>2, HonestStays
<1>4. cursor \in 0..MaxSeq /\ prefix \in Nat
  BY ConstFact DEF IInv, Shape, TypeOK
<1>5. asked' \in Seq(Requests) /\ \A i \in DOMAIN asked' : asked'[i].safe <= prefix
  <2>1. <<>> \in Seq(Requests) /\ \A i \in DOMAIN <<>> : <<>>[i].safe <= prefix
    OBVIOUS
  <2>2. asked' \in {<<>>, Append(<<>>, Sync(cursor))}
    BY <1>1
  <2> QED
    BY <1>4, <2>1, <2>2, SyncFact
<1>6. TypeOK'
  BY <1>1, <1>2, <1>4 DEF Good, IInv, Shape, TypeOK, Bounds, Rows
<1> QED
  BY <1>1, <1>2, <1>3, <1>5, <1>6 DEF Good, IInv, Shape, Early

\* The socket closes.
LEMMA DisconnectStep == IInv /\ Disconnect => IInv'
<1> SUFFICES ASSUME IInv, Disconnect PROVE IInv'
  OBVIOUS
<1>1. /\ link' = FALSE /\ wire' = <<>> /\ asked' = <<>>
      /\ UNCHANGED <<rows, prefix, view, page, ready, retry, cursor, seen, bufVars, active, timer, shown, base>>
  BY DEF Disconnect, logVars, viewVars, posVars
<1>2. Good /\ Covered' /\ Kept \subseteq Kept'
  BY <1>1, StillGood DEF posVars
<1>3. 0 <= MaxWire /\ 0 <= MaxAsked
  BY CursorAssumption
<1>4. Len(wire') <= MaxWire /\ Len(asked') <= MaxAsked
  BY <1>1, <1>3
<1>5. TypeOK'
  BY <1>1, <1>2, <1>4 DEF Good, IInv, Shape, TypeOK, Rows
<1> QED
  BY <1>1, <1>2, <1>5 DEF Good, IInv, Shape, Honest, Early

\* doLogout
LEMMA LogoutStep == IInv /\ Logout => IInv'
<1> SUFFICES ASSUME IInv, Logout PROVE IInv'
  OBVIOUS
<1>1. /\ link' = FALSE /\ wire' = <<>> /\ asked' = <<>>
      /\ view' = "away" /\ page' = {} /\ ready' = FALSE /\ retry' = FALSE
      /\ cursor' = 0 /\ seen' = {} /\ pending' = <<>> /\ buffer' = None /\ recover' = None
      /\ dropped' = {} /\ active' = None /\ timer' = FALSE /\ shown' = {} /\ base' = 0
      /\ UNCHANGED <<rows, prefix>>
  BY DEF Logout, logVars
<1>2. Cardinality(seen') = 0
  BY <1>1, FS_EmptySet
<1>3. /\ Len(wire') <= MaxWire /\ Len(asked') <= MaxAsked /\ Len(pending') <= PendingLimit
      /\ Cardinality(seen') <= SeenLimit
  BY <1>1, <1>2, CursorAssumption
<1>4. /\ pending' \in Seq(Seqs) /\ cursor' \in 0..MaxSeq /\ base' \in 0..MaxSeq
      /\ {buffer', recover', active'} \subseteq {None} \cup 0..MaxSeq
  BY <1>1, ConstFact
<1>5. TypeOK'
  BY <1>1, <1>3, <1>4 DEF IInv, Shape, TypeOK
<1>6. Covered'
  BY <1>1, ConstFact DEF Covered, Rows, Seqs
<1> QED
  BY <1>1, <1>5, <1>6 DEF IInv, Shape, Honest, Early

-----------------------------------------------------------------------------
(* Comet and Logic.                                                         *)

\* A step of the other end: the client's state stays.
LEMMA ServerStep ==
  ASSUME IInv, Bounds, UNCHANGED <<rows, prefix, link, viewVars, posVars, bufVars, active, timer, shown, base>>,
         link, wire' \in Seq(Frames), asked' \in Seq(Requests),
         \A i \in DOMAIN asked' : asked'[i].safe <= prefix,
         Honest'
  PROVE  IInv'
<1>1. Good /\ Covered' /\ Kept \subseteq Kept'
  BY StillGood
<1>2. Asked
  BY DEF Asked, IInv, Shape, TypeOK
<1> QED
  BY <1>1, <1>2, GoodStep DEF viewVars, IInv, Shape, TypeOK

\* PushToUsers
LEMMA PushStep == ASSUME NEW s \in Seqs PROVE IInv /\ Push(s) /\ Bounds => IInv'
<1> SUFFICES ASSUME IInv, Push(s), Bounds PROVE IInv'
  OBVIOUS
<1>1. /\ link /\ wire' = Append(wire, MessageFrame(s))
      /\ UNCHANGED <<rows, prefix, link, asked, viewVars, posVars, bufVars, active, timer, shown, base>>
  BY DEF Push, logVars
<1>2. wire \in Seq(Frames) /\ MessageFrame(s) \in Frames /\ MessageFrame(s).type = "message"
  BY DEF IInv, Shape, MessageFrame, Frames
<1>3. wire' \in Seq(Frames)
  BY <1>1, <1>2
<1>4. Kept' = Kept
  BY <1>1, KeptStays DEF bufVars
<1> HIDE DEF Frames
<1>5. /\ Len(wire) \in Nat /\ Len(wire') = Len(wire) + 1
      /\ \A n \in 1..Len(wire) : wire'[n] = wire[n]
      /\ wire'[Len(wire) + 1].type = "message"
  BY <1>1, <1>2
<1>6. \A n \in (Len(wire) + 1)..Len(wire') : wire'[n].type # "sync_end"
  BY <1>5
<1>7. Honest'
  BY <1>1, <1>3, <1>4, <1>5, <1>6, HonestGrows
<1> QED
  BY <1>1, <1>3, <1>7, ServerStep DEF IInv, Shape, Early

\* SyncAfter reads the safe prefix.
LEMMA ReadPrefixStep == ASSUME NEW i \in DOMAIN asked PROVE IInv /\ ReadPrefix(i) /\ Bounds => IInv'
<1> SUFFICES ASSUME IInv, ReadPrefix(i), Bounds PROVE IInv'
  OBVIOUS
<1> DEFINE q == [after |-> asked[i].after, safe |-> prefix]
<1>1. /\ asked' = [asked EXCEPT ![i] = q]
      /\ UNCHANGED <<rows, prefix, link, wire, viewVars, posVars, bufVars, active, timer, shown, base>>
  BY DEF ReadPrefix, logVars
<1>2. asked \in Seq(Requests) /\ prefix \in 0..MaxSeq
  BY DEF IInv, Shape, TypeOK
<1>3. q \in Requests /\ q.safe <= prefix
  <2>1. asked[i] \in Requests /\ prefix <= prefix
    BY <1>2, ConstFact
  <2> QED
    BY <1>2, <2>1 DEF Requests
<1> HIDE DEF q
<1>4. asked' \in Seq(Requests)
  BY <1>1, <1>2, <1>3
<1>5. \A j \in DOMAIN asked' : asked'[j].safe <= prefix
  BY <1>1, <1>3 DEF IInv, Early
<1>6. Kept' = Kept
  BY <1>1, KeptStays DEF bufVars
<1>7. Honest'
  BY <1>1, <1>6, HonestStays
<1>8. link
  BY DEF IInv, Shape, TypeOK
<1> QED
  BY <1>1, <1>2, <1>4, <1>5, <1>7, <1>8, ServerStep DEF IInv, Shape

\* Of the requests under way, the others stay.
LEMMA RemoveFact ==
  ASSUME NEW q \in Seq(Requests), NEW i \in DOMAIN q
  PROVE  /\ RemoveAt(q, i) \in Seq(Requests)
         /\ \A j \in DOMAIN RemoveAt(q, i) : \E k \in DOMAIN q : RemoveAt(q, i)[j] = q[k]
<1> HIDE DEF Requests
<1> DEFINE a == SubSeq(q, 1, i - 1)
           b == SubSeq(q, i + 1, Len(q))
<1>1. i \in 1..Len(q) /\ Len(q) \in Nat /\ i \in Nat
  OBVIOUS
<1>2. /\ a \in Seq(Requests) /\ Len(a) = i - 1
      /\ \A j \in 1..(i - 1) : a[j] = q[j]
  BY <1>1
<1>3. /\ b \in Seq(Requests) /\ Len(b) = Len(q) - i
      /\ \A j \in 1..(Len(q) - i) : b[j] = q[i + j]
  BY <1>1
<1>4. RemoveAt(q, i) = a \o b
  BY DEF RemoveAt
<1> HIDE DEF a, b
<1>5. a \o b \in Seq(Requests) /\ Len(a \o b) = Len(q) - 1
  BY <1>1, <1>2, <1>3
<1>6. ASSUME NEW j \in 1..(Len(q) - 1)
      PROVE  \E k \in 1..Len(q) : (a \o b)[j] = q[k]
  <2>1. CASE j <= i - 1
    <3>1. (a \o b)[j] = a[j] /\ j \in 1..(i - 1) /\ j \in 1..Len(q)
      BY <1>1, <1>2, <1>3, <2>1
    <3>2. (a \o b)[j] = q[j]
      BY <1>2, <3>1
    <3> QED
      BY <3>1, <3>2
  <2>2. CASE j > i - 1
    <3>1. (a \o b)[j] = b[j - (i - 1)]
      <4>1. j \in 1..(Len(a) + Len(b)) /\ ~(j <= Len(a)) /\ Len(a) = i - 1
        BY <1>1, <1>2, <1>3, <2>2
      <4>2. (a \o b)[j] = b[j - Len(a)]
        <5>1. \A k \in 1..(Len(a) + Len(b)) : (a \o b)[k] = IF k <= Len(a) THEN a[k] ELSE b[k - Len(a)]
          BY <1>2, <1>3, ConcatProperties, Zenon
        <5> QED
          BY <4>1, <5>1
      <4> QED
        BY <4>1, <4>2
    <3>2. j - (i - 1) \in 1..(Len(q) - i) /\ i + (j - (i - 1)) = j + 1 /\ j + 1 \in 1..Len(q)
      BY <1>1, <2>2
    <3>3. b[j - (i - 1)] = q[j + 1]
      BY <1>3, <3>2
    <3> QED
      BY <3>1, <3>2, <3>3
  <2>3. j <= i - 1 \/ j > i - 1
    BY <1>1
  <2> QED
    BY <2>1, <2>2, <2>3, Zenon
<1>7. DOMAIN (a \o b) = 1..(Len(q) - 1)
  BY <1>5
<1>8. DOMAIN q = 1..Len(q)
  OBVIOUS
<1> QED
  BY <1>4, <1>5, <1>6, <1>7, <1>8, Zenon

\* An answer says "safe" of rows that are in it.
LEMMA AnswerStep == ASSUME NEW i \in DOMAIN asked PROVE IInv /\ Answer(i) /\ Bounds => IInv'
<1> SUFFICES ASSUME IInv, Answer(i), Bounds PROVE IInv'
  OBVIOUS
<1> DEFINE after == {s \in Rows : s > asked[i].after}
<1>1. /\ asked[i].safe # None /\ asked' = RemoveAt(asked, i)
      /\ UNCHANGED <<rows, prefix, link, viewVars, posVars, bufVars, active, timer, shown, base>>
  BY DEF Answer, logVars
<1>2. PICK last \in after \cup {asked[i].after} :
        LET taken == {s \in after : s <= last} IN
        /\ after # {} => taken # {}
        /\ \E order \in [1..Cardinality(taken) -> taken], sent \in 0..Cardinality(taken) :
            LET frames == [n \in 1..sent |-> MessageFrame(order[n])]
                end == EndFrame(asked[i].after, last, SafeSeq(asked[i].safe, last, taken), taken # after)
            IN /\ \A s \in taken : \E n \in DOMAIN order : order[n] = s
               /\ \/ wire' = wire \o frames
                  \/ sent = Cardinality(taken) /\ wire' = Append(wire \o frames, end)
  BY DEF Answer
<1> DEFINE taken == {s \in after : s <= last}
           end == EndFrame(asked[i].after, last, SafeSeq(asked[i].safe, last, taken), taken # after)
<1>3. PICK order \in [1..Cardinality(taken) -> taken], sent \in 0..Cardinality(taken) :
        /\ \A s \in taken : \E n \in DOMAIN order : order[n] = s
        /\ \/ wire' = wire \o [n \in 1..sent |-> MessageFrame(order[n])]
           \/ sent = Cardinality(taken) /\ wire' = Append(wire \o [n \in 1..sent |-> MessageFrame(order[n])], end)
  BY <1>2
<1> DEFINE frames == [n \in 1..sent |-> MessageFrame(order[n])]
<1>4. /\ asked[i].after \in 0..MaxSeq /\ asked[i].safe \in 0..MaxSeq /\ asked[i].safe <= prefix
      /\ prefix \in 0..MaxSeq
  <2>1. asked[i] \in Requests /\ asked[i].safe <= prefix /\ prefix \in 0..MaxSeq
    BY DEF IInv, Shape, TypeOK, Early
  <2> QED
    BY <1>1, <2>1 DEF Requests
<1>5. taken \subseteq Rows /\ Rows \subseteq Seqs /\ last \in 0..MaxSeq
  <2>1. Rows \subseteq Seqs
    BY DEF Rows
  <2>2. Seqs \subseteq 0..MaxSeq
    BY ConstFact DEF Seqs
  <2> QED
    BY <1>4, <2>1, <2>2
<1>6. Cardinality(taken) \in Nat
  BY <1>5, FewSeqs
<1>7. /\ end.type = "sync_end" /\ end.after = asked[i].after
      /\ end.safe = SafeSeq(asked[i].safe, last, taken)
  BY DEF EndFrame
<1>8. end.safe \in 0..MaxSeq /\ end.safe <= prefix
  <2>1. end.safe \in {asked[i].safe, last} /\ (end.safe = last => last <= asked[i].safe \/ end.safe = asked[i].safe)
    BY <1>4, <1>5, <1>7 DEF SafeSeq
  <2> QED
    BY <1>4, <1>5, <2>1
<1>9. \A s \in Rows : end.after < s /\ s <= end.safe => s \in taken
  <2> SUFFICES ASSUME NEW s \in Rows, end.after < s, s <= end.safe
               PROVE  s \in taken
    OBVIOUS
  <2>1. s \in after /\ s \in Nat
    BY <1>4, <1>5, <1>7, ConstFact
  <2>2. taken # {}
    BY <1>2, <2>1
  <2>3. end.safe <= last
    BY <1>4, <1>5, <1>7, <2>2 DEF SafeSeq
  <2> QED
    BY <1>5, <1>8, <2>1, <2>3
<1>10. end \in Frames
  <2>1. (taken # after) \in BOOLEAN
    OBVIOUS
  <2> HIDE DEF taken, after
  <2>2. SafeSeq(asked[i].safe, last, taken) \in 0..MaxSeq
    BY <1>7, <1>8
  <2> QED
    BY <1>4, <1>5, <2>1, <2>2 DEF EndFrame, Frames
<1> HIDE DEF end, taken, after
<1>11. /\ frames \in Seq(Frames) /\ Len(frames) = sent /\ sent \in Nat
       /\ \A n \in 1..sent : order[n] \in Seqs /\ frames[n] = MessageFrame(order[n])
  <2>1. sent \in Nat /\ \A n \in 1..sent : order[n] \in Seqs
    BY <1>3, <1>5, <1>6
  <2>2. \A n \in 1..sent : MessageFrame(order[n]) \in Frames
    BY <2>1 DEF MessageFrame, Frames
  <2> QED
    BY <2>1, <2>2
<1> HIDE DEF Frames
<1>12. wire \in Seq(Frames) /\ Len(wire) \in Nat
  BY DEF IInv, Shape
<1> DEFINE begun == wire \o frames
<1>13. /\ begun \in Seq(Frames) /\ Len(begun) = Len(wire) + sent
       /\ \A n \in 1..Len(wire) : begun[n] = wire[n]
       /\ \A n \in 1..sent : begun[Len(wire) + n] = frames[n]
  BY <1>11, <1>12
<1>14. wire' = begun \/ (sent = Cardinality(taken) /\ wire' = Append(begun, end))
  BY <1>3
<1> HIDE DEF begun, frames
<1>15. \A n \in (Len(wire) + 1)..(Len(wire) + sent) : begun[n].type = "message"
  <2> SUFFICES ASSUME NEW n \in (Len(wire) + 1)..(Len(wire) + sent)
               PROVE  begun[n].type = "message"
    OBVIOUS
  <2>1. n - Len(wire) \in 1..sent /\ Len(wire) + (n - Len(wire)) = n
    BY <1>11, <1>12
  <2>2. begun[n] = MessageFrame(order[n - Len(wire)])
    BY <1>11, <1>13, <2>1
  <2> QED
    BY <2>2 DEF MessageFrame
<1>16. wire' \in Seq(Frames) /\ Honest'
  <2>1. Kept \subseteq Kept'
    BY <1>1, KeptStays DEF bufVars
  <2>2. CASE wire' = begun
    <3>1. /\ wire' \in Seq(Frames) /\ Len(wire) <= Len(wire')
          /\ \A n \in 1..Len(wire) : wire'[n] = wire[n]
          /\ \A n \in (Len(wire) + 1)..Len(wire') : wire'[n].type # "sync_end"
      BY <1>11, <1>12, <1>13, <1>15, <2>2
    <3> QED
      BY <1>1, <2>1, <3>1, HonestGrows
  <2>3. CASE sent = Cardinality(taken) /\ wire' = Append(begun, end)
    <3>1. /\ wire' \in Seq(Frames) /\ Len(wire') = Len(wire) + sent + 1
          /\ \A n \in 1..(Len(wire) + sent) : wire'[n] = begun[n]
          /\ wire'[Len(wire) + sent + 1] = end
      BY <1>10, <1>11, <1>12, <1>13, <2>3
    <3>2. /\ Len(wire) <= Len(wire')
          /\ \A n \in 1..Len(wire) : wire'[n] = wire[n]
      BY <1>11, <1>12, <1>13, <3>1
    <3>3. \A n \in (Len(wire) + 1)..Len(wire') : n = Len(wire) + sent + 1 \/ wire'[n].type = "message"
      <4> SUFFICES ASSUME NEW n \in (Len(wire) + 1)..Len(wire'), n # Len(wire) + sent + 1
                   PROVE  wire'[n].type = "message"
        OBVIOUS
      <4>1. n \in (Len(wire) + 1)..(Len(wire) + sent) /\ n \in 1..(Len(wire) + sent)
        <5> DEFINE w == Len(wire)
                   v == Len(wire')
        <5>1. w \in Nat /\ sent \in Nat /\ v = w + sent + 1 /\ n \in (w + 1)..v /\ n # w + sent + 1
          BY <1>11, <1>12, <3>1
        <5> HIDE DEF w, v
        <5>2. n \in (w + 1)..(w + sent) /\ n \in 1..(w + sent)
          BY <5>1
        <5> QED
          BY <5>2 DEF w
      <4> QED
        BY <1>15, <3>1, <4>1
    <3>4. ASSUME NEW n, n = Len(wire) + sent + 1, NEW s \in taken
          PROVE  s \in Ahead(n)'
      <4>1. PICK k \in 1..sent : order[k] = s
        BY <1>3, <2>3
      <4>2. Len(wire) + k \in 1..(n - 1) /\ Len(wire) + k \in 1..(Len(wire) + sent)
        BY <1>11, <1>12, <3>4
      <4>3. wire'[Len(wire) + k] = MessageFrame(s)
        BY <1>11, <1>13, <3>1, <4>1, <4>2
      <4> QED
        BY <1>5, <4>2, <4>3 DEF Ahead, MessageFrame, Seqs
    <3>5. ASSUME NEW n \in (Len(wire) + 1)..Len(wire'), wire'[n].type = "sync_end"
          PROVE  /\ wire'[n].safe <= prefix
                 /\ \A s \in Rows : wire'[n].after < s /\ s <= wire'[n].safe => s \in Ahead(n)'
      <4>1. n = Len(wire) + sent + 1 /\ wire'[n] = end
        BY <3>1, <3>3, <3>5
      <4> QED
        BY <1>8, <1>9, <3>4, <4>1
    <3> QED
      BY <1>1, <2>1, <3>1, <3>2, <3>5, HonestGrows
  <2> QED
    BY <1>14, <2>2, <2>3
<1>17. asked' \in Seq(Requests) /\ \A j \in DOMAIN asked' : asked'[j].safe <= prefix
  <2>1. asked \in Seq(Requests)
    BY DEF IInv, Shape
  <2> QED
    BY <1>1, <2>1, RemoveFact DEF IInv, Early
<1>18. link
  BY DEF IInv, Shape, TypeOK
<1> QED
  BY <1>1, <1>16, <1>17, <1>18, ServerStep

-----------------------------------------------------------------------------
(* The table, and all steps together.                                       *)

\* A row appears only above the safe prefix, and the prefix only grows.
LEMMA LogStep == IInv /\ Log => IInv'
<1> SUFFICES ASSUME IInv, Log PROVE IInv'
  OBVIOUS
<1>1. UNCHANGED <<link, wire, asked, viewVars, posVars, bufVars, active, timer, shown, base>>
  BY DEF Log
<1>2. /\ rows' \in [Seqs -> Message \cup {NoMessage}] /\ prefix' \in prefix..MaxSeq
      /\ \A s \in Seqs : rows'[s] # rows[s] => prefix < s /\ rows[s] = NoMessage /\ rows'[s] \in Message
  BY DEF Log, StableNext, Settle, Store, IInv, Shape, TypeOK
<1>3. prefix \in 0..MaxSeq /\ prefix' \in 0..MaxSeq /\ prefix <= prefix' /\ MaxSeq \in Nat
  BY <1>2, ConstFact DEF IInv, Shape, TypeOK
<1>4. Rows \subseteq Rows' /\ \A s \in Rows' : s \in Rows \/ prefix < s
  BY <1>2, CursorAssumption DEF Rows
<1>5. Kept' = Kept
  BY <1>1, KeptStays DEF bufVars
<1>6. Covered'
  <2> SUFFICES ASSUME NEW s \in Seqs, base < s, s <= cursor
               PROVE  s \in Kept \/ (s <= prefix' /\ s \notin Rows')
    BY <1>1, <1>5 DEF Covered, posVars, Seqs
  <2>1. s \in Kept \/ (s <= prefix /\ s \notin Rows)
    BY DEF IInv, Covered
  <2>2. s \in Nat
    BY ConstFact
  <2> QED
    BY <1>3, <1>4, <2>1, <2>2
<1>7. Honest'
  <2> SUFFICES ASSUME NEW n \in DOMAIN wire, wire[n].type = "sync_end"
               PROVE  /\ wire[n].safe <= prefix'
                      /\ \A s \in Rows' : wire[n].after < s /\ s <= wire[n].safe => s \in Kept \cup Ahead(n)
    BY <1>1, <1>5 DEF Honest, Ahead, Seqs, MessageFrame
  <2>1. wire[n].safe \in 0..MaxSeq
    <3>1. wire[n] \in Frames
      BY DEF IInv, Shape
    <3> QED
      BY <3>1 DEF Frames
  <2>2. /\ wire[n].safe <= prefix
        /\ \A s \in Rows : wire[n].after < s /\ s <= wire[n].safe => s \in Kept \cup Ahead(n)
    BY DEF IInv, Honest
  <2>3. \A s \in Rows' : s \in Nat
    BY ConstFact DEF Rows
  <2> QED
    BY <1>3, <1>4, <2>1, <2>2, <2>3
<1>8. Early'
  <2>1. \A i \in DOMAIN asked : asked[i].safe \in {None} \cup 0..MaxSeq
    <3> SUFFICES ASSUME NEW i \in DOMAIN asked PROVE asked[i].safe \in {None} \cup 0..MaxSeq
      OBVIOUS
    <3>1. asked[i] \in Requests
      BY DEF IInv, Shape
    <3> QED
      BY <3>1 DEF Requests
  <2> QED
    BY <1>1, <1>3, <2>1 DEF IInv, Early, None
<1>9. TypeOK'
  BY <1>1, <1>2, <1>3, <1>4 DEF IInv, Shape, TypeOK, viewVars, posVars, bufVars
<1> QED
  BY <1>1, <1>5, <1>6, <1>7, <1>8, <1>9 DEF IInv, Shape, posVars

LEMMA StutterStep == IInv /\ UNCHANGED vars => IInv'
<1> SUFFICES ASSUME IInv, UNCHANGED vars PROVE IInv'
  OBVIOUS
<1>1. UNCHANGED <<rows, prefix, link, wire, asked, viewVars, posVars, bufVars, active, timer, shown, base>>
  BY DEF vars, logVars
<1>2. Good /\ Covered' /\ Kept \subseteq Kept'
  BY <1>1, StillGood
<1>3. Honest'
  BY <1>1, <1>2, HonestStays
<1>4. Early'
  BY <1>1 DEF IInv, Early
<1>5. TypeOK'
  BY <1>1 DEF IInv, Shape, TypeOK, Rows, viewVars, posVars, bufVars
<1> QED
  BY <1>1, <1>2, <1>3, <1>4, <1>5 DEF IInv, Shape, Good

LEMMA NextIInv == IInv /\ [Next]_vars => IInv'
<1> SUFFICES ASSUME IInv, [Next]_vars PROVE IInv'
  OBVIOUS
<1>1. CASE Log
  BY <1>1, LogStep
<1>2. CASE Disconnect
  BY <1>2, DisconnectStep
<1>3. CASE Client /\ Bounds
  BY <1>3, ReceiveMessageStep, ReceiveSyncEndStep, TimerStep, ShowStep, ParkStep, LoadHistoryStep,
     LoadFailsStep, ConnectStep, LogoutStep DEF Client
<1>4. CASE Server /\ Bounds
  BY <1>4, ReadPrefixStep, AnswerStep DEF Server
<1>5. CASE (\E s \in Seqs : Push(s)) /\ Bounds
  BY <1>5, PushStep
<1>6. CASE UNCHANGED vars
  BY <1>6, StutterStep
<1> QED
  BY <1>1, <1>2, <1>3, <1>4, <1>5, <1>6 DEF Next

LEMMA InitIInv == Init => IInv
<1> SUFFICES ASSUME Init PROVE IInv
  OBVIOUS
<1>1. Cardinality(seen) = 0
  BY FS_EmptySet DEF Init
<1>2. /\ Len(wire) <= MaxWire /\ Len(asked) <= MaxAsked /\ Len(pending) <= PendingLimit
      /\ Cardinality(seen) <= SeenLimit
  BY <1>1, CursorAssumption DEF Init
<1>3. /\ pending \in Seq(Seqs) /\ cursor \in 0..MaxSeq /\ base \in 0..MaxSeq
      /\ {buffer, recover, active} \subseteq {None} \cup 0..MaxSeq
  BY ConstFact DEF Init
<1>4. TypeOK
  BY <1>2, <1>3 DEF Init, StableInit, TypeOK
<1>5. Covered
  BY ConstFact DEF Init, Covered, Seqs
<1> QED
  BY <1>4, <1>5 DEF Init, IInv, Shape, Honest, Early

-----------------------------------------------------------------------------

LEMMA CursorInvariant == Spec => []IInv
BY InitIInv, NextIInv, PTL DEF Spec

\* The fields of the page, of Comet's requests and of the frames have their types, and the
\* limits of index.html hold.
THEOREM CursorTypes == Spec => []TypeOK
<1>1. IInv => TypeOK
  BY DEF IInv, Shape
<1> QED
  BY <1>1, CursorInvariant, PTL

\* The client's cursor skips no stored message, whatever the pages, the lost frames and the
\* order of pushes: only a full buffer may lose one, and only the history page below the
\* client's first number is not asked for.
THEOREM CursorIsSafe == Spec => []CursorSkipsNothing
<1>1. IInv => CursorSkipsNothing
  BY DEF IInv, Covered, CursorSkipsNothing, Kept, Rows
<1> QED
  BY <1>1, CursorInvariant, PTL

=============================================================================
