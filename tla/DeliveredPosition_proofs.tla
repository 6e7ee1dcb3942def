---------------------- MODULE DeliveredPosition_proofs ----------------------
(***************************************************************************)
(* Proofs about DeliveredPosition for any number of messages, bodies and   *)
(* any page limit: the position never passes a row nobody was given, and a *)
(* resync that ends has handed over everything it owed.                    *)
(***************************************************************************)
EXTENDS DeliveredPosition, Extrema, TLAPS

\* What a resync owes: the rows it has not handed over are still in front of it.
Ahead ==
  CASE resync \in {"start", "read"} -> {s \in Seqs : s > from}
    [] resync = "push" -> page \cup (IF more THEN {s \in Seqs : s > from} ELSE {})
    [] OTHER -> {}

ResyncOwes == resync # "idle" => due \subseteq handed \cup Ahead

IInv == TypeOK /\ DeliveredWasHanded /\ ResyncOwes

-----------------------------------------------------------------------------

\* AdvanceDelivered's new position stays below the safe prefix, never moves back, and every
\* row it passes has a receipt.
LEMMA PositionFact ==
  ASSUME TypeOK, NEW receipt \in handed \cup {0}
  PROVE  /\ Position(receipt) \in delivered..prefix
         /\ Kept(receipt) \subseteq handed
         /\ \A s \in Rows : delivered < s /\ s <= Position(receipt) => s \in Kept(receipt)
<1> DEFINE U == Unreceived(receipt)
<1>1. delivered \in Nat /\ prefix \in Nat /\ delivered <= prefix /\ prefix <= MaxSeq
  BY PositionAssumption DEF TypeOK
<1>2. U \subseteq {s \in Rows : delivered < s /\ s <= prefix} /\ U \subseteq Nat
  BY DEF Unreceived, Rows, Seqs
<1>3. Kept(receipt) \subseteq handed
  BY <1>1 DEF Kept, TypeOK
<1>4. CASE U = {}
  <2>1. Position(receipt) = IF prefix > delivered THEN prefix ELSE delivered
    BY <1>4 DEF Position
  <2>2. \A s \in Rows : delivered < s /\ s <= prefix => s \in Kept(receipt)
    BY <1>4 DEF Unreceived
  <2> QED
    BY <1>1, <1>3, <2>1, <2>2 DEF Rows, Seqs
<1>5. CASE U # {}
  <2> DEFINE m == Min(U)
  <2>1. m \in U /\ \A y \in U : m <= y
    BY <1>2, <1>5, MinNat
  <2>2. Position(receipt) = IF m - 1 > delivered THEN m - 1 ELSE delivered
    BY <1>5 DEF Position
  <2>3. m \in Nat /\ delivered < m /\ m <= prefix
    BY <1>2, <2>1
  <2> HIDE DEF m
  <2>4. ASSUME NEW s \in Rows, delivered < s, s <= Position(receipt)
        PROVE  s \in Kept(receipt)
    <3>1. s \in Nat /\ s < m /\ s <= prefix
      BY <1>1, <2>2, <2>3, <2>4 DEF Rows, Seqs
    <3>2. s \notin U
      BY <2>1, <2>3, <3>1 DEF m
    <3> QED
      BY <2>4, <3>1, <3>2 DEF Unreceived
  <2> QED
    BY <1>1, <1>3, <2>2, <2>3, <2>4
<1> QED
  BY <1>4, <1>5

\* So the transaction keeps the position's promise, and its type.
LEMMA AdvanceStep ==
  ASSUME TypeOK, DeliveredWasHanded, NEW receipt \in handed \cup {0},
         AdvanceDelivered(receipt), UNCHANGED <<logVars, handed>>
  PROVE  /\ delivered' \in 0..prefix' /\ delivered <= delivered'
         /\ receipts' \subseteq {s \in Seqs : s > delivered'} \cap handed'
         /\ DeliveredWasHanded'
<1>1. /\ delivered' = Position(receipt)
      /\ receipts' = {r \in Kept(receipt) : r > delivered'}
      /\ rows' = rows /\ prefix' = prefix /\ handed' = handed
  BY DEF AdvanceDelivered, logVars
<1>2. /\ Position(receipt) \in delivered..prefix
      /\ Kept(receipt) \subseteq handed
      /\ \A s \in Rows : delivered < s /\ s <= Position(receipt) => s \in Kept(receipt)
  BY PositionFact
<1>3. delivered \in Nat /\ prefix \in Nat /\ handed \subseteq Seqs
  BY PositionAssumption DEF TypeOK
<1>4. delivered' \in 0..prefix' /\ delivered <= delivered'
  BY <1>1, <1>2, <1>3
<1>5. receipts' \subseteq {s \in Seqs : s > delivered'} \cap handed'
  BY <1>1, <1>2, <1>3
<1>6. \A s \in Rows : s <= delivered' => s \in handed
  <2> SUFFICES ASSUME NEW s \in Rows, s <= delivered'
               PROVE  s \in handed
    OBVIOUS
  <2>1. s \in Nat
    BY DEF Rows, Seqs
  <2>2. CASE s <= delivered
    BY <2>2 DEF DeliveredWasHanded
  <2>3. CASE delivered < s
    BY <1>1, <1>2, <2>3
  <2> QED
    BY <1>3, <2>1, <2>2, <2>3
<1> QED
  BY <1>1, <1>4, <1>5, <1>6 DEF DeliveredWasHanded, Rows

-----------------------------------------------------------------------------

\* Init satisfies the invariant.
LEMMA InitIInv == Init => IInv
<1> SUFFICES ASSUME Init PROVE IInv
  OBVIOUS
<1>1. TypeOK
  <2>1. rows \in [Seqs -> Message \cup {NoMessage}] /\ prefix \in 0..MaxSeq
    BY DEF Init, StableInit
  <2>2. delivered \in 0..prefix /\ from \in 0..MaxSeq
    BY <2>1, PositionAssumption DEF Init
  <2> QED
    BY <2>1, <2>2 DEF Init, TypeOK
<1>2. DeliveredWasHanded
  BY DEF Init, DeliveredWasHanded, Rows, Seqs
<1> QED
  BY <1>1, <1>2 DEF Init, IInv, ResyncOwes

\* StableLog's steps: a new row lies above the prefix, and so above the position.
LEMMA LogStep == IInv /\ Log => IInv'
<1> SUFFICES ASSUME IInv, Log PROVE IInv'
  OBVIOUS
<1> USE DEF IInv
<1>1. UNCHANGED <<delivered, receipts, handed, resync, from, page, more, due>>
  BY DEF Log, sqlVars, resyncVars
<1>2. /\ rows' \in [Seqs -> Message \cup {NoMessage}]
      /\ prefix' \in prefix..MaxSeq
      /\ Rows \subseteq Rows'
      /\ \A s \in Rows' : s \in Rows \/ prefix < s
  <2>1. CASE Settle
    BY <2>1 DEF Settle, TypeOK, Rows
  <2>2. ASSUME NEW s \in Seqs, NEW m \in Message, Store(s, m)
        PROVE  <1>2!1 /\ <1>2!2 /\ <1>2!3 /\ <1>2!4
    BY <2>2, PositionAssumption DEF Store, TypeOK, Rows
  <2> QED
    BY <2>1, <2>2 DEF Log, StableNext
<1>3. prefix \in Nat /\ prefix' \in Nat /\ prefix <= prefix' /\ prefix' <= MaxSeq /\ delivered \in Nat
  BY <1>2, PositionAssumption DEF TypeOK
<1>4. TypeOK'
  BY <1>1, <1>2, <1>3 DEF TypeOK
<1>5. DeliveredWasHanded'
  BY <1>1, <1>2, <1>3 DEF DeliveredWasHanded, TypeOK, Rows, Seqs
<1>6. ResyncOwes'
  BY <1>1 DEF ResyncOwes, Ahead, Seqs
<1> QED
  BY <1>4, <1>5, <1>6

\* A push only adds to what was handed over.
LEMMA PushStep == \A s \in Seqs : IInv /\ Push(s) => IInv'
<1> SUFFICES ASSUME NEW s \in Seqs, IInv, Push(s) PROVE IInv'
  OBVIOUS
<1>1. /\ handed' = handed \cup {s}
      /\ UNCHANGED <<rows, prefix, delivered, receipts, resync, from, page, more, due>>
  BY DEF Push, logVars, sqlVars, resyncVars
<1> QED
  BY <1>1 DEF IInv, TypeOK, DeliveredWasHanded, ResyncOwes, Ahead, Rows, Seqs

\* A report is about something handed over.
LEMMA ReportStep == \A s \in Seqs : IInv /\ Report(s) => IInv'
<1> SUFFICES ASSUME NEW s \in Seqs, IInv, Report(s) PROVE IInv'
  OBVIOUS
<1>1. /\ s \in handed /\ AdvanceDelivered(s)
      /\ UNCHANGED <<rows, prefix, handed, resync, from, page, more, due>>
      /\ UNCHANGED <<logVars, handed>>
  BY DEF Report, logVars, resyncVars
<1>2. /\ delivered' \in 0..prefix'
      /\ receipts' \subseteq {t \in Seqs : t > delivered'} \cap handed'
      /\ DeliveredWasHanded'
  BY <1>1, AdvanceStep DEF IInv
<1>3. TypeOK'
  BY <1>1, <1>2 DEF IInv, TypeOK, Rows
<1>4. ResyncOwes'
  BY <1>1 DEF IInv, ResyncOwes, Ahead
<1> QED
  BY <1>2, <1>3, <1>4 DEF IInv

\* The page starts after the position, or after the previous page: nothing owed is skipped.
LEMMA StartStep == IInv /\ Start => IInv'
<1> SUFFICES ASSUME IInv, Start PROVE IInv'
  OBVIOUS
<1>1. /\ resync = "start" /\ resync' = "read" /\ AdvanceDelivered(0)
      /\ from' = IF from > delivered' THEN from ELSE delivered'
      /\ UNCHANGED <<rows, prefix, handed, page, more, due>>
      /\ UNCHANGED <<logVars, handed>>
  BY DEF Start, logVars
<1>2. /\ delivered' \in 0..prefix'
      /\ receipts' \subseteq {t \in Seqs : t > delivered'} \cap handed'
      /\ DeliveredWasHanded'
  BY <1>1, AdvanceStep DEF IInv
<1>3. from \in Nat /\ from <= MaxSeq /\ prefix \in Nat /\ prefix <= MaxSeq /\ MaxSeq \in Nat
  BY PositionAssumption DEF IInv, TypeOK
<1>4. from' \in 0..MaxSeq
  BY <1>1, <1>2, <1>3
<1>5. TypeOK'
  BY <1>1, <1>2, <1>4 DEF IInv, TypeOK, Rows
<1>6. ResyncOwes'
  <2> SUFFICES ASSUME NEW s \in due, s \notin handed
               PROVE  s > from'
    BY <1>1 DEF ResyncOwes, Ahead, IInv, TypeOK, Rows
  <2>1. s \in Rows /\ s \in Nat
    BY DEF IInv, TypeOK, Rows, Seqs
  <2>2. s > from
    BY <1>1 DEF IInv, ResyncOwes, Ahead
  <2>3. ~(s <= delivered')
    BY <1>1, <1>2, <2>1 DEF DeliveredWasHanded, Rows
  <2> QED
    BY <1>1, <1>2, <1>3, <2>1, <2>2, <2>3
<1> QED
  BY <1>2, <1>5, <1>6 DEF IInv

\* The page holds all rows up to its end, or all there are.
LEMMA ReadStep == IInv /\ ReadPage => IInv'
<1> SUFFICES ASSUME IInv, ReadPage PROVE IInv'
  OBVIOUS
<1> DEFINE after == {s \in Rows : s > from}
<1>1. /\ resync = "read" /\ resync' = "push"
      /\ UNCHANGED <<rows, prefix, delivered, receipts, handed, due>>
  BY DEF ReadPage, logVars, sqlVars
<1>2. PICK last \in after \cup {from} :
        /\ page' = {s \in after : s <= last} /\ from' = last
        /\ more' = (page' # after)
  BY Zenon DEF ReadPage
<1>3. TypeOK'
  BY <1>1, <1>2 DEF IInv, TypeOK, Rows, Seqs
<1>4. ResyncOwes'
  <2> SUFFICES ASSUME NEW s \in due, s \notin handed
               PROVE  s \in page' \/ (more' /\ s > from')
    BY <1>1, <1>3 DEF ResyncOwes, Ahead, TypeOK, Rows
  <2>1. s \in after
    BY <1>1 DEF IInv, TypeOK, ResyncOwes, Ahead
  <2>2. s \in Nat /\ last \in Nat
    BY <2>1 DEF IInv, TypeOK, Rows, Seqs
  <2>3. CASE s <= last
    BY <1>2, <2>1, <2>3
  <2>4. CASE s > last
    <3>1. s \notin page'
      BY <1>2, <2>2, <2>4
    <3> QED
      BY <1>2, <2>1, <2>4, <3>1
  <2> QED
    BY <2>2, <2>3, <2>4
<1>5. DeliveredWasHanded'
  BY <1>1 DEF IInv, DeliveredWasHanded, Rows
<1> QED
  BY <1>3, <1>4, <1>5 DEF IInv

\* The other steps of the resync move rows from the page to what was handed over.
LEMMA OtherStep == IInv /\ (Connect \/ PushNext \/ PushFails \/ NextPage) => IInv'
<1> SUFFICES ASSUME IInv, Connect \/ PushNext \/ PushFails \/ NextPage PROVE IInv'
  OBVIOUS
<1>1. CASE Connect
  BY <1>1, PositionAssumption
  DEF Connect, logVars, sqlVars, IInv, TypeOK, DeliveredWasHanded, ResyncOwes, Ahead, Rows, Seqs
<1>2. CASE PushNext
  <2>1. /\ resync = "push" /\ page # {}
        /\ handed' = handed \cup {Min(page)} /\ page' = page \ {Min(page)}
        /\ UNCHANGED <<rows, prefix, delivered, receipts, resync, from, more, due>>
    BY <1>2 DEF PushNext, logVars, sqlVars
  <2>2. Min(page) \in page
    BY <2>1, MinNat DEF IInv, TypeOK, Rows, Seqs
  <2> QED
    BY <2>1, <2>2 DEF IInv, TypeOK, DeliveredWasHanded, ResyncOwes, Ahead, Rows, Seqs
<1>3. CASE PushFails
  BY <1>3 DEF PushFails, logVars, sqlVars, IInv, TypeOK, DeliveredWasHanded, ResyncOwes, Rows
<1>4. CASE NextPage
  BY <1>4 DEF NextPage, logVars, sqlVars, IInv, TypeOK, DeliveredWasHanded, ResyncOwes, Ahead, Rows
<1> QED
  BY <1>1, <1>2, <1>3, <1>4

\* Every step keeps the invariant.
LEMMA NextIInv == IInv /\ [Next]_vars => IInv'
<1> SUFFICES ASSUME IInv, [Next]_vars PROVE IInv'
  OBVIOUS
<1>1. CASE UNCHANGED vars
  BY <1>1 DEF vars, logVars, sqlVars, resyncVars, IInv, TypeOK, DeliveredWasHanded, ResyncOwes, Ahead, Rows
<1>2. CASE Next
  BY <1>2, LogStep, PushStep, ReportStep, StartStep, ReadStep, OtherStep DEF Next, Resync
<1> QED
  BY <1>1, <1>2

LEMMA PositionInvariant == Spec => []IInv
BY InitIInv, NextIInv, PTL DEF Spec

\* The type invariant for any numbers, bodies and page limit (AdvanceDelivered, SyncOffline).
THEOREM PositionTypes == Spec => []TypeOK
BY PositionInvariant, PTL DEF IInv

\* The position never passes a row that nobody handed to the user (AdvanceDelivered).
THEOREM PositionIsHonest == Spec => []DeliveredWasHanded
BY PositionInvariant, PTL DEF IInv

\* A resync that reaches its last page has handed over every row it began with.
THEOREM ResyncHandsAll == Spec => []ResyncIsComplete
<1>1. IInv => ResyncIsComplete
  BY DEF IInv, ResyncOwes, Ahead, ResyncIsComplete
<1> QED
  BY <1>1, PositionInvariant, PTL

=============================================================================
