------------------------ MODULE Conversation_proofs ------------------------
(***************************************************************************)
(* Proofs about Conversation: the readers' modules are implemented by the  *)
(* readers beside the real writers, so what was proved of each of them     *)
(* holds of all of them together.                                          *)
(***************************************************************************)
EXTENDS Conversation, MessageOutbox_proofs

OfflineFacts == INSTANCE DeliveredPosition_proofs
  WITH rows <- stored, prefix <- SafePrefix, page <- batch, PageLimit <- OfflinePage

CursorFacts == INSTANCE CursorSync_proofs
  WITH rows <- stored, prefix <- SafePrefix, PageLimit <- SyncPage

\* The limits of Comet, Logic and the page (1000, 100, 50, 2000, 4096 and the sizes of queues).
ReaderLimits ==
  /\ {OfflinePage, SyncPage, HistoryLimit} \subseteq Nat \ {0}
  /\ {PendingLimit, SeenLimit, MaxAsked, MaxWire} \subseteq Nat

-----------------------------------------------------------------------------
(* The two names of one thing.                                              *)

LEMMA SameOffline ==
  /\ OfflineFacts!Init <=> Offline!Init
  /\ OfflineFacts!Next <=> Offline!Next
  /\ OfflineFacts!vars = Offline!vars
<1> USE DEF OfflineFacts!vars, Offline!vars, OfflineFacts!logVars, Offline!logVars, OfflineFacts!sqlVars, Offline!sqlVars,
            OfflineFacts!resyncVars, Offline!resyncVars, OfflineFacts!Rows, Offline!Rows, OfflineFacts!Seqs, Offline!Seqs
<1>1. OfflineFacts!Init <=> Offline!Init
  BY DEF OfflineFacts!Init, Offline!Init, OfflineFacts!StableInit, Offline!StableInit
<1>2. OfflineFacts!vars = Offline!vars
  OBVIOUS
<1>3. OfflineFacts!Log <=> Offline!Log
  BY Zenon DEF OfflineFacts!Log, Offline!Log, OfflineFacts!StableNext, Offline!StableNext,
    OfflineFacts!Settle, Offline!Settle, OfflineFacts!Store, Offline!Store
<1>4. OfflineFacts!Connect <=> Offline!Connect
  BY Zenon DEF OfflineFacts!Connect, Offline!Connect
<1>5. OfflineFacts!ReadPage <=> Offline!ReadPage
  BY Zenon DEF OfflineFacts!ReadPage, Offline!ReadPage, OfflineFacts!Cardinality, Offline!Cardinality
<1>6. OfflineFacts!Start <=> Offline!Start
  BY Zenon DEF OfflineFacts!Start, Offline!Start, OfflineFacts!AdvanceDelivered, Offline!AdvanceDelivered,
    OfflineFacts!Position, Offline!Position, OfflineFacts!Kept, Offline!Kept, OfflineFacts!Unreceived, Offline!Unreceived, OfflineFacts!Min, Offline!Min
<1>7. OfflineFacts!PushNext <=> Offline!PushNext
  BY Zenon DEF OfflineFacts!PushNext, Offline!PushNext, OfflineFacts!Min, Offline!Min
<1>8. OfflineFacts!NextPage <=> Offline!NextPage
  BY Zenon DEF OfflineFacts!NextPage, Offline!NextPage
<1>9. OfflineFacts!PushFails <=> Offline!PushFails
  BY Zenon DEF OfflineFacts!PushFails, Offline!PushFails
<1>10. ASSUME NEW s \in Seqs PROVE OfflineFacts!Push(s) <=> Offline!Push(s)
  BY Zenon DEF OfflineFacts!Push, Offline!Push
<1>11. ASSUME NEW s \in Seqs PROVE OfflineFacts!Report(s) <=> Offline!Report(s)
  BY Zenon DEF OfflineFacts!Report, Offline!Report, OfflineFacts!AdvanceDelivered, Offline!AdvanceDelivered,
    OfflineFacts!Position, Offline!Position, OfflineFacts!Kept, Offline!Kept, OfflineFacts!Unreceived, Offline!Unreceived, OfflineFacts!Min, Offline!Min
<1> QED
  BY <1>1, <1>2, <1>3, <1>4, <1>5, <1>6, <1>7, <1>8, <1>9, <1>10, <1>11
  DEF OfflineFacts!Next, Offline!Next, OfflineFacts!Resync, Offline!Resync, Seqs

LEMMA SameCursor ==
  /\ CursorFacts!Init <=> Cursor!Init
  /\ CursorFacts!Next <=> Cursor!Next
  /\ CursorFacts!vars = Cursor!vars
<1> USE DEF CursorFacts!vars, Cursor!vars, CursorFacts!logVars, Cursor!logVars, CursorFacts!viewVars,
     Cursor!viewVars, CursorFacts!posVars, Cursor!posVars, CursorFacts!bufVars, Cursor!bufVars,
     CursorFacts!Rows, Cursor!Rows, CursorFacts!Seqs, Cursor!Seqs, CursorFacts!Pending, Cursor!Pending,
     CursorFacts!None, Cursor!None, CursorFacts!Visible, Cursor!Visible
<1>1. CursorFacts!Init <=> Cursor!Init
  BY Zenon DEF CursorFacts!Init, Cursor!Init, CursorFacts!StableInit, Cursor!StableInit
<1>2. CursorFacts!vars = Cursor!vars
  OBVIOUS
<1>3. CursorFacts!Log <=> Cursor!Log
  BY Zenon DEF CursorFacts!Log, Cursor!Log, CursorFacts!StableNext, Cursor!StableNext, CursorFacts!Settle,
    Cursor!Settle, CursorFacts!Store, Cursor!Store
<1>4. CursorFacts!ReceiveMessage <=> Cursor!ReceiveMessage
  BY Zenon DEF CursorFacts!ReceiveMessage, Cursor!ReceiveMessage, CursorFacts!Keep, Cursor!Keep,
    CursorFacts!Gap, Cursor!Gap, CursorFacts!Advance, Cursor!Advance, CursorFacts!Left, Cursor!Left,
    CursorFacts!Overfull, Cursor!Overfull, CursorFacts!Cardinality, Cursor!Cardinality, CursorFacts!Run,
    Cursor!Run, CursorFacts!Max, Cursor!Max, CursorFacts!Ask, Cursor!Ask, CursorFacts!AskNothing,
    Cursor!AskNothing, CursorFacts!Sync, Cursor!Sync
<1>5. CursorFacts!ReceiveSyncEnd <=> Cursor!ReceiveSyncEnd
  BY Zenon DEF CursorFacts!ReceiveSyncEnd, Cursor!ReceiveSyncEnd, CursorFacts!Jump, Cursor!Jump,
    CursorFacts!AskAnew, Cursor!AskAnew, CursorFacts!Sync, Cursor!Sync, CursorFacts!Gap, Cursor!Gap,
    CursorFacts!Run, Cursor!Run, CursorFacts!Max, Cursor!Max
<1>6. CursorFacts!Timer <=> Cursor!Timer
  BY Zenon DEF CursorFacts!Timer, Cursor!Timer, CursorFacts!Ask, Cursor!Ask, CursorFacts!AskNothing,
    Cursor!AskNothing, CursorFacts!Sync, Cursor!Sync
<1>7. CursorFacts!Reconcile <=> Cursor!Reconcile
  BY Zenon DEF CursorFacts!Reconcile, Cursor!Reconcile, CursorFacts!Ask, Cursor!Ask, CursorFacts!AskNothing,
    Cursor!AskNothing, CursorFacts!Sync, Cursor!Sync
<1>8. CursorFacts!Show <=> Cursor!Show
  BY Zenon DEF CursorFacts!Show, Cursor!Show, CursorFacts!Flush, Cursor!Flush, CursorFacts!Gap, Cursor!Gap,
    CursorFacts!Advance, Cursor!Advance, CursorFacts!Left, Cursor!Left, CursorFacts!Overfull, Cursor!Overfull,
    CursorFacts!Cardinality, Cursor!Cardinality, CursorFacts!Run, Cursor!Run, CursorFacts!Max, Cursor!Max,
    CursorFacts!Ask, Cursor!Ask, CursorFacts!AskNothing, Cursor!AskNothing, CursorFacts!Sync, Cursor!Sync
<1>9. CursorFacts!Park <=> Cursor!Park
  BY Zenon DEF CursorFacts!Park, Cursor!Park
<1>10. CursorFacts!ReadHistory <=> Cursor!ReadHistory
  BY Zenon DEF CursorFacts!ReadHistory, Cursor!ReadHistory, CursorFacts!Cardinality, Cursor!Cardinality
<1>11. CursorFacts!LoadHistory <=> Cursor!LoadHistory
  BY Zenon DEF CursorFacts!LoadHistory, Cursor!LoadHistory, CursorFacts!Edge, Cursor!Edge, CursorFacts!Min,
    Cursor!Min, CursorFacts!Flush, Cursor!Flush, CursorFacts!Gap, Cursor!Gap, CursorFacts!Advance,
    Cursor!Advance, CursorFacts!Left, Cursor!Left, CursorFacts!Overfull, Cursor!Overfull,
    CursorFacts!Cardinality, Cursor!Cardinality, CursorFacts!Run, Cursor!Run, CursorFacts!Max, Cursor!Max,
    CursorFacts!Ask, Cursor!Ask, CursorFacts!AskNothing, Cursor!AskNothing, CursorFacts!Sync, Cursor!Sync
<1>12. CursorFacts!LoadFails <=> Cursor!LoadFails
  BY Zenon DEF CursorFacts!LoadFails, Cursor!LoadFails, CursorFacts!Flush, Cursor!Flush, CursorFacts!Gap,
    Cursor!Gap, CursorFacts!Advance, Cursor!Advance, CursorFacts!Left, Cursor!Left, CursorFacts!Overfull,
    Cursor!Overfull, CursorFacts!Cardinality, Cursor!Cardinality, CursorFacts!Run, Cursor!Run,
    CursorFacts!Max, Cursor!Max, CursorFacts!Ask, Cursor!Ask, CursorFacts!AskNothing, Cursor!AskNothing,
    CursorFacts!Sync, Cursor!Sync
<1>13. CursorFacts!Connect <=> Cursor!Connect
  BY Zenon DEF CursorFacts!Connect, Cursor!Connect, CursorFacts!Sync, Cursor!Sync
<1>14. CursorFacts!Logout <=> Cursor!Logout
  BY Zenon DEF CursorFacts!Logout, Cursor!Logout
<1>15. CursorFacts!Disconnect <=> Cursor!Disconnect
  BY Zenon DEF CursorFacts!Disconnect, Cursor!Disconnect
<1>16. CursorFacts!Bounds <=> Cursor!Bounds
  BY Zenon DEF CursorFacts!Bounds, Cursor!Bounds
<1>17. ASSUME NEW s \in Seqs PROVE CursorFacts!Push(s) <=> Cursor!Push(s)
  BY Zenon DEF CursorFacts!Push, Cursor!Push, CursorFacts!MessageFrame, Cursor!MessageFrame
<1>18. ASSUME NEW i \in DOMAIN asked PROVE CursorFacts!ReadPrefix(i) <=> Cursor!ReadPrefix(i)
  BY Zenon DEF CursorFacts!ReadPrefix, Cursor!ReadPrefix
<1>19. ASSUME NEW i \in DOMAIN asked PROVE CursorFacts!Answer(i) <=> Cursor!Answer(i)
  BY Zenon DEF CursorFacts!Answer, Cursor!Answer, CursorFacts!MessageFrame, Cursor!MessageFrame,
    CursorFacts!EndFrame, Cursor!EndFrame, CursorFacts!SafeSeq, Cursor!SafeSeq, CursorFacts!RemoveAt,
    Cursor!RemoveAt, CursorFacts!Cardinality, Cursor!Cardinality
<1> QED
  BY <1>1, <1>2, <1>3, <1>4, <1>5, <1>6, <1>7, <1>8, <1>9, <1>10, <1>11, <1>12, <1>13, <1>14, <1>15, <1>16,
    <1>17, <1>18, <1>19
  DEF CursorFacts!Next, Cursor!Next, CursorFacts!Client, Cursor!Client,
    CursorFacts!Server, Cursor!Server, Seqs

-----------------------------------------------------------------------------
(* The writers.                                                             *)

\* The readers disturb no writer, so what was proved of the writers holds beside them.
LEMMA WritersRun == ConversationSpec => []DirectInv
<1>1. ConversationInit => DirectInit
  BY DEF ConversationInit
<1>2. [ConversationNext]_conversationVars => [DirectNext]_<<vars, directVars>>
  BY DEF ConversationNext, Write, LivePush, OfflinePush, Position, Sync, ToConnections, writerVars, conversationVars
<1>3. ConversationSpec => DirectSpec
  BY <1>1, <1>2, PTL DEF ConversationSpec, DirectSpec
<1> QED
  BY <1>3, DirectInductive, PTL

\* What can be sent and has no row is ahead of the safe prefix.
LEMMA SendableIsAhead ==
  ASSUME DirectInv, NEW s \in Seqs, Sendable(s)
  PROVE  HasRow(s) \/ SafePrefix < s
BY HeldType, SentAheadFact DEF DirectInv, Sendable, SentStaysAhead

LEMMA QuietWriters == UNCHANGED writerVars => UNCHANGED <<stored, SafePrefix>>
BY DEF writerVars, vars, sqlVars, SafePrefix, Rows, HasRow

\* A step of the writers is a step of the log that both readers have before them.
LEMMA WriteIsLog ==
  ASSUME Grace, DirectInv, DirectInv', Write
  PROVE  /\ (Offline!StableNext /\ Cursor!StableNext) \/ UNCHANGED <<stored, SafePrefix>>
         /\ UNCHANGED <<positionVars, clientVars>>
<1>1. [Stable!StableNext]_<<stored, SafePrefix>>
  BY WritersKeepLog DEF Write
<1>2. Stable!StableNext => Offline!StableNext /\ Cursor!StableNext
  BY DEF Stable!StableNext, Stable!Settle, Stable!Store, Stable!Seqs, Offline!StableNext, Offline!Settle, Offline!Store,
         Offline!Seqs, Cursor!StableNext, Cursor!Settle, Cursor!Store, Cursor!Seqs
<1> QED
  BY <1>1, <1>2 DEF Write

-----------------------------------------------------------------------------
(* The delivered position and the offline resync.                           *)

LEMMA PositionStep ==
  ASSUME Grace, DirectInv, DirectInv', [ConversationNext]_conversationVars
  PROVE  [Offline!Next]_(Offline!vars)
<1> USE DEF Offline!vars, Offline!logVars, Offline!sqlVars, Offline!resyncVars, positionVars
<1>1. CASE Write
  BY <1>1, WriteIsLog DEF Offline!Next, Offline!Log
<1>2. ASSUME NEW s \in Seqs, LivePush(s)
      PROVE  Offline!Next
  <2>1. Sendable(s)
    BY <1>2 DEF LivePush, Sendable, Sent
  <2>2. s \in Offline!Rows \/ SafePrefix < s
    BY <2>1, SendableIsAhead DEF Offline!Rows, Offline!Seqs, Seqs, HasRow
  <2>3. Offline!Push(s)
    BY <1>2, <2>2, QuietWriters DEF Offline!Push, LivePush, ToConnections
  <2> QED
    BY <2>3 DEF Offline!Next, Offline!Seqs, Seqs
<1>3. CASE OfflinePush
  BY <1>3 DEF OfflinePush, Offline!Next, Offline!Resync
<1>4. CASE Position
  BY <1>4 DEF Position, Offline!Next, Offline!Resync, Offline!Seqs, Seqs
<1>5. CASE Sync \/ UNCHANGED conversationVars
  BY <1>5, QuietWriters DEF Sync, conversationVars
<1> QED
  BY <1>1, <1>2, <1>3, <1>4, <1>5 DEF ConversationNext

\* Beside the real writers, with whatever they send pushed live, the delivered position and
\* the offline resync do what DeliveredPosition lets them do.
THEOREM ConversationKeepsPosition == Grace => (ConversationSpec => Offline!Spec)
<1>1. ConversationInit => Offline!Init
  BY DEF ConversationInit
<1>2. CASE Grace
  <2>1. DirectInv /\ DirectInv' /\ [ConversationNext]_conversationVars => [Offline!Next]_(Offline!vars)
    BY <1>2, PositionStep
  <2> QED
    BY <1>1, <2>1, WritersRun, PTL DEF ConversationSpec, Offline!Spec
<1> QED
  BY <1>2

\* Each limit is one that the instance's proofs ask for.
LEMMA OfflineLimits == ReaderLimits => OfflineFacts!PositionAssumption
BY OutboxAssumption DEF ReaderLimits, OfflineFacts!PositionAssumption, Message

LEMMA PositionInvariant == Grace /\ ReaderLimits => (ConversationSpec => []OfflineFacts!IInv)
<1> SUFFICES ASSUME Grace, ReaderLimits PROVE ConversationSpec => []OfflineFacts!IInv
  OBVIOUS
<1>1. Offline!Spec => OfflineFacts!Spec
  <2>1. Offline!Init => OfflineFacts!Init
    BY SameOffline
  <2>2. [Offline!Next]_(Offline!vars) => [OfflineFacts!Next]_(OfflineFacts!vars)
    BY SameOffline DEF Offline!vars, OfflineFacts!vars, Offline!logVars, OfflineFacts!logVars, Offline!sqlVars,
       OfflineFacts!sqlVars, Offline!resyncVars, OfflineFacts!resyncVars
  <2> QED
    BY <2>1, <2>2, PTL DEF Offline!Spec, OfflineFacts!Spec
<1>2. OfflineFacts!Spec => []OfflineFacts!IInv
  BY OfflineLimits, OfflineFacts!PositionInvariant DEF OfflineFacts!PositionAssumption
<1> QED
  BY <1>1, <1>2, ConversationKeepsPosition

-----------------------------------------------------------------------------
(* The web client.                                                          *)

LEMMA CursorStep ==
  ASSUME Grace, DirectInv, DirectInv', OfflineFacts!IInv, [ConversationNext]_conversationVars
  PROVE  [Cursor!Next]_(Cursor!vars)
<1> USE DEF Cursor!vars, Cursor!logVars, Cursor!viewVars, Cursor!posVars, Cursor!bufVars, clientVars, socketVars
<1>1. CASE Write
  BY <1>1, WriteIsLog DEF Cursor!Next, Cursor!Log
\* what PushToUsers puts on the socket is a push of the client's module, or goes elsewhere
<1>2. ASSUME NEW s \in Seqs, HasRow(s) \/ SafePrefix < s, ToConnections(s)
      PROVE  [Cursor!Next]_(Cursor!vars)
  <2>1. s \in Cursor!Rows \/ SafePrefix < s
    BY <1>2 DEF Cursor!Rows, Cursor!Seqs, Seqs, HasRow
  <2>2. UNCHANGED <<stored, SafePrefix>>
    BY <1>2, QuietWriters DEF ToConnections
  <2>3. CASE UNCHANGED wire
    BY <1>2, <2>2, <2>3 DEF ToConnections
  <2>4. CASE /\ link /\ Len(wire) < MaxWire
             /\ wire' = Append(wire, Cursor!MessageFrame(s)) /\ Cursor!Bounds
    <3>1. Cursor!Push(s)
      BY <1>2, <2>1, <2>2, <2>4 DEF Cursor!Push, ToConnections
    <3> QED
      BY <2>4, <3>1 DEF Cursor!Next, Cursor!Seqs, Seqs
  <2> QED
    BY <1>2, <2>3, <2>4 DEF ToConnections
<1>3. ASSUME NEW s \in Seqs, LivePush(s)
      PROVE  [Cursor!Next]_(Cursor!vars)
  <2>1. Sendable(s)
    BY <1>3 DEF LivePush, Sendable, Sent
  <2> QED
    BY <1>2, <1>3, <2>1, SendableIsAhead DEF LivePush
\* the resync pushes rows: what its page holds
<1>4. CASE OfflinePush
  <2>1. batch # {} /\ batch \in SUBSET Nat /\ \A s \in batch : s \in Seqs /\ HasRow(s)
    BY <1>4 DEF OfflinePush, OfflineFacts!IInv, OfflineFacts!TypeOK, OfflineFacts!Rows, OfflineFacts!Seqs, Seqs, HasRow
  <2>2. Min(batch) \in batch
    BY <2>1, MinNat
  <2> QED
    BY <1>2, <1>4, <2>1, <2>2 DEF OfflinePush
<1>5. CASE Sync
  <2>1. UNCHANGED <<stored, SafePrefix>>
    BY <1>5, QuietWriters DEF Sync
  <2> QED
    BY <1>5 DEF Sync, Cursor!Next
<1>6. CASE Position \/ UNCHANGED conversationVars
  BY <1>6, QuietWriters DEF Position, conversationVars
<1> QED
  BY <1>1, <1>3, <1>4, <1>5, <1>6 DEF ConversationNext

\* Beside the real writers and the user's other connections, the page with its connection does
\* what CursorSync lets it do.
THEOREM ConversationKeepsCursor == Grace /\ ReaderLimits => (ConversationSpec => Cursor!Spec)
<1>1. ConversationInit => Cursor!Init
  BY DEF ConversationInit
<1>2. CASE Grace /\ ReaderLimits
  <2>1. DirectInv /\ DirectInv' /\ OfflineFacts!IInv /\ [ConversationNext]_conversationVars => [Cursor!Next]_(Cursor!vars)
    BY <1>2, CursorStep
  <2>2. ConversationSpec => []OfflineFacts!IInv
    BY <1>2, PositionInvariant
  <2> QED
    BY <1>1, <2>1, <2>2, WritersRun, PTL DEF ConversationSpec, Cursor!Spec
<1> QED
  BY <1>2

LEMMA CursorLimits == ReaderLimits => CursorFacts!CursorAssumption
BY OutboxAssumption DEF ReaderLimits, CursorFacts!CursorAssumption, Message

LEMMA CursorInvariant == Grace /\ ReaderLimits => (ConversationSpec => []CursorFacts!IInv)
<1> SUFFICES ASSUME Grace, ReaderLimits PROVE ConversationSpec => []CursorFacts!IInv
  OBVIOUS
<1>1. Cursor!Spec => CursorFacts!Spec
  <2>1. Cursor!Init => CursorFacts!Init
    BY SameCursor
  <2>2. [Cursor!Next]_(Cursor!vars) => [CursorFacts!Next]_(CursorFacts!vars)
    BY SameCursor DEF Cursor!vars, CursorFacts!vars, Cursor!logVars, CursorFacts!logVars, Cursor!viewVars,
       CursorFacts!viewVars, Cursor!posVars, CursorFacts!posVars, Cursor!bufVars, CursorFacts!bufVars
  <2> QED
    BY <2>1, <2>2, PTL DEF Cursor!Spec, CursorFacts!Spec
<1>2. CursorFacts!Spec => []CursorFacts!IInv
  BY CursorLimits, CursorFacts!CursorInvariant DEF CursorFacts!CursorAssumption
<1> QED
  BY <1>1, <1>2, ConversationKeepsCursor

-----------------------------------------------------------------------------
(* From Submit to the user.                                                 *)

\* The delivered position stays within the safe prefix and the cursor passes a number without
\* the message only if it lies there too, while what can be sent and has no row lies beyond.
LEMMA NotPassedFact ==
  ASSUME DirectInv, OfflineFacts!IInv, CursorFacts!IInv, NEW s \in Seqs, Sendable(s)
  PROVE  NotPassed(s)
<1>1. HasRow(s) \/ SafePrefix < s
  BY SendableIsAhead
<1>2. SafePrefix \in Nat
  BY HeldType, SafePrefixFact, OutboxAssumption DEF DirectInv, IsSafePrefix
<1>3. ASSUME s <= delivered
      PROVE  s \in handed
  <2>1. delivered <= SafePrefix /\ delivered \in Nat /\ s \in Nat
    BY <1>2, OutboxAssumption DEF OfflineFacts!IInv, OfflineFacts!TypeOK, Seqs
  <2>2. HasRow(s)
    BY <1>1, <1>2, <1>3, <2>1
  <2> QED
    BY <1>3, <2>2 DEF OfflineFacts!IInv, OfflineFacts!DeliveredWasHanded, OfflineFacts!Rows, OfflineFacts!Seqs, Seqs, HasRow
<1>4. ASSUME base < s, s <= cursor
      PROVE  s \in shown \cup Cursor!Pending \cup dropped
  <2>1. s \in CursorFacts!Kept \/ (s <= SafePrefix /\ s \notin CursorFacts!Rows)
    BY <1>4 DEF CursorFacts!IInv, CursorFacts!Covered, CursorFacts!Seqs, Seqs
  <2>2. ~(s <= SafePrefix /\ s \notin CursorFacts!Rows)
    BY <1>1, <1>2 DEF CursorFacts!Rows, CursorFacts!Seqs, Seqs, HasRow
  <2> QED
    BY <2>1, <2>2 DEF CursorFacts!Kept, CursorFacts!Pending, Cursor!Pending
<1> QED
  BY <1>3, <1>4 DEF NotPassed

LEMMA ConversationInvariant ==
  Grace /\ ReaderLimits => (ConversationSpec => [](DirectInv /\ OfflineFacts!IInv /\ CursorFacts!IInv))
<1> SUFFICES ASSUME Grace, ReaderLimits
             PROVE  ConversationSpec => [](DirectInv /\ OfflineFacts!IInv /\ CursorFacts!IInv)
  OBVIOUS
<1>1. ConversationSpec => []OfflineFacts!IInv
  BY PositionInvariant
<1>2. ConversationSpec => []CursorFacts!IInv
  BY CursorInvariant
<1> QED
  BY <1>1, <1>2, WritersRun, PTL

\* With the writers, the recovery, the Job, the resyncs and the page all at work, neither the
\* delivered position nor the page's cursor passes a message that is stored or on its way
\* without its having been given to the user.
THEOREM NothingIsEverPassed == Grace /\ ReaderLimits => (ConversationSpec => []NothingIsPassed)
<1> SUFFICES ASSUME Grace, ReaderLimits PROVE ConversationSpec => []NothingIsPassed
  OBVIOUS
<1>1. DirectInv /\ OfflineFacts!IInv /\ CursorFacts!IInv => NothingIsPassed
  BY NotPassedFact DEF NothingIsPassed
<1>2. ConversationSpec => [](DirectInv /\ OfflineFacts!IInv /\ CursorFacts!IInv)
  BY ConversationInvariant
<1> QED
  BY <1>1, <1>2, PTL

\* A resync that ends beside the real writers has handed over every row it began with, although
\* rows are inserted, numbers settled and positions moved under its pages.
THEOREM ResyncsStayComplete == Grace /\ ReaderLimits => (ConversationSpec => []Offline!ResyncIsComplete)
<1> SUFFICES ASSUME Grace, ReaderLimits PROVE ConversationSpec => []Offline!ResyncIsComplete
  OBVIOUS
<1>1. OfflineFacts!IInv => Offline!ResyncIsComplete
  BY DEF OfflineFacts!IInv, OfflineFacts!ResyncOwes, OfflineFacts!Ahead, Offline!ResyncIsComplete
<1> QED
  BY <1>1, PositionInvariant, PTL

\* The promise of accepted_ack from one end to the other: an accepted message is stored or on
\* its way under a number that no position of a reader has passed without it.
THEOREM AcceptedReachesReaders == Grace /\ ReaderLimits => (ConversationSpec => []AcceptedIsNotMissed)
<1> SUFFICES ASSUME Grace, ReaderLimits PROVE ConversationSpec => []AcceptedIsNotMissed
  OBVIOUS
<1>1. ASSUME DirectInv, OfflineFacts!IInv, CursorFacts!IInv, NEW m \in acked
      PROVE  \E s \in Seqs : /\ stored[s] = m \/ \E r \in Sent : r.seq = s /\ r.msg = m
                            /\ NotPassed(s)
  <2>1. Durable(m) /\ m # NoMessage
    <3>1. m \in Message
      BY <1>1 DEF DirectInv, DirectTypeInv, DirectTypeOK, TypeOK
    <3> QED
      BY <1>1, <3>1, OutboxAssumption DEF DirectInv, AcceptedIsDurable, Message
  <2>2. ASSUME NEW s \in Seqs, stored[s] = m
        PROVE  NotPassed(s)
    BY <1>1, <2>1, <2>2, NotPassedFact DEF Sendable, HasRow
  <2>3. ASSUME NEW r \in Sent, r.msg = m
        PROVE  r.seq \in Seqs /\ NotPassed(r.seq)
    <3>1. r.seq \in Seqs
      BY <1>1, HeldType, SentIssued DEF DirectInv, Record
    <3> QED
      BY <1>1, <3>1, NotPassedFact DEF Sendable
  <2>4. (\E s \in Seqs : stored[s] = m) \/ (\E r \in Sent : r.msg = m)
    <3>1. committed \in Nat /\ log \in Seq(Record)
      BY <1>1 DEF DirectInv, DirectTypeInv, DirectTypeOK, TypeOK
    <3>2. \A i \in committed + 1..Len(log) : log[i] \in Sent
      BY <3>1 DEF Sent
    <3> QED
      BY <2>1, <3>2 DEF Durable, Sent
  <2> QED
    BY <2>2, <2>3, <2>4
<1>2. DirectInv /\ OfflineFacts!IInv /\ CursorFacts!IInv => AcceptedIsNotMissed
  BY <1>1 DEF AcceptedIsNotMissed
<1>3. ConversationSpec => [](DirectInv /\ OfflineFacts!IInv /\ CursorFacts!IInv)
  BY ConversationInvariant
<1> QED
  BY <1>2, <1>3, PTL

=============================================================================
