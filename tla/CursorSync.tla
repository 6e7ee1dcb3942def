----------------------------- MODULE CursorSync -----------------------------
(***************************************************************************)
(* How the web client follows one conversation: web_demo/static/index.html *)
(* (the contiguous cursor, the buffer of messages that arrive while the    *)
(* conversation is not on the screen, its history page) over one           *)
(* WebSocket, with CometServer::RequestCursorSync and                      *)
(* ConversationService::SyncAfter at the other end.  The message table and *)
(* its safe prefix move as module StableLog says.                          *)
(*                                                                         *)
(* A message is its number.  Live pushes and offline resyncs put any row,  *)
(* and any number that is still on its way to a row, on the socket.        *)
(***************************************************************************)
EXTENDS StableLog, Sequences, FiniteSets, FiniteSetsExt, SequencesExt

CONSTANTS
  PageLimit,     \* messages in an answer to "sync" (100)
  HistoryLimit,  \* rows in the first history page (50)
  PendingLimit,  \* pendingLiveMessages (2000)
  SeenLimit,     \* seenSessionSequences (4096)
  MaxAsked,      \* bound on the sync requests under way on a connection
  MaxWire        \* bound on the frames under way

None == -1

ASSUME CursorAssumption ==
  /\ MaxSeq \in Nat \ {0} /\ NoMessage \notin Message
  /\ {PageLimit, HistoryLimit} \subseteq Nat \ {0}
  /\ {PendingLimit, SeenLimit, MaxAsked, MaxWire} \subseteq Nat

VARIABLES
  link,     \* the WebSocket is open
  wire,     \* frames from Comet to the client
  asked,    \* sync requests Comet works on, the safe prefix of each once Logic has read it
  view,     \* "away"; on the screen with the history page "asked", "read" or "shown"
  page,     \* the history page that was read
  ready,    \* historyReady, as the workspace keeps it
  retry,    \* retryHistory
  cursor,   \* sessionCursors
  seen,     \* seenSessionSequences
  pending,  \* pendingLiveMessages
  buffer,   \* bufferStart
  recover,  \* recoveryFrom
  active,   \* after_seq of the request in cursorSyncStarted
  timer,    \* the 1 s timer of handleSyncEnd is set
  shown,    \* renderedMessageRows
  base,     \* history: the number before the first history page
  dropped   \* history: messages that found pendingLiveMessages full

logVars  == <<rows, prefix>>
viewVars == <<view, page, ready, retry>>
posVars  == <<cursor, seen>>
bufVars  == <<pending, buffer, recover, dropped>>
vars == <<logVars, link, wire, asked, viewVars, posVars, bufVars, active, timer, shown, base>>

Rows == {s \in Seqs : rows[s] # NoMessage}
Pending == {pending[i] : i \in DOMAIN pending}
Visible == view # "away" /\ ready

MessageFrame(s) == [type |-> "message", seq |-> s]
EndFrame(after, next, safe, more) ==
  [type |-> "sync_end", after |-> after, next |-> next, safe |-> safe, more |-> more]
Sync(after) == [after |-> after, safe |-> None]

Init ==
  /\ StableInit
  /\ link = FALSE /\ wire = <<>> /\ asked = <<>>
  /\ view = "away" /\ page = {} /\ ready = FALSE /\ retry = FALSE
  /\ cursor = 0 /\ seen = {}
  /\ pending = <<>> /\ buffer = None /\ recover = None /\ dropped = {}
  /\ active = None /\ timer = FALSE /\ shown = {} /\ base = 0

-----------------------------------------------------------------------------
(* Requests.  One at a time, until it is 15 s old; the clock is not kept,  *)
(* so any may be that old.                                                 *)

Ask(after) ==
  \/ /\ link
     /\ asked' = Append(asked, Sync(after)) /\ active' = after
  \/ /\ ~link \/ active # None
     /\ UNCHANGED <<asked, active>>

\* The same after clearCursorSync.
AskAnew(after) ==
  /\ asked' = IF link THEN Append(asked, Sync(after)) ELSE asked
  /\ active' = IF link THEN after ELSE None

AskNothing == UNCHANGED <<asked, active>>

-----------------------------------------------------------------------------
(* The cursor.                                                              *)

\* The end of the run of numbers in S that begins after c.
Run(S, c) == Max({n \in c..MaxSeq : (c + 1)..n \subseteq S})

Gap(batch, c) == \E s \in batch : s > c + 1

\* What seenSessionSequences keeps when the cursor moves from c to end.
Left(S, c, end) == {s \in S : s <= c \/ s > end}

\* Mutant of Overfull: one too many.
BadOverfull(S) == Cardinality(S) > SeenLimit + 1

Overfull(S) == Cardinality(S) > SeenLimit

\* advanceSessionCursor from c over a batch in ascending order.  A set over its limit is
\* cleared, and keeps what the same batch adds afterwards.
Advance(c, batch) ==
  /\ cursor' = Run(seen \cup batch, c)
  /\ LET left == Left(seen \cup batch, c, cursor') IN
       IF Overfull(left)
       THEN \E n \in batch : seen' = {s \in left \cap batch : s > n} /\ ~Overfull(seen')
       ELSE seen' = left

-----------------------------------------------------------------------------
(* Messages.                                                                *)

\* receiveConversationMessage: render it, or buffer it while the conversation is not on the
\* screen or has no history yet; from a full buffer on, remember where to sync from.
Keep(s) ==
  IF Visible
  THEN shown' = shown \cup {s} /\ UNCHANGED bufVars
  ELSE LET start == IF buffer = None THEN cursor ELSE buffer IN
       /\ buffer' = start
       /\ IF Len(pending) < PendingLimit
          THEN pending' = Append(pending, s) /\ UNCHANGED <<recover, dropped>>
          ELSE /\ recover' = IF recover = None \/ recover > start THEN start ELSE recover
               /\ dropped' = dropped \cup {s}
               /\ UNCHANGED pending
       /\ UNCHANGED shown

ReceiveMessage ==
  /\ wire # <<>> /\ Head(wire).type = "message"
  /\ LET s == Head(wire).seq IN
       /\ Keep(s)
       /\ IF view = "away" \/ ready
          THEN /\ Advance(cursor, {s})
               /\ IF Gap({s}, cursor') \/ Overfull(Left(seen \cup {s}, cursor, cursor'))
                  THEN Ask(cursor') ELSE AskNothing
          ELSE UNCHANGED posVars /\ AskNothing
  /\ wire' = Tail(wire)
  /\ UNCHANGED <<logVars, link, viewVars, timer, base>>

\* Mutant of Jump: a page that began beyond the cursor moves it too.
BadJump(f) == IF f.safe > cursor THEN f.safe ELSE cursor

\* The cursor after sync_end: the safe position, if the page began at or below the cursor.
Jump(f) == IF f.after <= cursor /\ f.safe > cursor THEN f.safe ELSE cursor

\* handleSyncEnd
ReceiveSyncEnd ==
  /\ wire # <<>> /\ Head(wire).type = "sync_end"
  /\ LET f == Head(wire) IN
     IF active \notin {None, f.after}
     THEN UNCHANGED <<asked, active, posVars, timer>>
     ELSE LET left == {s \in seen : s > Jump(f)} IN
          /\ cursor' = Run(left, Jump(f))
          /\ seen' = {s \in left : s > cursor'}
          /\ IF f.more /\ f.next > f.after
             THEN AskAnew(f.next) /\ UNCHANGED timer
             ELSE /\ active' = None /\ UNCHANGED asked
                  /\ timer' = (timer \/ Gap(seen', cursor'))
  /\ wire' = Tail(wire)
  /\ UNCHANGED <<logVars, link, viewVars, bufVars, shown, base>>

\* The 1 s timer after a page that left a gap.
Timer ==
  /\ timer
  /\ timer' = FALSE
  /\ Ask(cursor)
  /\ UNCHANGED <<logVars, link, wire, viewVars, posVars, bufVars, shown, base>>

\* reconcileCurrentConversation, every 5 s.
Reconcile ==
  /\ Visible /\ link
  /\ Ask(cursor)
  /\ UNCHANGED <<logVars, link, wire, viewVars, posVars, bufVars, timer, shown, base>>

-----------------------------------------------------------------------------
(* The conversation comes on the screen and leaves it.                      *)

\* flushPendingLiveMessages after history was rendered from cursor c, and the
\* sendCursorSync that follows it.  What a full buffer lost is asked for again.
Flush(c, history) ==
  LET batch == history \cup Pending
      end   == Run(seen \cup batch, c)
      first == Run(seen \cup history, c)
  IN
  /\ shown' = shown \cup batch
  /\ pending' = <<>> /\ buffer' = None /\ recover' = None /\ UNCHANGED dropped
  /\ IF recover = None
     THEN /\ Advance(c, batch)
          /\ Ask(IF Gap(history, first) THEN first ELSE end)
     ELSE /\ cursor' = (IF end < recover THEN end ELSE recover) /\ seen' = {}
          /\ \E early \in {<<>>, <<Sync(end)>>} :
               /\ IF early = <<>> THEN ~Gap(batch, end) \/ active # None \/ ~link
                                  ELSE Gap(batch, end) /\ link
               /\ asked' = asked \o early \o (IF link THEN <<Sync(recover)>> ELSE <<>>)
          /\ active' = IF link THEN recover ELSE None

\* showChatWindow
Show ==
  /\ view = "away"
  /\ IF ready /\ ~retry
     THEN view' = "shown" /\ Flush(cursor, {})
     ELSE view' = "asked" /\ AskNothing /\ UNCHANGED <<posVars, bufVars, shown>>
  /\ UNCHANGED <<logVars, link, wire, page, ready, retry, timer, base>>

\* parkCurrentWorkspace, when another conversation is shown.
Park ==
  /\ view # "away"
  /\ view' = "away" /\ page' = {}
  /\ UNCHANGED <<logVars, link, wire, asked, ready, retry, posVars, bufVars, active, timer, shown, base>>

\* /api/session/history: the newest rows.
ReadHistory ==
  /\ view = "asked"
  /\ view' = "read"
  /\ page' = {s \in Rows : Cardinality({t \in Rows : t > s}) < HistoryLimit}
  /\ UNCHANGED <<logVars, link, wire, asked, ready, retry, posVars, bufVars, active, timer, shown, base>>

\* The number before the first page, and before what is known of the messages around it.
Edge == Min(page \cup Pending \cup seen) - 1

\* loadHistory with its answer: without a cursor the page's lower edge becomes the cursor.
LoadHistory ==
  /\ view = "read"
  /\ LET c == IF cursor = 0 /\ page # {} THEN Edge ELSE cursor IN
       /\ Flush(c, page)
       /\ base' = IF cursor = 0 /\ page # {} THEN c ELSE base
  /\ view' = "shown" /\ page' = {} /\ ready' = TRUE /\ retry' = FALSE
  /\ UNCHANGED <<logVars, link, wire, timer>>

\* loadHistory without one.
LoadFails ==
  /\ view \in {"asked", "read"}
  /\ Flush(cursor, {})
  /\ view' = "shown" /\ page' = {} /\ ready' = TRUE /\ retry' = TRUE
  /\ UNCHANGED <<logVars, link, wire, timer, base>>

-----------------------------------------------------------------------------
(* The connection.                                                          *)

\* connectWebSocket and its onopen
Connect ==
  /\ ~link
  /\ link' = TRUE /\ timer' = FALSE
  /\ asked' = IF Visible THEN <<Sync(cursor)>> ELSE <<>>
  /\ active' = IF Visible THEN cursor ELSE None
  /\ UNCHANGED <<logVars, wire, viewVars, posVars, bufVars, shown, base>>

\* The socket closes; what is under way is lost.
Disconnect ==
  /\ link
  /\ link' = FALSE /\ wire' = <<>> /\ asked' = <<>>
  /\ UNCHANGED <<logVars, viewVars, posVars, bufVars, active, timer, shown, base>>

\* doLogout: everything the page knows of the conversation goes.
Logout ==
  /\ link' = FALSE /\ wire' = <<>> /\ asked' = <<>>
  /\ view' = "away" /\ page' = {} /\ ready' = FALSE /\ retry' = FALSE
  /\ cursor' = 0 /\ seen' = {}
  /\ pending' = <<>> /\ buffer' = None /\ recover' = None /\ dropped' = {}
  /\ active' = None /\ timer' = FALSE /\ shown' = {} /\ base' = 0
  /\ UNCHANGED logVars

-----------------------------------------------------------------------------
(* Comet and Logic.                                                         *)

\* PushToUsers: a live message, or a row of an offline resync.
Push(s) ==
  /\ link /\ Len(wire) < MaxWire
  /\ s \in Rows \/ prefix < s
  /\ wire' = Append(wire, MessageFrame(s))
  /\ UNCHANGED <<logVars, link, asked, viewVars, posVars, bufVars, active, timer, shown, base>>

\* SyncAfter reads the safe prefix before the rows.
ReadPrefix(i) ==
  /\ asked[i].safe = None
  /\ asked' = [asked EXCEPT ![i] = [after |-> @.after, safe |-> prefix]]
  /\ UNCHANGED <<logVars, link, wire, viewVars, posVars, bufVars, active, timer, shown, base>>

\* Mutant of SafeSeq: what lies between the page and the safe prefix counts as sent.
BadSafeSeq(safe, next, taken) == safe

\* safe_seq of a page that ends with next
SafeSeq(safe, next, taken) == IF taken = {} \/ safe < next THEN safe ELSE next

\* The rows after the request's position, as many as the limit and the byte budget allow,
\* and their end; the frames before the first that cannot be sent, and no end then.
Answer(i) ==
  /\ asked[i].safe # None
  /\ LET after == {s \in Rows : s > asked[i].after} IN
     \E last \in after \cup {asked[i].after} :
       LET taken == {s \in after : s <= last} IN
       /\ Cardinality(taken) <= PageLimit
       /\ after # {} => taken # {}
       /\ \E order \in [1..Cardinality(taken) -> taken], sent \in 0..Cardinality(taken) :
            LET frames == [n \in 1..sent |-> MessageFrame(order[n])]
                end == EndFrame(asked[i].after, last, SafeSeq(asked[i].safe, last, taken), taken # after)
            IN /\ \A m, n \in DOMAIN order : m < n => order[m] < order[n]
               /\ \A s \in taken : \E n \in DOMAIN order : order[n] = s
               /\ \/ wire' = wire \o frames
                  \/ sent = Cardinality(taken) /\ wire' = Append(wire \o frames, end)
  /\ asked' = RemoveAt(asked, i)
  /\ UNCHANGED <<logVars, link, viewVars, posVars, bufVars, active, timer, shown, base>>

-----------------------------------------------------------------------------

Bounds == Len(asked') <= MaxAsked /\ Len(wire') <= MaxWire

Log == StableNext /\ UNCHANGED <<link, wire, asked, viewVars, posVars, bufVars, active, timer, shown, base>>

Client ==
  \/ ReceiveMessage \/ ReceiveSyncEnd \/ Timer \/ Reconcile
  \/ Show \/ Park \/ ReadHistory \/ LoadHistory \/ LoadFails
  \/ Connect \/ Logout

Server == \E i \in DOMAIN asked : ReadPrefix(i) \/ Answer(i)

Next ==
  \/ Log \/ Disconnect
  \/ (Client \/ Server \/ \E s \in Seqs : Push(s)) /\ Bounds

Spec == Init /\ [][Next]_vars

-----------------------------------------------------------------------------

\* The type invariant.
TypeOK ==
  /\ rows \in [Seqs -> Message \cup {NoMessage}] /\ prefix \in 0..MaxSeq
  /\ link \in BOOLEAN /\ (~link => wire = <<>> /\ asked = <<>>)
  /\ Len(wire) <= MaxWire /\ Len(asked) <= MaxAsked
  /\ view \in {"away", "asked", "read", "shown"} /\ page \subseteq Rows
  /\ ready \in BOOLEAN /\ retry \in BOOLEAN /\ timer \in BOOLEAN
  /\ cursor \in 0..MaxSeq /\ seen \subseteq Seqs /\ Cardinality(seen) <= SeenLimit
  /\ pending \in Seq(Seqs) /\ Len(pending) <= PendingLimit
  /\ {buffer, recover, active} \subseteq {None} \cup 0..MaxSeq
  /\ shown \subseteq Seqs /\ base \in 0..MaxSeq /\ dropped \subseteq Seqs

\* No stored message at or below the cursor is missing: above the first history page it was
\* rendered or waits to be, or found the buffer full.  That is what lets the client ask only
\* for what follows its cursor (advanceSessionCursor, handleSyncEnd, loadHistory, SyncAfter).
CursorSkipsNothing ==
  \A s \in Rows : base < s /\ s <= cursor => s \in shown \cup Pending \cup dropped

=============================================================================
