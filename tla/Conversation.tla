---------------------------- MODULE Conversation ----------------------------
(***************************************************************************)
(* One conversation as a whole: its writers (the outbox of MessageOutbox,  *)
(* the appends of DirectAppend) and one user who reads it, through the     *)
(* delivered position and the offline resync of DeliveredPosition and      *)
(* through the web client of CursorSync.  The readers' modules assume a    *)
(* stable log and that nothing is pushed from below its safe prefix; here  *)
(* the log is the message table with SafePrefix, and a push is of what the *)
(* writers have sent.                                                      *)
(***************************************************************************)
EXTENDS DirectAppend

CONSTANTS
  OfflinePage,   \* PageLimit of DeliveredPosition
  SyncPage,      \* PageLimit of CursorSync
  HistoryLimit, PendingLimit, SeenLimit, MaxAsked, MaxWire  \* as in CursorSync

VARIABLES
  \* DeliveredPosition; batch is its page
  delivered, receipts, handed, resync, from, batch, more, due,
  \* CursorSync
  link, wire, asked, view, page, ready, retry, cursor, seen, pending, buffer, recover,
  dropped, active, timer, shown, base

Offline == INSTANCE DeliveredPosition
  WITH rows <- stored, prefix <- SafePrefix, page <- batch, PageLimit <- OfflinePage

Cursor == INSTANCE CursorSync
  WITH rows <- stored, prefix <- SafePrefix, PageLimit <- SyncPage

writerVars   == <<vars, directVars>>
positionVars == <<delivered, receipts, handed, resync, from, batch, more, due>>
socketVars   == <<link, asked, view, page, ready, retry, cursor, seen, pending, buffer,
                  recover, dropped, active, timer, shown, base>>
clientVars   == <<socketVars, wire>>

ConversationInit == DirectInit /\ Offline!Init /\ Cursor!Init

-----------------------------------------------------------------------------

Write == DirectNext /\ UNCHANGED <<positionVars, clientVars>>

\* PushToUsers sends to every connection of the user that takes it: perhaps the web client's.
ToConnections(s) ==
  /\ UNCHANGED <<writerVars, socketVars>>
  /\ handed' = handed \cup {s}
  /\ \/ UNCHANGED wire
     \/ /\ link /\ Len(wire) < MaxWire
        /\ wire' = Append(wire, Cursor!MessageFrame(s))
        /\ Cursor!Bounds

\* Submit and HandleHermesReply give a message to the realtime topics once the persist topic
\* has it, SendDanmaku once its row is there.  The push may come at any time after that, more
\* than once, or not at all.
LivePush(s) ==
  /\ HasRow(s) \/ \E i \in DOMAIN log : log[i].seq = s
  /\ ToConnections(s)
  /\ UNCHANGED <<delivered, receipts, resync, from, batch, more, due>>

OfflinePush == batch # {} /\ ToConnections(Min(batch)) /\ Offline!PushNext

\* The other steps of the resync, and MarkDelivered.
Position ==
  /\ UNCHANGED <<writerVars, clientVars>>
  /\ \/ Offline!Connect \/ Offline!Start \/ Offline!ReadPage \/ Offline!NextPage
     \/ Offline!PushFails \/ \E s \in Seqs : Offline!Report(s)

\* The page, and its requests at Comet and Logic.  That an answer hands rows to the user is
\* the LivePush of each of them.
Sync ==
  /\ UNCHANGED <<writerVars, positionVars>>
  /\ \/ Cursor!Disconnect
     \/ (Cursor!Client \/ Cursor!Server) /\ Cursor!Bounds

ConversationNext ==
  Write \/ (\E s \in Seqs : LivePush(s)) \/ OfflinePush \/ Position \/ Sync

conversationVars == <<writerVars, positionVars, clientVars>>

ConversationSpec == ConversationInit /\ [][ConversationNext]_conversationVars

-----------------------------------------------------------------------------

\* With a row, or with a record on its way to one.
Sendable(s) == HasRow(s) \/ \E r \in Sent : r.seq = s

\* The user was given number s, unless both ways to get it are still to come: the next
\* resync starts below it, and so does the next cursor sync of the page (or s lies below
\* the first history page that the page has shown).
NotPassed(s) ==
  /\ s <= delivered => s \in handed
  /\ base < s /\ s <= cursor => s \in shown \cup Cursor!Pending \cup dropped

\* No reader's position passes a message that exists, stored or still on its way, without
\* its being given to the user, whatever is late, retried, sealed, replayed or lost between
\* Submit and the page.
NothingIsPassed == \A s \in Seqs : Sendable(s) => NotPassed(s)

\* An accepted message is in the table, or on its way to it, under a number that neither the
\* delivered position nor the page's cursor has passed without it.
AcceptedIsNotMissed ==
  \A m \in acked :
    \E s \in Seqs :
      /\ stored[s] = m \/ \E r \in Sent : r.seq = s /\ r.msg = m
      /\ NotPassed(s)

=============================================================================
