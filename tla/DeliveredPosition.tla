-------------------------- MODULE DeliveredPosition --------------------------
(***************************************************************************)
(* The delivered position of one user in one conversation:                 *)
(* UserSessionStateDao::AdvanceDelivered with its receipts, the offline    *)
(* resync that starts from it (ConversationService::SyncOffline, called    *)
(* by CometServer::RequestOfflineSync) and the reports of what the Comets  *)
(* handed to the user's connections.  The message table and its safe       *)
(* prefix move as module StableLog says.                                   *)
(***************************************************************************)
EXTENDS StableLog, FiniteSets, FiniteSetsExt

CONSTANT PageLimit  \* rows in a page of SyncOffline

ASSUME PositionAssumption ==
  /\ MaxSeq \in Nat \ {0} /\ PageLimit \in Nat \ {0}
  /\ NoMessage \notin Message

VARIABLES
  delivered,  \* user_session_state.delivered_seq
  receipts,   \* message_delivery_receipt
  handed,     \* the numbers some Comet handed to a connection of the user
  resync,     \* the task of RequestOfflineSync: what it does next
  from,       \* the position its next page starts after
  page,       \* what it still has to push of this page
  more,       \* has_more of this page
  due         \* history: the rows that were there when the resync began

logVars    == <<rows, prefix>>
sqlVars    == <<delivered, receipts>>
resyncVars == <<resync, from, page, more, due>>
vars == <<logVars, sqlVars, handed, resyncVars>>

Rows == {s \in Seqs : rows[s] # NoMessage}

Init ==
  /\ StableInit
  /\ delivered = 0 /\ receipts = {} /\ handed = {}
  /\ resync = "idle" /\ from = 0 /\ page = {} /\ more = FALSE /\ due = {}

-----------------------------------------------------------------------------
(* AdvanceDelivered: one transaction under the lock of the position's row. *)

\* The receipt is kept unless the position has covered it; 0 is no receipt.
Kept(receipt) == IF receipt > delivered THEN receipts \cup {receipt} ELSE receipts

\* Mutant of Unreceived: rows already covered are looked at again.
BadUnreceived(receipt) == {s \in Rows : s <= prefix /\ s \notin Kept(receipt)}

\* The rows that hold the position back: settled, and nobody reported them.
Unreceived(receipt) ==
  {s \in Rows : delivered < s /\ s <= prefix /\ s \notin Kept(receipt)}

\* Mutant of Position: the greatest receipt.
BadPosition(receipt) == Max(Kept(receipt) \cup {delivered})

\* One below the first of them, or the safe prefix, but never back.
Position(receipt) ==
  LET run == IF Unreceived(receipt) = {} THEN prefix ELSE Min(Unreceived(receipt)) - 1
  IN  IF run > delivered THEN run ELSE delivered

\* Mutant of AdvanceDelivered: covered receipts stay.
BadAdvanceDelivered(receipt) ==
  /\ delivered' = Position(receipt)
  /\ receipts' = Kept(receipt)

AdvanceDelivered(receipt) ==
  /\ delivered' = Position(receipt)
  /\ receipts' = {r \in Kept(receipt) : r > delivered'}

-----------------------------------------------------------------------------
(* Deliveries and their reports.                                            *)

\* A live push: from Kafka, so perhaps before its row exists; what is settled without a
\* row was never sent.
Push(s) ==
  /\ s \in Rows \/ prefix < s
  /\ handed' = handed \cup {s}
  /\ UNCHANGED <<logVars, sqlVars, resyncVars>>

\* MarkDelivered: the reports of a live push, an offline page or a cursor sync arrive late,
\* again, in any order, or not at all; a call that fails half-way leaves the later ones out.
Report(s) ==
  /\ s \in handed
  /\ AdvanceDelivered(s)
  /\ UNCHANGED <<logVars, handed, resyncVars>>

-----------------------------------------------------------------------------
(* The offline resync after a handshake.                                    *)

Connect ==
  /\ resync \in {"idle", "done"}
  /\ resync' = "start" /\ from' = 0 /\ due' = Rows
  /\ UNCHANGED <<logVars, sqlVars, handed, page, more>>

\* SyncOffline asks for the position (which recomputes it) and continues after what the
\* previous page ended with, if that is further.
Start ==
  /\ resync = "start"
  /\ AdvanceDelivered(0)
  /\ from' = IF from > delivered' THEN from ELSE delivered'
  /\ resync' = "read"
  /\ UNCHANGED <<logVars, handed, page, more, due>>

\* Mutant of ReadPage: next_seq is taken before the probing row is dropped.
BadReadPage ==
  /\ resync = "read"
  /\ LET after == {s \in Rows : s > from} IN
     \E last \in after \cup {from} :
       LET taken == {s \in after : s <= last} IN
         /\ Cardinality(taken) <= PageLimit
         /\ after # {} => taken # {}
         /\ page' = taken /\ more' = (taken # after)
         /\ from' = IF taken = after THEN last ELSE Min(after \ taken)
  /\ resync' = "push"
  /\ UNCHANGED <<logVars, sqlVars, handed, due>>

\* The rows after that, in order, as many as the limit and the byte budget allow.
ReadPage ==
  /\ resync = "read"
  /\ LET after == {s \in Rows : s > from} IN
     \E last \in after \cup {from} :
       LET taken == {s \in after : s <= last} IN
         /\ Cardinality(taken) <= PageLimit
         /\ after # {} => taken # {}
         /\ page' = taken /\ from' = last
         /\ more' = (taken # after)
  /\ resync' = "push"
  /\ UNCHANGED <<logVars, sqlVars, handed, due>>

\* PushToUsers, row by row.
PushNext ==
  /\ resync = "push" /\ page # {}
  /\ handed' = handed \cup {Min(page)}
  /\ page' = page \ {Min(page)}
  /\ UNCHANGED <<logVars, sqlVars, resync, from, more, due>>

\* It returns 0, or an RPC fails: the task ends, nothing more is reported.
PushFails ==
  /\ resync \in {"start", "read", "push"}
  /\ resync' = "idle" /\ page' = {}
  /\ UNCHANGED <<logVars, sqlVars, handed, from, more, due>>

NextPage ==
  /\ resync = "push" /\ page = {}
  /\ resync' = IF more THEN "start" ELSE "done"
  /\ UNCHANGED <<logVars, sqlVars, handed, from, page, more, due>>

-----------------------------------------------------------------------------

Log == StableNext /\ UNCHANGED <<sqlVars, handed, resyncVars>>

Resync == Start \/ ReadPage \/ PushNext \/ NextPage

Next ==
  \/ Log \/ Connect \/ Resync \/ PushFails
  \/ \E s \in Seqs : Push(s) \/ Report(s)

Spec == Init /\ [][Next]_vars

\* A user comes back now and again, a started resync goes on, failures end, and of what is
\* reported again and again some call succeeds.
FairSpec ==
  /\ Spec
  /\ WF_vars(Connect) /\ WF_vars(Resync)
  /\ \A s \in Seqs : WF_vars(Report(s))
  /\ <>[][~PushFails]_vars

-----------------------------------------------------------------------------

\* The type invariant: receipts are kept only above the position (the transaction deletes
\* the others), and the resync holds a page only while it pushes.
TypeOK ==
  /\ rows \in [Seqs -> Message \cup {NoMessage}] /\ prefix \in 0..MaxSeq
  /\ delivered \in 0..prefix
  /\ receipts \subseteq {s \in Seqs : s > delivered} \cap handed
  /\ handed \subseteq Seqs /\ due \subseteq Rows
  /\ resync \in {"idle", "start", "read", "push", "done"}
  /\ from \in 0..MaxSeq /\ more \in BOOLEAN
  /\ page \subseteq Rows /\ (page # {} => resync = "push")

\* The position never passes a row that no connection of the user was given, in whatever
\* order, by whomever and how often the deliveries are reported (AdvanceDelivered): the
\* resync that starts there leaves nothing out.
DeliveredWasHanded == \A s \in Rows : s <= delivered => s \in handed

\* When a resync has ended with its last page, all rows that were there when the user
\* connected were handed to a connection, although the position moved under its pages and
\* reports were lost (RequestOfflineSync, SyncOffline).
ResyncIsComplete == resync = "done" => due \subseteq handed

\* Whatever reports were lost, the position catches up with the safe prefix if the user keeps
\* coming back: no gap and no covered row holds it for ever.
PositionCatchesUp == []<>(delivered = prefix)

=============================================================================
