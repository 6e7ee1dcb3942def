------------------------------ MODULE RoomAccess ------------------------------
(***************************************************************************)
(* Who is in a chatroom on a Comet: joining, leaving and closing beside    *)
(* the membership that Logic keeps.  The membership is asked for over RPC, *)
(* by a join, by the watchdog of every second and by every push to the     *)
(* room, each in its own thread; what a thread was told may be out of date *)
(* when it acts on it.  One user, one room, over the connections of module *)
(* UserRoute.                                                              *)
(***************************************************************************)
EXTENDS UserRoute

CONSTANTS
  Pusher,    \* threads in PushToUsers or RequestCursorSync for the room
  Watchdog,  \* room_watchdog_
  MaxBumps   \* bound on the callbacks queued for a connection

ASSUME RoomAssumption == Watchdog \notin Pusher /\ MaxBumps \in Nat \ {0}

VARIABLES
  member,   \* Logic: the user is a member of the room
  room,     \* Comet: room_connections_ of room and user; user is in room_users_ iff not empty
  join,     \* the chatroom_join under way on a connection
  thread,   \* the FilterRoomUsers under way in a thread
  targets,  \* the connections RevokeRoomUser found
  bumps,    \* its callbacks queued for a connection
  evicted,  \* history: the access was revoked and the membership has not come back since
  slipped   \* history: in the room though it was revoked between the check and the entry

roomVars == <<member, room, join, thread, targets, bumps, evicted, slipped>>

Thread == Pusher \cup {Watchdog}

\* "stale": room_access_generations_ has moved since it was read.
Request == [at : {"none", "asked", "allowed", "refused", "entering", "revoked"}, stale : BOOLEAN]
Nothing == [at |-> "none", stale |-> FALSE]
Asked   == [at |-> "asked", stale |-> FALSE]
Entering == [at |-> "entering", stale |-> FALSE]
At(r, place) == [at |-> place, stale |-> r.stale]
Stale(r) == [at |-> r.at, stale |-> r.at # "none"]

\* The loop of the connection is not inside the callback of a join.
Idle(k) == join[k].at # "entering"

RoomInit ==
  /\ Init
  /\ member \in BOOLEAN /\ room = {} /\ evicted = FALSE /\ slipped = {}
  /\ join = [k \in Conn |-> Nothing] /\ thread = [t \in Thread |-> Nothing]
  /\ targets = [t \in Thread |-> {}] /\ bumps = [k \in Conn |-> 0]

-----------------------------------------------------------------------------
(* Logic: the membership.                                                   *)

MemberChanges ==
  /\ member' = ~member
  /\ evicted' = FALSE
  /\ UNCHANGED <<vars, room, join, thread, targets, bumps, slipped>>

\* CheckRoomAccess for a join.  An error refuses it too.
CheckJoin(k) ==
  /\ join[k].at = "asked"
  /\ \E answer \in (IF member THEN {"allowed"} ELSE {}) \cup {"refused"} :
       join' = [join EXCEPT ![k] = At(@, answer)]
  /\ UNCHANGED <<vars, member, room, thread, targets, bumps, evicted, slipped>>

\* FilterRoomUsers with what Logic answers.  An error ends the request.
CheckThread(t) ==
  /\ thread[t].at = "asked"
  /\ thread' = [thread EXCEPT ![t] = At(@, IF member THEN "allowed" ELSE "refused")]
  /\ UNCHANGED <<vars, member, room, join, targets, bumps, evicted, slipped>>

-----------------------------------------------------------------------------
(* chatroom_join, chatroom_leave and the end of a connection.               *)

\* The connection's room_join_generation moves: an earlier join is forgotten.
Join(k) ==
  /\ k \in Online /\ Idle(k)
  /\ join' = [join EXCEPT ![k] = Asked]
  /\ UNCHANGED <<vars, member, room, thread, targets, bumps, evicted, slipped>>

\* LeaveRoomConnection after the same move.
Leave(k) ==
  /\ k \in Online /\ Idle(k)
  /\ join' = [join EXCEPT ![k] = Nothing] /\ room' = room \ {k} /\ slipped' = slipped \ {k}
  /\ UNCHANGED <<vars, member, thread, targets, bumps, evicted>>

\* Mutant of MayEnter: the access generation is not compared.
BadMayEnter(k) == join[k].at = "allowed"

MayEnter(k) == join[k].at = "allowed" /\ ~join[k].stale

\* The callback of chatroom_join, up to the comparison.
FinishJoin(k) ==
  /\ join[k].at \in {"allowed", "refused"}
  /\ join' = [join EXCEPT ![k] = IF MayEnter(k) THEN Entering ELSE Nothing]
  /\ UNCHANGED <<vars, member, room, thread, targets, bumps, evicted, slipped>>

\* The rest of the callback takes the lock again.
AddUserToRoom(k) ==
  /\ join[k].at = "entering"
  /\ join' = [join EXCEPT ![k] = Nothing] /\ room' = room \cup {k}
  /\ slipped' = IF join[k].stale THEN slipped \cup {k} ELSE slipped
  /\ UNCHANGED <<vars, member, thread, targets, bumps, evicted>>

\* Mutant of CloseInRoom: the connection stays in its rooms.
BadCloseInRoom(k) ==
  /\ Idle(k) /\ Close(k)
  /\ join' = [join EXCEPT ![k] = Nothing] /\ bumps' = [bumps EXCEPT ![k] = 0]
  /\ UNCHANGED <<member, room, thread, targets, evicted, slipped>>

\* OnConnection: the callbacks of a closed connection find it closed.
CloseInRoom(k) ==
  /\ Idle(k) /\ Close(k)
  /\ room' = room \ {k} /\ slipped' = slipped \ {k}
  /\ join' = [join EXCEPT ![k] = Nothing] /\ bumps' = [bumps EXCEPT ![k] = 0]
  /\ UNCHANGED <<member, thread, targets, evicted>>

CrashInRoom ==
  /\ Crash
  /\ room' = {} /\ slipped' = {}
  /\ join' = [k \in Conn |-> Nothing] /\ thread' = [t \in Thread |-> Nothing]
  /\ targets' = [t \in Thread |-> {}] /\ bumps' = [k \in Conn |-> 0]
  /\ UNCHANGED <<member, evicted>>

-----------------------------------------------------------------------------
(* The threads that ask again.                                              *)

\* PushToUsers reads the access generation and asks; RevalidateRooms asks about those who
\* are in the room.
Begin(t) ==
  /\ thread[t].at = "none"
  /\ t = Watchdog => room # {}
  /\ thread' = [thread EXCEPT ![t] = Asked]
  /\ UNCHANGED <<vars, member, room, join, targets, bumps, evicted, slipped>>

\* PushToUsers sends, if the generation is still the same; or the request failed.
End(t) ==
  /\ thread[t].at \in {"asked", "allowed"}
  /\ thread' = [thread EXCEPT ![t] = Nothing]
  /\ UNCHANGED <<vars, member, room, join, targets, bumps, evicted, slipped>>

\* Mutant of Revoke: the access generation stays.
BadRevoke(t) ==
  /\ thread[t].at = "refused"
  /\ targets' = [targets EXCEPT ![t] = Online]
  /\ thread' = [thread EXCEPT ![t] = At(@, "revoked")]
  /\ evicted' = ~member
  /\ UNCHANGED <<vars, member, room, join, bumps, slipped>>

\* RevokeRoomUser, under its lock.
Revoke(t) ==
  /\ thread[t].at = "refused"
  /\ targets' = [targets EXCEPT ![t] = Online]
  /\ thread' = [x \in Thread |-> IF x = t THEN At(Stale(thread[t]), "revoked") ELSE Stale(thread[x])]
  /\ join' = [k \in Conn |-> Stale(join[k])]
  /\ evicted' = ~member
  /\ UNCHANGED <<vars, member, room, bumps, slipped>>

\* Mutant of Remove: the callbacks are queued and the room keeps the user.
BadRemove(t) ==
  /\ thread[t].at = "revoked"
  /\ \A k \in targets[t] : bumps[k] < MaxBumps
  /\ bumps' = [k \in Conn |-> IF k \in targets[t] \cap Online THEN bumps[k] + 1 ELSE bumps[k]]
  /\ thread' = [thread EXCEPT ![t] = Nothing] /\ targets' = [targets EXCEPT ![t] = {}]
  /\ UNCHANGED <<vars, member, room, join, evicted, slipped>>

\* RevokeRoomUser: RemoveUserFromRoom, and a callback for each connection.
Remove(t) ==
  /\ thread[t].at = "revoked"
  /\ \A k \in targets[t] : bumps[k] < MaxBumps
  /\ room' = {} /\ slipped' = {}
  /\ bumps' = [k \in Conn |-> IF k \in targets[t] \cap Online THEN bumps[k] + 1 ELSE bumps[k]]
  /\ thread' = [thread EXCEPT ![t] = Nothing] /\ targets' = [targets EXCEPT ![t] = {}]
  /\ UNCHANGED <<vars, member, join, evicted>>

\* The callback: room_join_generation moves, and the client hears room_revoked.
Bump(k) ==
  /\ bumps[k] > 0 /\ Idle(k)
  /\ bumps' = [bumps EXCEPT ![k] = @ - 1] /\ join' = [join EXCEPT ![k] = Nothing]
  /\ UNCHANGED <<vars, member, room, thread, targets, evicted, slipped>>

-----------------------------------------------------------------------------

ThreadStep(t) == CheckThread(t) \/ Begin(t) \/ End(t) \/ Revoke(t) \/ Remove(t)
InRoom(k) == CheckJoin(k) \/ Join(k) \/ Leave(k) \/ FinishJoin(k) \/ AddUserToRoom(k) \/ Bump(k)

RoomNext ==
  \/ (Logic \/ \E k \in Conn : Step(k)) /\ UNCHANGED roomVars
  \/ MemberChanges \/ CrashInRoom
  \/ \E k \in Conn : InRoom(k) \/ CloseInRoom(k)
  \/ \E t \in Thread : ThreadStep(t)

\* The watchdog never stops, its calls do not fail for ever, and the loops run their callbacks.
RoomFairness ==
  /\ WF_<<vars, roomVars>>(Begin(Watchdog)) /\ WF_<<vars, roomVars>>(End(Watchdog))
  /\ SF_<<vars, roomVars>>(CheckThread(Watchdog))
  /\ WF_<<vars, roomVars>>(Revoke(Watchdog)) /\ WF_<<vars, roomVars>>(Remove(Watchdog))
  /\ \A k \in Conn : WF_<<vars, roomVars>>(Bump(k)) /\ WF_<<vars, roomVars>>(AddUserToRoom(k))

RoomSpec == RoomInit /\ [][RoomNext]_<<vars, roomVars>>
FairRoomSpec == RoomSpec /\ RoomFairness

-----------------------------------------------------------------------------

RoomTypeOK ==
  /\ RouteTypeOK
  /\ member \in BOOLEAN /\ evicted \in BOOLEAN /\ slipped \subseteq room /\ room \subseteq Online
  /\ join \in [Conn -> Request] /\ thread \in [Thread -> Request]
  /\ targets \in [Thread -> SUBSET Conn] /\ bumps \in [Conn -> 0..MaxBumps]
  /\ \A k \in Conn \ Online : join[k] = Nothing

\* After Comet revoked the access of somebody who is no member any more, none of his
\* connections is in the room, whatever joins were under way, but for one whose callback had
\* compared the generations just before: not until Logic has him as a member again
\* (RevokeRoomUser, RoomAccessGeneration, chatroom_join).
EvictedStaysOut ==
  evicted => room \subseteq slipped \/ \E t \in Thread : thread[t].at = "revoked"

\* Every push that was allowed before and waits in a queue is dropped (PushToUsers).
EvictedGetsNothing ==
  evicted => \A t \in Pusher : thread[t].at = "allowed" => thread[t].stale

\* Who is no member any more is out of the room in the end, and stays out (RevalidateRooms).
RemovedMemberLeaves == <>[]~member => <>[](room = {})

=============================================================================
