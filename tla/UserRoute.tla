------------------------------ MODULE UserRoute ------------------------------
(***************************************************************************)
(* How Logic learns that a user is connected to a Comet.  The handshake of *)
(* each WebSocket registers the route through VerifyToken and gets a       *)
(* generation and a token back; when the user's last connection to that    *)
(* Comet has gone, UserOffline gives them back and Redis drops the route.  *)
(* RPCs run in a thread pool: they fail, miss their deadline while Logic   *)
(* still works on them, and overtake each other.  The Comet may be killed. *)
(*                                                                         *)
(* One user and one Comet: no two users and no two Comets share a key of   *)
(* Redis here, but for the set of a user's routes, of which this Comet is  *)
(* one member.  The token is drawn with the generation, so a number stands *)
(* for both.                                                               *)
(***************************************************************************)
EXTENDS Integers, FiniteSets

CONSTANTS
  Conn,   \* the connections the user will ever make
  MaxGen  \* bound on the registrations

ASSUME RouteAssumption == IsFiniteSet(Conn) /\ MaxGen \in Nat

VARIABLES
  counter,  \* Redis: route:generation
  lease,    \* Redis: route:lease, 0 when there is none
  routed,   \* Redis: the Comet is in route:user
  conn,     \* Comet: the state of each connection
  call,     \* Comet: its VerifyToken call
  gen,      \* the generation in its answer, 0 before that
  late,     \* calls Comet gave up and Logic has not handled yet
  userGen,  \* Comet: user_route_generations_ and user_route_tokens_, 0 when absent
  notices,  \* the generations of the UserOffline calls under way
  lost      \* history: registrations that nobody can take back any more

redisVars == <<counter, lease, routed>>
cometVars == <<conn, userGen>>
callVars  == <<call, gen, late>>
vars == <<redisVars, cometVars, callVars, notices, lost>>

Gens == 1..MaxGen

\* user_conns_
Online == {k \in Conn : conn[k] = "open"}

Larger(a, b) == IF a >= b THEN a ELSE b

Init ==
  /\ counter = 0 /\ lease = 0 /\ routed = FALSE
  /\ conn = [k \in Conn |-> "new"] /\ userGen = 0
  /\ call = [k \in Conn |-> "none"] /\ gen = [k \in Conn |-> 0] /\ late = 0
  /\ notices = {} /\ lost = {}

-----------------------------------------------------------------------------
(* Logic and Redis.                                                         *)

\* AddRouteGeneration: one script.
AddRoute ==
  /\ counter < MaxGen
  /\ counter' = counter + 1 /\ lease' = counter + 1 /\ routed' = TRUE

\* Mutant of RemoveRoute: without the comparison.
BadRemoveRoute(g) ==
  /\ routed' = FALSE /\ lease' = 0
  /\ UNCHANGED counter

\* RemoveRouteGeneration: one script.
RemoveRoute(g) ==
  /\ IF lease = g THEN routed' = FALSE /\ lease' = 0 ELSE UNCHANGED <<routed, lease>>
  /\ UNCHANGED counter

\* VerifyToken of an accepted token.
Verify(k) ==
  /\ call[k] = "asked"
  /\ AddRoute
  /\ call' = [call EXCEPT ![k] = "answered"] /\ gen' = [gen EXCEPT ![k] = counter + 1]
  /\ UNCHANGED <<cometVars, late, notices, lost>>

\* The token is refused, Redis or Logic cannot be reached, or the deadline passes: Comet
\* sees an error, whether or not Logic is done or will do it later.
VerifyFails(k) ==
  /\ call[k] \in {"asked", "answered"}
  /\ call' = [call EXCEPT ![k] = "failed"] /\ gen' = [gen EXCEPT ![k] = 0]
  /\ IF call[k] = "answered"
     THEN lost' = lost \cup {gen[k]} /\ UNCHANGED late
     ELSE late' \in {late, late + 1} /\ UNCHANGED lost
  /\ UNCHANGED <<redisVars, cometVars, notices>>

\* VerifyToken after Comet gave up.
VerifyLate ==
  /\ late > 0 /\ late' = late - 1
  /\ AddRoute
  /\ lost' = lost \cup {counter + 1}
  /\ UNCHANGED <<cometVars, call, gen, notices>>

\* UserOffline
Offline(g) ==
  /\ g \in notices /\ notices' = notices \ {g}
  /\ RemoveRoute(g)
  /\ UNCHANGED <<cometVars, callVars, lost>>

\* The pool is full or the call fails, and nobody repeats it.
OfflineFails(g) ==
  /\ g \in notices /\ notices' = notices \ {g}
  /\ lost' = lost \cup {g}
  /\ UNCHANGED <<redisVars, cometVars, callVars>>

-----------------------------------------------------------------------------
(* Comet.                                                                   *)

\* HandleHandshake, up to Submit
Handshake(k) ==
  /\ conn[k] = "new"
  /\ conn' = [conn EXCEPT ![k] = "auth"] /\ call' = [call EXCEPT ![k] = "asked"]
  /\ UNCHANGED <<redisVars, userGen, gen, late, notices, lost>>

\* HandleHandshake with the answer: the connection opens.
Open(k) ==
  /\ conn[k] = "auth" /\ call[k] = "answered"
  /\ conn' = [conn EXCEPT ![k] = "open"] /\ userGen' = Larger(gen[k], userGen)
  /\ call' = [call EXCEPT ![k] = "none"]
  /\ UNCHANGED <<redisVars, gen, late, notices, lost>>

\* HandleHandshake with an error.
Refuse(k) ==
  /\ call[k] = "failed"
  /\ conn' = [conn EXCEPT ![k] = "closed"] /\ call' = [call EXCEPT ![k] = "none"]
  /\ UNCHANGED <<redisVars, userGen, gen, late, notices, lost>>

\* Mutant of CleanupAuthenticatedRoute: the older credentials stay while others are online.
BadCleanupAuthenticatedRoute(k) ==
  /\ conn[k] = "closed" /\ call[k] = "answered"
  /\ call' = [call EXCEPT ![k] = "none"]
  /\ IF Online # {} THEN UNCHANGED notices ELSE notices' = notices \cup {gen[k]}
  /\ UNCHANGED <<redisVars, cometVars, gen, late, lost>>

\* HandleHandshake with an answer for a connection that has gone.
CleanupAuthenticatedRoute(k) ==
  /\ conn[k] = "closed" /\ call[k] = "answered"
  /\ call' = [call EXCEPT ![k] = "none"]
  /\ IF Online # {}
     THEN userGen' = Larger(gen[k], userGen) /\ UNCHANGED notices
     ELSE notices' = notices \cup {gen[k]} /\ UNCHANGED userGen
  /\ UNCHANGED <<redisVars, conn, gen, late, lost>>

\* OnConnection, disconnected: by the peer, a timer, an error or slowness.
Close(k) ==
  /\ conn[k] \in {"auth", "open"}
  /\ conn' = [conn EXCEPT ![k] = "closed"]
  /\ IF Online = {k}
     THEN notices' = notices \cup {userGen} /\ userGen' = 0
     ELSE UNCHANGED <<notices, userGen>>
  /\ UNCHANGED <<redisVars, callVars, lost>>

\* The process is killed and starts again; calls that were sent may still be handled.
Crash ==
  /\ conn' = [k \in Conn |-> IF conn[k] = "new" THEN "new" ELSE "closed"] /\ userGen' = 0
  /\ call' = [k \in Conn |-> "none"] /\ UNCHANGED gen
  /\ late' \in late..(late + Cardinality({k \in Conn : call[k] = "asked"}))
  /\ notices' \in SUBSET notices
  /\ lost' = lost \cup (notices \ notices') \cup ({userGen} \ {0})
               \cup {gen[k] : k \in {x \in Conn : call[x] = "answered"}}
  /\ UNCHANGED redisVars

-----------------------------------------------------------------------------

\* A step of one connection.
Step(k) ==
  \/ Verify(k) \/ VerifyFails(k) \/ Handshake(k) \/ Open(k) \/ Refuse(k)
  \/ CleanupAuthenticatedRoute(k)

Logic == VerifyLate \/ \E g \in Gens : Offline(g) \/ OfflineFails(g)

Next == Logic \/ Crash \/ \E k \in Conn : Step(k) \/ Close(k)

Spec == Init /\ [][Next]_vars

-----------------------------------------------------------------------------

RouteTypeOK ==
  /\ counter \in 0..MaxGen /\ lease \in 0..counter /\ routed \in BOOLEAN
  /\ conn \in [Conn -> {"new", "auth", "open", "closed"}]
  /\ call \in [Conn -> {"none", "asked", "answered", "failed"}]
  /\ gen \in [Conn -> 0..counter] /\ late \in Nat
  /\ userGen \in 0..counter /\ notices \subseteq 1..counter /\ lost \subseteq 1..counter

\* A delayed offline notice never takes the route from the connection that registered
\* last (RemoveRouteGeneration, OnConnection, CleanupAuthenticatedRoute).
NewestIsRouted == \A k \in Online : gen[k] = counter => routed

\* A route never outlives the connections unnoticed: someone can still take it back, or its
\* credentials were lost with a call or a process (CleanupAuthenticatedRoute).
RouteHasOwner ==
  routed => lease \in lost \cup notices \cup {gen[k] : k \in {x \in Conn : call[x] = "answered"}}
                        \cup ({userGen} \ {0})

=============================================================================
