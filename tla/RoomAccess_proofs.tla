-------------------------- MODULE RoomAccess_proofs --------------------------
(***************************************************************************)
(* Proofs about UserRoute, for any number of connections and registrations,*)
(* and about RoomAccess, for any number of threads that push.  The routes  *)
(* of RoomAccess are those of UserRoute: RoomSpec implements Spec.         *)
(***************************************************************************)
EXTENDS RoomAccess, FiniteSetTheorems, TLAPS

-----------------------------------------------------------------------------
(* The routes.                                                              *)

\* The registrations whose credentials a connection still has or will get.
Holds(k) == conn[k] = "open" \/ call[k] = "answered"

\* A connection asks once, and only while it opens.
AsksOnce ==
  /\ \A k \in Conn : conn[k] \in {"new", "open"} => call[k] = "none"
  /\ \A k \in Conn : Holds(k) => gen[k] > 0
  /\ \A j, k \in Conn : gen[j] = gen[k] /\ gen[j] > 0 => j = k

\* Redis keeps the newest registration or none.
Newest == /\ lease \in {0, counter}
          /\ routed <=> lease > 0

\* Comet's credentials are at least as new as its connections', and not those of an
\* answer it has yet to look at.
Credentials ==
  /\ \A k \in Online : gen[k] <= userGen
  /\ \A k \in Conn : call[k] = "answered" => gen[k] # userGen

\* No offline notice is about a connection that is open or will open.
NoticesAreOld == \A k \in Conn : Holds(k) => gen[k] \notin notices

\* The newest registration is there while its connection may be.
HoldersAreRouted == \A k \in Conn : Holds(k) /\ gen[k] = counter => lease = counter

IInv == /\ RouteTypeOK /\ AsksOnce /\ Newest /\ Credentials /\ NoticesAreOld /\ HoldersAreRouted
        /\ RouteHasOwner

Answered == {gen[k] : k \in {x \in Conn : call[x] = "answered"}}

-----------------------------------------------------------------------------

LEMMA InitIInv == Init => IInv
<1> SUFFICES ASSUME Init PROVE IInv
  OBVIOUS
<1> USE DEF Init
<1>1. RouteTypeOK
  <2>1. counter \in 0..MaxGen /\ lease \in 0..counter /\ userGen \in 0..counter /\ late \in Nat
    BY RouteAssumption
  <2>2. conn \in [Conn -> {"new", "auth", "open", "closed"}]
    OBVIOUS
  <2>3. call \in [Conn -> {"none", "asked", "answered", "failed"}]
    OBVIOUS
  <2>4. gen \in [Conn -> 0..counter]
    BY <2>1
  <2> QED
    BY <2>1, <2>2, <2>3, <2>4 DEF RouteTypeOK
<1>2. \A k \in Conn : ~Holds(k) /\ gen[k] = 0 /\ call[k] = "none"
  BY DEF Holds
<1>3. AsksOnce
  BY <1>2 DEF AsksOnce
<1>4. Newest /\ NoticesAreOld /\ HoldersAreRouted /\ RouteHasOwner
  BY <1>2 DEF Newest, NoticesAreOld, HoldersAreRouted, RouteHasOwner
<1>5. Credentials
  BY <1>2 DEF Credentials, Online
<1> QED
  BY <1>1, <1>3, <1>4, <1>5 DEF IInv

\* VerifyToken
LEMMA VerifyStep == ASSUME NEW k \in Conn PROVE IInv /\ Verify(k) => IInv'
<1> SUFFICES ASSUME IInv, Verify(k) PROVE IInv'
  OBVIOUS
<1> USE DEF Verify, AddRoute, cometVars
<1>1. counter \in Nat /\ counter' = counter + 1 /\ lease' = counter' /\ routed' = TRUE
  BY DEF IInv, RouteTypeOK
<1>2. RouteTypeOK'
  BY <1>1, RouteAssumption DEF IInv, RouteTypeOK
<1>3. /\ gen'[k] = counter + 1 /\ call'[k] = "answered" /\ conn'[k] \notin {"new", "open"}
      /\ \A j \in Conn \ {k} : gen'[j] = gen[j] /\ call'[j] = call[j]
      /\ \A j \in Conn : gen[j] \in 0..counter /\ conn'[j] = conn[j]
  BY DEF IInv, RouteTypeOK, AsksOnce
<1>4. AsksOnce'
  BY <1>1, <1>3 DEF IInv, AsksOnce, Holds
<1>5. Newest'
  BY <1>1 DEF Newest
<1>6. Credentials'
  BY <1>1, <1>3 DEF IInv, RouteTypeOK, Credentials, Online
<1>7. NoticesAreOld'
  BY <1>1, <1>3 DEF IInv, RouteTypeOK, NoticesAreOld, Holds
<1>8. HoldersAreRouted'
  BY <1>1, <1>3 DEF HoldersAreRouted, Holds
<1>9. RouteHasOwner'
  BY <1>1, <1>3 DEF RouteHasOwner
<1> QED
  BY <1>2, <1>4, <1>5, <1>6, <1>7, <1>8, <1>9 DEF IInv

\* VerifyToken fails for Comet.
LEMMA VerifyFailsStep == ASSUME NEW k \in Conn PROVE IInv /\ VerifyFails(k) => IInv'
<1> SUFFICES ASSUME IInv, VerifyFails(k) PROVE IInv'
  OBVIOUS
<1> USE DEF VerifyFails, redisVars, cometVars
<1>1. /\ gen'[k] = 0 /\ call'[k] = "failed" /\ conn'[k] \notin {"new", "open"}
      /\ \A j \in Conn \ {k} : gen'[j] = gen[j] /\ call'[j] = call[j]
      /\ UNCHANGED <<conn, counter, lease, routed, notices, userGen>>
  BY DEF IInv, RouteTypeOK, AsksOnce
<1>2. lost \subseteq lost' /\ lost' \subseteq 1..counter /\ (call[k] = "answered" => gen[k] \in lost')
  <2>1. lost \subseteq 1..counter /\ counter \in Nat
    BY DEF IInv, RouteTypeOK
  <2>2. CASE call[k] = "answered"
    <3>1. gen[k] \in 1..counter
      BY <2>1, <2>2 DEF IInv, RouteTypeOK, AsksOnce, Holds
    <3>2. lost' = lost \cup {gen[k]}
      BY <2>2
    <3> QED
      BY <2>1, <3>1, <3>2
  <2>3. CASE call[k] # "answered"
    BY <2>1, <2>3
  <2> QED
    BY <2>2, <2>3
<1>3. RouteTypeOK'
  <2>1. late' \in Nat
    BY DEF IInv, RouteTypeOK
  <2> QED
    BY <1>1, <1>2, <2>1 DEF IInv, RouteTypeOK
<1>4. AsksOnce'
  BY <1>1 DEF IInv, AsksOnce, Holds
<1>5. Newest' /\ NoticesAreOld' /\ HoldersAreRouted' /\ Credentials'
  BY <1>1 DEF IInv, Newest, NoticesAreOld, HoldersAreRouted, Credentials, Holds, Online
<1>6. RouteHasOwner'
  BY <1>1, <1>2 DEF IInv, RouteHasOwner
<1> QED
  BY <1>3, <1>4, <1>5, <1>6 DEF IInv

\* VerifyToken that Comet does not wait for any more.
LEMMA VerifyLateStep == IInv /\ VerifyLate => IInv'
<1> SUFFICES ASSUME IInv, VerifyLate PROVE IInv'
  OBVIOUS
<1> USE DEF VerifyLate, AddRoute, cometVars
<1>1. /\ counter \in Nat /\ counter' = counter + 1 /\ lease' = counter' /\ routed' = TRUE
      /\ lost' = lost \cup {counter'}
      /\ UNCHANGED <<conn, userGen, call, gen, notices>>
  BY DEF IInv, RouteTypeOK
<1>2. RouteTypeOK'
  BY <1>1, RouteAssumption DEF IInv, RouteTypeOK
<1>3. \A k \in Conn : gen[k] # counter'
  BY <1>1 DEF IInv, RouteTypeOK
<1>4. AsksOnce' /\ Newest' /\ Credentials' /\ NoticesAreOld'
  BY <1>1 DEF IInv, AsksOnce, Newest, Credentials, NoticesAreOld, Holds, Online
<1>5. HoldersAreRouted' /\ RouteHasOwner'
  BY <1>1, <1>3 DEF HoldersAreRouted, RouteHasOwner
<1> QED
  BY <1>2, <1>4, <1>5 DEF IInv

\* UserOffline takes back only what its notice names.
LEMMA OfflineStep == ASSUME NEW g \in Gens PROVE IInv /\ Offline(g) => IInv'
<1> SUFFICES ASSUME IInv, Offline(g) PROVE IInv'
  OBVIOUS
<1> USE DEF Offline, RemoveRoute, cometVars, callVars
<1>1. /\ g \in notices /\ notices' = notices \ {g} /\ counter \in Nat
      /\ UNCHANGED <<conn, userGen, call, gen, late, lost, counter>>
  BY DEF IInv, RouteTypeOK
<1>2. CASE lease = g
  <2>1. routed' = FALSE /\ lease' = 0
    BY <1>2
  <2>2. \A k \in Conn : Holds(k) => gen[k] # g
    BY <1>1 DEF IInv, NoticesAreOld
  <2>3. lease = counter
    BY <1>1, <1>2 DEF IInv, Newest, RouteTypeOK
  <2>4. RouteTypeOK'
    <3>1. counter \in 0..MaxGen /\ 0 \in 0..counter
      BY <1>1 DEF IInv, RouteTypeOK
    <3>2. notices' \subseteq 1..counter
      BY <1>1 DEF IInv, RouteTypeOK
    <3> HIDE DEF Offline, RemoveRoute
    <3> QED
      BY <1>1, <2>1, <3>1, <3>2 DEF IInv, RouteTypeOK
  <2>5. AsksOnce' /\ Credentials'
    BY <1>1 DEF IInv, AsksOnce, Credentials, Holds, Online
  <2>6. NoticesAreOld'
    BY <1>1 DEF IInv, NoticesAreOld, Holds
  <2>7. HoldersAreRouted' /\ Newest' /\ RouteHasOwner'
    BY <1>1, <1>2, <2>1, <2>2, <2>3 DEF HoldersAreRouted, Newest, RouteHasOwner, Holds
  <2> QED
    BY <2>4, <2>5, <2>6, <2>7 DEF IInv
<1>3. CASE lease # g
  <2>1. UNCHANGED <<routed, lease>>
    BY <1>3
  <2>2. RouteTypeOK' /\ AsksOnce' /\ Credentials' /\ NoticesAreOld' /\ HoldersAreRouted' /\ Newest'
    BY <1>1, <2>1 DEF IInv, RouteTypeOK, AsksOnce, Credentials, NoticesAreOld, Holds, Online,
                      HoldersAreRouted, Newest
  <2>3. RouteHasOwner'
    BY <1>1, <1>3, <2>1 DEF IInv, RouteHasOwner
  <2> QED
    BY <2>2, <2>3 DEF IInv
<1> QED
  BY <1>2, <1>3

\* A notice that nobody heard.
LEMMA OfflineFailsStep == ASSUME NEW g \in Gens PROVE IInv /\ OfflineFails(g) => IInv'
<1> SUFFICES ASSUME IInv, OfflineFails(g) PROVE IInv'
  OBVIOUS
<1> USE DEF OfflineFails, redisVars, cometVars, callVars
<1>1. RouteTypeOK'
  BY DEF IInv, RouteTypeOK
<1>2. AsksOnce' /\ Credentials' /\ NoticesAreOld' /\ HoldersAreRouted' /\ Newest'
  BY DEF IInv, AsksOnce, Credentials, NoticesAreOld, Holds, Online, HoldersAreRouted, Newest
<1>3. RouteHasOwner'
  BY DEF IInv, RouteHasOwner
<1> QED
  BY <1>1, <1>2, <1>3 DEF IInv

-----------------------------------------------------------------------------
(* Comet.                                                                   *)

LEMMA HandshakeStep == ASSUME NEW k \in Conn PROVE IInv /\ (Handshake(k) \/ Refuse(k)) => IInv'
<1> SUFFICES ASSUME IInv, Handshake(k) \/ Refuse(k) PROVE IInv'
  OBVIOUS
<1>1. /\ UNCHANGED <<counter, lease, routed, userGen, gen, late, notices, lost>>
      /\ \/ conn[k] = "new" /\ conn' = [conn EXCEPT ![k] = "auth"] /\ call' = [call EXCEPT ![k] = "asked"]
         \/ call[k] = "failed" /\ conn' = [conn EXCEPT ![k] = "closed"] /\ call' = [call EXCEPT ![k] = "none"]
  BY DEF Handshake, Refuse, redisVars
<1>2. /\ conn[k] # "open" /\ call[k] # "answered"
      /\ conn'[k] \notin {"open", "new"} /\ call'[k] # "answered"
      /\ \A j \in Conn \ {k} : conn'[j] = conn[j] /\ call'[j] = call[j]
  BY <1>1 DEF IInv, RouteTypeOK, AsksOnce
<1>3. RouteTypeOK'
  BY <1>1 DEF IInv, RouteTypeOK
<1>4. (\A j \in Conn : Holds(j) <=> Holds(j)') /\ Online' = Online /\ Answered' = Answered
  BY <1>1, <1>2 DEF Holds, Online, Answered
<1>5. AsksOnce'
  BY <1>1, <1>2, <1>4 DEF IInv, AsksOnce
<1>6. Credentials' /\ NoticesAreOld' /\ HoldersAreRouted' /\ Newest'
  BY <1>1, <1>2, <1>4 DEF IInv, Credentials, NoticesAreOld, HoldersAreRouted, Newest
<1>7. RouteHasOwner'
  BY <1>1, <1>4 DEF IInv, RouteHasOwner, Answered
<1> QED
  BY <1>3, <1>5, <1>6, <1>7 DEF IInv

\* An answer that is looked at: its credentials are taken over if they are newer.
LEMMA TakenOver ==
  ASSUME NEW k \in Conn, IInv, call[k] = "answered", userGen' = Larger(gen[k], userGen),
         call' = [call EXCEPT ![k] = "none"], UNCHANGED <<counter, lease, routed, gen, notices, lost>>
  PROVE  /\ RouteHasOwner' /\ userGen' \in 1..counter
         /\ userGen' >= userGen /\ userGen' >= gen[k]
         /\ \A j \in Conn : call'[j] = "answered" => gen[j] # userGen'
<1>1. userGen \in 0..counter /\ gen[k] \in 1..counter /\ counter \in Nat
  BY DEF IInv, RouteTypeOK, AsksOnce, Holds
<1>2. userGen' \in 1..counter /\ userGen' >= userGen /\ userGen' >= gen[k] /\ userGen' \in {userGen, gen[k]}
  BY <1>1 DEF Larger
<1>3. \A j \in Conn : call'[j] = "answered" => j # k /\ call[j] = "answered"
  BY DEF IInv, RouteTypeOK
<1>4. \A j \in Conn : call'[j] = "answered" => gen[j] # userGen'
  <2> SUFFICES ASSUME NEW j \in Conn, call'[j] = "answered", gen[j] = userGen'
               PROVE  FALSE
    OBVIOUS
  <2>1. j # k /\ call[j] = "answered"
    BY <1>3
  <2>2. gen[j] # userGen
    BY <2>1 DEF IInv, Credentials
  <2>3. gen[j] = gen[k]
    BY <1>2, <2>2
  <2> QED
    BY <1>1, <2>1, <2>3 DEF IInv, AsksOnce
<1>5. RouteHasOwner'
  <2> SUFFICES ASSUME routed
               PROVE  lease \in lost \cup notices \cup Answered' \cup ({userGen'} \ {0})
    BY DEF RouteHasOwner, Answered
  <2>1. lease = counter /\ lease > 0
    BY <1>1 DEF IInv, Newest
  <2>2. lease \in lost \cup notices \cup Answered \cup ({userGen} \ {0})
    BY DEF IInv, RouteHasOwner, Answered
  <2>3. CASE lease \in lost \cup notices
    BY <2>3
  <2>4. CASE lease = userGen
    BY <1>1, <1>2, <2>1, <2>4
  <2>5. CASE lease \in Answered
    <3>1. PICK j \in Conn : call[j] = "answered" /\ lease = gen[j]
      BY <2>5 DEF Answered
    <3>2. CASE j = k
      BY <1>1, <1>2, <2>1, <3>1, <3>2
    <3>3. CASE j # k
      <4>1. call'[j] = "answered" /\ gen'[j] = lease
        BY <3>1, <3>3 DEF IInv, RouteTypeOK
      <4> QED
        BY <4>1 DEF Answered
    <3> QED
      BY <3>2, <3>3
  <2> QED
    BY <2>2, <2>3, <2>4, <2>5
<1> QED
  BY <1>2, <1>4, <1>5

\* HandleHandshake: the connection opens.
LEMMA OpenStep == ASSUME NEW k \in Conn PROVE IInv /\ Open(k) => IInv'
<1> SUFFICES ASSUME IInv, Open(k) PROVE IInv'
  OBVIOUS
<1> USE DEF Open, redisVars
<1>1. UNCHANGED <<counter, lease, routed, gen, late, notices, lost>>
  OBVIOUS
<1>2. /\ RouteHasOwner' /\ userGen' \in 1..counter
      /\ userGen' >= userGen /\ userGen' >= gen[k]
      /\ \A j \in Conn : call'[j] = "answered" => gen[j] # userGen'
  BY <1>1, TakenOver
<1>3. /\ conn[k] = "auth" /\ call[k] = "answered" /\ conn'[k] = "open" /\ call'[k] = "none"
      /\ \A j \in Conn \ {k} : conn'[j] = conn[j] /\ call'[j] = call[j]
  BY DEF IInv, RouteTypeOK
<1>4. RouteTypeOK'
  BY <1>1, <1>2 DEF IInv, RouteTypeOK
<1>5. \A j \in Conn : Holds(j)' <=> Holds(j)
  BY <1>3 DEF Holds
<1>6. AsksOnce'
  BY <1>1, <1>3, <1>5 DEF IInv, AsksOnce
<1>7. Credentials'
  <2>1. ASSUME NEW j \in Conn, conn'[j] = "open" PROVE gen[j] <= userGen'
    BY <1>2, <1>3, <2>1 DEF IInv, RouteTypeOK, Credentials, Online
  <2> QED
    BY <1>1, <1>2, <2>1 DEF Credentials, Online
<1>8. NoticesAreOld' /\ HoldersAreRouted' /\ Newest'
  BY <1>1, <1>5 DEF IInv, NoticesAreOld, HoldersAreRouted, Newest
<1> QED
  BY <1>2, <1>4, <1>6, <1>7, <1>8 DEF IInv

\* CleanupAuthenticatedRoute
LEMMA CleanupStep == ASSUME NEW k \in Conn PROVE IInv /\ CleanupAuthenticatedRoute(k) => IInv'
<1> SUFFICES ASSUME IInv, CleanupAuthenticatedRoute(k) PROVE IInv'
  OBVIOUS
<1> USE DEF CleanupAuthenticatedRoute, redisVars
<1>1. /\ UNCHANGED <<counter, lease, routed, conn, gen, late, lost>>
      /\ call' = [call EXCEPT ![k] = "none"]
  OBVIOUS
<1>2. /\ conn[k] = "closed" /\ call[k] = "answered" /\ call'[k] = "none"
      /\ \A j \in Conn \ {k} : call'[j] = call[j]
      /\ gen[k] \in 1..counter
  BY DEF IInv, RouteTypeOK, AsksOnce, Holds
<1>3. \A j \in Conn : Holds(j)' => Holds(j) /\ j # k
  BY <1>1, <1>2 DEF Holds
<1>4. AsksOnce' /\ HoldersAreRouted' /\ Newest'
  BY <1>1, <1>2, <1>3 DEF IInv, AsksOnce, HoldersAreRouted, Newest
<1>5. CASE Online # {}
  <2>1. userGen' = Larger(gen[k], userGen) /\ notices' = notices
    BY <1>5
  <2>2. /\ RouteHasOwner' /\ userGen' \in 1..counter
        /\ userGen' >= userGen /\ userGen' >= gen[k]
        /\ \A j \in Conn : call'[j] = "answered" => gen[j] # userGen'
    BY <1>1, <1>2, <2>1, TakenOver
  <2>3. RouteTypeOK'
    BY <1>1, <2>1, <2>2 DEF IInv, RouteTypeOK
  <2>4. Credentials'
    <3>1. ASSUME NEW j \in Online PROVE gen[j] <= userGen'
      BY <2>2 DEF IInv, RouteTypeOK, Credentials, Online
    <3> QED
      BY <1>1, <2>2, <3>1 DEF Credentials, Online
  <2>5. NoticesAreOld'
    BY <1>1, <1>3, <2>1 DEF IInv, NoticesAreOld
  <2> QED
    BY <1>4, <2>2, <2>3, <2>4, <2>5 DEF IInv
<1>6. CASE Online = {}
  <2>1. userGen' = userGen /\ notices' = notices \cup {gen[k]}
    BY <1>6
  <2>2. RouteTypeOK'
    BY <1>1, <1>2, <2>1 DEF IInv, RouteTypeOK
  <2>3. Credentials'
    BY <1>1, <1>2, <2>1 DEF IInv, Credentials, Online
  <2>4. NoticesAreOld'
    BY <1>1, <1>2, <1>3, <2>1 DEF IInv, NoticesAreOld, AsksOnce
  <2>5. RouteHasOwner'
    <3> SUFFICES ASSUME routed
                 PROVE  lease \in lost \cup notices' \cup Answered' \cup ({userGen} \ {0})
      BY <1>1, <2>1 DEF RouteHasOwner, Answered
    <3>1. lease \in lost \cup notices \cup Answered \cup ({userGen} \ {0})
      BY DEF IInv, RouteHasOwner, Answered
    <3>2. CASE lease \in Answered
      <4>1. PICK j \in Conn : call[j] = "answered" /\ lease = gen[j]
        BY <3>2 DEF Answered
      <4>2. CASE j = k
        BY <2>1, <4>1, <4>2
      <4>3. CASE j # k
        <5>1. call'[j] = "answered" /\ gen'[j] = lease
          BY <1>1, <1>2, <4>1, <4>3
        <5> QED
          BY <5>1 DEF Answered
      <4> QED
        BY <4>2, <4>3
    <3> QED
      BY <2>1, <3>1, <3>2
  <2> QED
    BY <1>4, <2>2, <2>3, <2>4, <2>5 DEF IInv
<1> QED
  BY <1>5, <1>6

\* OnConnection: the last connection gives the route back.
LEMMA CloseStep == ASSUME NEW k \in Conn PROVE IInv /\ Close(k) => IInv'
<1> SUFFICES ASSUME IInv, Close(k) PROVE IInv'
  OBVIOUS
<1> USE DEF Close, redisVars, callVars
<1>1. /\ UNCHANGED <<counter, lease, routed, call, gen, late, lost>>
      /\ conn'[k] = "closed" /\ \A j \in Conn \ {k} : conn'[j] = conn[j]
      /\ conn' \in [Conn -> {"new", "auth", "open", "closed"}]
  BY DEF IInv, RouteTypeOK
<1>2. \A j \in Conn : Holds(j)' => Holds(j)
  BY <1>1 DEF Holds
<1>3. Online' \subseteq Online /\ k \notin Online' /\ Answered' = Answered
  BY <1>1 DEF Online, Answered
<1>4. AsksOnce' /\ HoldersAreRouted' /\ Newest'
  BY <1>1, <1>2 DEF IInv, AsksOnce, HoldersAreRouted, Newest
<1>5. CASE Online = {k}
  <2>1. notices' = notices \cup {userGen} /\ userGen' = 0 /\ Online' = {}
    BY <1>3, <1>5
  <2>2. userGen \in 1..counter
    <3>1. gen[k] > 0 /\ gen[k] <= userGen
      BY <1>5 DEF IInv, AsksOnce, Holds, Credentials, Online
    <3> QED
      BY <3>1 DEF IInv, RouteTypeOK
  <2>3. RouteTypeOK'
    BY <1>1, <2>1, <2>2 DEF IInv, RouteTypeOK
  <2>4. Credentials'
    BY <1>1, <2>1 DEF IInv, Credentials, AsksOnce, Holds
  <2>5. NoticesAreOld'
    <3> SUFFICES ASSUME NEW j \in Conn, Holds(j)' PROVE gen[j] \notin notices'
      BY <1>1 DEF NoticesAreOld
    <3>1. call[j] = "answered"
      BY <1>1, <2>1 DEF Holds, Online
    <3> QED
      BY <2>1, <3>1 DEF IInv, NoticesAreOld, Credentials, Holds
  <2>6. RouteHasOwner'
    BY <1>1, <1>3, <2>1 DEF IInv, RouteHasOwner, Answered
  <2> QED
    BY <1>4, <2>3, <2>4, <2>5, <2>6 DEF IInv
<1>6. CASE Online # {k}
  <2>1. UNCHANGED <<notices, userGen>>
    BY <1>6
  <2>2. RouteTypeOK'
    BY <1>1, <2>1 DEF IInv, RouteTypeOK
  <2>3. Credentials' /\ NoticesAreOld'
    BY <1>1, <1>2, <1>3, <2>1 DEF IInv, Credentials, NoticesAreOld
  <2>4. RouteHasOwner'
    BY <1>1, <1>3, <2>1 DEF IInv, RouteHasOwner, Answered
  <2> QED
    BY <1>4, <2>2, <2>3, <2>4 DEF IInv
<1> QED
  BY <1>5, <1>6

\* The process is killed.
LEMMA CrashStep == IInv /\ Crash => IInv'
<1> SUFFICES ASSUME IInv, Crash PROVE IInv'
  OBVIOUS
<1> USE DEF Crash, redisVars
<1>1. /\ UNCHANGED <<counter, lease, routed, gen>> /\ userGen' = 0
      /\ \A k \in Conn : conn'[k] \in {"new", "closed"} /\ call'[k] = "none"
      /\ conn' \in [Conn -> {"new", "auth", "open", "closed"}]
      /\ call' \in [Conn -> {"none", "asked", "answered", "failed"}]
  BY DEF IInv, RouteTypeOK
<1>2. late' \in Nat
  <2> DEFINE S == {k \in Conn : call[k] = "asked"}
  <2>1. Cardinality(S) \in Nat
    BY RouteAssumption, FS_Subset, FS_CardinalityType
  <2> HIDE DEF S
  <2>2. late' \in late..(late + Cardinality(S)) /\ late \in Nat
    BY DEF S, IInv, RouteTypeOK
  <2> QED
    BY <2>1, <2>2
<1>3. /\ notices' \subseteq notices
      /\ lost' = lost \cup (notices \ notices') \cup ({userGen} \ {0}) \cup Answered
  BY DEF Answered
<1>4. Answered \subseteq 1..counter
  BY DEF Answered, IInv, RouteTypeOK, AsksOnce, Holds
<1>5. RouteTypeOK'
  <2>1. notices' \subseteq 1..counter /\ lost' \subseteq 1..counter
    <3>1. notices \subseteq 1..counter /\ lost \subseteq 1..counter /\ {userGen} \ {0} \subseteq 1..counter
      BY DEF IInv, RouteTypeOK
    <3> QED
      BY <1>3, <1>4, <3>1
  <2>2. /\ counter \in 0..MaxGen /\ lease \in 0..counter /\ routed \in BOOLEAN
        /\ gen \in [Conn -> 0..counter]
    BY DEF IInv, RouteTypeOK
  <2>3. userGen' \in 0..counter
    BY <1>1, <2>2
  <2> HIDE DEF Crash
  <2> QED
    BY <1>1, <1>2, <2>1, <2>2, <2>3 DEF RouteTypeOK
<1>6. \A k \in Conn : ~Holds(k)'
  BY <1>1 DEF Holds
<1>7. AsksOnce' /\ Credentials' /\ NoticesAreOld' /\ HoldersAreRouted' /\ Newest'
  BY <1>1, <1>6 DEF IInv, AsksOnce, Credentials, NoticesAreOld, HoldersAreRouted, Newest, Online
<1>8. RouteHasOwner'
  BY <1>1, <1>3 DEF IInv, RouteHasOwner, Answered
<1> QED
  BY <1>5, <1>7, <1>8 DEF IInv

-----------------------------------------------------------------------------

LEMMA NextIInv == IInv /\ [Next]_vars => IInv'
<1> SUFFICES ASSUME IInv, [Next]_vars PROVE IInv'
  OBVIOUS
<1>1. CASE Logic
  BY <1>1, VerifyLateStep, OfflineStep, OfflineFailsStep DEF Logic
<1>2. CASE Crash
  BY <1>2, CrashStep
<1>3. ASSUME NEW k \in Conn, Step(k) \/ Close(k) PROVE IInv'
  BY <1>3, VerifyStep, VerifyFailsStep, HandshakeStep, OpenStep, CleanupStep, CloseStep DEF Step
<1>4. CASE UNCHANGED vars
  BY <1>4 DEF vars, redisVars, cometVars, callVars, IInv, RouteTypeOK, AsksOnce, Newest, Credentials,
              NoticesAreOld, HoldersAreRouted, RouteHasOwner, Holds, Online
<1> QED
  BY <1>1, <1>2, <1>3, <1>4 DEF Next

LEMMA Invariance == Spec => []IInv
BY InitIInv, NextIInv, PTL DEF Spec

\* The fields of Redis, of the calls and of Comet have their types.
THEOREM RouteTypes == Spec => []RouteTypeOK
BY Invariance, PTL DEF IInv

\* However late an offline notice is, the connection that registered last stays routed.
THEOREM NewestStaysRouted == Spec => []NewestIsRouted
<1>1. IInv => NewestIsRouted
  <2> SUFFICES ASSUME IInv, NEW k \in Online, gen[k] = counter PROVE routed
    BY DEF NewestIsRouted
  <2>1. gen[k] > 0 /\ lease = counter
    BY DEF IInv, AsksOnce, HoldersAreRouted, Holds, Online
  <2> QED
    BY <2>1 DEF IInv, Newest
<1> QED
  BY <1>1, Invariance, PTL

\* Every route can be taken back by somebody, or its credentials got lost with a call.
THEOREM RoutesHaveOwners == Spec => []RouteHasOwner
<1>1. IInv => RouteHasOwner
  BY DEF IInv
<1> QED
  BY <1>1, Invariance, PTL

-----------------------------------------------------------------------------
(* Rooms and evictions.                                                     *)


\* What RoomTypeOK says beside the types of the routes.
RoomTypes ==
  /\ member \in BOOLEAN /\ evicted \in BOOLEAN
  /\ slipped \subseteq room /\ room \subseteq Online
  /\ join \in [Conn -> Request] /\ thread \in [Thread -> Request]
  /\ targets \in [Thread -> SUBSET Conn] /\ bumps \in [Conn -> 0..MaxBumps]
  /\ \A k \in Conn \ Online : join[k] = Nothing

\* An evicted user has no membership, and nothing on its way was allowed since.
Evicted ==
  evicted =>
    /\ ~member
    /\ room \subseteq slipped \/ \E t \in Thread : thread[t].at = "revoked"
    /\ \A k \in Conn : join[k].at \in {"allowed", "entering"} => join[k].stale
    /\ \A t \in Thread : thread[t].at = "allowed" => thread[t].stale

RInv == IInv /\ RoomTypes /\ Evicted

-----------------------------------------------------------------------------
(* Requests.                                                                *)

LEMMA Constants ==
  /\ Nothing \in Request /\ Nothing.at = "none" /\ Nothing.stale = FALSE
  /\ Asked \in Request /\ Asked.at = "asked" /\ Asked.stale = FALSE
  /\ Entering \in Request /\ Entering.at = "entering" /\ Entering.stale = FALSE
BY DEF Nothing, Asked, Entering, Request

LEMMA AtPlace ==
  ASSUME NEW r \in Request, NEW place \in {"none", "asked", "allowed", "refused", "entering", "revoked"}
  PROVE  At(r, place) \in Request /\ At(r, place).at = place /\ At(r, place).stale = r.stale
BY DEF At, Request

LEMMA StaleOnes ==
  ASSUME NEW r \in Request
  PROVE  /\ Stale(r) \in Request /\ Stale(r).at = r.at
         /\ r.at # "none" => Stale(r).stale
         /\ r = Nothing => Stale(r) = Nothing
<1>1. Stale(r) \in Request /\ Stale(r).at = r.at
  BY DEF Stale, Request
<1>2. Stale(r).stale <=> r.at # "none"
  BY DEF Stale
<1>3. ASSUME r = Nothing PROVE Stale(r) = Nothing
  <2>1. Nothing.at = "none" /\ ("none" # "none") = FALSE
    BY DEF Nothing
  <2> QED
    BY <1>3, <2>1 DEF Stale, Nothing
<1> QED
  BY <1>1, <1>2, <1>3

-----------------------------------------------------------------------------
(* The steps of the routes.                                                 *)

\* A step of Logic or of a handshake closes no open connection.
LEMMA OnlineGrows ==
  ASSUME IInv, Logic \/ \E k \in Conn : Step(k)
  PROVE  Online \subseteq Online'
<1>1. CASE Logic
  BY <1>1 DEF Logic, VerifyLate, Offline, OfflineFails, cometVars, Online
<1>2. ASSUME NEW k \in Conn, Step(k) PROVE Online \subseteq Online'
  <2>1. CASE Verify(k) \/ VerifyFails(k) \/ CleanupAuthenticatedRoute(k)
    BY <2>1 DEF Verify, VerifyFails, CleanupAuthenticatedRoute, cometVars, Online
  <2>2. CASE Handshake(k) \/ Open(k) \/ Refuse(k)
    <3>1. conn[k] # "open" \/ conn'[k] = "open"
      BY <2>2 DEF Handshake, Open, Refuse, IInv, RouteTypeOK, AsksOnce
    <3>2. \A j \in Conn \ {k} : conn'[j] = conn[j]
      BY <2>2 DEF Handshake, Open, Refuse, IInv, RouteTypeOK
    <3> QED
      BY <3>1, <3>2 DEF Online
  <2> QED
    BY <1>2, <2>1, <2>2 DEF Step
<1> QED
  BY <1>1, <1>2

\* The routes do what UserRoute says.
LEMMA RoutesMove == RoomNext => [Next]_vars
<1> SUFFICES ASSUME RoomNext PROVE [Next]_vars
  OBVIOUS
<1>1. CASE Logic \/ \E k \in Conn : Step(k)
  BY <1>1 DEF Next
<1>2. CASE MemberChanges
  BY <1>2 DEF MemberChanges
<1>3. CASE CrashInRoom
  BY <1>3 DEF CrashInRoom, Next
<1>4. ASSUME NEW k \in Conn, InRoom(k) PROVE UNCHANGED vars
  BY <1>4 DEF InRoom, CheckJoin, Join, Leave, FinishJoin, AddUserToRoom, Bump
<1>5. ASSUME NEW k \in Conn, CloseInRoom(k) PROVE Next
  BY <1>5 DEF CloseInRoom, Next
<1>6. ASSUME NEW t \in Thread, ThreadStep(t) PROVE UNCHANGED vars
  BY <1>6 DEF ThreadStep, CheckThread, Begin, End, Revoke, Remove
<1> QED
  BY <1>1, <1>2, <1>3, <1>4, <1>5, <1>6 DEF RoomNext

LEMMA InitRInv == RoomInit => RInv
<1> SUFFICES ASSUME RoomInit PROVE RInv
  OBVIOUS
<1>1. IInv
  BY InitIInv DEF RoomInit
<1>2. RoomTypes
  <2>1. join \in [Conn -> Request] /\ thread \in [Thread -> Request]
    BY Constants DEF RoomInit
  <2>2. targets \in [Thread -> SUBSET Conn] /\ bumps \in [Conn -> 0..MaxBumps]
    BY RoomAssumption DEF RoomInit
  <2>3. \A k \in Conn : join[k] = Nothing
    BY DEF RoomInit
  <2> QED
    BY <2>1, <2>2, <2>3 DEF RoomInit, RoomTypes
<1>3. Evicted
  BY DEF RoomInit, Evicted
<1> QED
  BY <1>1, <1>2, <1>3 DEF RInv

-----------------------------------------------------------------------------
(* The steps of a connection in the room.                                   *)

\* Nothing but the requests and the membership decides who is evicted.
LEMMA JoinMoves ==
  ASSUME NEW k \in Conn, NEW r \in Request, RInv,
         join' = [join EXCEPT ![k] = r], r = Nothing \/ k \in Online,
         evicted /\ r.at \in {"allowed", "entering"} => r.stale,
         UNCHANGED <<vars, member, thread, targets, evicted>>,
         bumps' \in [Conn -> 0..MaxBumps],
         slipped' \subseteq room', room' \subseteq Online,
         evicted /\ room \subseteq slipped => room' \subseteq slipped'
  PROVE  RoomTypes' /\ Evicted'
<1>1. Online' = Online
  BY DEF vars, cometVars, Online
<1>2. join' \in [Conn -> Request] /\ \A j \in Conn : join'[j] = IF j = k THEN r ELSE join[j]
  BY DEF RInv, RoomTypes
<1>3. RoomTypes'
  BY <1>1, <1>2 DEF RInv, RoomTypes
<1>4. Evicted'
  BY <1>2 DEF RInv, Evicted
<1> QED
  BY <1>3, <1>4

LEMMA InRoomStep == ASSUME NEW k \in Conn, RInv, InRoom(k) PROVE RoomTypes' /\ Evicted'
<1>0. /\ join[k] \in Request /\ bumps \in [Conn -> 0..MaxBumps] /\ bumps[k] \in 0..MaxBumps
      /\ slipped \subseteq room /\ room \subseteq Online
      /\ join[k].at # "none" => k \in Online
  BY Constants DEF RInv, RoomTypes
<1>1. CASE CheckJoin(k)
  <2>1. PICK answer \in {"allowed", "refused"} :
          (answer = "allowed" => member) /\ join' = [join EXCEPT ![k] = At(join[k], answer)]
    BY <1>1 DEF CheckJoin
  <2>2. At(join[k], answer) \in Request /\ At(join[k], answer).at = answer
    BY <1>0, AtPlace
  <2>3. evicted => answer = "refused"
    BY <2>1 DEF RInv, Evicted
  <2> QED
    BY <1>0, <1>1, <2>1, <2>2, <2>3, JoinMoves DEF CheckJoin
<1>2. CASE Join(k)
  BY <1>0, <1>2, Constants, JoinMoves DEF Join
<1>3. CASE Leave(k)
  <2>1. slipped' \subseteq room' /\ room' \subseteq Online /\ (room \subseteq slipped => room' \subseteq slipped')
    BY <1>0, <1>3 DEF Leave
  <2> QED
    BY <1>0, <1>3, <2>1, Constants, JoinMoves DEF Leave
<1>4. CASE FinishJoin(k)
  <2>1. CASE MayEnter(k)
    <3>1. ~evicted /\ k \in Online
      BY <1>0, <2>1 DEF MayEnter, RInv, Evicted
    <3> QED
      BY <1>0, <1>4, <2>1, <3>1, Constants, JoinMoves DEF FinishJoin
  <2>2. CASE ~MayEnter(k)
    BY <1>0, <1>4, <2>2, Constants, JoinMoves DEF FinishJoin
  <2> QED
    BY <2>1, <2>2
<1>5. CASE AddUserToRoom(k)
  <2>1. k \in Online /\ (evicted => join[k].stale)
    BY <1>0, <1>5 DEF AddUserToRoom, RInv, Evicted
  <2>2. slipped' \subseteq room' /\ room' \subseteq Online
        /\ (evicted /\ room \subseteq slipped => room' \subseteq slipped')
    BY <1>0, <1>5, <2>1 DEF AddUserToRoom
  <2> QED
    BY <1>0, <1>5, <2>2, Constants, JoinMoves DEF AddUserToRoom
<1>6. CASE Bump(k)
  <2>1. bumps' \in [Conn -> 0..MaxBumps]
    BY <1>0, <1>6, RoomAssumption DEF Bump
  <2> QED
    BY <1>0, <1>6, <2>1, Constants, JoinMoves DEF Bump
<1> QED
  BY <1>1, <1>2, <1>3, <1>4, <1>5, <1>6 DEF InRoom

\* OnConnection
LEMMA CloseInRoomStep == ASSUME NEW k \in Conn, RInv, CloseInRoom(k) PROVE RoomTypes' /\ Evicted'
<1>1. Online' = Online \ {k}
  BY DEF CloseInRoom, Close, Online, RInv, IInv, RouteTypeOK
<1>2. join' \in [Conn -> Request] /\ \A j \in Conn : join'[j] = IF j = k THEN Nothing ELSE join[j]
  BY Constants DEF CloseInRoom, RInv, RoomTypes
<1>3. bumps' \in [Conn -> 0..MaxBumps]
  BY RoomAssumption DEF CloseInRoom, RInv, RoomTypes
<1>4. /\ room' = room \ {k} /\ slipped' = slipped \ {k}
      /\ UNCHANGED <<member, thread, targets, evicted>>
  BY DEF CloseInRoom
<1>5. RoomTypes'
  BY <1>1, <1>2, <1>3, <1>4 DEF RInv, RoomTypes
<1>6. Evicted'
  BY <1>2, <1>4, Constants DEF RInv, Evicted
<1> QED
  BY <1>5, <1>6

LEMMA CrashInRoomStep == ASSUME RInv, CrashInRoom PROVE RoomTypes' /\ Evicted'
<1> USE DEF CrashInRoom
<1>1. RoomTypes'
  BY Constants, RoomAssumption DEF RInv, RoomTypes
<1>2. Evicted'
  BY Constants DEF RInv, Evicted
<1> QED
  BY <1>1, <1>2

-----------------------------------------------------------------------------
(* The steps of the threads.                                                *)

\* A thread that comes to a place where it has revoked nothing yet.
LEMMA ThreadMoves ==
  ASSUME NEW t \in Thread, NEW r \in Request, RInv, thread[t].at # "revoked",
         thread' = [thread EXCEPT ![t] = r], evicted /\ r.at = "allowed" => r.stale,
         UNCHANGED <<vars, member, room, join, targets, bumps, evicted, slipped>>
  PROVE  RoomTypes' /\ Evicted'
<1>1. Online' = Online
  BY DEF vars, cometVars, Online
<1>2. thread' \in [Thread -> Request] /\ \A x \in Thread : thread'[x] = IF x = t THEN r ELSE thread[x]
  BY DEF RInv, RoomTypes
<1>3. RoomTypes'
  BY <1>1, <1>2 DEF RInv, RoomTypes
<1>4. Evicted'
  BY <1>2 DEF RInv, Evicted
<1> QED
  BY <1>3, <1>4

\* RevokeRoomUser, its first half.
LEMMA RevokeStep == ASSUME NEW t \in Thread, RInv, Revoke(t) PROVE RoomTypes' /\ Evicted'
<1> USE DEF Revoke
<1>1. Online' = Online
  BY DEF vars, cometVars, Online
<1>2. \A x \in Thread : thread[x] \in Request
  BY DEF RInv, RoomTypes
<1>3. \A x \in Thread : thread'[x] = IF x = t THEN At(Stale(thread[t]), "revoked") ELSE Stale(thread[x])
  OBVIOUS
<1>4. /\ \A x \in Thread : thread'[x] \in Request /\ (thread'[x].at = "allowed" => thread'[x].stale)
      /\ thread'[t].at = "revoked"
  <2>1. thread'[t] \in Request /\ thread'[t].at = "revoked"
    BY <1>2, <1>3, StaleOnes, AtPlace
  <2>2. ASSUME NEW x \in Thread, x # t
        PROVE  thread'[x] \in Request /\ (thread'[x].at = "allowed" => thread'[x].stale)
    BY <1>2, <1>3, <2>2, StaleOnes
  <2> QED
    BY <2>1, <2>2
<1>5. thread' \in [Thread -> Request]
  BY <1>4
<1>6. \A k \in Conn : join[k] \in Request /\ join'[k] = Stale(join[k])
  BY DEF RInv, RoomTypes
<1>7. \A k \in Conn : /\ join'[k] \in Request /\ join'[k].at = join[k].at
                      /\ join'[k].at # "none" => join'[k].stale
                      /\ join[k] = Nothing => join'[k] = Nothing
  BY <1>6, StaleOnes
<1>8. join' \in [Conn -> Request]
  BY <1>7
<1>9. targets' \in [Thread -> SUBSET Conn]
  BY DEF RInv, RoomTypes, Online
<1>10. UNCHANGED <<member, room, bumps, slipped>> /\ evicted' = ~member
  OBVIOUS
<1> HIDE DEF Revoke
<1>11. RoomTypes'
  BY <1>1, <1>5, <1>7, <1>8, <1>9, <1>10 DEF RInv, RoomTypes
<1>12. Evicted'
  BY <1>4, <1>7, <1>10 DEF Evicted
<1> QED
  BY <1>11, <1>12

\* RevokeRoomUser, the rest.
LEMMA RemoveStep == ASSUME NEW t \in Thread, RInv, Remove(t) PROVE RoomTypes' /\ Evicted'
<1> USE DEF Remove
<1>1. Online' = Online
  BY DEF vars, cometVars, Online
<1>2. thread' \in [Thread -> Request] /\ \A x \in Thread : thread'[x] = IF x = t THEN Nothing ELSE thread[x]
  BY Constants DEF RInv, RoomTypes
<1>3. bumps' \in [Conn -> 0..MaxBumps]
  <2>1. ASSUME NEW k \in Conn
        PROVE  (IF k \in targets[t] \cap Online THEN bumps[k] + 1 ELSE bumps[k]) \in 0..MaxBumps
    BY RoomAssumption DEF RInv, RoomTypes
  <2> QED
    BY <2>1
<1>4. targets' \in [Thread -> SUBSET Conn]
  BY DEF RInv, RoomTypes
<1>5. UNCHANGED <<member, join, evicted>> /\ room' = {} /\ slipped' = {}
  OBVIOUS
<1> HIDE DEF Remove
<1>6. RoomTypes'
  BY <1>1, <1>2, <1>3, <1>4, <1>5 DEF RInv, RoomTypes
<1>7. Evicted'
  BY <1>2, <1>5, Constants DEF RInv, Evicted
<1> QED
  BY <1>6, <1>7

LEMMA ThreadStepStep == ASSUME NEW t \in Thread, RInv, ThreadStep(t) PROVE RoomTypes' /\ Evicted'
<1>0. thread[t] \in Request
  BY DEF RInv, RoomTypes
<1>1. CASE CheckThread(t)
  <2> DEFINE answer == IF member THEN "allowed" ELSE "refused"
  <2>1. At(thread[t], answer) \in Request /\ At(thread[t], answer).at = answer
    BY <1>0, AtPlace
  <2>2. evicted => answer = "refused"
    BY DEF RInv, Evicted
  <2>3. thread' = [thread EXCEPT ![t] = At(thread[t], answer)] /\ thread[t].at = "asked"
    BY <1>1 DEF CheckThread
  <2>4. UNCHANGED <<vars, member, room, join, targets, bumps, evicted, slipped>>
    BY <1>1 DEF CheckThread
  <2> HIDE DEF answer
  <2> QED
    BY <2>1, <2>2, <2>3, <2>4, ThreadMoves
<1>2. CASE Begin(t)
  BY <1>2, Constants, ThreadMoves DEF Begin
<1>3. CASE End(t)
  BY <1>3, Constants, ThreadMoves DEF End
<1> QED
  BY <1>1, <1>2, <1>3, RevokeStep, RemoveStep DEF ThreadStep

-----------------------------------------------------------------------------

LEMMA RoomNextRInv == RInv /\ [RoomNext]_<<vars, roomVars>> => RInv'
<1> SUFFICES ASSUME RInv, [RoomNext]_<<vars, roomVars>> PROVE RInv'
  OBVIOUS
<1>1. IInv'
  BY RoutesMove, NextIInv DEF RInv
<1>2. CASE (Logic \/ \E k \in Conn : Step(k)) /\ UNCHANGED roomVars
  <2>1. Online \subseteq Online'
    BY <1>2, OnlineGrows DEF RInv
  <2>2. RoomTypes'
    BY <1>2, <2>1 DEF RInv, RoomTypes, roomVars
  <2>3. Evicted'
    BY <1>2 DEF RInv, Evicted, roomVars
  <2> QED
    BY <1>1, <2>2, <2>3 DEF RInv
<1>3. CASE MemberChanges
  <2>1. Online' = Online
    BY <1>3 DEF MemberChanges, vars, cometVars, Online
  <2>2. RoomTypes'
    BY <1>3, <2>1 DEF MemberChanges, RInv, RoomTypes
  <2>3. Evicted'
    BY <1>3 DEF MemberChanges, Evicted
  <2> QED
    BY <1>1, <2>2, <2>3 DEF RInv
<1>4. CASE CrashInRoom
  BY <1>1, <1>4, CrashInRoomStep DEF RInv
<1>5. ASSUME NEW k \in Conn, InRoom(k) \/ CloseInRoom(k) PROVE RInv'
  BY <1>1, <1>5, InRoomStep, CloseInRoomStep DEF RInv
<1>6. ASSUME NEW t \in Thread, ThreadStep(t) PROVE RInv'
  BY <1>1, <1>6, ThreadStepStep DEF RInv
<1>7. CASE UNCHANGED <<vars, roomVars>>
  <2>1. Online' = Online
    BY <1>7 DEF vars, cometVars, Online
  <2>2. RoomTypes' /\ Evicted'
    BY <1>7, <2>1 DEF RInv, RoomTypes, Evicted, roomVars
  <2> QED
    BY <1>1, <2>2 DEF RInv
<1> QED
  BY <1>2, <1>3, <1>4, <1>5, <1>6, <1>7 DEF RoomNext

LEMMA RoomInvariance == RoomSpec => []RInv
BY InitRInv, RoomNextRInv, PTL DEF RoomSpec

\* The connections and routes beside a room are those of UserRoute: joining, leaving and
\* revoking never take a step of theirs that UserRoute has not.
THEOREM RoomImplementsRoute == RoomSpec => Spec
<1>1. RoomInit => Init
  BY DEF RoomInit
<1>2. [RoomNext]_<<vars, roomVars>> => [Next]_vars
  BY RoutesMove
<1> QED
  BY <1>1, <1>2, PTL DEF RoomSpec, Spec

\* The subscriptions, requests and callbacks of a room have their types.
THEOREM RoomIsTyped == RoomSpec => []RoomTypeOK
<1>1. RInv => RoomTypeOK
  BY DEF RInv, IInv, RoomTypes, RoomTypeOK
<1> QED
  BY <1>1, RoomInvariance, PTL

\* However many joins and pushes are under way, an evicted user stays out of the room.
THEOREM EvictionHolds == RoomSpec => []EvictedStaysOut
<1>1. RInv => EvictedStaysOut
  BY DEF RInv, Evicted, EvictedStaysOut
<1> QED
  BY <1>1, RoomInvariance, PTL

\* However many pushes are queued, none of them passes the comparison for an evicted user.
THEOREM EvictionSilences == RoomSpec => []EvictedGetsNothing
<1>1. RInv => EvictedGetsNothing
  BY DEF RInv, Evicted, EvictedGetsNothing, Thread
<1> QED
  BY <1>1, RoomInvariance, PTL

=============================================================================
