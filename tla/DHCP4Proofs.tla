---------------------------- MODULE DHCP4Proofs ----------------------------
(***************************************************************************)
(* DHCP4Controller's map against the client goroutines and against the     *)
(* LinkStatus resources, for any links, leases and numbers of passes.      *)
(***************************************************************************)
EXTENDS DHCP4, TLAPS

Alive(p) == p \notin {"none", "done"}

\* The part of the types the argument needs.
MapTypes ==
  /\ status \subseteq Links /\ desired \subseteq Links
  /\ toStart \subseteq desired \cap Physical
  /\ event \in BOOLEAN
  /\ pc \in {"wait", "start", "stop", "join", "down"}
  /\ state \in [Links -> Nat] /\ starts \in [Links -> Nat]
  /\ at \in [Clients -> Places]
  /\ next \in [Clients -> {"select", "spin", "done"}]

\* What a reconcile has done so far: it works by the statuses it listed, and
\* unless a token tells of a change those are still the statuses.
ReconcileProgress ==
  /\ \A l \in toStart : state[l] = 0
  /\ pc /= "start" => toStart = {}
  /\ pc = "join" => cur \in Links /\ cur \notin desired
  /\ \A l \in Links : state[l] /= 0 => l \in Physical
  /\ pc \in {"start", "stop", "join"} =>
       \A l \in desired \cap Physical : state[l] /= 0 \/ l \in toStart
  /\ pc \in {"start", "stop", "join"} /\ ~event => desired = status

MapInvariant ==
  MapTypes /\ ReconcileProgress /\ OneClientPerLink /\ MapFollowsStatuses

LEMMA MapInit == Init => MapInvariant
<1>1. ASSUME Init PROVE MapTypes
  BY <1>1 DEF Init, MapTypes, Places
<1>2. ASSUME Init PROVE ReconcileProgress
  BY <1>2 DEF Init, ReconcileProgress
<1>3. ASSUME Init PROVE OneClientPerLink /\ MapFollowsStatuses
  BY <1>3 DEF Init, OneClientPerLink, MapFollowsStatuses
<1> QED BY <1>1, <1>2, <1>3 DEF MapInvariant

\* What the controller's argument is about, besides the clients.
mapVars == <<status, event, pc, desired, toStart, cur, state, starts>>

\* A step of a client changes nothing but its own place, and starts nobody.
LEMMA ClientStep ==
  ASSUME MapInvariant, NEW c \in Clients, Client(c)
  PROVE  /\ UNCHANGED mapVars
         /\ at' \in [Clients -> Places]
         /\ next' \in [Clients -> {"select", "spin", "done"}]
         /\ \A d \in Clients : Alive(at'[d]) => Alive(at[d])
<1> DEFINE Result == /\ UNCHANGED mapVars
                    /\ at' \in [Clients -> Places]
                    /\ \A d \in Clients : Alive(at'[d]) => Alive(at[d])
           NextOK == next' \in [Clients -> {"select", "spin", "done"}]
<1> USE DEF MapInvariant, MapTypes, Alive, mapVars, linkStatus, controller
<1>1. ASSUME NEW from \in Places, NEW to \in Places, Alive(from), Step(c, from, to)
      PROVE  Result
  BY <1>1 DEF Step
<1>2. ASSUME NEW from, Panic(c, from)
      PROVE  Result /\ NextOK
  BY <1>2 DEF Panic
<1>3. ASSUME NEW from \in Places, Alive(from), NEW k,
             NEW to \in {"select", "spin", "done"}, applyLease(c, from, k, to)
      PROVE  Result /\ NextOK
  <2>1. Result
    BY <1>1, <1>3 DEF applyLease, Places
  <2>2. NextOK
    BY <1>3 DEF applyLease
  <2> QED BY <2>1, <2>2
<1> SUFFICES Result /\ NextOK
  OBVIOUS
<1> HIDE DEF Result, NextOK
<1>4. ASSUME NEW from \in Places, NEW to \in Places, Alive(from),
             Step(c, from, to), UNCHANGED next
      PROVE  Result /\ NextOK
  BY <1>1, <1>4 DEF NextOK
<1>5. CASE Open(c)
  BY <1>2, <1>4, <1>5 DEF Open, Places
<1>6. CASE Request(c)
  BY <1>3, <1>4, <1>6 DEF Request, RequestFails, Places
<1>7. CASE Write(c)
  BY <1>7 DEF Write, Result, NextOK
<1>8. CASE Applied(c)
  BY <1>8 DEF Applied, Places, Result, NextOK
<1>9. CASE Select(c)
  BY <1>3, <1>4, <1>9 DEF Select, Places
<1>10. CASE Renew(c)
  BY <1>2, <1>3, <1>10 DEF Renew, Places
<1> QED BY <1>5, <1>6, <1>7, <1>8, <1>9, <1>10 DEF Client

-----------------------------------------------------------------------------
(* The four parts of the invariant after a step, where that step leaves the *)
(* clients alone, or changes nothing but clients.                          *)

LEMMA ClientPreserves ==
  ASSUME MapInvariant, NEW c \in Clients, Client(c)
  PROVE  MapInvariant'
<1>1. /\ UNCHANGED mapVars /\ at' \in [Clients -> Places]
      /\ next' \in [Clients -> {"select", "spin", "done"}]
      /\ \A d \in Clients : Alive(at'[d]) => Alive(at[d])
  BY ClientStep
<1>2. MapTypes'
  BY <1>1 DEF MapInvariant, MapTypes, mapVars
<1>3. ReconcileProgress' /\ MapFollowsStatuses'
  BY <1>1 DEF MapInvariant, ReconcileProgress, MapFollowsStatuses, mapVars
<1>4. OneClientPerLink'
  BY <1>1 DEF MapInvariant, OneClientPerLink, Alive, mapVars
<1> QED BY <1>2, <1>3, <1>4 DEF MapInvariant

\* The LinkStatusController changes statuses only together with the token.
LEMMA LinksPreserve ==
  ASSUME MapInvariant,
         \/ \E l \in Links : SyncLink(l) \/ DestroyStatus(l)
         \/ ListLinks \/ EndPass
  PROVE  MapInvariant'
<1>1. UNCHANGED <<pc, desired, toStart, cur, state, starts, at, next>>
  BY DEF SyncLink, DestroyStatus, ListLinks, EndPass, controller,
         clients
<1>2. /\ status' \subseteq Links /\ event' \in BOOLEAN
      /\ ~event' => ~event /\ status' = status
  BY DEF MapInvariant, MapTypes, SyncLink, DestroyStatus,
         ListLinks, EndPass, linkStatus
<1>3. MapTypes'
  BY <1>1, <1>2 DEF MapInvariant, MapTypes
<1>4. ReconcileProgress' /\ MapFollowsStatuses'
  BY <1>1, <1>2 DEF MapInvariant, ReconcileProgress, MapFollowsStatuses
<1>5. OneClientPerLink'
  BY <1>1 DEF MapInvariant, OneClientPerLink
<1> QED BY <1>3, <1>4, <1>5 DEF MapInvariant

\* Steps of the controller that neither start nor end a client.
LEMMA MoveOn ==
  ASSUME MapInvariant,
         Reconcile \/ ReconcileFails \/ Restart \/ AllStarted \/ AllStopped
                   \/ \E l \in Links : Cancel(l)
  PROVE  MapInvariant'
<1> USE DEF MapInvariant, MapTypes, ReconcileProgress
<1>1. /\ UNCHANGED <<status, state, starts, at, next>>
      /\ event' \in BOOLEAN /\ desired' \subseteq Links
  BY DEF Reconcile, ReconcileFails, Restart, AllStarted, AllStopped, Cancel,
         linkStatus, clients
<1>2. OneClientPerLink'
  BY <1>1 DEF OneClientPerLink
<1>3. CASE Reconcile
  <2>1. toStart' = {l \in status : state[l] = 0 /\ l \in Physical}
    BY <1>3 DEF Reconcile, ToStart, wantsDHCP
  <2>2. pc' = "start" /\ desired' = status
    BY <1>3 DEF Reconcile
  <2>3. MapTypes' /\ ReconcileProgress'
    BY <1>1, <2>1, <2>2
  <2>4. MapFollowsStatuses'
    BY <2>2 DEF MapFollowsStatuses
  <2> QED BY <1>2, <2>3, <2>4
<1>4. CASE ReconcileFails
  BY <1>1, <1>2, <1>4 DEF ReconcileFails, MapFollowsStatuses
<1>5. CASE Restart
  BY <1>1, <1>2, <1>5 DEF Restart, MapFollowsStatuses
<1>6. CASE AllStarted
  BY <1>1, <1>2, <1>6 DEF AllStarted, MapFollowsStatuses
<1>7. CASE AllStopped
  <2>1. pc' = "wait" /\ UNCHANGED <<event, toStart, cur>> /\ desired' = {}
    BY <1>7 DEF AllStopped
  <2>2. toStart = {} /\ \A l \in Links : state[l] /= 0 => l \in desired
    BY <1>7 DEF AllStopped, Undesired
  <2>3. MapTypes' /\ ReconcileProgress'
    BY <1>1, <2>1, <2>2
  <2>4. ~event => \A l \in Links : state[l] /= 0 <=> l \in status \cap Physical
    BY <1>7, <2>2 DEF AllStopped
  <2>5. MapFollowsStatuses'
    BY <1>1, <2>1, <2>4 DEF MapFollowsStatuses
  <2> QED BY <1>2, <2>3, <2>5
<1>8. CASE \E l \in Links : Cancel(l)
  BY <1>1, <1>2, <1>8 DEF Cancel, Undesired, MapFollowsStatuses
<1> QED BY <1>3, <1>4, <1>5, <1>6, <1>7, <1>8

\* The link had no client in the map, so none of its clients is alive.
LEMMA StartPreserves ==
  ASSUME MapInvariant, NEW l \in Links, StartClient(l)
  PROVE  MapInvariant'
<1> USE DEF MapInvariant, MapTypes, ReconcileProgress
<1> DEFINE n == starts[l] + 1
<1>1. /\ pc = "start" /\ l \in toStart /\ toStart' = toStart \ {l}
      /\ starts' = [starts EXCEPT ![l] = n]
      /\ state' = [state EXCEPT ![l] = n]
      /\ at' = [at EXCEPT ![<<l, n>>] = "open"]
      /\ UNCHANGED <<status, event, pc, desired, cur, next>>
  BY DEF StartClient, linkStatus
<1>2. n \in Nat /\ n /= 0 /\ l \in Physical
  BY <1>1
<1> HIDE DEF n
<1>3. MapTypes'
  BY <1>1, <1>2 DEF Places
<1>4. ReconcileProgress'
  BY <1>1, <1>2
<1>5. OneClientPerLink'
  <2> SUFFICES ASSUME NEW c \in Clients, Alive(at'[c])
               PROVE  state'[c[1]] = c[2]
    BY DEF OneClientPerLink, Alive
  <2>1. CASE c = <<l, n>>
    BY <1>1, <2>1
  <2>2. CASE c /= <<l, n>>
    <3>1. Alive(at[c])
      BY <1>1, <2>2
    <3>2. c[1] \in Links /\ c[2] /= 0 /\ state[c[1]] = c[2]
      BY <3>1 DEF OneClientPerLink, Alive, Clients
    <3>3. c[1] /= l
      BY <1>1, <3>2
    <3> QED BY <1>1, <3>2, <3>3
  <2> QED BY <2>1, <2>2
<1>6. MapFollowsStatuses'
  BY <1>1 DEF MapFollowsStatuses
<1> QED BY <1>3, <1>4, <1>5, <1>6

\* The client in the map has returned: the entry may go.
LEMMA JoinedPreserves ==
  ASSUME MapInvariant, Joined
  PROVE  MapInvariant'
<1> USE DEF MapInvariant, MapTypes, ReconcileProgress
<1>1. /\ pc = "join" /\ at[<<cur, state[cur]>>] = "done"
      /\ pc' = "stop" /\ state' = [state EXCEPT ![cur] = 0]
      /\ cur \in Links /\ cur \notin desired
      /\ UNCHANGED <<status, event, desired, toStart, starts, at, next>>
  BY DEF Joined, linkStatus, clients
<1>2. MapTypes' /\ ReconcileProgress'
  BY <1>1
<1>3. OneClientPerLink'
  <2> SUFFICES ASSUME NEW c \in Clients, Alive(at[c])
               PROVE  state'[c[1]] = c[2]
    BY <1>1 DEF OneClientPerLink, Alive
  <2>1. c[1] \in Links /\ c = <<c[1], c[2]>> /\ state[c[1]] = c[2]
    BY DEF OneClientPerLink, Alive, Clients
  <2>2. c[1] /= cur
    BY <1>1, <2>1 DEF Alive
  <2> QED BY <1>1, <2>1, <2>2
<1>4. MapFollowsStatuses'
  BY <1>1 DEF MapFollowsStatuses
<1> QED BY <1>2, <1>3, <1>4

-----------------------------------------------------------------------------
\* The invariant of the map holds for every set of links and any number of
\* passes, restarts and clients.
THEOREM MapCorrect == Spec => []MapInvariant
<1>1. MapInvariant /\ [Next]_vars => MapInvariant'
  <2> SUFFICES ASSUME MapInvariant, [Next]_vars PROVE MapInvariant'
    OBVIOUS
  <2>1. CASE UNCHANGED vars
    BY <2>1 DEF MapInvariant, MapTypes, ReconcileProgress, OneClientPerLink,
                MapFollowsStatuses, vars, linkStatus, controller, clients
  <2>2. CASE Next
    BY <2>2, ClientPreserves, LinksPreserve, MoveOn, StartPreserves,
       JoinedPreserves DEF Next, Controller
  <2> QED BY <2>1, <2>2
<1> QED BY <1>1, MapInit, PTL DEF Spec

\* A client that runs is the one of the map: reconcile never starts a second
\* one for a link, nor drops one that still runs.
THEOREM ClientsAreInMap == Spec => []OneClientPerLink
<1>1. MapInvariant => OneClientPerLink
  BY DEF MapInvariant
<1> QED BY <1>1, MapCorrect, PTL

\* With no token left, the map has exactly the physical links with a status.
THEOREM MapIsCurrent == Spec => []MapFollowsStatuses
<1>1. MapInvariant => MapFollowsStatuses
  BY DEF MapInvariant
<1> QED BY <1>1, MapCorrect, PTL

-----------------------------------------------------------------------------
(* What clients write.                                                     *)

Writing(c) == at[c] \in {"apply", "select"}

\* The types of a client's lease, and the address once it is written: a
\* client that has written 0 and was not refused since has its lease there.
WriteInv ==
  /\ lease \in [Clients -> Leases \cup {Nobody}]
  /\ left \in [Clients -> SUBSET Nat]
  /\ \A c \in Clients : IF at[c] = "apply" THEN IsRest(left[c], lease[c])
                                           ELSE left[c] = {}
  /\ \A c \in Clients : Writing(c) => lease[c] \in Leases
  /\ spoiled \subseteq Clients
  /\ store \in [IDs -> (Clients \X Leases) \cup {Nobody}]
  /\ \A c \in Clients :
       Writing(c) /\ 0 \notin left[c] /\ c \notin spoiled =>
         store[AddressID(c[1])] = <<c, lease[c]>>

\* Writes are numbers, the first is 0, and each has an ID, which is that of
\* the address only for the first.
LEMMA WritesFacts ==
  ASSUME NEW k \in Leases
  PROVE  /\ 0 \in Writes(k) /\ Writes(k) \subseteq Nat
         /\ IsRest(Writes(k), k)
         /\ \A l \in Physical, i \in Writes(k) : WriteID(l, k, i) \in IDs
         /\ \A l \in Physical : WriteID(l, k, 0) = AddressID(l)
<1>1. Writes(k) \subseteq Nat
  BY DHCPAssumption DEF Writes, RoutesOf
<1>2. 0 \in Writes(k)
  BY DEF Writes
<1>3. IsRest(Writes(k), k)
  BY DEF IsRest
<1>4. \A l \in Physical, i \in Writes(k) : WriteID(l, k, i) \in IDs
  <2> SUFFICES ASSUME NEW l \in Physical, NEW i \in Writes(k)
               PROVE  WriteID(l, k, i) \in IDs
    OBVIOUS
  <2>1. <<l, k>> \in Physical \X Leases /\ <<l, k>>[1] = l /\ <<l, k>>[2] = k
    OBVIOUS
  <2> QED BY <2>1 DEF IDs
<1>5. \A l \in Physical : WriteID(l, k, 0) = AddressID(l)
  BY DEF WriteID
<1> QED BY <1>1, <1>2, <1>3, <1>4, <1>5

LEMMA AddressesDiffer ==
  ASSUME NEW k \in Leases, NEW l, NEW m, NEW i \in Writes(k),
         WriteID(l, k, i) = AddressID(m)
  PROVE  i = 0 /\ l = m
<1>1. i \in Nat /\ Len(Routers[k]) \in Nat
  BY WritesFacts, DHCPAssumption
<1>2. CASE i = 0
  BY <1>2 DEF WriteID, AddressID
<1>3. CASE i > 2 * Len(Routers[k])
  BY <1>1, <1>3 DEF WriteID, AddressID, ResolverID
<1>4. CASE i /= 0 /\ ~(i > 2 * Len(Routers[k]))
  <2>1. \E a, b : WriteID(l, k, i) = <<"route", a, b>>
    BY <1>4 DEF WriteID, RouteID
  <2> QED BY <2>1 DEF AddressID
<1> QED BY <1>1, <1>2, <1>3, <1>4

\* A client that runs is of a physical link, and alone on it.
LEMMA AloneOnLink ==
  ASSUME MapInvariant, NEW c \in Clients, Alive(at[c])
  PROVE  /\ c[1] \in Physical
         /\ \A d \in Clients : Alive(at[d]) /\ d[1] = c[1] => d = c
<1>1. \A d \in Clients : d[1] \in Links /\ d[2] \in 1 .. MaxPasses /\ d = <<d[1], d[2]>>
  BY DEF Clients
<1>2. \A d \in Clients : Alive(at[d]) => state[d[1]] = d[2]
  BY DEF MapInvariant, OneClientPerLink, Alive
<1>3. c[1] \in Physical
  <2>1. state[c[1]] /= 0
    BY <1>1, <1>2, DHCPAssumption
  <2> QED BY <1>1, <2>1 DEF MapInvariant, ReconcileProgress
<1>4. ASSUME NEW d \in Clients, Alive(at[d]), d[1] = c[1] PROVE d = c
  BY <1>1, <1>2, <1>4
<1> QED BY <1>3, <1>4

LEMMA WriteInit == Init => WriteInv
BY DEF Init, WriteInv, Writing

\* A client that begins with a lease has all of it to write.
LEMMA ApplyKeeps ==
  ASSUME MapInvariant, WriteInv, NEW c \in Clients, NEW from, NEW k \in Leases,
         NEW to, applyLease(c, from, k, to)
  PROVE  WriteInv'
<1> USE DEF WriteInv, MapInvariant, MapTypes
<1>1. /\ at' = [at EXCEPT ![c] = "apply"] /\ lease' = [lease EXCEPT ![c] = k]
      /\ left' = [left EXCEPT ![c] = Writes(k)] /\ UNCHANGED <<store, spoiled>>
  BY DEF applyLease, Step
<1>2. 0 \in Writes(k) /\ Writes(k) \subseteq Nat /\ IsRest(Writes(k), k)
  BY WritesFacts
<1>3. lease' \in [Clients -> Leases \cup {Nobody}] /\ left' \in [Clients -> SUBSET Nat]
  BY <1>1, <1>2
<1>4. /\ at'[c] = "apply" /\ lease'[c] = k /\ left'[c] = Writes(k)
      /\ \A d \in Clients \ {c} : /\ at'[d] = at[d] /\ lease'[d] = lease[d]
                                 /\ left'[d] = left[d]
  BY <1>1
<1> QED BY <1>1, <1>2, <1>3, <1>4 DEF Writing

\* A client that moves on without a lease has nothing left to write.
LEMMA MoveKeeps ==
  ASSUME MapInvariant, WriteInv, NEW c \in Clients,
         NEW to \in Places \ {"apply"}, at' = [at EXCEPT ![c] = to],
         left[c] = {}, to = "select" => at[c] = "apply",
         UNCHANGED <<lease, left, store, spoiled>>
  PROVE  WriteInv'
<1> USE DEF WriteInv, MapInvariant, MapTypes
<1>1. at'[c] = to /\ \A d \in Clients \ {c} : at'[d] = at[d]
  OBVIOUS
<1> QED BY <1>1 DEF Writing

\* A client that has applied its lease keeps it only to wait for T1.
LEMMA AppliedKeeps ==
  ASSUME MapInvariant, WriteInv, NEW c \in Clients, Applied(c)
  PROVE  WriteInv'
<1>1. /\ at' = [at EXCEPT ![c] = next[c]] /\ left[c] = {} /\ at[c] = "apply"
      /\ next[c] \in {"select", "spin", "done"} /\ UNCHANGED <<left, store>>
  BY DEF Applied, MapInvariant, MapTypes
<1>2. CASE next[c] = "select"
  BY <1>1, <1>2, MoveKeeps DEF Applied, Places
<1>3. CASE next[c] \in {"spin", "done"}
  <2> USE DEF WriteInv, MapInvariant, MapTypes
  <2>1. /\ at'[c] \in {"spin", "done"}
        /\ \A d \in Clients \ {c} : at'[d] = at[d]
    BY <1>1, <1>3
  <2>2. lease' = [lease EXCEPT ![c] = Nobody] /\ spoiled' = spoiled \ {c}
    BY <1>3 DEF Applied
  <2>3. /\ lease' \in [Clients -> Leases \cup {Nobody}] /\ spoiled' \subseteq Clients
        /\ \A d \in Clients \ {c} : lease'[d] = lease[d] /\ (d \in spoiled' <=> d \in spoiled)
    BY <2>2
  <2> QED BY <1>1, <2>1, <2>3 DEF Writing
<1> QED BY <1>1, <1>2, <1>3

\* A write changes one resource, which is nobody else's address.
LEMMA WriteKeeps ==
  ASSUME MapInvariant, WriteInv, NEW c \in Clients, Write(c)
  PROVE  WriteInv'
<1> USE DEF WriteInv, MapInvariant, MapTypes
<1>1. at[c] = "apply" /\ Alive(at[c]) /\ lease[c] \in Leases /\ IsRest(left[c], lease[c])
  BY DEF Write, Writing, Alive
<1>2. UNCHANGED <<at, lease>>
  BY DEF Write
<1>3. CASE left' = [left EXCEPT ![c] = {}] /\ spoiled' = spoiled \cup {c} /\ UNCHANGED store
  <2>1. left' \in [Clients -> SUBSET Nat] /\ left'[c] = {} /\ c \in spoiled'
    BY <1>3
  <2>2. \A d \in Clients \ {c} : left'[d] = left[d] /\ (d \in spoiled' <=> d \in spoiled)
    BY <1>3
  <2>3. IsRest({}, lease[c])
    BY DEF IsRest
  <2> QED BY <1>1, <1>2, <1>3, <2>1, <2>2, <2>3 DEF Writing
<1>4. ASSUME NEW i \in left[c], \A j \in left[c] : i <= j,
             store' = [store EXCEPT ![WriteID(c[1], lease[c], i)] = <<c, lease[c]>>],
             left' = [left EXCEPT ![c] = @ \ {i}], UNCHANGED spoiled
      PROVE  WriteInv'
  <2>1. /\ left' \in [Clients -> SUBSET Nat] /\ left'[c] = left[c] \ {i}
        /\ \A d \in Clients \ {c} : left'[d] = left[d]
    BY <1>4
  <2>2. i \in Writes(lease[c]) /\ i \in Nat /\ c[1] \in Physical
    BY <1>1, <1>4, AloneOnLink, WritesFacts DEF IsRest
  <2>3. IsRest(left'[c], lease[c])
    BY <1>1, <1>4, <2>1, <2>2, WritesFacts DEF IsRest
  <2>4. WriteID(c[1], lease[c], i) \in IDs
    BY <1>1, <2>2, WritesFacts
  <2>5. store' \in [IDs -> (Clients \X Leases) \cup {Nobody}]
    BY <1>1, <1>4, <2>4
  <2>6. ASSUME NEW d \in Clients, Writing(d), 0 \notin left'[d], d \notin spoiled
        PROVE  store'[AddressID(d[1])] = <<d, lease[d]>>
    <3>1. Alive(at[d]) /\ lease[d] \in Leases
      BY <2>6 DEF Writing, Alive
    <3>2. d[1] \in Physical /\ AddressID(d[1]) \in IDs
      BY <3>1, AloneOnLink, WritesFacts
    <3>3. CASE i = 0 /\ d = c
      BY <1>1, <1>4, <2>2, <2>4, <3>3, WritesFacts
    <3>4. CASE i /= 0 \/ d /= c
      <4>1. AddressID(d[1]) /= WriteID(c[1], lease[c], i)
        BY <1>1, <2>2, <3>1, <3>4, AloneOnLink, AddressesDiffer
      <4>2. store'[AddressID(d[1])] = store[AddressID(d[1])]
        BY <1>4, <3>2, <4>1
      <4>3. 0 \notin left[d]
        BY <2>1, <2>6, <3>4
      <4> QED BY <2>6, <4>2, <4>3
    <3> QED BY <3>3, <3>4
  <2>7. \A d \in Clients : IF at'[d] = "apply" THEN IsRest(left'[d], lease'[d]) ELSE left'[d] = {}
    BY <1>1, <1>2, <2>1, <2>3
  <2>8. \A d \in Clients : Writing(d)' <=> Writing(d)
    BY <1>2 DEF Writing
  <2> QED BY <1>2, <1>4, <2>1, <2>5, <2>6, <2>7, <2>8
<1> QED BY <1>3, <1>4 DEF Write

\* WriteInv is an invariant, for any links, leases and number of clients.
THEOREM WritesCorrect == Spec => []WriteInv
<1>1. MapInvariant /\ WriteInv /\ [Next]_vars => WriteInv'
  <2> SUFFICES ASSUME MapInvariant, WriteInv, [Next]_vars PROVE WriteInv'
    OBVIOUS
  <2>1. ASSUME UNCHANGED clients PROVE WriteInv'
    BY <2>1 DEF WriteInv, Writing, clients
  <2>2. ASSUME NEW l \in Links, StartClient(l) PROVE WriteInv'
    <3>1. UNCHANGED <<lease, left, store, spoiled>>
      BY <2>2 DEF StartClient
    <3>2. \A c \in Clients : at'[c] = at[c] \/ (at[c] \in {"none", "done"} /\ at'[c] = "open")
      <4>1. state[l] = 0 /\ l \in Links
        BY <2>2 DEF StartClient, MapInvariant, ReconcileProgress
      <4>2. \A c \in Clients : c[1] = l => at[c] \in {"none", "done"}
        BY <4>1, DHCPAssumption DEF MapInvariant, OneClientPerLink, Clients
      <4> QED BY <2>2, <4>2 DEF StartClient, MapInvariant, MapTypes
    <3> QED BY <3>1, <3>2 DEF WriteInv, Writing
  <2>3. ASSUME NEW c \in Clients, Client(c) PROVE WriteInv'
    <3> USE DEF MapInvariant, MapTypes
    <3>1. ASSUME NEW from \in Places \ {"apply"}, NEW to \in Places \ {"apply", "select"},
                 Step(c, from, to), UNCHANGED <<lease, left>>
          PROVE  WriteInv'
      BY <3>1, MoveKeeps DEF Step, WriteInv
    <3>2. ASSUME NEW from, Panic(c, from) PROVE WriteInv'
      BY <3>2 DEF Panic, WriteInv, Writing
    <3>3. CASE Open(c)
      BY <3>1, <3>2, <3>3 DEF Open, Places
    <3>4. CASE Request(c)
      BY <3>1, <3>4, ApplyKeeps DEF Request, RequestFails, Places
    <3>5. CASE Write(c)
      BY <3>5, WriteKeeps
    <3>6. CASE Applied(c)
      BY <3>6, AppliedKeeps
    <3>7. CASE Select(c)
      <4>1. CASE c \in cancelled /\ applyLease(c, "select", lease[c], "done")
        <5>1. lease[c] \in Leases
          BY <4>1 DEF applyLease, Step, WriteInv, Writing
        <5> QED BY <4>1, <5>1, ApplyKeeps
      <4> QED BY <3>1, <3>7, <4>1 DEF Select, Places
    <3>8. CASE Renew(c)
      BY <3>2, <3>8, ApplyKeeps DEF Renew
    <3> QED BY <2>3, <3>3, <3>4, <3>5, <3>6, <3>7, <3>8 DEF Client
  <2>4. CASE UNCHANGED vars
    BY <2>1, <2>4 DEF vars
  <2>5. CASE Next
    BY <2>1, <2>2, <2>3, <2>5
       DEF Next, Controller, SyncLink, DestroyStatus, ListLinks,
           EndPass, Reconcile, ReconcileFails, Restart, AllStarted, Cancel,
           Joined, AllStopped
  <2> QED BY <2>4, <2>5
<1> QED BY <1>1, WriteInit, MapCorrect, PTL DEF Spec

\* A client that waits for T1 has its lease in its AddressSpec, unless one of
\* its writes was refused: applyLease of no other client writes there.
THEOREM AddressIsLease == Spec => []AddressFollowsLease
<1>1. WriteInv => AddressFollowsLease
  BY DEF WriteInv, AddressFollowsLease, Writing
<1> QED BY <1>1, WritesCorrect, PTL

-----------------------------------------------------------------------------
(* Why MaxPasses clients per link are enough: a link is started again only *)
(* if one pass has deleted its status and a later one has written it anew. *)

\* The clients of a link, with the one it may get from the statuses as known.
Used(l) ==
  starts[l] + (IF state[l] = 0 /\ l \in status \cup toStart THEN 1 ELSE 0)

\* A pass is in hand for each, and one more where a status is yet to be
\* deleted, is gone, or was gone when the reconcile listed them.
Counted(l) ==
  /\ Used(l) <= passes
  /\ l \in itemsToDelete => Used(l) + 1 <= passes
  /\ l \notin status /\ (state[l] /= 0 \/ l \in toStart \cup toSync) =>
       Used(l) + 1 <= passes
  /\ pc \in {"start", "stop", "join"} /\ l \notin desired /\ state[l] /= 0 =>
       /\ Used(l) + 1 <= passes
       /\ l \in itemsToDelete => Used(l) + 2 <= passes

CountInv ==
  /\ lpc \in {"wait", "pass"} /\ toSync \subseteq Links
  /\ itemsToDelete \subseteq status /\ passes \in 0 .. MaxPasses
  /\ crashed \in BOOLEAN
  /\ cur \in Links \cup {Nobody} /\ (pc = "join" => state[cur] /= 0)
  /\ \A l \in Links : state[l] \in {0, starts[l]}
  /\ cancelled \subseteq Clients
  /\ \A l \in Links : Counted(l)

LEMMA CountInit == Init => CountInv
<1> SUFFICES ASSUME Init PROVE CountInv
  OBVIOUS
<1>0. /\ lpc = "wait" /\ toSync = {} /\ itemsToDelete = {} /\ status = {}
      /\ passes = 0 /\ crashed = FALSE /\ cur = Nobody /\ pc = "wait"
      /\ toStart = {} /\ cancelled = {}
      /\ \A l \in Links : state[l] = 0 /\ starts[l] = 0
  BY DEF Init
<1>1. \A l \in Links : l \notin status /\ l \notin toStart /\ l \notin toSync /\ l \notin itemsToDelete
  BY <1>0
<1>2. \A l \in Links : Counted(l)
  <2> SUFFICES ASSUME NEW l \in Links PROVE Counted(l)
    OBVIOUS
  <2>1. state[l] = 0 /\ starts[l] = 0 /\ passes = 0
    BY <1>0
  <2>2. Used(l) = 0
    BY <1>1, <2>1 DEF Used
  <2> QED BY <1>0, <1>1, <2>1, <2>2 DEF Counted
<1>3. 0 \in 0 .. MaxPasses
  BY DHCPAssumption
<1> QED BY <1>0, <1>2, <1>3 DEF CountInv

\* What the passes of the LinkStatusController do to the count.
LEMMA LinksCounted ==
  ASSUME MapInvariant, CountInv,
         \/ \E l \in Links : SyncLink(l) \/ DestroyStatus(l)
         \/ ListLinks \/ EndPass
  PROVE  CountInv'
<1> USE DHCPAssumption DEF MapInvariant, MapTypes, CountInv, linkStatus, controller, clients
<1>1. ASSUME NEW l \in Links, SyncLink(l) PROVE CountInv'
  <2> SUFFICES ASSUME NEW m \in Links PROVE Counted(m)'
    BY <1>1 DEF SyncLink
  <2>1. /\ UNCHANGED <<passes, starts, state, toStart, desired, pc>>
        /\ toSync' = toSync \ {l} /\ l \in toSync
        /\ \/ status' = status \cup {l} /\ itemsToDelete' = itemsToDelete \ {l}
           \/ UNCHANGED <<status, itemsToDelete>>
    BY <1>1 DEF SyncLink
  <2>2. Counted(m) /\ starts[m] \in Nat /\ passes \in Nat
    OBVIOUS
  <2> QED BY <2>1, <2>2 DEF Counted, Used
<1>2. ASSUME NEW l \in Links, DestroyStatus(l) PROVE CountInv'
  <2>1. \A m \in Links : Counted(m)'
    BY <1>2 DEF DestroyStatus, Counted, Used
  <2> QED BY <1>2, <2>1 DEF DestroyStatus
<1>3. CASE ListLinks
  <2>1. \A m \in Links : Counted(m)'
    BY <1>3 DEF ListLinks, Counted, Used
  <2> QED BY <1>3, <2>1 DEF ListLinks
<1>4. CASE EndPass
  BY <1>4 DEF EndPass, Counted, Used
<1> QED BY <1>1, <1>2, <1>3, <1>4

\* What the reconcile does to it.
LEMMA ControllerCounted ==
  ASSUME MapInvariant, CountInv, Controller \/ ReconcileFails
  PROVE  CountInv'
<1> USE DHCPAssumption DEF MapInvariant, MapTypes, ReconcileProgress, CountInv,
                           linkStatus, controller, clients
<1>1. CASE Reconcile
  <2>1. \A m \in Links : Counted(m)'
    BY <1>1 DEF Reconcile, ToStart, Counted, Used
  <2> QED BY <1>1, <2>1 DEF Reconcile
<1>2. CASE Restart \/ ReconcileFails \/ AllStarted \/ AllStopped
  BY <1>2 DEF Restart, ReconcileFails, AllStarted, AllStopped, Counted, Used
<1>3. CASE Joined
  <2>1. cur \in Links /\ cur \notin desired /\ toStart = {} /\ state[cur] = starts[cur]
    BY <1>3 DEF Joined
  <2>2. /\ state'[cur] = 0 /\ \A m \in Links \ {cur} : state'[m] = state[m]
        /\ UNCHANGED <<linkStatus, desired, toStart, starts, cancelled, crashed>>
        /\ pc = "join" /\ pc' = "stop" /\ cur' = Nobody
    BY <1>3, <2>1 DEF Joined
  <2>3. \A m \in Links : Counted(m)'
    BY <2>1, <2>2 DEF Counted, Used
  <2> QED BY <2>2, <2>3
<1>4. ASSUME NEW l \in Links, StartClient(l) PROVE CountInv'
  <2>1. l \in toStart /\ l \in desired /\ state[l] = 0 /\ pc = "start"
    BY <1>4 DEF StartClient
  <2>2. /\ starts'[l] = starts[l] + 1 /\ state'[l] = starts[l] + 1
        /\ \A m \in Links \ {l} : starts'[m] = starts[m] /\ state'[m] = state[m]
        /\ toStart' = toStart \ {l}
        /\ UNCHANGED <<linkStatus, desired, pc, cur, cancelled, crashed>>
    BY <1>4 DEF StartClient
  <2>3. \A m \in Links : Counted(m)'
    BY <2>1, <2>2 DEF Counted, Used
  <2> QED BY <2>1, <2>2, <2>3
<1>5. ASSUME NEW l \in Links, Cancel(l) PROVE CountInv'
  <2>1. state[l] /= 0 /\ state[l] = starts[l]
    BY <1>5 DEF Cancel, Undesired
  <2>2. starts[l] \in 1 .. MaxPasses
    BY <2>1 DEF Counted, Used
  <2>3. <<l, state[l]>> \in Clients
    BY <2>1, <2>2 DEF Clients
  <2>4. \A m \in Links : Counted(m)'
    BY <1>5 DEF Cancel, Counted, Used
  <2> QED BY <1>5, <2>1, <2>3, <2>4 DEF Cancel
<1> QED BY <1>1, <1>2, <1>3, <1>4, <1>5 DEF Controller

\* CountInv is an invariant, for any links, leases and number of passes.
THEOREM CountCorrect == Spec => []CountInv
<1>1. MapInvariant /\ CountInv /\ [Next]_vars => CountInv'
  <2> SUFFICES ASSUME MapInvariant, CountInv, [Next]_vars PROVE CountInv'
    OBVIOUS
  <2>1. ASSUME UNCHANGED <<linkStatus, controller, cancelled>>,
               crashed' \in BOOLEAN
        PROVE  CountInv'
    BY <2>1 DEF CountInv, Counted, Used, linkStatus, controller
  <2>2. ASSUME NEW c \in Clients, Client(c) PROVE CountInv'
    <3>1. UNCHANGED <<linkStatus, controller, cancelled>>
      BY <2>2 DEF Client, Open, Request, RequestFails, Write, Applied, Select, Renew,
                  applyLease, Step, Panic
    <3>2. crashed' \in BOOLEAN
      BY <2>2 DEF CountInv, Client, Open, Request, RequestFails, Write, Applied, Select,
                  Renew, applyLease, Panic
    <3> QED BY <2>1, <3>1, <3>2
  <2>3. CASE UNCHANGED vars
    BY <2>1, <2>3 DEF CountInv, vars, clients
  <2>4. CASE Next
    BY <2>2, <2>4, LinksCounted, ControllerCounted DEF Next
  <2> QED BY <2>3, <2>4
<1> QED BY <1>1, CountInit, MapCorrect, PTL DEF Spec

\* The types, with the bound on the clients of a link: it follows from the
\* bound on passes, as no reconcile restarts a link for the same status.
THEOREM DHCP4TypeCorrect == Spec => []TypeOK
<1>1. MapInvariant /\ WriteInv /\ CountInv => TypeOK
  <2> SUFFICES ASSUME MapInvariant, WriteInv, CountInv PROVE TypeOK
    OBVIOUS
  <2>1. starts \in [Links -> 0 .. MaxPasses]
    BY DHCPAssumption DEF MapInvariant, MapTypes, CountInv, Counted, Used
  <2> QED BY <2>1 DEF TypeOK, MapInvariant, MapTypes, WriteInv, CountInv
<1> QED BY <1>1, MapCorrect, WritesCorrect, CountCorrect, PTL

-----------------------------------------------------------------------------
(* How a client is stopped.                                                *)

\* A client that is cancelled was started, and has a place since then.
StartedInv ==
  /\ \A c \in cancelled : c[2] <= starts[c[1]]
  /\ \A c \in Clients : c[2] <= starts[c[1]] => at[c] /= "none"

\* A step of a client moves that client only, and never back to "none".
LEMMA ClientMoves ==
  ASSUME TypeOK, WriteInv, NEW c \in Clients, Client(c)
  PROVE  /\ UNCHANGED <<starts, cancelled>>
         /\ at[c] /= "none" /\ at'[c] /= "none"
         /\ \A d \in Clients : d /= c =>
              at'[d] = at[d] /\ left'[d] = left[d] /\ next'[d] = next[d]
<1> USE DEF TypeOK, controller, Places
<1>1. ASSUME NEW from \in Places \ {"none"}, NEW to \in Places \ {"none"}, Step(c, from, to)
      PROVE  /\ UNCHANGED <<starts, cancelled>>
             /\ at[c] /= "none" /\ at'[c] /= "none"
             /\ \A d \in Clients : d /= c => at'[d] = at[d]
  BY <1>1 DEF Step
<1>2. ASSUME NEW from \in Places \ {"none"}, Panic(c, from)
      PROVE  UNCHANGED <<starts, cancelled, at, left, next>> /\ at[c] /= "none"
  BY <1>2 DEF Panic
<1>3. ASSUME NEW from \in Places \ {"none"}, NEW k, NEW to, applyLease(c, from, k, to)
      PROVE  /\ Step(c, from, "apply")
             /\ \A d \in Clients : d /= c => left'[d] = left[d] /\ next'[d] = next[d]
  BY <1>3 DEF applyLease
<1>4. CASE Open(c)
  BY <1>1, <1>2, <1>4 DEF Open
<1>5. CASE Request(c)
  BY <1>1, <1>3, <1>5 DEF Request, RequestFails
<1>6. CASE Write(c)
  <2>1. left \in [Clients -> SUBSET Nat]
    BY DEF WriteInv
  <2>2. \A d \in Clients : d /= c => left'[d] = left[d]
    BY <1>6, <2>1 DEF Write
  <2> QED BY <1>6, <2>2 DEF Write
<1>7. CASE Applied(c)
  BY <1>7 DEF Applied
<1>8. CASE Select(c)
  BY <1>1, <1>3, <1>8 DEF Select
<1>9. CASE Renew(c)
  BY <1>1, <1>2, <1>3, <1>9 DEF Renew
<1> QED BY <1>4, <1>5, <1>6, <1>7, <1>8, <1>9 DEF Client

\* Only Client(c) and the start of c move client c.
LEMMA OthersLeave ==
  ASSUME TypeOK, WriteInv, Next, NEW c \in Clients, c[2] <= starts[c[1]], ~Client(c)
  PROVE  at'[c] = at[c] /\ left'[c] = left[c] /\ next'[c] = next[c]
<1> USE DEF controller, clients
<1>1. ASSUME NEW l \in Links, StartClient(l)
      PROVE  at'[c] = at[c] /\ left'[c] = left[c] /\ next'[c] = next[c]
  <2>1. starts'[l] = starts[l] + 1 /\ starts[l] \in Nat
    BY <1>1 DEF StartClient, TypeOK
  <2>2. c /= <<l, starts'[l]>>
    <3> SUFFICES ASSUME c = <<l, starts'[l]>> PROVE FALSE
      OBVIOUS
    <3>1. c[1] = l /\ c[2] = starts'[l]
      OBVIOUS
    <3>2. c[2] = starts[l] + 1 /\ c[2] <= starts[l]
      BY <2>1, <3>1
    <3> QED BY <2>1, <3>2
  <2> QED BY <1>1, <2>2 DEF StartClient, TypeOK
<1>2. ASSUME NEW d \in Clients, Client(d)
      PROVE  at'[c] = at[c] /\ left'[c] = left[c] /\ next'[c] = next[c]
  <2>1. c /= d
    BY <1>2
  <2> QED BY <1>2, <2>1, ClientMoves
<1>3. CASE \E l \in Links : SyncLink(l) \/ DestroyStatus(l)
  BY <1>3 DEF SyncLink, DestroyStatus
<1>4. CASE ListLinks \/ EndPass \/ ReconcileFails
  BY <1>4 DEF ListLinks, EndPass, ReconcileFails
<1>5. CASE Reconcile \/ Restart \/ AllStarted \/ Joined \/ AllStopped \/ \E l \in Links : Cancel(l)
  BY <1>5 DEF Reconcile, Restart, AllStarted, Joined, AllStopped, Cancel
<1> QED BY <1>1, <1>2, <1>3, <1>4, <1>5 DEF Next, Controller

\* StartedInv is an invariant, for any links and number of passes.
THEOREM StartedCorrect == Spec => []StartedInv
<1>1. Init => StartedInv
  <2> SUFFICES ASSUME Init PROVE StartedInv
    OBVIOUS
  <2>1. ASSUME NEW c \in Clients PROVE ~(c[2] <= starts[c[1]])
    BY DHCPAssumption DEF Init, Clients
  <2> QED BY <2>1 DEF Init, StartedInv
<1>2. TypeOK /\ TypeOK' /\ WriteInv /\ StartedInv /\ [Next]_vars => StartedInv'
  <2> SUFFICES ASSUME TypeOK, TypeOK', WriteInv, StartedInv, [Next]_vars PROVE StartedInv'
    OBVIOUS
  <2> USE DEF controller, clients
  <2>1. ASSUME UNCHANGED <<starts, cancelled, at>> PROVE StartedInv'
    BY <2>1 DEF StartedInv
  <2>2. ASSUME NEW l \in Links, StartClient(l) PROVE StartedInv'
    <3>1. /\ starts' = [starts EXCEPT ![l] = @ + 1] /\ UNCHANGED cancelled
          /\ at' = [at EXCEPT ![<<l, starts'[l]>>] = "open"]
      BY <2>2 DEF StartClient
    <3>2. \A m \in Links : starts[m] \in Nat /\ starts'[m] = IF m = l THEN starts[m] + 1 ELSE starts[m]
      BY <3>1 DEF TypeOK
    <3>3. \A c \in Clients : c[1] \in Links /\ c[2] \in Nat /\ c = <<c[1], c[2]>>
      BY DEF Clients
    <3>4. ASSUME NEW c \in cancelled PROVE c[2] <= starts'[c[1]]
      BY <3>2, <3>3 DEF StartedInv, TypeOK
    <3>5. ASSUME NEW c \in Clients, c[2] <= starts'[c[1]] PROVE at'[c] /= "none"
      <4>1. CASE c = <<l, starts'[l]>>
        BY <3>1, <4>1 DEF TypeOK
      <4>2. CASE c /= <<l, starts'[l]>>
        <5>1. c[2] <= starts[c[1]]
          BY <3>2, <3>3, <3>5, <4>2
        <5>2. at'[c] = at[c]
          BY <3>1, <4>2 DEF TypeOK
        <5> QED BY <5>1, <5>2 DEF StartedInv
      <4> QED BY <4>1, <4>2
    <3> QED BY <3>1, <3>4, <3>5 DEF StartedInv
  <2>3. ASSUME NEW c \in Clients, Client(c) PROVE StartedInv'
    BY <2>3, ClientMoves DEF StartedInv
  <2>4. ASSUME NEW l \in Links, Cancel(l) PROVE StartedInv'
    <3>1. /\ UNCHANGED <<starts, at>> /\ cancelled' = cancelled \cup {<<l, state[l]>>}
          /\ state[l] /= 0
      BY <2>4 DEF Cancel, Undesired
    <3>2. state[l] = starts[l] /\ starts[l] \in Nat
      BY <3>1 DEF TypeOK
    <3>3. \A c \in cancelled' : c[2] <= starts[c[1]]
      BY <3>1, <3>2 DEF StartedInv
    <3> QED BY <3>1, <3>3 DEF StartedInv
  <2>5. CASE \E l \in Links : SyncLink(l) \/ DestroyStatus(l)
    BY <2>1, <2>5 DEF SyncLink, DestroyStatus
  <2>6. CASE ListLinks \/ EndPass \/ ReconcileFails
    BY <2>1, <2>6 DEF ListLinks, EndPass, ReconcileFails
  <2>7. CASE Reconcile \/ Restart \/ AllStarted \/ Joined \/ AllStopped
    BY <2>1, <2>7 DEF Reconcile, Restart, AllStarted, Joined, AllStopped
  <2>8. CASE UNCHANGED vars
    BY <2>1, <2>8 DEF vars
  <2> QED BY <2>2, <2>3, <2>4, <2>5, <2>6, <2>7, <2>8 DEF Next, Controller
<1> QED BY <1>1, <1>2, DHCP4TypeCorrect, WritesCorrect, PTL DEF Spec

\* How many steps a client can make after its ctx is done.
Distance(c) ==
  CASE at[c] = "open" -> 10 [] at[c] = "request" -> 9
    [] at[c] = "apply" /\ next[c] = "select" -> IF left[c] = {} THEN 7 ELSE 8
    [] at[c] = "select" -> 6 [] at[c] = "renew" -> 5
    [] at[c] = "apply" /\ next[c] /= "select" -> IF left[c] = {} THEN 3 ELSE 4
    [] OTHER -> 0

\* The measure, place by place, now and after a step.
LEMMA DistanceOf ==
  ASSUME NEW c
  PROVE  /\ at[c] = "open" => Distance(c) = 10
         /\ at[c] = "request" => Distance(c) = 9
         /\ at[c] = "apply" /\ next[c] = "select" =>
              Distance(c) = IF left[c] = {} THEN 7 ELSE 8
         /\ at[c] = "select" => Distance(c) = 6
         /\ at[c] = "renew" => Distance(c) = 5
         /\ at[c] = "apply" /\ next[c] /= "select" =>
              Distance(c) = IF left[c] = {} THEN 3 ELSE 4
         /\ at[c] \in {"none", "spin", "done"} => Distance(c) = 0
BY DEF Distance

LEMMA DistanceAfter ==
  ASSUME NEW CONSTANT c
  PROVE  /\ at'[c] = "open" => Distance(c)' = 10
         /\ at'[c] = "request" => Distance(c)' = 9
         /\ at'[c] = "apply" /\ next'[c] = "select" =>
              Distance(c)' = IF left'[c] = {} THEN 7 ELSE 8
         /\ at'[c] = "select" => Distance(c)' = 6
         /\ at'[c] = "renew" => Distance(c)' = 5
         /\ at'[c] = "apply" /\ next'[c] /= "select" =>
              Distance(c)' = IF left'[c] = {} THEN 3 ELSE 4
         /\ at'[c] \in {"none", "spin", "done"} => Distance(c)' = 0
BY DEF Distance

\* A client that is told to stop makes at most ten more steps, whatever it was
\* doing, and then is done, unless it has renewed its lease and loops for ever
\* or has crashed the machine: the wait for its channel has no other way to be
\* long.
THEOREM StoppedClientEnds ==
  Spec => /\ [](\A c \in cancelled : Distance(c) = 0 => at[c] \in {"done", "spin"})
          /\ [][\A c \in cancelled :
                  /\ Distance(c)' \in 0 .. Distance(c)
                  /\ Client(c) /\ ~crashed' => Distance(c)' < Distance(c)]_vars
<1>1. TypeOK /\ StartedInv =>
        \A c \in cancelled : Distance(c) = 0 => at[c] \in {"done", "spin"}
  <2> SUFFICES ASSUME TypeOK, StartedInv, NEW c \in cancelled, Distance(c) = 0
               PROVE  at[c] \in {"done", "spin"}
    OBVIOUS
  <2>1. c \in Clients /\ at[c] \in Places \ {"none"}
    BY DEF TypeOK, StartedInv
  <2> QED BY <2>1 DEF Distance, Places
<1>2. ASSUME TypeOK, TypeOK', WriteInv, StartedInv, Next, NEW c \in cancelled
      PROVE  /\ Distance(c)' \in 0 .. Distance(c)
             /\ Client(c) /\ ~crashed' => Distance(c)' < Distance(c)
  <2>1. c \in Clients /\ c[2] <= starts[c[1]] /\ Distance(c) \in 0 .. 10 /\ Distance(c)' \in 0 .. 10
    BY <1>2 DEF TypeOK, StartedInv, Distance
  <2>2. ASSUME Client(c) PROVE Distance(c)' < Distance(c) \/ (crashed' /\ Distance(c)' = Distance(c))
    <3>0. /\ at \in [Clients -> Places] /\ c \in Clients /\ c \in cancelled
          /\ next \in [Clients -> {"select", "spin", "done"}]
          /\ left \in [Clients -> SUBSET Nat]
      BY <1>2, <2>1 DEF TypeOK, WriteInv
    <3>1. ASSUME NEW from, Panic(c, from) PROVE crashed' /\ Distance(c)' = Distance(c)
      BY <3>1 DEF Panic, Distance
    <3>2. ASSUME NEW from, NEW k, NEW to, applyLease(c, from, k, to)
          PROVE  at[c] = from /\ at'[c] = "apply" /\ next'[c] = to
      BY <3>0, <3>2 DEF applyLease, Step
    <3>3. ASSUME NEW from, NEW to, Step(c, from, to)
          PROVE  at[c] = from /\ at'[c] = to
      BY <3>0, <3>3 DEF Step
    <3>4. CASE Open(c)
      BY <3>1, <3>3, <3>4, DistanceOf, DistanceAfter DEF Open
    <3>5. CASE Request(c)
      BY <3>2, <3>3, <3>5, DistanceOf, DistanceAfter DEF Request, RequestFails
    <3>6. CASE Write(c)
      <4>1. at[c] = "apply" /\ left[c] /= {} /\ left'[c] = {} /\ UNCHANGED <<at, next>>
        BY <3>0, <3>6 DEF Write
      <4> QED BY <4>1, DistanceOf, DistanceAfter
    <3>7. CASE Applied(c)
      <4>1. /\ at[c] = "apply" /\ at'[c] = next[c]
            /\ next[c] \in {"select", "spin", "done"} /\ left[c] = {}
        BY <3>0, <3>7 DEF Applied
      <4> QED BY <4>1, DistanceOf, DistanceAfter
    <3>8. CASE Select(c)
      BY <3>2, <3>3, <3>8, DistanceOf, DistanceAfter DEF Select
    <3>9. CASE Renew(c)
      BY <3>1, <3>2, <3>9, DistanceOf, DistanceAfter DEF Renew
    <3> QED BY <2>2, <3>4, <3>5, <3>6, <3>7, <3>8, <3>9 DEF Client
  <2>3. ASSUME ~Client(c) PROVE Distance(c)' = Distance(c)
    BY <1>2, <2>1, <2>3, OthersLeave DEF Distance
  <2> QED BY <2>1, <2>2, <2>3
<1>3. TypeOK /\ TypeOK' /\ WriteInv /\ StartedInv /\ [Next]_vars =>
        [\A c \in cancelled :
           /\ Distance(c)' \in 0 .. Distance(c)
           /\ Client(c) /\ ~crashed' => Distance(c)' < Distance(c)]_vars
  BY <1>2
<1> QED BY <1>1, <1>3, DHCP4TypeCorrect, WritesCorrect, StartedCorrect, PTL DEF Spec
=============================================================================
