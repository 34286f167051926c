------------------------------- MODULE DHCP4 -------------------------------
(***************************************************************************)
(* LinkStatusController (link_status.go) publishes the kernel's links as   *)
(* LinkStatus resources; DHCP4Controller (dhcp4.go) keeps a client         *)
(* goroutine for every physical one, and the clients write what they lease *)
(* as AddressSpec, RouteSpec and ResolverSpec resources.                   *)
(*                                                                         *)
(* A client is <<link, n>>, the n-th started for the link.  It is          *)
(*   "open"     about to open its socket   "request"  asking for a lease   *)
(*   "apply"    in applyLease, with the writes left, and then next         *)
(*   "select"   waiting for ctx or T1      "renew"    in Renew             *)
(*   "spin"     looping with ack /= nil, which does nothing, for ever      *)
(*   "done"     returned, its channel done is closed                       *)
(***************************************************************************)
EXTENDS Integers, Sequences

CONSTANTS Links,        \* names of links
          Physical,     \* those of type ether
          Leases,       \* what a DHCP server may grant
          Routers,      \* per lease: its sequence of routers
          Outside,      \* per lease: the routers outside its network
          Resolving,    \* leases with name servers or search domains
          Nobody,       \* a resource that does not exist
          MaxPasses     \* bound on passes of the LinkStatusController

ASSUME DHCPAssumption ==
  /\ Physical \subseteq Links /\ Resolving \subseteq Leases
  /\ Nobody \notin Links \cup Leases
  /\ \A k \in Leases : /\ Len(Routers[k]) \in Nat
                       /\ DOMAIN Routers[k] = 1 .. Len(Routers[k])
  /\ MaxPasses \in Nat \ {0}

VARIABLES lpc, toSync, itemsToDelete, passes,   \* LinkStatusController
          status,              \* the LinkStatus resources
          event,               \* DHCP4Controller's EventCh holds a token
          pc, desired, toStart, cur,            \* its reconcile
          state,               \* per link: the client in its map, or 0
          starts,              \* per link: clients started
          at, lease, left, next, cancelled,     \* per client
          store,               \* the resources written by clients
          spoiled,             \* clients a write of their lease failed for
          crashed              \* a goroutine panicked, and with it PID 1

linkStatus == <<lpc, toSync, itemsToDelete, passes, status>>
controller == <<pc, desired, toStart, cur, state, starts>>
clients    == <<at, lease, left, next, store, spoiled, crashed>>
vars == <<linkStatus, event, controller, cancelled, clients>>

Clients == Links \X (1 .. MaxPasses)
Places  == {"none", "open", "request", "apply", "select", "renew", "spin",
            "done"}

-----------------------------------------------------------------------------
(* The resources of a lease, numbered in the order they are written: the   *)
(* address is 0, router n has 2n - 1 and 2n, and the resolver comes last.  *)
(* The ID of a RouteSpec has the gateway and the destination, but not the  *)
(* link.                                                                   *)

\* One ID for the address of every link.
AddressIDShared(l) == <<"address">>

AddressID(l) == <<"address", l>>
RouteID(gateway, destination) == <<"route", gateway, destination>>
ResolverID == <<"resolver">>

\* A router outside the network gets a route of its own.
RoutesOf(k) ==
  {2 * n - 1 : n \in DOMAIN Routers[k]}
    \cup {2 * n : n \in {m \in DOMAIN Routers[k] : Routers[k][m] \in Outside[k]}}

Writes(k) ==
  {0} \cup RoutesOf(k)
      \cup (IF k \in Resolving THEN {2 * Len(Routers[k]) + 1} ELSE {})

\* What write i of lease k writes for link l.
WriteID(l, k, i) ==
  CASE i = 0 -> AddressID(l)
    [] i > 2 * Len(Routers[k]) -> ResolverID
    [] OTHER -> LET gw == Routers[k][(i + 1) \div 2]
                IN  IF i % 2 = 1 THEN RouteID(gw, "default")
                                 ELSE RouteID("none", gw)

IDs ==
  UNION {{WriteID(w[1], w[2], i) : i \in Writes(w[2])} : w \in Physical \X Leases}

\* The writes left of lease k: all that come after those made.
IsRest(s, k) ==
  s \subseteq Writes(k) /\ \A i \in s, j \in Writes(k) : i < j => j \in s

TypeOK ==
  /\ status \subseteq Links
  /\ lpc \in {"wait", "pass"} /\ toSync \subseteq Links
  /\ itemsToDelete \subseteq status /\ passes \in 0 .. MaxPasses
  /\ event \in BOOLEAN /\ crashed \in BOOLEAN
  /\ pc \in {"wait", "start", "stop", "join", "down"}
  /\ desired \subseteq Links /\ toStart \subseteq desired \cap Physical
  /\ cur \in Links \cup {Nobody} /\ (pc = "join" => state[cur] /= 0)
  /\ starts \in [Links -> 0 .. MaxPasses]
  /\ \A l \in Links : state[l] \in {0, starts[l]}
  /\ at \in [Clients -> Places]
  /\ lease \in [Clients -> Leases \cup {Nobody}]
  /\ next \in [Clients -> {"select", "spin", "done"}]
  /\ \A c \in Clients : IF at[c] = "apply" THEN IsRest(left[c], lease[c])
                                           ELSE left[c] = {}
  /\ cancelled \subseteq Clients /\ spoiled \subseteq Clients
  /\ store \in [IDs -> (Clients \X Leases) \cup {Nobody}]

Init ==
  /\ status = {}
  /\ lpc = "wait" /\ toSync = {} /\ itemsToDelete = {} /\ passes = 0
  /\ event = TRUE
  /\ pc = "wait" /\ desired = {} /\ toStart = {} /\ cur = Nobody
  /\ state = [l \in Links |-> 0] /\ starts = [l \in Links |-> 0]
  /\ at = [c \in Clients |-> "none"]
  /\ lease = [c \in Clients |-> Nobody]
  /\ left = [c \in Clients |-> {}]
  /\ next = [c \in Clients |-> "select"]
  /\ cancelled = {} /\ spoiled = {} /\ crashed = FALSE
  /\ store = [i \in IDs |-> Nobody]

-----------------------------------------------------------------------------
(* The LinkStatusController.  Devices are ready; it makes a pass when it    *)
(* starts and whenever the runtime restarts it or has a token left for it. *)

\* The kernel lists the links it has: any, for they come and go at will.
ListLinks ==
  /\ lpc = "wait" /\ passes < MaxPasses
  /\ lpc' = "pass" /\ passes' = passes + 1
  /\ itemsToDelete' = status /\ toSync' \in SUBSET Links
  /\ UNCHANGED <<status, event, controller, cancelled, clients>>

\* A link that fails, or has gone, is passed over: its status, if there is
\* one, is deleted.  One whose status stays as it was makes no event.
SyncLink(l) ==
  /\ lpc = "pass" /\ l \in toSync
  /\ toSync' = toSync \ {l}
  /\ \/ /\ status' = status \cup {l} /\ itemsToDelete' = itemsToDelete \ {l}
        /\ event' \in IF l \in status THEN {event, TRUE} ELSE {TRUE}
     \/ UNCHANGED <<status, itemsToDelete, event>>
  /\ UNCHANGED <<lpc, passes, controller, cancelled, clients>>

DestroyStatus(l) ==
  /\ lpc = "pass" /\ toSync = {} /\ l \in itemsToDelete
  /\ itemsToDelete' = itemsToDelete \ {l}
  /\ status' = status \ {l} /\ event' = TRUE
  /\ UNCHANGED <<lpc, toSync, passes, controller, cancelled, clients>>

\* The end of a pass, or an error, after which the runtime restarts Run.
EndPass ==
  /\ lpc = "pass"
  /\ lpc' = "wait" /\ toSync' = {} /\ itemsToDelete' = {}
  /\ UNCHANGED <<passes, status, event, controller, cancelled, clients>>

-----------------------------------------------------------------------------
(* DHCP4Controller.                                                        *)

wantsDHCP(l) == l \in Physical

\* Starting a client for a link that has one.
ToStartAll == {l \in status : wantsDHCP(l)}

ToStart == {l \in status : state[l] = 0 /\ wantsDHCP(l)}

Reconcile ==
  /\ pc = "wait" /\ event
  /\ event' = FALSE
  /\ pc' = "start" /\ desired' = status /\ toStart' = ToStart
  /\ UNCHANGED <<linkStatus, cur, state, starts, cancelled, clients>>

\* The list fails: Run returns and is restarted.
ReconcileFails ==
  /\ pc = "wait" /\ event
  /\ event' = FALSE /\ pc' = "down"
  /\ UNCHANGED <<linkStatus, desired, toStart, cur, state, starts,
                 cancelled, clients>>

Restart ==
  /\ pc = "down"
  /\ event' = TRUE /\ pc' = "wait"
  /\ UNCHANGED <<linkStatus, desired, toStart, cur, state, starts,
                 cancelled, clients>>

StartClient(l) ==
  /\ pc = "start" /\ l \in toStart
  /\ toStart' = toStart \ {l}
  /\ starts' = [starts EXCEPT ![l] = @ + 1]
  /\ state' = [state EXCEPT ![l] = starts'[l]]
  /\ at' = [at EXCEPT ![<<l, starts'[l]>>] = "open"]
  /\ UNCHANGED <<linkStatus, event, pc, desired, cur, cancelled, lease,
                 left, next, store, spoiled, crashed>>

AllStarted ==
  /\ pc = "start" /\ toStart = {}
  /\ pc' = "stop"
  /\ UNCHANGED <<linkStatus, event, desired, toStart, cur, state, starts,
                 cancelled, clients>>

Undesired == {l \in Links : state[l] /= 0 /\ l \notin desired}

\* Cancelling and leaving it at that.
CancelAndForget(l) ==
  /\ pc = "stop" /\ l \in Undesired
  /\ cancelled' = cancelled \cup {<<l, state[l]>>}
  /\ state' = [state EXCEPT ![l] = 0]
  /\ UNCHANGED <<linkStatus, event, pc, desired, toStart, cur, starts,
                 clients>>

Cancel(l) ==
  /\ pc = "stop" /\ l \in Undesired
  /\ pc' = "join" /\ cur' = l
  /\ cancelled' = cancelled \cup {<<l, state[l]>>}
  /\ UNCHANGED <<linkStatus, event, desired, toStart, state, starts,
                 clients>>

Joined ==
  /\ pc = "join" /\ at[<<cur, state[cur]>>] = "done"
  /\ pc' = "stop" /\ cur' = Nobody
  /\ state' = [state EXCEPT ![cur] = 0]
  /\ UNCHANGED <<linkStatus, event, desired, toStart, starts, cancelled,
                 clients>>

\* Clearing the token at the end of the pass.
AllStoppedAndSeen ==
  /\ pc = "stop" /\ Undesired = {}
  /\ pc' = "wait" /\ desired' = {} /\ event' = FALSE
  /\ UNCHANGED <<linkStatus, toStart, cur, state, starts,
                 cancelled, clients>>

AllStopped ==
  /\ pc = "stop" /\ Undesired = {}
  /\ pc' = "wait" /\ desired' = {}
  /\ UNCHANGED <<linkStatus, event, toStart, cur, state, starts,
                 cancelled, clients>>

Controller ==
  \/ Reconcile \/ Restart \/ AllStarted \/ Joined \/ AllStopped
  \/ \E l \in Links : StartClient(l) \/ Cancel(l)

-----------------------------------------------------------------------------
(* A client, runDHCP.                                                      *)

\* A step of client c that writes no resource.
Step(c, from, to) ==
  /\ at[c] = from /\ at' = [at EXCEPT ![c] = to]
  /\ UNCHANGED <<linkStatus, event, controller, cancelled,
                 store, spoiled>>

\* Nothing recovers a panic of a goroutine: PID 1 dies, and nothing happens
\* any more.
Panic(c, from) ==
  /\ at[c] = from /\ crashed' = TRUE
  /\ UNCHANGED <<linkStatus, event, controller, cancelled,
                 at, lease, left, next, store, spoiled>>

\* nclient4.New: a failure, such as a link that has gone, leaves client nil,
\* and the deferred Close panics.
Open(c) ==
  \/ /\ Step(c, "open", "request")
     /\ UNCHANGED <<lease, left, next, crashed>>
  \/ Panic(c, "open")

\* Applies lease k, and goes to place to afterwards.
applyLease(c, from, k, to) ==
  /\ Step(c, from, "apply")
  /\ lease' = [lease EXCEPT ![c] = k]
  /\ left' = [left EXCEPT ![c] = Writes(k)]
  /\ next' = [next EXCEPT ![c] = to]
  /\ UNCHANGED crashed

\* Returning without closing done.
RequestFailsUnsaid(c) ==
  /\ Step(c, "request", "none") /\ UNCHANGED <<lease, left, next, crashed>>

\* No offer in time, a refusal, or ctx cancelled.
RequestFails(c) ==
  /\ Step(c, "request", "done") /\ UNCHANGED <<lease, left, next, crashed>>

Request(c) ==
  \/ \E k \in Leases : applyLease(c, "request", k, "select")
  \/ RequestFails(c)

\* With ctx done every write fails.  The error ends applyLease, and is
\* ignored.
Write(c) ==
  /\ at[c] = "apply" /\ left[c] /= {}
  /\ \/ \E i \in left[c] :
          /\ c \notin cancelled /\ \A j \in left[c] : i <= j
          /\ store' = [store EXCEPT ![WriteID(c[1], lease[c], i)] = <<c, lease[c]>>]
          /\ left' = [left EXCEPT ![c] = @ \ {i}]
          /\ UNCHANGED spoiled
     \/ /\ left' = [left EXCEPT ![c] = {}]
        /\ spoiled' = spoiled \cup {c}
        /\ UNCHANGED store
  /\ UNCHANGED <<linkStatus, event, controller, cancelled,
                 at, lease, next, crashed>>

\* A client that has returned, or spins, never looks at its lease again.
Applied(c) ==
  /\ at[c] = "apply" /\ left[c] = {}
  /\ at' = [at EXCEPT ![c] = next[c]]
  /\ next' = [next EXCEPT ![c] = "select"]
  /\ IF next[c] = "select"
       THEN UNCHANGED <<lease, spoiled>>
       ELSE lease' = [lease EXCEPT ![c] = Nobody] /\ spoiled' = spoiled \ {c}
  /\ UNCHANGED <<linkStatus, event, controller, cancelled, left, store, crashed>>

\* Both may be ready: ctx, which applies the lease again, and T1.
Select(c) ==
  \/ c \in cancelled /\ applyLease(c, "select", lease[c], "done")
  \/ Step(c, "select", "renew") /\ UNCHANGED <<lease, left, next, crashed>>

\* A renewed lease leaves ack set, so that the loop does nothing any more.
\* Renew returns a nil lease with an error (also that of ctx), whose Offer
\* is wanted for the rebind.
Renew(c) ==
  \/ \E k \in Leases : applyLease(c, "renew", k, "spin")
  \/ Panic(c, "renew")

Client(c) ==
  Open(c) \/ Request(c) \/ Write(c) \/ Applied(c) \/ Select(c) \/ Renew(c)

Next ==
  /\ ~crashed
  /\ \/ \E l \in Links : SyncLink(l) \/ DestroyStatus(l)
     \/ ListLinks \/ EndPass
     \/ Controller \/ ReconcileFails
     \/ \E c \in Clients : Client(c)

Spec == Init /\ [][Next]_vars

\* Goroutines run; calls of the DHCP library return, as they have timeouts,
\* and so do the timers.
FairSpec ==
  /\ Spec
  /\ WF_vars(~crashed /\ Controller)
  /\ \A c \in Clients : WF_vars(~crashed /\ Client(c))

-----------------------------------------------------------------------------
(* Properties.                                                             *)

\* Two clients of a link never run at once, not even while one of them is
\* being stopped: a client that lives is the one in the controller's map.
OneClientPerLink ==
  \A c \in Clients : at[c] \notin {"none", "done"} => state[c[1]] = c[2]

\* When the controller rests, its map has exactly the physical links with a
\* status, however statuses came and went during its passes.
MapFollowsStatuses ==
  pc = "wait" /\ ~event => {l \in Links : state[l] /= 0} = status \cap Physical

\* A client that waits for T1 has its own lease in the AddressSpec of its
\* link, unless one of its writes failed: no other link's client, and none of
\* the same link that was stopped, has written over it.
AddressFollowsLease ==
  \A c \in Clients :
    at[c] = "select" /\ c \notin spoiled =>
      store[AddressID(c[1])] = <<c, lease[c]>>

\* Stopping a client comes to an end, whatever it was doing: only one that
\* has renewed its lease, or crashes the machine, keeps the controller waiting.
StopReturns ==
  pc = "join" ~> \/ pc /= "join" \/ crashed
                 \/ at[<<cur, state[cur]>>] = "spin"
=============================================================================
