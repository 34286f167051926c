--------------------------- MODULE SpecController ---------------------------
(***************************************************************************)
(* AddressSpecController and RouteSpecController (address_spec.go,         *)
(* route_spec.go): a pass lists the specs, puts its finalizer on the live  *)
(* ones, lists the kernel's links and its addresses or routes, and then    *)
(* brings the kernel in line with one spec after the other, always by the  *)
(* lists it made.  Meanwhile leases change specs, API clients tear them    *)
(* down and links come and go.                                             *)
(*                                                                         *)
(* The content of a spec is the entry it wants in the kernel's table:      *)
(*   link   the link's name        key   address, or destination of a route *)
(*   via    gateway of a route     val   everything else that is compared  *)
(* The controller is                                                       *)
(*   "wait"      in its select                                             *)
(*   "finalize"  adding finalizers to todo                                 *)
(*   "table"     has listed the links, about to list the table             *)
(*   "sync"      between two specs of todo                                 *)
(*   "add", "keep", "remove"   at spec cur: deleting the entries doomed,   *)
(*               then adding an entry, nothing, or removing the finalizer  *)
(*   "down"      Run returned an error, to be restarted by the runtime     *)
(***************************************************************************)
EXTENDS Integers, FiniteSets

CONSTANTS Specs,       \* resource IDs
          Links,       \* names of links
          Addresses,   \* per ID: the entries it may ask for as AddressSpec
          Routes,      \* per ID: the same as RouteSpec
          Foreign,     \* entries somebody else has put into the kernel
          Nothing,     \* no spec, no entry
          MaxChanges,  \* bound on changes of specs and links
          MaxFaults    \* bound on calls that fail for no reason of their own

Kinds == {"address", "route"}

Contents(k) == IF k = "address" THEN Addresses ELSE Routes

\* The entries there may be of a kind.
Table(k) == Foreign[k] \cup (UNION {Contents(k)[s] : s \in Specs})

Entries == Table("address") \cup Table("route")

\* Addresses have no gateway.  Destination and gateway are in the ID of a
\* RouteSpec, so those of two specs differ.
ASSUME SpecAssumption ==
  /\ \A k \in Kinds, s \in Specs : Contents(k)[s] /= {}
  /\ \A e \in Entries :
       /\ e = [link |-> e.link, key |-> e.key, via |-> e.via, val |-> e.val]
       /\ e.link \in Links
  /\ Nothing \notin Entries
  /\ \A e, f \in Table("address") : e.via = f.via
  /\ \A s, t \in Specs : s /= t =>
       \A e \in Routes[s], f \in Routes[t] : <<e.key, e.via>> /= <<f.key, f.via>>
  /\ MaxChanges \in Nat /\ MaxFaults \in Nat

VARIABLES kind,       \* which of the two controllers
          spec,       \* per ID: phase, our finalizer, content
          links,      \* the links of the kernel
          kernel,     \* its addresses, or routes
          event,      \* EventCh holds a token
          pc, list, todo, cur, doomed,
          linksSeen, tableSeen, \* what the pass has listed
          steady,     \* links with the index they had when last listed
          late,       \* entries of others added since the start (history)
          changes, faults

local == <<pc, list, todo, cur, doomed, linksSeen, tableSeen>>
count == <<changes, faults>>
vars  == <<kind, spec, links, kernel, event, local, steady, late, count>>

Absent == [phase |-> "absent", fin |-> FALSE, want |-> Nothing]
NoList == [s \in Specs |-> Absent]

TypeOK ==
  /\ kind \in Kinds
  /\ \A s \in Specs :
       \/ spec[s] = Absent
       \/ /\ spec[s].phase \in {"running", "tearingDown"}
          /\ spec[s].fin \in BOOLEAN /\ spec[s].want \in Contents(kind)[s]
  /\ links \subseteq Links /\ steady \subseteq links
  /\ linksSeen \subseteq Links
  /\ \A e \in kernel : e \in Entries /\ e.link \in links
  /\ tableSeen \subseteq Entries /\ doomed \subseteq tableSeen
  /\ event \in BOOLEAN /\ todo \subseteq Specs /\ cur \in Specs \cup {Nothing}
  /\ pc \in {"wait", "finalize", "table", "sync", "add", "keep", "remove",
             "down"}
  /\ DOMAIN list = Specs /\ late \subseteq Foreign[kind]
  /\ changes \in 0 .. MaxChanges /\ faults \in 0 .. MaxFaults

Init ==
  /\ kind \in Kinds
  /\ spec = NoList
  /\ links = Links /\ steady = {} /\ late = {}
  /\ kernel = Foreign[kind]
  /\ event = TRUE /\ pc = "wait"
  /\ list = NoList /\ todo = {} /\ cur = Nothing /\ doomed = {}
  /\ linksSeen = {} /\ tableSeen = {}
  /\ changes = 0 /\ faults = 0

-----------------------------------------------------------------------------
(* The world outside: every change of a resource wakes the controller, a   *)
(* change of links does not.                                               *)

Change ==
  /\ changes < MaxChanges /\ changes' = changes + 1
  /\ UNCHANGED <<kind, local, faults>>

Write(s, r) ==
  /\ Change /\ spec' = [spec EXCEPT ![s] = r] /\ event' = TRUE
  /\ UNCHANGED <<links, kernel, steady, late>>

Create(s, e) ==
  /\ spec[s] = Absent
  /\ Write(s, [phase |-> "running", fin |-> FALSE, want |-> e])

\* WriterModify of a resource that exists; a RouteSpec's ID holds its
\* destination and gateway.
Modify(s, e) ==
  /\ spec[s].phase = "running" /\ e /= spec[s].want
  /\ kind = "route" => <<e.key, e.via>> = <<spec[s].want.key, spec[s].want.via>>
  /\ Write(s, [spec[s] EXCEPT !.want = e])

Teardown(s) ==
  /\ spec[s].phase = "running"
  /\ Write(s, [spec[s] EXCEPT !.phase = "tearingDown"])

\* Refused while there is a finalizer.
Destroy(s) == spec[s] /= Absent /\ ~spec[s].fin /\ Write(s, Absent)

\* The kernel drops what belongs to a link that goes; one that comes has a
\* new index.
LinkGoes(l) ==
  /\ Change /\ l \in links
  /\ links' = links \ {l} /\ steady' = steady \ {l}
  /\ kernel' = {e \in kernel : e.link /= l}
  /\ UNCHANGED <<spec, event, late>>

LinkComes(l) ==
  /\ Change /\ l \notin links
  /\ links' = links \cup {l}
  /\ UNCHANGED <<spec, event, kernel, steady, late>>

\* The kernel refuses e (EEXIST) while it has f: the same address on the
\* same link, or any route to the same destination with the same priority.
Blocks(f, e) == e.key = f.key /\ (kind = "address" => e.link = f.link)

\* Somebody else adds an entry, perhaps in the middle of a replacement.
Intrude(e) ==
  /\ Change /\ e.link \in links /\ \A f \in kernel : ~Blocks(f, e)
  /\ kernel' = kernel \cup {e} /\ late' = late \cup {e}
  /\ UNCHANGED <<spec, event, links, steady>>

Environment ==
  \/ \E s \in Specs :
       \/ \E e \in Contents(kind)[s] : Create(s, e) \/ Modify(s, e)
       \/ Teardown(s) \/ Destroy(s)
  \/ \E l \in Links : LinkGoes(l) \/ LinkComes(l)
  \/ \E e \in Foreign[kind] : Intrude(e)

-----------------------------------------------------------------------------
(* What the kernel's entries have to do with a spec.                       *)

\* Addresses looked up by prefix alone.
MatchesAnyLink(e, f) ==
  e.key = f.key /\ (kind = "route" => e.via = f.via)

\* findAddress, findMatchingRoutes: routes are looked up whatever their link.
Matches(e, f) ==
  /\ e.key = f.key
  /\ IF kind = "address" THEN e.link = f.link ELSE e.via = f.via

\* Taking any entry that matches.
ExactByMatch(e, f) == TRUE

\* An entry that matches is as it should be.
Exact(e, f) == e.val = f.val /\ (kind = "route" => e.link = f.link)

-----------------------------------------------------------------------------
(* A pass.                                                                 *)

Leave(to) ==
  /\ pc' = to
  /\ list' = NoList /\ todo' = {} /\ cur' = Nothing /\ doomed' = {}
  /\ linksSeen' = {} /\ tableSeen' = {}

Fail == Leave("down") /\ UNCHANGED <<kind, spec, links, kernel, event, steady, late>>

\* Forgetting to hold what is about to be set up.
ToFinalizeNone == {}

ToFinalize == {s \in Specs : spec[s].phase = "running"}

Reconcile ==
  /\ pc = "wait" /\ event
  /\ event' = FALSE /\ pc' = "finalize"
  /\ list' = spec /\ todo' = ToFinalize
  /\ UNCHANGED <<kind, spec, links, kernel, cur, doomed, linksSeen, tableSeen,
                 steady, late, count>>

\* Writing the resource although it has the finalizer already.
AddFinalizerAlways(s) ==
  /\ pc = "finalize" /\ s \in todo /\ UNCHANGED count
  /\ IF spec[s] = Absent
       THEN Fail
       ELSE /\ spec' = [spec EXCEPT ![s].fin = TRUE] /\ event' = TRUE
            /\ todo' = todo \ {s}
            /\ UNCHANGED <<kind, links, kernel, pc, list, cur, doomed,
                           linksSeen, tableSeen, steady, late>>

\* The spec may have been torn down since, which does not matter, or be gone.
AddFinalizer(s) ==
  /\ pc = "finalize" /\ s \in todo /\ UNCHANGED count
  /\ IF spec[s] = Absent
       THEN Fail
       ELSE /\ spec' = [spec EXCEPT ![s].fin = TRUE]
            /\ event' = (event \/ ~spec[s].fin)
            /\ todo' = todo \ {s}
            /\ UNCHANGED <<kind, links, kernel, pc, list, cur, doomed,
                           linksSeen, tableSeen, steady, late>>

ListLinks ==
  /\ pc = "finalize" /\ todo = {}
  /\ pc' = "table" /\ linksSeen' = links /\ steady' = links
  /\ UNCHANGED <<kind, spec, links, kernel, event, list, todo, cur, doomed,
                 tableSeen, late, count>>

ListTable ==
  /\ pc = "table"
  /\ pc' = "sync" /\ tableSeen' = kernel
  /\ todo' = {s \in Specs : list[s] /= Absent}
  /\ UNCHANGED <<kind, spec, links, kernel, event, list, cur, doomed,
                 linksSeen, steady, late, count>>

Found(s) == {f \in tableSeen : Matches(list[s].want, f)}

\* Removing the finalizer of a route at once too.
TornDownNothing(s) == {}

\* An AddressSpec that is torn down has nothing deleted: with its link there
\* the finalizer is removed at once, and without it no address has index 0.
TornDown(s) == IF kind = "route" THEN Found(s) ELSE {}

Sync(s) ==
  LET exact == {f \in Found(s) : Exact(list[s].want, f)}
      skip  == list[s].want.link \notin linksSeen
  IN  /\ pc = "sync" /\ s \in todo
      /\ cur' = s /\ todo' = todo \ {s}
      /\ IF list[s].phase = "tearingDown"
           THEN pc' = "remove" /\ doomed' = TornDown(s)
           ELSE /\ pc' = IF skip \/ exact /= {} THEN "keep" ELSE "add"
                /\ doomed' = IF skip THEN {} ELSE Found(s) \ exact
      /\ UNCHANGED <<kind, spec, links, kernel, event, list, linksSeen,
                     tableSeen, steady, late, count>>

\* An entry that is there no more cannot be deleted.
Delete(f) ==
  /\ f \in doomed /\ UNCHANGED count
  /\ IF f \notin kernel
       THEN Fail
       ELSE /\ kernel' = kernel \ {f} /\ doomed' = doomed \ {f}
            /\ UNCHANGED <<kind, spec, links, event, pc, list, todo, cur,
                           linksSeen, tableSeen, steady, late>>

SpecDone(to) ==
  /\ pc' = to /\ cur' = Nothing
  /\ UNCHANGED <<kind, links, list, todo, doomed, linksSeen, tableSeen, steady,
                 late>>

\* EEXIST is ignored for an address and an error for a route.
Add ==
  LET e == list[cur].want
  IN  /\ pc = "add" /\ doomed = {} /\ UNCHANGED count
      /\ \/ /\ e.link \in steady /\ \A f \in kernel : ~Blocks(f, e)
            /\ kernel' = kernel \cup {e}
            /\ SpecDone("sync") /\ UNCHANGED <<spec, event>>
         \/ /\ e.link \in steady /\ \E f \in kernel : Blocks(f, e)
            /\ kind = "address"
            /\ SpecDone("sync") /\ UNCHANGED <<spec, event, kernel>>
         \/ /\ \/ e.link \notin steady
               \/ kind = "route" /\ \E f \in kernel : Blocks(f, e)
            /\ Fail

Keep ==
  /\ pc = "keep" /\ doomed = {}
  /\ SpecDone("sync") /\ UNCHANGED <<spec, event, kernel, count>>

\* A spec that is gone is no error.
RemoveFinalizer ==
  /\ pc = "remove" /\ doomed = {}
  /\ spec' = IF spec[cur] = Absent THEN spec
                                   ELSE [spec EXCEPT ![cur].fin = FALSE]
  /\ event' = (event \/ spec[cur].fin)
  /\ SpecDone("sync") /\ UNCHANGED <<kernel, count>>

PassDone ==
  /\ pc = "sync" /\ todo = {}
  /\ Leave("wait")
  /\ UNCHANGED <<kind, spec, links, kernel, event, steady, late, count>>

\* Any call may fail, and ends the pass where it stands.
CallFails ==
  /\ pc \notin {"wait", "down"} /\ faults < MaxFaults
  /\ faults' = faults + 1 /\ Fail /\ UNCHANGED changes

\* The runtime restarts Run and makes it reconcile.
Restart ==
  /\ pc = "down"
  /\ pc' = "wait" /\ event' = TRUE
  /\ UNCHANGED <<kind, spec, links, kernel, list, todo, cur, doomed, linksSeen,
                 tableSeen, steady, late, count>>

Controller ==
  \/ Reconcile \/ ListLinks \/ ListTable \/ Add \/ Keep \/ RemoveFinalizer
  \/ PassDone \/ Restart
  \/ \E s \in Specs : AddFinalizer(s) \/ Sync(s)
  \/ \E f \in doomed : Delete(f)

Next == Environment \/ Controller \/ CallFails

Spec == Init /\ [][Next]_vars

\* The controller's goroutine runs and the runtime restarts it; nobody has
\* to change anything.
FairSpec == Spec /\ WF_vars(Controller)

-----------------------------------------------------------------------------
(* Properties.                                                             *)

\* Nothing is put into the kernel for a spec the controller does not hold:
\* it cannot be destroyed while its entry is being set up, however stale the
\* list of the pass is.
HeldWhileAdding == pc = "add" => spec[cur].fin

Removed(k) ==
  \A s \in Specs :
    kind = k /\ spec[s].fin /\ ~spec'[s].fin =>
      \A f \in kernel \ late :
        ~(Matches(spec[s].want, f) /\ f.link = spec[s].want.link)

\* The finalizer of a RouteSpec is only removed when its route is gone from
\* the kernel, although what is deleted is chosen from an earlier list.
RouteRemovedFirst == [][Removed("route")]_vars

\* Stated by the comment before RemoveFinalizer in both controllers: the
\* finalizer is removed as the address was deleted.
RemovedFirst == [][Removed("address") /\ Removed("route")]_vars

Alone(s) ==
  \A t \in Specs \ {s} :
    spec[t] /= Absent =>
      ~Blocks(spec[t].want, spec[s].want) /\ ~Blocks(spec[s].want, spec[t].want)

Idle == pc = "wait" /\ ~event

\* When the controller rests, every live spec whose link has been there since
\* the last pass is applied exactly, whatever happened during that pass;
\* specs that compete for one entry of the kernel aside, and an address that
\* somebody else took first.
AppliedWhenIdle ==
  Idle => \A s \in Specs :
    spec[s].phase = "running" /\ spec[s].want.link \in steady /\ Alone(s) =>
      \/ spec[s].want \in kernel
      \/ kind = "address" /\ \E f \in kernel \cap late : Blocks(f, spec[s].want)

\* The controller deletes no entry that does not stand in the way of a spec
\* of its pass: others' addresses, on other links, and routes stay, those to
\* the same destination through another gateway included.
ForeignKept ==
  [][\A f \in kernel \ kernel' : f.link \in links' =>
       \E s \in Specs :
         /\ list[s] /= Absent /\ Blocks(f, list[s].want)
         /\ kind = "route" => f.via = list[s].want.via
         /\ f /= list[s].want \/ list[s].phase = "tearingDown"]_vars

\* Two live routes of different gateways to one destination: Add fails for
\* good, and with it every pass.
Clash ==
  /\ kind = "route"
  /\ \E s \in Specs, f \in kernel :
       /\ spec[s].phase = "running"
       /\ Blocks(f, spec[s].want) /\ ~Matches(spec[s].want, f)

\* The controller comes to rest: its own finalizers, failed calls and stale
\* lists do not keep it busy.
Settles == []<>(Idle \/ Clash)
=============================================================================
