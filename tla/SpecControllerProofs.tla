------------------------ MODULE SpecControllerProofs ------------------------
(***************************************************************************)
(* A pass of the address or route controller, which works by lists that    *)
(* are stale, for any specs, links and entries of the kernel.              *)
(***************************************************************************)
EXTENDS SpecController, FiniteSetTheorems, TLAPS

Resource ==
  [phase : {"running", "tearingDown"}, fin : BOOLEAN,
   want : Entries] \cup {Absent}

Passing == {"table", "sync", "add", "keep", "remove"}

PassTypes ==
  /\ kind \in Kinds
  /\ spec \in [Specs -> Resource] /\ list \in [Specs -> Resource]
  /\ todo \subseteq Specs /\ doomed \subseteq Entries
  /\ pc \in {"wait", "finalize", "down"} \cup Passing
  /\ tableSeen \subseteq Entries /\ kernel \subseteq Entries

\* The specs the list has as running, and the finalizer is on them or about
\* to be; nothing but the controller can take it off again.
RunningHeld ==
  /\ pc = "finalize" =>
       \A s \in Specs : list[s].phase = "running" => s \in todo \/ spec[s].fin
  /\ pc \in Passing =>
       \A s \in Specs : list[s].phase = "running" => spec[s].fin

\* The spec the controller is at, and what is left of it.
AtSpec ==
  /\ pc \in {"sync", "add", "keep", "remove"} => \A s \in todo : list[s] /= Absent
  /\ pc = "add" => cur \in Specs /\ list[cur].phase = "running"
  /\ pc = "remove" => cur \in Specs /\ list[cur].phase = "tearingDown"

\* What is about to be deleted is in the way of that spec.
DoomedInTheWay ==
  /\ pc \notin {"add", "keep", "remove"} => doomed = {}
  /\ \A f \in doomed :
       /\ cur \in Specs /\ list[cur] /= Absent
       /\ Matches(list[cur].want, f)
       /\ list[cur].phase = "tearingDown" \/ f /= list[cur].want

PassInvariant == PassTypes /\ RunningHeld /\ AtSpec /\ DoomedInTheWay

LEMMA TableFacts ==
  ASSUME NEW k \in Kinds
  PROVE  /\ Table(k) \subseteq Entries /\ Foreign[k] \subseteq Table(k)
         /\ \A s \in Specs : Contents(k)[s] \subseteq Table(k)
<1>1. Table(k) \subseteq Entries
  BY DEF Kinds, Entries
<1>2. Foreign[k] \subseteq Table(k)
  BY Zenon DEF Table
<1>3. ASSUME NEW s \in Specs PROVE Contents(k)[s] \subseteq Table(k)
  <2>1. Contents(k)[s] \in {Contents(k)[r] : r \in Specs}
    OBVIOUS
  <2>2. \A S, T : S \in T => S \subseteq UNION T
    OBVIOUS
  <2>3. Contents(k)[s] \subseteq UNION {Contents(k)[r] : r \in Specs}
    BY <2>1, <2>2, Zenon
  <2> QED BY <2>3, Zenon DEF Table
<1> QED BY <1>1, <1>2, <1>3

LEMMA AbsentIsResource ==
  /\ Absent \in Resource /\ ~Absent.fin
  /\ Absent.phase \notin {"running", "tearingDown"}
BY DEF Absent, Resource

LEMMA PassInit == Init => PassInvariant
<1> SUFFICES ASSUME Init PROVE PassInvariant
  OBVIOUS
<1>1. kernel \subseteq Entries
  BY TableFacts DEF Init
<1>2. PassTypes
  BY <1>1, AbsentIsResource DEF Init, PassTypes, NoList
<1>3. RunningHeld /\ AtSpec /\ DoomedInTheWay
  BY DEF Init, RunningHeld, AtSpec, DoomedInTheWay, Passing
<1> QED BY <1>2, <1>3 DEF PassInvariant

\* Leaving a pass, done or failed, leaves nothing to be said.
LEMMA LeavePreserves ==
  ASSUME PassInvariant, NEW to \in {"wait", "down"}, Leave(to),
         UNCHANGED <<kind, spec, kernel>>
  PROVE  PassInvariant'
<1>1. PassTypes'
  BY AbsentIsResource DEF PassInvariant, PassTypes, Leave, NoList
<1>2. RunningHeld' /\ AtSpec' /\ DoomedInTheWay'
  BY DEF Leave, RunningHeld, AtSpec, DoomedInTheWay, Passing
<1> QED BY <1>1, <1>2 DEF PassInvariant

\* Others never take off a finalizer: a spec that has one cannot be destroyed.
LEMMA EnvironmentKeepsFinalizers ==
  ASSUME PassInvariant, Environment
  PROVE  /\ spec' \in [Specs -> Resource]
         /\ \A s \in Specs : spec[s].fin => spec'[s].fin
<1> DEFINE Goal == /\ spec' \in [Specs -> Resource]
                   /\ \A s \in Specs : spec[s].fin => spec'[s].fin
<1> USE AbsentIsResource DEF PassInvariant, PassTypes
<1>1. CASE UNCHANGED spec
  BY <1>1
<1>2. ASSUME NEW s \in Specs, NEW e \in Contents(kind)[s],
             Create(s, e) \/ Modify(s, e)
      PROVE  Goal
  <2>1. e \in Entries
    BY TableFacts
  <2>2. CASE Create(s, e)
    <3>1. [phase |-> "running", fin |-> FALSE, want |-> e] \in Resource
      BY <2>1 DEF Resource
    <3> QED BY <2>2, <3>1 DEF Create, Write
  <2>3. CASE Modify(s, e)
    <3>1. /\ [spec[s] EXCEPT !.want = e] \in Resource
          /\ [spec[s] EXCEPT !.want = e].fin = spec[s].fin
      BY <2>1, <2>3 DEF Modify, Resource
    <3> QED BY <2>3, <3>1 DEF Modify, Write
  <2> QED BY <1>2, <2>2, <2>3
<1>3. ASSUME NEW s \in Specs, Teardown(s) \/ Destroy(s)
      PROVE  Goal
  BY <1>3 DEF Teardown, Destroy, Write, Resource
<1> QED BY <1>1, <1>2, <1>3 DEF Environment, LinkGoes, LinkComes, Intrude

LEMMA EnvironmentPreserves ==
  ASSUME PassInvariant, Environment
  PROVE  PassInvariant'
<1>1. UNCHANGED <<kind, local>>
  BY DEF Environment, Create, Modify, Teardown, Destroy, Write, Change,
         LinkGoes, LinkComes, Intrude
<1>2. kernel' \subseteq Entries
  <2>1. Foreign[kind] \subseteq Entries
    BY TableFacts DEF PassInvariant, PassTypes
  <2> QED BY <2>1 DEF PassInvariant, PassTypes, Environment, Create, Modify,
                  Teardown, Destroy, Write, LinkGoes, LinkComes, Intrude
<1>3. /\ spec' \in [Specs -> Resource]
      /\ \A s \in Specs : spec[s].fin => spec'[s].fin
  BY EnvironmentKeepsFinalizers
<1>4. PassTypes'
  BY <1>1, <1>2, <1>3 DEF PassInvariant, PassTypes, local
<1>5. RunningHeld'
  BY <1>1, <1>3 DEF PassInvariant, RunningHeld, local
<1>6. AtSpec' /\ DoomedInTheWay'
  BY <1>1 DEF PassInvariant, AtSpec, DoomedInTheWay, Matches, local
<1> QED BY <1>4, <1>5, <1>6 DEF PassInvariant

-----------------------------------------------------------------------------
(* The steps of a pass.                                                    *)

\* The list is made: every running spec is on the way to its finalizer.
LEMMA ReconcilePreserves ==
  ASSUME PassInvariant, Reconcile
  PROVE  PassInvariant'
<1>2. PassTypes'
  BY DEF PassInvariant, PassTypes, Reconcile, ToFinalize
<1>3. RunningHeld' /\ AtSpec'
  BY DEF Reconcile, RunningHeld, AtSpec, Passing, ToFinalize
<1>4. DoomedInTheWay'
  BY DEF PassInvariant, Reconcile, DoomedInTheWay
<1> QED BY <1>2, <1>3, <1>4 DEF PassInvariant

LEMMA AddFinalizerPreserves ==
  ASSUME PassInvariant, NEW s \in Specs, AddFinalizer(s)
  PROVE  PassInvariant'
<1>1. CASE spec[s] = Absent
  BY <1>1, LeavePreserves DEF AddFinalizer, Fail
<1>2. CASE spec[s] /= Absent
  <2>1. /\ pc = "finalize" /\ spec' = [spec EXCEPT ![s].fin = TRUE]
        /\ todo' = todo \ {s}
        /\ UNCHANGED <<kind, kernel, pc, list, cur, doomed, tableSeen>>
    BY <1>2 DEF AddFinalizer
  <2>2. /\ [spec[s] EXCEPT !.fin = TRUE] \in Resource
        /\ [spec[s] EXCEPT !.fin = TRUE].fin
    BY <1>2 DEF PassInvariant, PassTypes, Resource
  <2>3. PassTypes'
    BY <2>1, <2>2 DEF PassInvariant, PassTypes
  <2>4. RunningHeld'
    BY <2>1, <2>2 DEF PassInvariant, PassTypes, RunningHeld, Passing
  <2>5. AtSpec' /\ DoomedInTheWay'
    BY <2>1 DEF PassInvariant, AtSpec, DoomedInTheWay
  <2> QED BY <2>3, <2>4, <2>5 DEF PassInvariant
<1> QED BY <1>1, <1>2

\* Listing the kernel's links and its table.
LEMMA ListPreserves ==
  ASSUME PassInvariant, ListLinks \/ ListTable
  PROVE  PassInvariant'
<1>1. PassTypes'
  BY DEF PassInvariant, PassTypes, ListLinks, ListTable, Passing
<1>2. RunningHeld'
  BY DEF PassInvariant, RunningHeld, ListLinks, ListTable, Passing
<1>3. AtSpec' /\ DoomedInTheWay'
  BY DEF PassInvariant, AtSpec, DoomedInTheWay, ListLinks, ListTable
<1> QED BY <1>1, <1>2, <1>3 DEF PassInvariant

\* What is to be deleted for spec s is chosen among the entries that match.
LEMMA SyncPreserves ==
  ASSUME PassInvariant, NEW s \in Specs, Sync(s)
  PROVE  PassInvariant'
<1>1. /\ pc = "sync" /\ s \in todo /\ cur' = s /\ todo' = todo \ {s}
      /\ UNCHANGED <<kind, spec, kernel, list, tableSeen>>
  BY DEF Sync
<1>2. list[s] \in Resource /\ list[s] /= Absent
  BY <1>1 DEF PassInvariant, PassTypes, AtSpec
<1>3. list[s].phase \in {"running", "tearingDown"}
  BY <1>2 DEF Resource
<1>4. /\ pc' \in {"add", "keep", "remove"}
      /\ pc' = "remove" => list[s].phase = "tearingDown"
      /\ pc' = "add" => list[s].phase = "running"
  BY <1>3 DEF Sync
<1>5. /\ doomed' \subseteq Found(s)
      /\ \A f \in doomed' : list[s].phase = "tearingDown" \/ f /= list[s].want
  <2>1. CASE list[s].phase = "tearingDown"
    BY <2>1 DEF Sync, TornDown
  <2>2. CASE list[s].phase /= "tearingDown"
    <3>1. doomed' \subseteq {f \in Found(s) : ~Exact(list[s].want, f)}
      BY <2>2 DEF Sync
    <3>2. \A f : ~Exact(list[s].want, f) => f /= list[s].want
      BY DEF Exact
    <3> QED BY <3>1, <3>2
  <2> QED BY <2>1, <2>2
<1>6. PassTypes'
  BY <1>1, <1>4, <1>5 DEF PassInvariant, PassTypes, Passing, Found
<1>7. RunningHeld'
  BY <1>1, <1>4 DEF PassInvariant, RunningHeld, Passing
<1>8. AtSpec'
  BY <1>1, <1>4 DEF PassInvariant, AtSpec
<1>9. DoomedInTheWay'
  BY <1>1, <1>2, <1>4, <1>5 DEF DoomedInTheWay, Found, Matches
<1> QED BY <1>6, <1>7, <1>8, <1>9 DEF PassInvariant

LEMMA DeletePreserves ==
  ASSUME PassInvariant, NEW f \in doomed, Delete(f)
  PROVE  PassInvariant'
<1>1. CASE f \notin kernel
  BY <1>1, LeavePreserves DEF Delete, Fail
<1>2. CASE f \in kernel
  <2>1. /\ kernel' = kernel \ {f} /\ doomed' = doomed \ {f}
        /\ UNCHANGED <<kind, spec, pc, list, todo, cur, tableSeen>>
    BY <1>2 DEF Delete
  <2>2. PassTypes'
    BY <2>1 DEF PassInvariant, PassTypes
  <2>3. RunningHeld' /\ AtSpec'
    BY <2>1 DEF PassInvariant, RunningHeld, AtSpec
  <2>4. DoomedInTheWay'
    BY <2>1 DEF PassInvariant, DoomedInTheWay, Matches
  <2> QED BY <2>2, <2>3, <2>4 DEF PassInvariant
<1> QED BY <1>1, <1>2

\* Done with a spec; the finalizer comes off a spec that was torn down, so
\* not off one the list has as running.
LEMMA SpecDonePreserves ==
  ASSUME PassInvariant, pc \in {"add", "keep", "remove"}, doomed = {},
         SpecDone("sync"), kernel' \subseteq Entries,
         spec' \in [Specs -> Resource],
         \A s \in Specs : spec[s].fin /\ list[s].phase = "running" => spec'[s].fin
  PROVE  PassInvariant'
<1>1. /\ pc' = "sync" /\ doomed' = {}
      /\ UNCHANGED <<kind, list, todo, tableSeen>>
  BY DEF SpecDone
<1>2. PassTypes'
  BY <1>1 DEF PassInvariant, PassTypes, Passing
<1>3. RunningHeld' /\ AtSpec' /\ DoomedInTheWay'
  BY <1>1 DEF PassInvariant, RunningHeld, AtSpec, DoomedInTheWay, Passing
<1> QED BY <1>2, <1>3 DEF PassInvariant

LEMMA AddPreserves ==
  ASSUME PassInvariant, Add
  PROVE  PassInvariant'
<1>1. /\ pc = "add" /\ doomed = {}
      /\ cur \in Specs /\ list[cur].phase = "running"
  BY DEF PassInvariant, AtSpec, Add
<1>2. CASE Fail
  BY <1>2, LeavePreserves DEF Fail
<1>3. CASE ~Fail
  <2>1. /\ SpecDone("sync") /\ UNCHANGED spec
        /\ kernel' = kernel \/ kernel' = kernel \cup {list[cur].want}
    BY <1>3 DEF Add
  <2>2. list[cur].want \in Entries
    BY <1>1, AbsentIsResource DEF PassInvariant, PassTypes, Resource
  <2> QED BY <1>1, <2>1, <2>2, SpecDonePreserves DEF PassInvariant, PassTypes
<1> QED BY <1>2, <1>3

LEMMA KeepRemovePreserve ==
  ASSUME PassInvariant, Keep \/ RemoveFinalizer
  PROVE  PassInvariant'
<1> USE DEF PassInvariant, PassTypes
<1>1. CASE Keep
  BY <1>1, SpecDonePreserves DEF Keep
<1>2. CASE RemoveFinalizer
  <2>1. /\ pc = "remove" /\ doomed = {} /\ SpecDone("sync") /\ UNCHANGED kernel
        /\ cur \in Specs /\ list[cur].phase = "tearingDown"
    BY <1>2 DEF RemoveFinalizer, AtSpec
  <2>2. spec[cur] /= Absent => [spec[cur] EXCEPT !.fin = FALSE] \in Resource
    BY <2>1 DEF Resource
  <2>3. /\ spec' \in [Specs -> Resource]
        /\ \A s \in Specs : s /= cur => spec'[s] = spec[s]
    BY <1>2, <2>1, <2>2 DEF RemoveFinalizer
  <2> QED BY <2>1, <2>3, SpecDonePreserves
<1> QED BY <1>1, <1>2

-----------------------------------------------------------------------------
\* The invariant of a pass, for every set of specs, links and entries.
THEOREM PassCorrect == Spec => []PassInvariant
<1>1. PassInvariant /\ [Next]_vars => PassInvariant'
  <2> SUFFICES ASSUME PassInvariant, [Next]_vars PROVE PassInvariant'
    OBVIOUS
  <2>1. CASE UNCHANGED vars
    BY <2>1 DEF PassInvariant, PassTypes, RunningHeld, AtSpec, DoomedInTheWay,
                Matches, vars, local
  <2>2. CASE Environment
    BY <2>2, EnvironmentPreserves
  <2>3. CASE PassDone \/ CallFails
    BY <2>3, LeavePreserves DEF PassDone, CallFails, Fail
  <2>4. CASE Restart
    BY <2>4 DEF Restart, PassInvariant, PassTypes, RunningHeld, AtSpec,
                DoomedInTheWay, Passing
  <2>5. CASE Controller
    BY <2>3, <2>4, <2>5, ReconcilePreserves, AddFinalizerPreserves,
       ListPreserves, SyncPreserves, DeletePreserves, AddPreserves,
       KeepRemovePreserve DEF Controller
  <2> QED BY <2>1, <2>2, <2>3, <2>5 DEF Next
<1> QED BY <1>1, PassInit, PTL DEF Spec

\* An entry is only added for a spec that has the finalizer: it cannot be
\* destroyed meanwhile, although phase and content come from a stale list.
THEOREM HeldSpecs == Spec => []HeldWhileAdding
<1>1. PassInvariant => HeldWhileAdding
  BY DEF PassInvariant, RunningHeld, AtSpec, HeldWhileAdding, Passing
<1> QED BY <1>1, PassCorrect, PTL

\* Nothing is deleted from the kernel but what stands in the way of a spec.
THEOREM OthersEntriesKept == Spec => ForeignKept
<1> DEFINE Kept ==
      \A f \in kernel \ kernel' : f.link \in links' =>
        \E s \in Specs :
          /\ list[s] /= Absent /\ Blocks(f, list[s].want)
          /\ kind = "route" => f.via = list[s].want.via
          /\ f /= list[s].want \/ list[s].phase = "tearingDown"
<1>1. PassInvariant /\ [Next]_vars => [Kept]_vars
  <2> SUFFICES ASSUME PassInvariant, Next,
                      NEW f \in kernel \ kernel', f.link \in links'
               PROVE  \E s \in Specs :
                        /\ list[s] /= Absent /\ Blocks(f, list[s].want)
                        /\ kind = "route" => f.via = list[s].want.via
                        /\ f /= list[s].want \/ list[s].phase = "tearingDown"
    OBVIOUS
  <2>1. CASE Environment
    <3>1. \E l \in Links : LinkGoes(l)
      BY <2>1 DEF Environment, Create, Modify, Teardown, Destroy, Write,
                  LinkComes, Intrude
    <3> QED BY <3>1 DEF LinkGoes
  <2>2. CASE \E g \in doomed : Delete(g)
    <3>1. f \in doomed
      BY <2>2 DEF Delete, Fail
    <3>2. Matches(list[cur].want, f) =>
            /\ Blocks(f, list[cur].want)
            /\ kind = "route" => f.via = list[cur].want.via
      BY DEF Matches, Blocks
    <3> QED BY <3>1, <3>2 DEF PassInvariant, DoomedInTheWay
  <2>3. CASE CallFails \/ (Controller /\ ~\E g \in doomed : Delete(g))
    BY <2>3 DEF CallFails, Fail, Controller, Reconcile, AddFinalizer, ListLinks,
                ListTable, Sync, Add, Keep, RemoveFinalizer, PassDone, Restart
  <2> QED BY <2>1, <2>2, <2>3 DEF Next
<1> QED BY <1>1, PassCorrect, PTL DEF Spec, ForeignKept

-----------------------------------------------------------------------------
(* What a pass achieves, by lists that are stale.                          *)

InPass  == {"finalize"} \cup Passing
Syncing == {"sync", "add", "keep", "remove"}

\* Specs and kernel have entries of the controller's kind only.
OwnTable ==
  /\ kernel \subseteq Table(kind) /\ tableSeen \subseteq Table(kind)
  /\ \A s \in Specs :
       /\ spec[s] /= Absent => spec[s].want \in Contents(kind)[s]
       /\ list[s] /= Absent => list[s].want \in Contents(kind)[s]

Listed(f) == \E t \in Specs : list[t].phase = "running" /\ f = list[t].want

\* How the lists of a pass relate to what they were made of: what the kernel
\* has beyond the list was added since, by others or for a spec; and what
\* stands in the way of the spec at hand is about to be deleted.
ListsInv ==
  /\ pc \in Passing => steady \subseteq linksSeen
  /\ pc \in Syncing => \A f \in kernel : f \in tableSeen \/ f \in late \/ Listed(f)
  /\ pc = "keep" => /\ cur \in Specs
                    /\ \/ list[cur].phase /= "running"
                       \/ list[cur].want.link \notin linksSeen
                       \/ list[cur].want \in tableSeen
  /\ pc = "add" \/ (pc = "remove" /\ kind = "route") =>
       \A f \in kernel :
         Matches(list[cur].want, f) => f \in doomed \/ f \in late \/ Listed(f)
  /\ pc = "finalize" => \A s \in todo : list[s].phase = "running"
  /\ pc \in InPass =>
       \A s \in Specs :
         list[s].phase = "tearingDown" /\ spec[s].fin =>
           spec[s].phase = "tearingDown" /\ spec[s].want = list[s].want

Live(s) ==
  spec[s].phase = "running" /\ spec[s].want.link \in steady /\ Alone(s)

Applied(s) ==
  \/ spec[s].want \in kernel
  \/ kind = "address" /\ \E f \in kernel \cap late : Blocks(f, spec[s].want)

\* As long as no token tells of a change the list is the specs, entries that
\* were as they should be still are, and the specs gone through are applied.
QuietInv ==
  ~event =>
    /\ pc \in InPass =>
         \A s \in Specs : list[s].phase = spec[s].phase /\ list[s].want = spec[s].want
    /\ pc \in Syncing =>
         \A s \in Specs : Live(s) =>
           /\ spec[s].want \in tableSeen => spec[s].want \in kernel
           /\ s \notin todo /\ (pc = "sync" \/ s /= cur) => Applied(s)
    /\ pc = "wait" => \A s \in Specs : Live(s) => Applied(s)

WorkInvariant == OwnTable /\ ListsInv /\ QuietInv

LEMMA AbsentByPhase ==
  ASSUME NEW r \in Resource
  PROVE  r = Absent <=> r.phase \notin {"running", "tearingDown"}
BY DEF Resource, Absent

\* Who is live depends on phases and wants only.
LEMMA SameLive ==
  ASSUME PassTypes, PassTypes', UNCHANGED <<kind, steady>>,
         \A s \in Specs : spec'[s].phase = spec[s].phase /\ spec'[s].want = spec[s].want
  PROVE  \A s \in Specs : Live(s)' <=> Live(s)
<1>1. \A s \in Specs : spec'[s] = Absent <=> spec[s] = Absent
  BY AbsentByPhase DEF PassTypes
<1> QED BY <1>1 DEF Live, Alone, Blocks

LEMMA WorkInit == Init => WorkInvariant
<1> SUFFICES ASSUME Init PROVE WorkInvariant
  OBVIOUS
<1>1. OwnTable
  BY TableFacts DEF Init, OwnTable, NoList
<1>2. ListsInv /\ QuietInv
  BY DEF Init, ListsInv, QuietInv, Passing, Syncing, InPass
<1> QED BY <1>1, <1>2 DEF WorkInvariant

\* A pass that is left, done or failed, has nothing more to say, except that
\* after one that is done all is applied.
LEMMA LeaveWork ==
  ASSUME PassInvariant, PassInvariant', WorkInvariant, NEW to \in {"wait", "down"},
         Leave(to), UNCHANGED <<kind, spec, kernel, event, steady, late>>,
         to = "wait" => pc = "sync" /\ todo = {}
  PROVE  WorkInvariant'
<1>1. OwnTable'
  BY DEF WorkInvariant, OwnTable, Leave, NoList
<1>2. ListsInv'
  BY DEF Leave, ListsInv, Passing, Syncing, InPass
<1>3. \A s \in Specs : (Live(s)' <=> Live(s)) /\ (Applied(s)' <=> Applied(s))
  BY SameLive DEF PassInvariant, Applied, Blocks
<1>4. QuietInv'
  BY <1>3 DEF WorkInvariant, QuietInv, Leave, Passing, Syncing, InPass
<1> QED BY <1>1, <1>2, <1>4 DEF WorkInvariant

-----------------------------------------------------------------------------
\* What others do between two steps: a spec that changes leaves a token, an
\* entry on a link that has stayed stays, and a new entry is late.
LEMMA EnvironmentShape ==
  ASSUME PassInvariant, WorkInvariant, Environment
  PROVE  /\ UNCHANGED <<kind, local>> /\ steady' \subseteq steady /\ late \subseteq late'
         /\ kernel' \subseteq kernel \cup (late' \cap Table(kind))
         /\ \A e \in kernel : e.link \in steady' => e \in kernel'
         /\ ~event' => ~event /\ UNCHANGED spec
<1>1. CASE \E s \in Specs : \/ \E e \in Contents(kind)[s] : Create(s, e) \/ Modify(s, e)
                            \/ Teardown(s) \/ Destroy(s)
  BY <1>1 DEF Create, Modify, Teardown, Destroy, Write, Change
<1>2. CASE \E l \in Links : LinkGoes(l) \/ LinkComes(l)
  BY <1>2 DEF LinkGoes, LinkComes, Change
<1>3. CASE \E e \in Foreign[kind] : Intrude(e)
  BY <1>3, TableFacts DEF Intrude, Change, PassInvariant, PassTypes
<1> QED BY <1>1, <1>2, <1>3 DEF Environment

\* A spec that others write has a content of its own, and one with the
\* finalizer that was torn down stays as it is.
LEMMA EnvironmentSpecs ==
  ASSUME PassInvariant, WorkInvariant, Environment, NEW s \in Specs
  PROVE  /\ spec'[s] /= Absent => spec'[s].want \in Contents(kind)[s]
         /\ spec'[s].fin =>
              /\ spec[s].fin
              /\ spec[s].phase = "tearingDown" =>
                   spec'[s].phase = "tearingDown" /\ spec'[s].want = spec[s].want
<1> USE DEF PassInvariant, PassTypes
<1> DEFINE R(x) == /\ x /= Absent => x.want \in Contents(kind)[s]
                   /\ x.fin => /\ spec[s].fin
                               /\ spec[s].phase = "tearingDown" =>
                                    x.phase = "tearingDown" /\ x.want = spec[s].want
<1>0. spec[s] \in Resource /\ (spec[s] /= Absent => spec[s].want \in Contents(kind)[s])
  BY DEF WorkInvariant, OwnTable
<1>1. R(spec[s]) /\ R(Absent)
  BY <1>0, AbsentIsResource
<1>2. CASE UNCHANGED spec
  BY <1>1, <1>2
<1>3. ASSUME NEW t \in Specs, NEW e \in Contents(kind)[t], Create(t, e) \/ Modify(t, e)
      PROVE  R(spec'[s])
  <2>1. CASE t /= s
    BY <1>1, <1>3, <2>1 DEF Create, Modify, Write
  <2>2. CASE t = s /\ Create(t, e)
    BY <2>2 DEF Create, Write
  <2>3. CASE t = s /\ Modify(t, e)
    <3>1. spec'[s] = [spec[s] EXCEPT !.want = e] /\ spec[s].phase = "running"
      BY <2>3 DEF Modify, Write
    <3>2. spec[s] \in [phase : {"running", "tearingDown"}, fin : BOOLEAN, want : Entries]
      BY <1>0, <3>1, AbsentIsResource DEF Resource
    <3>3. spec'[s].want = e /\ spec'[s].fin = spec[s].fin
      BY <3>1, <3>2
    <3> QED BY <2>3, <3>1, <3>3
  <2> QED BY <1>3, <2>1, <2>2, <2>3
<1>4. ASSUME NEW t \in Specs, Teardown(t) PROVE R(spec'[s])
  <2>1. CASE t /= s
    BY <1>1, <1>4, <2>1 DEF Teardown, Write
  <2>2. CASE t = s
    <3>1. spec'[s] = [spec[s] EXCEPT !.phase = "tearingDown"] /\ spec[s].phase = "running"
      BY <1>4, <2>2 DEF Teardown, Write
    <3>2. spec[s] \in [phase : {"running", "tearingDown"}, fin : BOOLEAN, want : Entries]
      BY <1>0, <3>1, AbsentIsResource DEF Resource
    <3>3. spec'[s].want = spec[s].want /\ spec'[s].fin = spec[s].fin
      BY <3>1, <3>2
    <3> QED BY <1>0, <3>1, <3>2, <3>3, AbsentIsResource
  <2> QED BY <2>1, <2>2
<1>5. ASSUME NEW t \in Specs, Destroy(t) PROVE R(spec'[s])
  BY <1>1, <1>5 DEF Destroy, Write
<1>6. R(spec'[s])
  <2> HIDE DEF R
  <2>1. CASE \E l \in Links : LinkGoes(l) \/ LinkComes(l)
    BY <1>1, <2>1 DEF LinkGoes, LinkComes
  <2>2. CASE \E e \in Foreign[kind] : Intrude(e)
    BY <1>1, <2>2 DEF Intrude
  <2> QED BY <1>3, <1>4, <1>5, <2>1, <2>2 DEF Environment
<1> QED BY <1>6

LEMMA EnvironmentWork ==
  ASSUME PassInvariant, PassInvariant', WorkInvariant, Environment
  PROVE  WorkInvariant'
<1> USE DEF WorkInvariant
<1>1. /\ UNCHANGED <<kind, pc, list, todo, cur, doomed, linksSeen, tableSeen>>
      /\ steady' \subseteq steady /\ late \subseteq late'
      /\ kernel' \subseteq kernel \cup (late' \cap Table(kind))
      /\ \A e \in kernel : e.link \in steady' => e \in kernel'
      /\ ~event' => ~event /\ UNCHANGED spec
  BY EnvironmentShape DEF local
<1>2. OwnTable'
  BY <1>1, EnvironmentSpecs DEF OwnTable
<1>3. ListsInv'
  <2>1. \A f : Listed(f)' <=> Listed(f)
    BY <1>1 DEF Listed
  <2>2. \A s \in Specs : list[s].phase = "tearingDown" /\ spec'[s].fin /\ pc \in InPass =>
                           spec'[s].phase = "tearingDown" /\ spec'[s].want = list[s].want
    BY EnvironmentSpecs DEF ListsInv
  <2> QED BY <1>1, <2>1, <2>2 DEF ListsInv, Matches
<1>4. ASSUME ~event' PROVE QuietInv'
  <2>1. \A s \in Specs : Live(s)' => Live(s) /\ spec[s].want.link \in steady'
    BY <1>1, <1>4 DEF Live, Alone, Blocks
  <2>2. \A s \in Specs : Live(s)' /\ Applied(s) => Applied(s)'
    BY <1>1, <1>4, <2>1 DEF Applied, Blocks
  <2>3. \A s \in Specs : Live(s)' /\ spec[s].want \in kernel => spec[s].want \in kernel'
    BY <1>1, <2>1
  <2> QED BY <1>1, <1>4, <2>1, <2>2, <2>3 DEF QuietInv
<1> QED BY <1>2, <1>3, <1>4 DEF QuietInv

-----------------------------------------------------------------------------
LEMMA ReconcileWork ==
  ASSUME PassInvariant, WorkInvariant, Reconcile
  PROVE  WorkInvariant'
<1>1. OwnTable'
  BY DEF WorkInvariant, OwnTable, Reconcile
<1>2. ListsInv'
  BY DEF Reconcile, ListsInv, Passing, Syncing, InPass, ToFinalize
<1>3. QuietInv'
  BY DEF Reconcile, QuietInv, Passing, Syncing, InPass
<1> QED BY <1>1, <1>2, <1>3 DEF WorkInvariant

LEMMA AddFinalizerWork ==
  ASSUME PassInvariant, PassInvariant', WorkInvariant, NEW s \in Specs, AddFinalizer(s)
  PROVE  WorkInvariant'
<1> USE DEF WorkInvariant
<1>1. CASE spec[s] = Absent
  BY <1>1, LeaveWork DEF AddFinalizer, Fail
<1>2. CASE spec[s] /= Absent
  <2>1. /\ pc = "finalize" /\ spec' = [spec EXCEPT ![s].fin = TRUE] /\ s \in todo
        /\ event' = (event \/ ~spec[s].fin) /\ todo' = todo \ {s}
        /\ UNCHANGED <<kind, links, kernel, pc, list, cur, doomed, linksSeen, tableSeen,
                       steady, late>>
    BY <1>2 DEF AddFinalizer
  <2>2. /\ [spec[s] EXCEPT !.fin = TRUE].phase = spec[s].phase
        /\ [spec[s] EXCEPT !.fin = TRUE].want = spec[s].want
    BY <1>2 DEF PassInvariant, PassTypes, Resource
  <2>3. /\ \A t \in Specs : spec'[t].phase = spec[t].phase /\ spec'[t].want = spec[t].want
        /\ \A t \in Specs \ {s} : spec'[t] = spec[t]
    BY <2>1, <2>2 DEF PassInvariant, PassTypes
  <2>4. \A t \in Specs : spec'[t] /= Absent => spec[t] /= Absent
    BY <1>2, <2>3
  <2>5. OwnTable'
    BY <2>1, <2>3, <2>4 DEF OwnTable
  <2>6. list[s].phase = "running"
    BY <2>1 DEF ListsInv
  <2>7. ListsInv'
    BY <2>1, <2>3, <2>6 DEF ListsInv, Passing, Syncing
  <2>8. QuietInv'
    BY <2>1, <2>3 DEF QuietInv, Syncing
  <2> QED BY <2>5, <2>7, <2>8
<1> QED BY <1>1, <1>2

LEMMA ListWork ==
  ASSUME PassInvariant, PassInvariant', WorkInvariant, ListLinks \/ ListTable
  PROVE  WorkInvariant'
<1> USE DEF WorkInvariant, Passing, Syncing, InPass
<1>1. CASE ListLinks
  <2>1. OwnTable'
    BY <1>1 DEF ListLinks, OwnTable
  <2>2. ListsInv'
    BY <1>1 DEF ListLinks, ListsInv
  <2>3. QuietInv'
    BY <1>1 DEF ListLinks, QuietInv
  <2> QED BY <2>1, <2>2, <2>3
<1>2. CASE ListTable
  <2>1. OwnTable'
    BY <1>2 DEF ListTable, OwnTable
  <2>2. ListsInv'
    BY <1>2 DEF ListTable, ListsInv
  <2>3. ASSUME ~event' PROVE QuietInv'
    <3>1. \A s \in Specs : list[s].phase = spec[s].phase /\ list[s].want = spec[s].want
      BY <1>2, <2>3 DEF ListTable, QuietInv
    <3>2. \A s \in Specs : spec[s].phase = "running" => list[s] /= Absent
      BY <3>1, AbsentIsResource
    <3> QED BY <1>2, <2>3, <3>1, <3>2 DEF ListTable, QuietInv, Live
  <2> QED BY <2>1, <2>2, <2>3 DEF QuietInv
<1> QED BY <1>1, <1>2

\* An entry that matches a spec and is exact is what the spec wants.
LEMMA ExactIsWanted ==
  ASSUME PassInvariant, OwnTable, NEW s \in Specs, list[s] /= Absent,
         NEW f \in tableSeen, Matches(list[s].want, f), Exact(list[s].want, f)
  PROVE  f = list[s].want
<1>1. list[s].want \in Table(kind) /\ f \in Table(kind)
  BY TableFacts DEF PassInvariant, PassTypes, OwnTable
<1>2. \A e \in Table(kind) : e \in Entries
  BY TableFacts DEF PassInvariant, PassTypes
<1>3. kind = "address" => list[s].want.via = f.via
  BY <1>1, SpecAssumption
<1>4. /\ list[s].want.link = f.link /\ list[s].want.key = f.key
      /\ list[s].want.via = f.via /\ list[s].want.val = f.val
  BY <1>3 DEF Matches, Exact, PassInvariant, PassTypes, Kinds
<1>5. \A e \in Entries : e = [link |-> e.link, key |-> e.key, via |-> e.via, val |-> e.val]
  BY SpecAssumption
<1> QED BY <1>1, <1>2, <1>4, <1>5

LEMMA SyncWork ==
  ASSUME PassInvariant, PassInvariant', WorkInvariant, NEW s \in Specs, Sync(s)
  PROVE  WorkInvariant'
<1> USE DEF WorkInvariant
<1>1. /\ pc = "sync" /\ s \in todo /\ cur' = s /\ todo' = todo \ {s}
      /\ UNCHANGED <<kind, spec, kernel, event, list, linksSeen, tableSeen, steady, late>>
  BY DEF Sync
<1>2. list[s] \in Resource /\ list[s] /= Absent
  BY <1>1 DEF PassInvariant, PassTypes, AtSpec
<1>3. OwnTable'
  BY <1>1 DEF OwnTable
<1>4. pc' \in {"add", "keep", "remove"}
  BY DEF Sync
<1>5. \A f : Listed(f)' <=> Listed(f)
  BY <1>1 DEF Listed
<1>6. /\ pc' = "add" => doomed' = Found(s)
      /\ pc' = "remove" /\ kind = "route" => doomed' = Found(s)
  BY <1>4 DEF Sync, TornDown
<1>7. pc' = "add" \/ (pc' = "remove" /\ kind = "route") =>
        \A f \in kernel : Matches(list[s].want, f) => f \in doomed' \/ f \in late \/ Listed(f)
  <2>1. \A f \in kernel : f \in tableSeen \/ f \in late \/ Listed(f)
    BY <1>1 DEF ListsInv, Syncing
  <2> QED BY <1>6, <2>1 DEF Found
<1>8. pc' = "keep" => list[s].want.link \notin linksSeen \/ list[s].want \in tableSeen
  <2> SUFFICES ASSUME pc' = "keep", list[s].want.link \in linksSeen
               PROVE  list[s].want \in tableSeen
    OBVIOUS
  <2>1. \E f \in Found(s) : Exact(list[s].want, f)
    BY DEF Sync
  <2> QED BY <1>2, <2>1, ExactIsWanted DEF Found
<1>9. ListsInv'
  <2>1. pc \in Syncing \cap Passing \cap InPass /\ pc' \in Syncing \cap Passing \cap InPass
    BY <1>1, <1>4 DEF Passing, Syncing, InPass
  <2>2. /\ steady' \subseteq linksSeen'
        /\ \A f \in kernel' : f \in tableSeen' \/ f \in late' \/ Listed(f)'
        /\ \A t \in Specs : list'[t].phase = "tearingDown" /\ spec'[t].fin =>
             spec'[t].phase = "tearingDown" /\ spec'[t].want = list'[t].want
    BY <1>1, <1>5, <2>1 DEF ListsInv
  <2>3. pc' = "keep" => /\ cur' \in Specs
                        /\ \/ list'[cur'].want.link \notin linksSeen'
                           \/ list'[cur'].want \in tableSeen'
    BY <1>1, <1>8
  <2>4. pc' = "add" \/ (pc' = "remove" /\ kind' = "route") =>
          \A f \in kernel' :
            Matches(list[cur].want, f)' => f \in doomed' \/ f \in late' \/ Listed(f)'
    BY <1>1, <1>5, <1>7 DEF Matches
  <2> QED BY <1>4, <2>2, <2>3, <2>4 DEF ListsInv
<1>10. ASSUME ~event' PROVE QuietInv'
  <2>1. \A t \in Specs : (Live(t)' <=> Live(t)) /\ (Applied(t)' <=> Applied(t))
    BY <1>1, SameLive DEF PassInvariant, Applied, Blocks
  <2>2. \A t \in Specs : t \notin todo' /\ t /= cur' => t \notin todo
    BY <1>1
  <2> QED BY <1>1, <1>4, <1>10, <2>1, <2>2 DEF QuietInv, Syncing, Passing, InPass
<1> QED BY <1>3, <1>9, <1>10 DEF QuietInv

\* What is deleted for one spec is not what another, which is alone, wants,
\* nor what has taken its place.
LEMMA DoomedIsNotWanted ==
  ASSUME PassInvariant, WorkInvariant, ~event, NEW f \in doomed, NEW s \in Specs, Live(s)
  PROVE  /\ f /= spec[s].want
         /\ kind = "address" /\ s /= cur => ~Blocks(f, spec[s].want)
<1>1. /\ cur \in Specs /\ list[cur] /= Absent /\ Matches(list[cur].want, f)
      /\ list[cur].phase = "tearingDown" \/ f /= list[cur].want
      /\ pc \in InPass
  BY DEF PassInvariant, DoomedInTheWay, InPass, Passing
<1>2. \A t \in Specs : list[t].phase = spec[t].phase /\ list[t].want = spec[t].want
  BY <1>1 DEF WorkInvariant, QuietInv
<1>3. spec[cur] /= Absent
  BY <1>1, <1>2, AbsentByPhase DEF PassInvariant, PassTypes
<1>4. CASE s = cur
  BY <1>1, <1>2, <1>4 DEF Live
<1>5. CASE s /= cur
  <2>1. ~Blocks(spec[cur].want, spec[s].want) /\ ~Blocks(spec[s].want, spec[cur].want)
    BY <1>1, <1>3, <1>5 DEF Live, Alone
  <2> QED BY <1>1, <1>2, <2>1 DEF Matches, Blocks
<1> QED BY <1>4, <1>5

LEMMA DeleteWork ==
  ASSUME PassInvariant, PassInvariant', WorkInvariant, NEW f \in doomed, Delete(f)
  PROVE  WorkInvariant'
<1> USE DEF WorkInvariant
<1>1. CASE f \notin kernel
  BY <1>1, LeaveWork DEF Delete, Fail
<1>2. CASE f \in kernel
  <2>1. /\ kernel' = kernel \ {f} /\ doomed' = doomed \ {f}
        /\ UNCHANGED <<kind, spec, event, pc, list, todo, cur, linksSeen, tableSeen,
                       steady, late>>
    BY <1>2 DEF Delete
  <2>2. OwnTable'
    BY <2>1 DEF OwnTable
  <2>3. ListsInv'
    <3>1. \A g : (Listed(g)' <=> Listed(g)) /\ (Matches(list[cur].want, g)' <=> Matches(list[cur].want, g))
      BY <2>1 DEF Listed, Matches
    <3> QED BY <2>1, <3>1 DEF ListsInv
  <2>4. ASSUME ~event' PROVE QuietInv'
    <3>1. \A t \in Specs : Live(t)' <=> Live(t)
      BY <2>1, SameLive DEF PassInvariant
    <3>2. pc \in {"add", "keep", "remove"}
      BY DEF PassInvariant, DoomedInTheWay
    <3>3. \A t \in Specs : Live(t) =>
            /\ spec[t].want \in kernel => spec[t].want \in kernel'
            /\ t /= cur /\ Applied(t) => Applied(t)'
      BY <2>1, <2>4, DoomedIsNotWanted DEF Applied, Blocks
    <3> QED BY <2>1, <2>4, <3>1, <3>2, <3>3 DEF QuietInv, Syncing, InPass, Passing
  <2> QED BY <2>2, <2>3, <2>4 DEF QuietInv
<1> QED BY <1>1, <1>2

\* The spec at hand is done with, and if live it is applied.
LEMMA SpecDoneWork ==
  ASSUME PassInvariant, PassInvariant', WorkInvariant, pc \in {"add", "keep", "remove"},
         SpecDone("sync"), NEW s \in Specs, s = cur,
         kernel' = kernel \/ (pc = "add" /\ kernel' = kernel \cup {list[cur].want}),
         \A t \in Specs : /\ spec'[t].phase = spec[t].phase /\ spec'[t].want = spec[t].want
                          /\ spec'[t].fin => spec[t].fin,
         ~event' => ~event /\ (Live(s) => Applied(s)')
  PROVE  WorkInvariant'
<1> USE DEF WorkInvariant
<1>1. pc' = "sync" /\ UNCHANGED <<kind, links, list, todo, doomed, linksSeen, tableSeen, steady, late>>
  BY DEF SpecDone
<1>2. \A t \in Specs : (spec'[t] = Absent <=> spec[t] = Absent)
  BY AbsentByPhase DEF PassInvariant, PassTypes
<1>3. kernel \subseteq kernel' /\ \A f \in kernel' : f \in kernel \/ Listed(f)
  BY DEF PassInvariant, AtSpec, Listed
<1>4. OwnTable'
  <2>1. pc = "add" => list[cur].want \in Table(kind)
    BY TableFacts, AbsentIsResource DEF PassInvariant, PassTypes, AtSpec, OwnTable
  <2> QED BY <1>1, <1>2, <2>1 DEF OwnTable
<1>5. ListsInv'
  <2>1. \A f : Listed(f)' <=> Listed(f)
    BY <1>1 DEF Listed
  <2> QED BY <1>1, <1>3, <2>1 DEF ListsInv, Passing, Syncing, InPass
<1>6. ASSUME ~event' PROVE QuietInv'
  <2>1. \A t \in Specs : Live(t)' <=> Live(t)
    BY <1>1, SameLive DEF PassInvariant
  <2>2. \A t \in Specs : Applied(t) => Applied(t)'
    BY <1>1, <1>3 DEF Applied, Blocks
  <2>3. \A t \in Specs : spec[t].want \in kernel => spec'[t].want \in kernel'
    BY <1>3
  <2> QED BY <1>1, <1>6, <2>1, <2>2, <2>3 DEF QuietInv, Syncing, InPass, Passing
<1> QED BY <1>4, <1>5, <1>6 DEF QuietInv

LEMMA AddWork ==
  ASSUME PassInvariant, PassInvariant', WorkInvariant, Add
  PROVE  WorkInvariant'
<1> USE DEF WorkInvariant
<1>1. /\ pc = "add" /\ doomed = {} /\ cur \in Specs /\ list[cur].phase = "running"
  BY DEF PassInvariant, AtSpec, Add
<1> PICK s \in Specs : s = cur
  BY <1>1
<1>2. CASE Fail
  BY <1>2, LeaveWork DEF Fail
<1>3. CASE ~Fail
  <2>1. /\ SpecDone("sync") /\ UNCHANGED <<spec, event>>
        /\ \/ kernel' = kernel \cup {list[cur].want}
           \/ /\ kind = "address" /\ kernel' = kernel
              /\ \E f \in kernel : Blocks(f, list[cur].want)
    BY <1>3 DEF Add
  <2>2. ASSUME ~event', Live(s) PROVE Applied(s)'
    <3>1. \A t \in Specs : list[t].phase = spec[t].phase /\ list[t].want = spec[t].want
      BY <1>1, <2>1, <2>2 DEF QuietInv, InPass, Passing
    <3>2. UNCHANGED <<kind, late>>
      BY <2>1 DEF SpecDone
    <3>3. CASE kernel' = kernel \cup {list[cur].want}
      BY <1>1, <2>1, <3>1, <3>3 DEF Applied
    <3>4. ASSUME kind = "address", kernel' = kernel, NEW f \in kernel, Blocks(f, list[cur].want)
          PROVE  Applied(s)'
      <4>1. f \in late \/ Listed(f)
        BY <1>1, <3>4 DEF ListsInv, Matches, Blocks
      <4>2. CASE f \in late
        BY <1>1, <2>1, <3>1, <3>2, <3>4, <4>2 DEF Applied, Blocks
      <4>3. CASE Listed(f)
        <5>1. PICK t \in Specs : list[t].phase = "running" /\ f = list[t].want
          BY <4>3 DEF Listed
        <5>2. spec[t] /= Absent
          BY <3>1, <5>1, AbsentIsResource
        <5>3. t = s
          BY <1>1, <2>2, <3>1, <3>4, <5>1, <5>2 DEF Live, Alone
        <5> QED BY <2>1, <3>1, <3>4, <5>1, <5>3 DEF Applied
      <4> QED BY <4>1, <4>2, <4>3
    <3> QED BY <2>1, <3>3, <3>4
  <2> QED BY <1>1, <2>1, <2>2, SpecDoneWork
<1> QED BY <1>2, <1>3

LEMMA KeepWork ==
  ASSUME PassInvariant, PassInvariant', WorkInvariant, Keep
  PROVE  WorkInvariant'
<1> USE DEF WorkInvariant
<1>1. pc = "keep" /\ SpecDone("sync") /\ UNCHANGED <<spec, event, kernel>> /\ cur \in Specs
  BY DEF Keep, ListsInv
<1> PICK s \in Specs : s = cur
  BY <1>1
<1>2. ASSUME ~event', Live(s) PROVE Applied(s)'
  <2>1. list[cur].phase = spec[cur].phase /\ list[cur].want = spec[cur].want
    BY <1>1, <1>2 DEF QuietInv, InPass, Passing
  <2>2. spec[cur].want.link \in linksSeen /\ spec[cur].phase = "running"
    BY <1>1, <1>2 DEF ListsInv, Live, Passing
  <2>3. spec[cur].want \in tableSeen
    BY <1>1, <2>1, <2>2 DEF ListsInv
  <2>4. spec[cur].want \in kernel
    BY <1>1, <1>2, <2>3 DEF QuietInv, Syncing
  <2> QED BY <1>1, <2>4 DEF Applied
<1> QED BY <1>1, <1>2, SpecDoneWork

LEMMA RemoveWork ==
  ASSUME PassInvariant, PassInvariant', WorkInvariant, RemoveFinalizer
  PROVE  WorkInvariant'
<1> USE DEF WorkInvariant
<1>1. /\ pc = "remove" /\ SpecDone("sync") /\ UNCHANGED kernel
      /\ cur \in Specs /\ list[cur].phase = "tearingDown"
      /\ event' = (event \/ spec[cur].fin)
  BY DEF RemoveFinalizer, PassInvariant, AtSpec
<1> PICK s \in Specs : s = cur
  BY <1>1
<1>2. spec[cur] /= Absent =>
        /\ [spec[cur] EXCEPT !.fin = FALSE].phase = spec[cur].phase
        /\ [spec[cur] EXCEPT !.fin = FALSE].want = spec[cur].want
        /\ ~[spec[cur] EXCEPT !.fin = FALSE].fin
  BY <1>1 DEF PassInvariant, PassTypes, Resource
<1>3. \A t \in Specs : /\ spec'[t].phase = spec[t].phase /\ spec'[t].want = spec[t].want
                       /\ spec'[t].fin => spec[t].fin
  BY <1>1, <1>2 DEF RemoveFinalizer, PassInvariant, PassTypes
<1>4. ~event' => ~event /\ ~Live(s)
  BY <1>1 DEF QuietInv, InPass, Passing, Live
<1> QED BY <1>1, <1>3, <1>4, SpecDoneWork

-----------------------------------------------------------------------------
\* WorkInvariant is an invariant, for any specs, links and entries.
THEOREM WorkCorrect == Spec => []WorkInvariant
<1>1. PassInvariant /\ PassInvariant' /\ WorkInvariant /\ [Next]_vars => WorkInvariant'
  <2> SUFFICES ASSUME PassInvariant, PassInvariant', WorkInvariant, [Next]_vars
               PROVE  WorkInvariant'
    OBVIOUS
  <2>1. CASE UNCHANGED vars
    BY <2>1 DEF WorkInvariant, OwnTable, ListsInv, QuietInv, Listed, Matches, Live,
                Alone, Applied, Blocks, vars, local
  <2>2. CASE Environment
    BY <2>2, EnvironmentWork
  <2>3. CASE PassDone \/ CallFails
    BY <2>3, LeaveWork DEF PassDone, CallFails, Fail
  <2>4. CASE Restart
    BY <2>4 DEF Restart, WorkInvariant, OwnTable, ListsInv, QuietInv, Passing,
                Syncing, InPass
  <2>5. CASE Controller
    BY <2>3, <2>4, <2>5, ReconcileWork, AddFinalizerWork, ListWork, SyncWork,
       DeleteWork, AddWork, KeepWork, RemoveWork DEF Controller
  <2> QED BY <2>1, <2>2, <2>3, <2>5 DEF Next
<1> QED BY <1>1, WorkInit, PassCorrect, PTL DEF Spec

\* At rest every live spec that competes with no other is in the kernel,
\* although the pass worked by lists that changed under it.
THEOREM AppliedAtRest == Spec => []AppliedWhenIdle
<1>1. WorkInvariant => AppliedWhenIdle
  BY DEF WorkInvariant, QuietInv, AppliedWhenIdle, Idle, Live, Applied
<1> QED BY <1>1, WorkCorrect, PTL

\* The finalizer of a RouteSpec comes off only when no route of it is left,
\* save one that somebody else has added since the start.
THEOREM RoutesGoFirst == Spec => RouteRemovedFirst
<1>1. PassInvariant /\ WorkInvariant /\ [Next]_vars => [Removed("route")]_vars
  <2> SUFFICES ASSUME PassInvariant, WorkInvariant, Next,
                      NEW s \in Specs, kind = "route", spec[s].fin, ~spec'[s].fin,
                      NEW f \in kernel \ late, Matches(spec[s].want, f)
               PROVE  FALSE
    BY DEF Removed
  <2> USE DEF PassInvariant, WorkInvariant
  <2>1. RemoveFinalizer
    <3>1. CASE Environment
      <4>1. \A t \in Specs : spec[t].fin => spec'[t].fin
        BY <3>1, EnvironmentKeepsFinalizers
      <4> QED BY <4>1
    <3>2. CASE \E t \in Specs : AddFinalizer(t)
      BY <3>2 DEF AddFinalizer, Fail, PassTypes, Resource
    <3>3. ASSUME UNCHANGED spec PROVE FALSE
      BY <3>3
    <3> QED BY <3>1, <3>2, <3>3
         DEF Next, Controller, CallFails, Fail, Reconcile, ListLinks, ListTable, Sync,
             Delete, Add, Keep, PassDone, Restart
  <2>2. cur = s /\ pc = "remove" /\ doomed = {} /\ list[s].phase = "tearingDown"
    BY <2>1 DEF RemoveFinalizer, AtSpec, PassTypes
  <2>3. spec[s].want = list[s].want
    BY <2>2 DEF ListsInv, InPass, Passing
  <2>4. Listed(f)
    BY <2>2, <2>3 DEF ListsInv
  <2>5. PICK t \in Specs : list[t].phase = "running" /\ f = list[t].want
    BY <2>4 DEF Listed
  <2>6. t /= s /\ list[t].want \in Routes[t] /\ list[s].want \in Routes[s]
    BY <2>2, <2>5, AbsentIsResource DEF OwnTable, Contents
  <2>7. list[s].want.key = f.key /\ list[s].want.via = f.via
    BY <2>3 DEF Matches
  <2> QED BY <2>5, <2>6, <2>7, SpecAssumption
<1> QED BY <1>1, PassCorrect, WorkCorrect, PTL DEF Spec, RouteRemovedFirst

-----------------------------------------------------------------------------
(* Why the controller comes to rest: what Settles rests on.                *)

\* How far a pass is from its end: its stage, the specs left in that stage,
\* and what is left of the spec it is at.
Stage == CASE pc = "finalize" -> 3 [] pc = "table" -> 2
           [] pc \in Syncing -> 1 [] OTHER -> 0

AtSpecLeft == IF pc \in {"add", "keep", "remove"} THEN 1 + Cardinality(doomed)
                                                  ELSE 0

\* A pass is nearer to its end.
Nearer ==
  \/ Stage' < Stage
  \/ Stage' = Stage /\ Cardinality(todo') < Cardinality(todo)
  \/ Stage' = Stage /\ todo' = todo /\ AtSpecLeft' < AtSpecLeft

\* In a pass every step of the controller, a failed call included, brings it
\* nearer to its end, and nobody else touches what it has left to do.
PassStep ==
  pc \in InPass =>
    /\ Controller \/ CallFails => Nearer
    /\ ~(Controller \/ CallFails) => UNCHANGED local

\* How often the controller may still change the finalizer of a spec if
\* nobody changes the spec.  One that was torn down after it was listed gets
\* the finalizer first and loses it in a later pass.
ChangesLeft(s) ==
  CASE spec[s].phase = "running" -> IF spec[s].fin THEN 0 ELSE 1
    [] spec[s].phase = "tearingDown" ->
         IF spec[s].fin THEN 1
         ELSE IF pc = "finalize" /\ s \in todo THEN 2 ELSE 0
    [] OTHER -> 0

\* The controller never gives itself more to do: no step of it raises the
\* number for any spec, and where it wakes itself, restarts aside, the number
\* of a spec drops.
OwnWake ==
  Controller \/ CallFails =>
    /\ \A s \in Specs : ChangesLeft(s)' <= ChangesLeft(s)
    /\ ~event /\ event' /\ ~Restart =>
         \E s \in Specs : ChangesLeft(s)' < ChangesLeft(s)

\* A step of the environment leaves the controller's own variables alone.
LEMMA EnvironmentKeepsLocal == ASSUME Environment PROVE UNCHANGED local
BY DEF Environment, Create, Modify, Teardown, Destroy, Write, LinkGoes,
       LinkComes, Intrude, Change

\* A pass ends: with finitely many specs and entries every step of it is one
\* of finitely many, whatever others do meanwhile.
THEOREM PassEnds ==
  ASSUME IsFiniteSet(Specs), IsFiniteSet(Entries)
  PROVE  Spec => [][PassStep]_vars
<1>1. PassInvariant /\ Next => PassStep
  <2> SUFFICES ASSUME PassInvariant, Next, pc \in InPass, Controller \/ CallFails
               PROVE  Nearer
    BY EnvironmentKeepsLocal DEF PassStep, Next
  <2> USE DEF PassInvariant, PassTypes
  <2>1. IsFiniteSet(todo) /\ IsFiniteSet(doomed)
    BY FS_Subset
  <2>2. Cardinality(todo) \in Nat /\ Cardinality(doomed) \in Nat
    BY <2>1, FS_CardinalityType
  <2>3. ASSUME NEW s \in todo
        PROVE  Cardinality(todo \ {s}) < Cardinality(todo)
    <3>1. Cardinality(todo \ {s}) = Cardinality(todo) - 1
      BY <2>1, <2>3, FS_RemoveElement
    <3> QED BY <2>2, <3>1
  <2>4. ASSUME NEW to \in {"wait", "down"}, Leave(to) PROVE Nearer
    <3>1. pc' = to
      BY <2>4 DEF Leave
    <3>2. Stage' = 0
      BY <2>4, <3>1 DEF Stage, Syncing
    <3>3. Stage \in 1 .. 3
      BY DEF Stage, Syncing, InPass, Passing
    <3> QED BY <3>2, <3>3 DEF Nearer
  <2>5. CASE CallFails \/ PassDone
    BY <2>4, <2>5 DEF CallFails, Fail, PassDone
  <2>6. ASSUME NEW s \in Specs, AddFinalizer(s) PROVE Nearer
    <3>1. CASE spec[s] = Absent
      BY <2>4, <2>6, <3>1 DEF AddFinalizer, Fail
    <3>2. CASE spec[s] /= Absent
      <4>1. pc = "finalize" /\ pc' = pc /\ s \in todo /\ todo' = todo \ {s}
        BY <2>6, <3>2 DEF AddFinalizer
      <4>2. Stage' = Stage
        BY <4>1 DEF Stage, Syncing
      <4>3. Cardinality(todo') < Cardinality(todo)
        BY <2>3, <4>1
      <4> QED BY <4>2, <4>3 DEF Nearer
    <3> QED BY <3>1, <3>2
  <2>7. CASE ListLinks
    <3>1. pc = "finalize" /\ pc' = "table"
      BY <2>7 DEF ListLinks
    <3>2. Stage = 3 /\ Stage' = 2
      BY <3>1 DEF Stage, Syncing
    <3> QED BY <3>2 DEF Nearer
  <2>8. CASE ListTable
    <3>1. pc = "table" /\ pc' = "sync"
      BY <2>8 DEF ListTable
    <3>2. Stage = 2 /\ Stage' = 1
      BY <3>1 DEF Stage, Syncing
    <3> QED BY <3>2 DEF Nearer
  <2>9. ASSUME NEW s \in Specs, Sync(s) PROVE Nearer
    <3>1. /\ pc = "sync" /\ pc' \in {"remove", "keep", "add"}
          /\ s \in todo /\ todo' = todo \ {s}
      BY <2>9 DEF Sync
    <3>2. Stage' = Stage
      BY <3>1 DEF Stage, Syncing
    <3>3. Cardinality(todo') < Cardinality(todo)
      BY <2>3, <3>1
    <3> QED BY <3>2, <3>3 DEF Nearer
  <2>10. ASSUME NEW f \in doomed, Delete(f) PROVE Nearer
    <3>1. CASE f \notin kernel
      BY <2>4, <2>10, <3>1 DEF Delete, Fail
    <3>2. CASE f \in kernel
      <4>1. pc' = pc /\ todo' = todo /\ doomed' = doomed \ {f}
        BY <2>10, <3>2 DEF Delete
      <4>2. pc \in {"add", "keep", "remove"}
        BY <2>10 DEF DoomedInTheWay
      <4>3. Stage' = Stage
        BY <4>1 DEF Stage
      <4>4. Cardinality(doomed') = Cardinality(doomed) - 1
        BY <2>1, <4>1, FS_RemoveElement
      <4>5. AtSpecLeft = 1 + Cardinality(doomed) /\ AtSpecLeft' = 1 + Cardinality(doomed')
        BY <4>1, <4>2 DEF AtSpecLeft
      <4>6. AtSpecLeft' < AtSpecLeft
        BY <2>2, <4>4, <4>5
      <4> QED BY <4>1, <4>3, <4>6 DEF Nearer
    <3> QED BY <3>1, <3>2
  <2>11. ASSUME pc \in {"add", "keep", "remove"}, SpecDone("sync") PROVE Nearer
    <3>1. pc' = "sync" /\ todo' = todo
      BY <2>11 DEF SpecDone
    <3>2. Stage' = Stage
      BY <2>11, <3>1 DEF Stage, Syncing
    <3>3. AtSpecLeft = 1 + Cardinality(doomed) /\ AtSpecLeft' = 0
      BY <2>11, <3>1 DEF AtSpecLeft
    <3>4. AtSpecLeft' < AtSpecLeft
      BY <2>2, <3>3
    <3> QED BY <3>1, <3>2, <3>4 DEF Nearer
  <2>12. CASE Add \/ Keep \/ RemoveFinalizer
    BY <2>4, <2>11, <2>12 DEF Add, Keep, RemoveFinalizer, Fail
  <2>13. CASE Reconcile \/ Restart
    BY <2>13 DEF Reconcile, Restart, InPass, Passing
  <2> QED
    BY <2>5, <2>6, <2>7, <2>8, <2>9, <2>10, <2>12, <2>13 DEF Controller
<1> QED BY <1>1, PassCorrect, PTL DEF Spec

\* The controller cannot keep itself awake with its own finalizers: what it
\* may still change runs out, in whatever order it and others act, unless
\* somebody changes a spec or a failure restarts it.
THEOREM OwnWakesRunOut == Spec => [][OwnWake]_vars
<1>1. PassInvariant /\ WorkInvariant /\ Next => OwnWake
  <2> SUFFICES ASSUME PassInvariant, WorkInvariant, Next, Controller \/ CallFails
               PROVE  /\ \A s \in Specs : ChangesLeft(s)' <= ChangesLeft(s)
                      /\ ~event /\ event' /\ ~Restart =>
                           \E s \in Specs : ChangesLeft(s)' < ChangesLeft(s)
    BY DEF OwnWake
  <2> DEFINE Goal == /\ \A s \in Specs : ChangesLeft(s)' <= ChangesLeft(s)
                     /\ ~event /\ event' /\ ~Restart =>
                          \E s \in Specs : ChangesLeft(s)' < ChangesLeft(s)
  <2>1. \A s \in Specs : spec[s] \in Resource /\ ChangesLeft(s) \in 0 .. 2
    BY DEF PassInvariant, PassTypes, ChangesLeft
  <2>2. ASSUME UNCHANGED spec, event' => event \/ Restart,
               pc' = "finalize" /\ pc /= "finalize" =>
                 \A s \in todo' : spec[s].phase = "running",
               pc' = "finalize" /\ pc = "finalize" => todo' \subseteq todo
        PROVE  Goal
    <3>1. ASSUME NEW s \in Specs PROVE ChangesLeft(s)' <= ChangesLeft(s)
      BY <2>1, <2>2 DEF ChangesLeft
    <3> QED BY <2>2, <3>1
  <2>3. CASE Reconcile
    BY <2>2, <2>3 DEF Reconcile, ToFinalize
  <2>4. CASE Restart
    BY <2>2, <2>4 DEF Restart
  <2>5. ASSUME Fail PROVE Goal
    BY <2>2, <2>5 DEF Fail, Leave
  <2>6. CASE CallFails
    BY <2>5, <2>6 DEF CallFails
  <2>7. CASE PassDone
    BY <2>2, <2>7 DEF PassDone, Leave
  <2>8. CASE ListLinks \/ ListTable \/ Keep \/ \E s \in Specs : Sync(s)
    BY <2>2, <2>8 DEF ListLinks, ListTable, Keep, SpecDone, Sync
  <2>9. CASE \E f \in doomed : Delete(f)
    BY <2>2, <2>5, <2>9 DEF Delete
  <2>10. CASE Add
    BY <2>2, <2>5, <2>10 DEF Add, SpecDone
  <2>11. ASSUME NEW t \in Specs, AddFinalizer(t) PROVE Goal
    <3>1. CASE spec[t] = Absent
      BY <2>5, <2>11, <3>1 DEF AddFinalizer
    <3>2. CASE spec[t] /= Absent
      <4>1. /\ pc = "finalize" /\ pc' = pc /\ t \in todo /\ todo' = todo \ {t}
            /\ spec' = [spec EXCEPT ![t].fin = TRUE]
            /\ event' = (event \/ ~spec[t].fin)
        BY <2>11, <3>2 DEF AddFinalizer
      <4>2. spec[t] \in [phase : {"running", "tearingDown"}, fin : BOOLEAN,
                         want : Entries]
        BY <2>1, <3>2 DEF Resource
      <4>3. /\ spec'[t].fin = TRUE /\ spec'[t].phase = spec[t].phase
            /\ \A s \in Specs \ {t} : spec'[s] = spec[s]
        BY <4>1, <4>2 DEF PassInvariant, PassTypes
      <4>4. \A s \in Specs \ {t} : ChangesLeft(s)' = ChangesLeft(s)
        BY <4>1, <4>3 DEF ChangesLeft
      <4>5. /\ ChangesLeft(t)' <= ChangesLeft(t)
            /\ ~spec[t].fin => ChangesLeft(t)' < ChangesLeft(t)
        BY <4>1, <4>2, <4>3 DEF ChangesLeft
      <4>6. \A s \in Specs : ChangesLeft(s)' <= ChangesLeft(s)
        BY <2>1, <4>4, <4>5
      <4>7. ~event /\ event' => ~spec[t].fin
        BY <4>1
      <4> QED BY <4>5, <4>6, <4>7
    <3> QED BY <3>1, <3>2
  <2>12. CASE RemoveFinalizer
    <3>1. /\ pc = "remove" /\ pc' = "sync" /\ cur \in Specs
          /\ list[cur].phase = "tearingDown"
          /\ event' = (event \/ spec[cur].fin)
      BY <2>12 DEF RemoveFinalizer, SpecDone, PassInvariant, AtSpec
    <3>2. CASE ~spec[cur].fin
      <4>1. spec' = spec
        <5>1. CASE spec[cur] = Absent
          BY <2>12, <5>1 DEF RemoveFinalizer
        <5>2. CASE spec[cur] /= Absent
          <6>1. spec' = [spec EXCEPT ![cur].fin = FALSE]
            BY <2>12, <5>2 DEF RemoveFinalizer
          <6>2. spec[cur] \in [phase : {"running", "tearingDown"}, fin : BOOLEAN,
                               want : Entries]
            BY <2>1, <3>1, <5>2 DEF Resource
          <6>3. spec'[cur] = spec[cur]
            BY <3>1, <3>2, <6>1, <6>2 DEF PassInvariant, PassTypes
          <6> QED BY <3>1, <6>1, <6>3 DEF PassInvariant, PassTypes
        <5> QED BY <5>1, <5>2
      <4> QED BY <2>2, <3>1, <3>2, <4>1
    <3>3. CASE spec[cur].fin
      <4>1. spec[cur] /= Absent
        BY <3>3, AbsentIsResource
      <4>2. spec' = [spec EXCEPT ![cur].fin = FALSE]
        BY <2>12, <4>1 DEF RemoveFinalizer
      <4>3. spec[cur].phase = "tearingDown"
        BY <3>1, <3>3 DEF WorkInvariant, ListsInv, InPass, Passing
      <4>4. spec[cur] \in [phase : {"running", "tearingDown"}, fin : BOOLEAN,
                           want : Entries]
        BY <2>1, <3>1, <4>1 DEF Resource
      <4>5. /\ spec'[cur].fin = FALSE /\ spec'[cur].phase = spec[cur].phase
            /\ \A s \in Specs \ {cur} : spec'[s] = spec[s]
        BY <3>1, <4>2, <4>4 DEF PassInvariant, PassTypes
      <4>6. \A s \in Specs \ {cur} : ChangesLeft(s)' = ChangesLeft(s)
        BY <3>1, <4>5 DEF ChangesLeft
      <4>7. spec'[cur].phase = "tearingDown" /\ pc' /= "finalize"
        BY <3>1, <4>3, <4>5
      <4>8. ChangesLeft(cur) = 1
        BY <3>3, <4>3 DEF ChangesLeft
      <4> HIDE DEF Goal
      <4>9. \E s \in Specs : s = cur
        BY <3>1
      <4>10. PICK s \in Specs : s = cur
        BY <4>9
      <4>11. spec'[s].phase = "tearingDown" /\ ~spec'[s].fin
        BY <4>5, <4>7, <4>10
      <4>12. ChangesLeft(s)' = 0
        BY <4>7, <4>11 DEF ChangesLeft
      <4>13. ChangesLeft(s)' < ChangesLeft(s)
        BY <4>8, <4>10, <4>12
      <4>14. ASSUME NEW t \in Specs PROVE ChangesLeft(t)' <= ChangesLeft(t)
        <5>1. CASE t = s
          BY <4>8, <4>10, <4>12, <5>1
        <5>2. CASE t /= s
          <6>1. ChangesLeft(t)' = ChangesLeft(t)
            BY <4>6, <4>10, <5>2
          <6> QED BY <2>1, <6>1
        <5> QED BY <5>1, <5>2
      <4> QED BY <4>13, <4>14 DEF Goal
    <3> QED BY <3>2, <3>3
  <2> QED
    BY <2>3, <2>4, <2>6, <2>7, <2>8, <2>9, <2>10, <2>11, <2>12 DEF Controller
<1> QED BY <1>1, PassCorrect, WorkCorrect, PTL DEF Spec
=============================================================================
