--------------------------- MODULE ServicesProofs ---------------------------
(***************************************************************************)
(* Proofs about Services, for any services, dependencies, callers of Stop  *)
(* and numbers of starts: one run per service, no lost notification,       *)
(* dependencies that were up, a mutex whose holder never waits, no lost    *)
(* stop signal, a Shutdown that returns only when its services have ended, *)
(* and, with one start of each service, that the code keeps the promise of *)
(* module Manager.                                                         *)
(***************************************************************************)
EXTENDS Services, FiniteSetTheorems, TLAPS

-----------------------------------------------------------------------------
(* Types.                                                                  *)

Results == {"Finished", "Failed", "Skipped"}

\* A run is a service and a number.
LEMMA RunParts ==
  ASSUME NEW r \in Runs
  PROVE  r[1] \in Services /\ r[2] \in 1 .. MaxStarts /\ r = <<r[1], r[2]>>
BY DEF Runs

\* A waiter is its owner and a service.
LEMMA WaiterParts ==
  ASSUME NEW w \in Waiters
  PROVE  /\ w[2] \in Services
         /\ w \in RunWaiters => w[1] \in Runs /\ w[2] \in DependsOn[w[1][1]]
         /\ w \in CallerWaiters => w[1] \in Callers
         /\ w \in RunWaiters <=> w \notin CallerWaiters
<1>1. w \in RunWaiters \/ w \in CallerWaiters
  BY DEF Waiters
<1>2. w \in RunWaiters => w[1] \in Runs /\ w[2] \in Services /\ w[2] \in DependsOn[w[1][1]]
  BY DEF RunWaiters
<1>3. w \in CallerWaiters => w[1] \in Callers /\ w[2] \in Services
  BY DEF CallerWaiters
<1> QED
  BY <1>1, <1>2, <1>3, DistinctAssumption

\* The step of a run that makes an UpdateState keeps the types.
LEMMA EnterTypes ==
  ASSUME TypeOK, NEW r \in Runs, NEW from, NEW x \in ServiceState,
         NEW to \in RunPlaces, Enter(r, from, x, to)
  PROVE  TypeOK'
<1> USE DEF TypeOK, manager, callers
<1>1. r[1] \in Services
  BY RunParts
<1>2. run' \in [Runs -> RunPlaces]
  BY DEF Enter, Goto
<1>3. /\ state' \in [Services -> ServiceState]
      /\ note' \in [Runs -> ServiceState \cup {Nobody}]
      /\ everUp' \subseteq Services
  BY <1>1 DEF Enter, SetState
<1> QED
  BY <1>2, <1>3 DEF Enter

LEMMA ReturnTypes ==
  ASSUME TypeOK, NEW r \in Runs, NEW x \in Results, Return(r, x)
  PROVE  TypeOK'
<1> USE DEF TypeOK, callers
<1>1. /\ run' \in [Runs -> RunPlaces]
      /\ result' \in [Runs -> Results]
      /\ watcher' \in [Runs -> {"none", "ready", "select", "woken", "gone"}]
  BY DEF Return, RunPlaces, Results
<1>2. running' \subseteq loaded /\ cancelled' \subseteq Runs
  BY DEF Return
<1> QED
  BY <1>1, <1>2 DEF Return, Results

LEMMA LeaveTypes ==
  ASSUME TypeOK, NEW r \in Runs, NEW x \in Results, NEW from, Leave(r, from, x)
  PROVE  TypeOK'
BY DEF TypeOK, Leave, Goto, RunPlaces, Results, manager, callers

\* Every variable keeps its type.
THEOREM ServicesTypeCorrect == Spec => []TypeOK
<1> USE ServicesAssumption
<1>1. Init => TypeOK
  <2> SUFFICES ASSUME Init PROVE TypeOK
    OBVIOUS
  <2>1. starts \in [Services -> 0 .. MaxStarts] /\ stopCh \in [Services -> 0 .. 1]
    BY DEF Init
  <2>2. state \in [Services -> ServiceState] /\ note \in [Runs -> ServiceState \cup {Nobody}]
    BY DEF Init, ServiceState
  <2>3. run \in [Runs -> RunPlaces]
    BY DEF Init, RunPlaces
  <2> QED
    BY <2>1, <2>2, <2>3 DEF Init, TypeOK
<1>2. TypeOK /\ [Next]_vars => TypeOK'
  <2> SUFFICES ASSUME TypeOK, [Next]_vars PROVE TypeOK'
    OBVIOUS
  <2> USE DEF manager, runner, callers
  <2>1. ASSUME NEW s \in Services, Load(s) PROVE TypeOK'
    BY <2>1 DEF Load, TypeOK
  <2>2. ASSUME NEW s \in Services, Start(s) PROVE TypeOK'
    <3> DEFINE r == <<s, starts[s] + 1>>
    <3>1. r \in Runs /\ starts[s] + 1 \in 0 .. MaxStarts
      BY <2>2 DEF Start, TypeOK, Runs
    <3>2. /\ run' \in [Runs -> RunPlaces]
          /\ watcher' \in [Runs -> {"none", "ready", "select", "woken", "gone"}]
      BY <2>2, <3>1 DEF Start, TypeOK, RunPlaces
    <3>3. starts' \in [Services -> 0 .. MaxStarts] /\ mu' \in Runs
      BY <2>2, <3>1 DEF Start, TypeOK
    <3>4. running' \subseteq loaded
      BY <2>2 DEF Start, Startable, TypeOK
    <3> QED
      BY <2>2, <3>2, <3>3, <3>4 DEF Start, TypeOK
  <2>3. CASE DenyNewServices
    BY <2>3 DEF DenyNewServices, TypeOK
  <2>4. ASSUME NEW r \in Runs, Goroutine(r) PROVE TypeOK'
    <3>1. CASE FinishUpdate(r)
      <4>1. token' \subseteq Waiters /\ crashed' \in BOOLEAN
        BY <3>1 DEF FinishUpdate, TypeOK, Notified
      <4>2. note' \in [Runs -> ServiceState \cup {Nobody}]
        BY <3>1 DEF FinishUpdate, TypeOK
      <4> QED
        BY <3>1, <4>1, <4>2 DEF FinishUpdate, TypeOK
    <3>2. CASE Starting(r)
      BY <3>2, EnterTypes DEF Starting, ServiceState, RunPlaces
    <3>3. CASE CloseRunNotify(r)
      BY <3>3 DEF CloseRunNotify, Goto, TypeOK, RunPlaces
    <3>4. CASE WaitFor(r) \/ WaitTicks(r)
      BY <3>4, EnterTypes DEF WaitFor, WaitTicks, ServiceState, RunPlaces
    <3>5. CASE WaitSucceeds(r)
      BY <3>5 DEF WaitSucceeds, Goto, TypeOK, RunPlaces
    <3>6. CASE WaitFails(r)
      BY <3>6, ReturnTypes DEF WaitFails, Results
    <3>7. CASE Prepare(r)
      BY <3>7, EnterTypes DEF Prepare, ServiceState, RunPlaces
    <3>8. CASE PreFunc(r)
      BY <3>8, EnterTypes, ReturnTypes DEF PreFunc, ServiceState, RunPlaces, Results
    <3>9. CASE CreateRunner(r)
      <4>1. CASE Return(r, "Failed")
        BY <4>1, ReturnTypes DEF Results
      <4>2. ASSUME NEW x \in {"Skipped", "Failed"}, Leave(r, "create", x)
            PROVE  TypeOK'
        BY <4>2, LeaveTypes DEF Results
      <4>3. CASE /\ Goto(r, "create", "running")
                 /\ UNCHANGED <<manager, note, result, cancelled, watcher,
                                state, everUp, callers, stopCh, wait, token,
                                crashed>>
        BY <4>3 DEF Goto, TypeOK, RunPlaces
      <4> QED
        BY <3>9, <4>1, <4>2, <4>3 DEF CreateRunner
    <3>10. CASE PostFunc(r)
      <4>1. result[r] \in Results
        BY DEF TypeOK, Results
      <4> QED
        BY <3>10, <4>1, EnterTypes, ReturnTypes DEF PostFunc, ServiceState, RunPlaces
    <3>11. CASE FinalUpdate(r)
      <4>1. result[r] \in ServiceState
        BY DEF TypeOK, ServiceState
      <4> QED
        BY <3>11, <4>1, EnterTypes DEF FinalUpdate, RunPlaces
    <3> QED
      BY <2>4, <3>1, <3>2, <3>3, <3>4, <3>5, <3>6, <3>7, <3>8, <3>9, <3>10,
         <3>11 DEF Goroutine
  <2>5. ASSUME NEW r \in Runs, RunnerEvent(r) PROVE TypeOK'
    BY <2>5, EnterTypes DEF RunnerEvent, ServiceState, RunPlaces
  <2>6. ASSUME NEW r \in Runs, RunnerExit(r) PROVE TypeOK'
    BY <2>6, LeaveTypes DEF RunnerExit, Results
  <2>7. ASSUME NEW r \in Runs, Watcher(r) PROVE TypeOK'
    <3>1. r[1] \in Services
      BY RunParts
    <3> QED
      BY <2>7, <3>1 DEF Watcher, WatcherArrives, WatcherCancels, Watching, TypeOK
  <2>8. ASSUME NEW w \in Waiters, Waiter(w) PROVE TypeOK'
    <3>1. wait' \in [Waiters -> {"off", "pending", "done", "failed"}]
      BY <2>8 DEF Waiter, Subscribe, WaitEnds, TypeOK
    <3>2. token' \subseteq Waiters
      BY <2>8 DEF Waiter, Subscribe, TokenAtSubscribe, WaitEnds, TypeOK
    <3> QED
      BY <2>8, <3>1, <3>2 DEF Waiter, Subscribe, WaitEnds, TypeOK
  <2>9. ASSUME NEW c \in Callers, NEW ids \in SUBSET Services,
               StopServices(c, ids), terminating' \in BOOLEAN
        PROVE  TypeOK'
    BY <2>9 DEF StopServices, TypeOK
  <2>10. CASE Shutdown
    BY <2>9, <2>10 DEF Shutdown, Callers, TypeOK
  <2>11. ASSUME NEW c \in Stoppers, NEW s \in Services, Stop(c, s) PROVE TypeOK'
    BY <2>9, <2>11 DEF Stop, Callers, TypeOK
  <2>12. ASSUME NEW c \in Callers, Stopping(c) PROVE TypeOK'
    <3>1. ASSUME NEW s \in Services, SendStop(c, s) PROVE TypeOK'
      BY <3>1 DEF SendStop, TypeOK
    <3>2. CASE WaitForDown(c) \/ StopReturns(c)
      BY <3>2 DEF WaitForDown, StopReturns, Moves, TypeOK
    <3> QED
      BY <2>12, <3>1, <3>2 DEF Stopping
  <2>13. ASSUME NEW c \in Callers, StopGivesUp(c) PROVE TypeOK'
    BY <2>13 DEF StopGivesUp, Moves, TypeOK
  <2>14. CASE UNCHANGED vars
    BY <2>14 DEF vars, TypeOK
  <2> QED
    BY <2>1, <2>2, <2>3, <2>4, <2>5, <2>6, <2>7, <2>8, <2>10, <2>11, <2>12,
       <2>13, <2>14 DEF Next
<1> QED
  BY <1>1, <1>2, PTL DEF Spec

-----------------------------------------------------------------------------
(* One run per service.                                                    *)

\* Runs are numbered by the starts, and the running map has exactly the
\* services with a run that has not returned.
RunsInv ==
  /\ \A r \in Runs : run[r] = "none" <=> r[2] > starts[r[1]]
  /\ \A r \in Runs : Active(r) => r[1] \in running
  /\ \A s \in running : \E r \in Runs : r[1] = s /\ Active(r)
  /\ \A r, q \in Runs : r[1] = q[1] /\ Active(r) /\ Active(q) => r = q

\* A step of a run that does not return keeps it.
LEMMA RunMoves ==
  ASSUME TypeOK, RunsInv, NEW r \in Runs, NEW to \in RunPlaces \ {"none"},
         run' = [run EXCEPT ![r] = to], UNCHANGED <<running, starts>>,
         run[r] /= "none", Active(r) <=> to \notin {"final", "ended"}
  PROVE  RunsInv'
<1> USE DEF TypeOK, RunsInv
<1>1. \A q \in Runs : (run[q] = "none" <=> run'[q] = "none") /\ (Active(q) <=> Active(q)')
  BY DEF Active
<1> QED
  BY <1>1

\* A run that returns leaves the running map, and no other is in its place.
LEMMA RunReturns ==
  ASSUME TypeOK, RunsInv, NEW r \in Runs, NEW x, Return(r, x), Active(r)
  PROVE  RunsInv'
<1> USE DEF TypeOK, RunsInv
<1>1. /\ run' = [run EXCEPT ![r] = "final"]
      /\ running' = running \ {r[1]} /\ starts' = starts
  BY DEF Return
<1>2. \A q \in Runs : /\ run[q] = "none" <=> run'[q] = "none"
                      /\ Active(q)' <=> Active(q) /\ q /= r
  BY <1>1 DEF Active
<1> QED
  BY <1>1, <1>2

\* The places a run is at when Return, Leave or Enter happens.
LEMMA RunStep ==
  ASSUME TypeOK, RunsInv, NEW r \in Runs,
         Goroutine(r) \/ RunnerEvent(r) \/ RunnerExit(r)
  PROVE  RunsInv'
<1> USE DEF manager
<1>1. ASSUME NEW from \in RunPlaces \ {"none", "final", "ended"}, NEW x,
             NEW to \in RunPlaces \ {"none", "final", "ended"}, Enter(r, from, x, to)
      PROVE  RunsInv'
  <2>1. /\ run[r] = from /\ run' = [run EXCEPT ![r] = to]
        /\ UNCHANGED <<running, starts>>
    BY <1>1 DEF Enter, Goto
  <2> QED
    BY <2>1, RunMoves DEF Active
<1>2. ASSUME NEW from \in RunPlaces \ {"none", "final", "ended"}, NEW x,
             Leave(r, from, x)
      PROVE  RunsInv'
  <2>1. /\ run[r] = from /\ run' = [run EXCEPT ![r] = "post"]
        /\ UNCHANGED <<running, starts>>
    BY <1>2 DEF Leave, Goto
  <2> QED
    BY <2>1, RunMoves DEF Active, RunPlaces
<1>3. CASE FinishUpdate(r)
  BY <1>3 DEF FinishUpdate, RunsInv, Active
<1>4. CASE Starting(r) \/ WaitFor(r) \/ WaitTicks(r) \/ Prepare(r) \/ RunnerEvent(r)
  BY <1>1, <1>4 DEF Starting, WaitFor, WaitTicks, Prepare, RunnerEvent, RunPlaces
<1>5. CASE CloseRunNotify(r)
  <2>1. PICK to \in {"prepare", "wait"} :
          /\ run[r] = "started" /\ run' = [run EXCEPT ![r] = to]
          /\ UNCHANGED <<running, starts>>
    BY <1>5 DEF CloseRunNotify, Goto
  <2> QED
    BY <2>1, RunMoves DEF Active, RunPlaces
<1>6. CASE WaitSucceeds(r)
  <2>1. /\ run[r] = "waiting" /\ run' = [run EXCEPT ![r] = "prepare"]
        /\ UNCHANGED <<running, starts>>
    BY <1>6 DEF WaitSucceeds, Goto
  <2> QED
    BY <2>1, RunMoves DEF Active, RunPlaces
<1>7. CASE WaitFails(r)
  BY <1>7, RunReturns DEF WaitFails, Active
<1>8. CASE PreFunc(r)
  BY <1>8, <1>1, RunReturns DEF PreFunc, Active, RunPlaces
<1>9. CASE CreateRunner(r)
  <2>1. CASE run[r] = "create" /\ Return(r, "Failed")
    BY <2>1, RunReturns DEF Active
  <2>2. ASSUME NEW x \in {"Skipped", "Failed"}, Leave(r, "create", x)
        PROVE  RunsInv'
    BY <2>2, <1>2 DEF RunPlaces
  <2>3. CASE /\ Goto(r, "create", "running")
             /\ UNCHANGED <<manager, note, result, cancelled, watcher,
                            state, everUp, callers, stopCh, wait, token,
                            crashed>>
    <3>1. /\ run[r] = "create" /\ run' = [run EXCEPT ![r] = "running"]
          /\ UNCHANGED <<running, starts>>
      BY <2>3 DEF Goto
    <3> QED
      BY <3>1, RunMoves DEF Active, RunPlaces
  <2> QED
    BY <1>9, <2>1, <2>2, <2>3 DEF CreateRunner
<1>10. CASE RunnerExit(r)
  BY <1>10, <1>2 DEF RunnerExit, RunPlaces
<1>11. CASE PostFunc(r)
  BY <1>11, <1>1, RunReturns DEF PostFunc, Active, RunPlaces
<1>12. CASE FinalUpdate(r)
  <2>1. /\ run[r] = "final" /\ run' = [run EXCEPT ![r] = "ended"]
        /\ UNCHANGED <<running, starts>>
    BY <1>12 DEF FinalUpdate, Enter, Goto
  <2> QED
    BY <2>1, RunMoves DEF Active, RunPlaces
<1> QED
  BY <1>3, <1>4, <1>5, <1>6, <1>7, <1>8, <1>9, <1>10, <1>11, <1>12
     DEF Goroutine

\* RunsInv is an invariant, for any number of starts.
THEOREM RunsCorrect == Spec => []RunsInv
<1> USE ServicesAssumption
<1>1. Init => RunsInv
  BY RunParts DEF Init, RunsInv, Active
<1>2. TypeOK /\ RunsInv /\ [Next]_vars => RunsInv'
  <2> SUFFICES ASSUME TypeOK, RunsInv, [Next]_vars PROVE RunsInv'
    OBVIOUS
  <2> USE DEF manager, runner, callers
  <2>0. ASSUME UNCHANGED <<run, running, starts>> PROVE RunsInv'
    BY <2>0 DEF RunsInv, Active
  <2>1. ASSUME NEW s \in Services, Start(s) PROVE RunsInv'
    <3>0. <<s, starts[s] + 1>> \in Runs
      BY <2>1 DEF Start, TypeOK, Runs
    <3>1. PICK r \in Runs : r = <<s, starts[s] + 1>> /\ r[1] = s /\ r[2] = starts[s] + 1
      BY <3>0
    <3>2. /\ run' = [run EXCEPT ![r] = "starting"] /\ s \notin running
          /\ running' = running \cup {s} /\ starts' = [starts EXCEPT ![s] = @ + 1]
      BY <2>1, <3>1 DEF Start, Startable
    <3>3. run[r] = "none"
      BY <3>1 DEF RunsInv, TypeOK
    <3>4. \A q \in Runs : q /= r => run'[q] = run[q] /\ (Active(q)' <=> Active(q))
      BY <3>2 DEF TypeOK, Active
    <3>5. Active(r)' /\ run'[r] = "starting"
      BY <3>1, <3>2 DEF TypeOK, Active
    <3>6. ASSUME NEW q \in Runs PROVE run'[q] = "none" <=> q[2] > starts'[q[1]]
      <4>1. q[1] \in Services /\ q[2] \in 1 .. MaxStarts /\ q = <<q[1], q[2]>>
        BY RunParts
      <4>2. CASE q = r
        BY <3>1, <3>2, <3>5, <4>2 DEF TypeOK
      <4>3. CASE q /= r /\ q[1] = s
        <5>1. q[2] /= starts[s] + 1 /\ starts'[s] = starts[s] + 1 /\ starts[s] \in Nat
          BY <3>1, <3>2, <4>1, <4>3 DEF TypeOK
        <5>2. run[q] = "none" <=> q[2] > starts[s]
          BY <4>3 DEF RunsInv
        <5> QED
          BY <3>4, <4>1, <4>3, <5>1, <5>2
      <4>4. CASE q[1] /= s
        BY <3>1, <3>2, <3>4, <4>1, <4>4 DEF TypeOK, RunsInv
      <4> QED
        BY <4>2, <4>3, <4>4
    <3>7. \A q \in Runs : Active(q)' => q[1] \in running'
      BY <3>1, <3>2, <3>4 DEF RunsInv
    <3>8. \A u \in running' : \E q \in Runs : q[1] = u /\ Active(q)'
      BY <3>1, <3>2, <3>3, <3>4, <3>5 DEF RunsInv, Active
    <3>9. ASSUME NEW p \in Runs, NEW q \in Runs, p[1] = q[1], Active(p)', Active(q)'
          PROVE  p = q
      BY <3>1, <3>2, <3>4, <3>9 DEF RunsInv
    <3> QED
      BY <3>6, <3>7, <3>8, <3>9 DEF RunsInv
  <2>2. ASSUME NEW s \in Services, Load(s) PROVE RunsInv'
    BY <2>0, <2>2 DEF Load
  <2>3. CASE DenyNewServices
    BY <2>0, <2>3 DEF DenyNewServices
  <2>4. ASSUME NEW r \in Runs, Goroutine(r) \/ RunnerEvent(r) \/ RunnerExit(r)
        PROVE  RunsInv'
    BY <2>4, RunStep
  <2>5. ASSUME NEW r \in Runs, Watcher(r) PROVE RunsInv'
    BY <2>0, <2>5 DEF Watcher, WatcherArrives, WatcherCancels, Watching
  <2>6. ASSUME NEW w \in Waiters, Waiter(w) PROVE RunsInv'
    BY <2>0, <2>6 DEF Waiter, Subscribe, WaitEnds
  <2>7. CASE Shutdown
    BY <2>0, <2>7 DEF Shutdown, StopServices
  <2>8. ASSUME NEW c \in Stoppers, NEW s \in Services, Stop(c, s) PROVE RunsInv'
    BY <2>0, <2>8 DEF Stop, StopServices
  <2>9. ASSUME NEW c \in Callers, Stopping(c) \/ StopGivesUp(c) PROVE RunsInv'
    BY <2>0, <2>9 DEF Stopping, SendStop, WaitForDown, StopReturns,
                      StopGivesUp, Moves
  <2>10. CASE UNCHANGED vars
    BY <2>0, <2>10 DEF vars
  <2> QED
    BY <2>1, <2>2, <2>3, <2>4, <2>5, <2>6, <2>7, <2>8, <2>9, <2>10 DEF Next
<1> QED
  BY <1>1, <1>2, ServicesTypeCorrect, PTL DEF Spec

\* Runs of one service never overlap before they return, and the running map
\* says which services have one, for any number of starts.
THEOREM RunsDoNotOverlap == Spec => []OneRunPerService
<1>1. TypeOK /\ RunsInv => OneRunPerService
  <2> SUFFICES ASSUME TypeOK, RunsInv, NEW s \in Services
               PROVE  LET active == {r \in Runs : r[1] = s /\ Active(r)}
                      IN  Cardinality(active) <= 1 /\ (s \in running <=> active /= {})
    BY DEF OneRunPerService
  <2> DEFINE active == {r \in Runs : r[1] = s /\ Active(r)}
  <2>1. s \in running <=> active /= {}
    BY DEF RunsInv
  <2>2. Cardinality(active) <= 1
    <3>1. CASE active = {}
      BY <3>1, FS_EmptySet
    <3>2. CASE active /= {}
      <4>1. PICK r \in active : TRUE
        BY <3>2
      <4>2. active = {r}
        BY <4>1 DEF RunsInv
      <4>3. Cardinality({r}) = 1
        BY FS_Singleton
      <4> QED
        BY <4>2, <4>3
    <3> QED
      BY <3>1, <3>2
  <2> QED
    BY <2>1, <2>2
<1> QED
  BY <1>1, ServicesTypeCorrect, RunsCorrect, PTL

-----------------------------------------------------------------------------
(* Notifications.                                                          *)

PastWait == {"prepare", "pre", "create", "running"}
Past     == {"posted", "final", "ended"}

\* What a step of a run does as far as states, notifications and the promise
\* of the manager are concerned: it announces what it owes, or moves on, with
\* or without a new state.  It gets past waitFor only when all conditions are
\* done, and only a run that is past run() sets a state that is down.
RunShape(r, to) ==
  /\ run' = [run EXCEPT ![r] = to]
  /\ to \in PastWait => run[r] \in PastWait \/ ConditionsDone(r)
  /\ run[r] /= "none" /\ to /= "none" /\ (run[r] \in Past => to \in Past)
  /\ UNCHANGED <<loaded, terminating, callers, wait, token, crashed>>
  /\ \/ UNCHANGED <<state, note, everUp>>
     \/ \E x \in ServiceState : SetState(r, x) /\ (x \in Results => to \in Past)

LEMMA RunShapes ==
  ASSUME TypeOK, NEW r \in Runs,
         Goroutine(r) \/ RunnerEvent(r) \/ RunnerExit(r)
  PROVE  FinishUpdate(r) \/ \E to \in RunPlaces : RunShape(r, to)
<1> USE DEF manager, PastWait, Past, Results
<1>1. ASSUME NEW from \in RunPlaces, NEW x \in ServiceState, NEW to \in RunPlaces,
             Enter(r, from, x, to),
             to \in PastWait => from \in PastWait,
             from /= "none", to /= "none", from \in Past => to \in Past,
             x \in Results => to \in Past
      PROVE  RunShape(r, to)
  BY <1>1 DEF Enter, Goto, RunShape
<1>2. ASSUME NEW x, run[r] \in RunPlaces \ {"none"}, Return(r, x)
      PROVE  RunShape(r, "final")
  BY <1>2 DEF Return, RunShape, callers
<1>3. ASSUME NEW from \in {"create", "running"}, NEW x, Leave(r, from, x)
      PROVE  RunShape(r, "post")
  BY <1>3 DEF Leave, Goto, RunShape
<1> USE DEF RunPlaces
<1>4. CASE Starting(r) \/ WaitFor(r) \/ WaitTicks(r) \/ Prepare(r) \/ RunnerEvent(r)
  <2>1. CASE Starting(r)
    BY <2>1, <1>1 DEF Starting, ServiceState
  <2>2. CASE WaitFor(r)
    BY <2>2, <1>1 DEF WaitFor, ServiceState
  <2>3. CASE WaitTicks(r)
    BY <2>3, <1>1 DEF WaitTicks, ServiceState
  <2>4. CASE Prepare(r)
    BY <2>4, <1>1 DEF Prepare, ServiceState
  <2>5. CASE RunnerEvent(r)
    BY <2>5, <1>1 DEF RunnerEvent, ServiceState
  <2> QED
    BY <1>4, <2>1, <2>2, <2>3, <2>4, <2>5
<1>5. CASE CloseRunNotify(r)
  <2> DEFINE to == IF DependsOn[r[1]] = {} THEN "prepare" ELSE "wait"
  <2>1. to \in PastWait => ConditionsDone(r)
    BY DEF ConditionsDone
  <2>2. RunShape(r, to)
    BY <1>5, <2>1 DEF CloseRunNotify, Goto, RunShape, callers
  <2> QED
    BY <2>2
<1>6. CASE WaitSucceeds(r)
  <2>1. RunShape(r, "prepare")
    BY <1>6 DEF WaitSucceeds, Goto, RunShape
  <2> QED
    BY <2>1
<1>7. CASE WaitFails(r)
  BY <1>2, <1>7 DEF WaitFails
<1>8. CASE PreFunc(r)
  BY <1>1, <1>2, <1>8 DEF PreFunc, ServiceState
<1>9. CASE CreateRunner(r)
  <2>1. CASE run[r] = "create" /\ Return(r, "Failed")
    BY <2>1, <1>2
  <2>2. ASSUME NEW x, Leave(r, "create", x) PROVE RunShape(r, "post")
    BY <2>2, <1>3
  <2>3. CASE /\ Goto(r, "create", "running")
             /\ UNCHANGED <<manager, note, result, cancelled, watcher,
                            state, everUp, callers, stopCh, wait, token,
                            crashed>>
    <3>1. RunShape(r, "running")
      BY <2>3 DEF Goto, RunShape
    <3> QED
      BY <3>1
  <2> QED
    BY <1>9, <2>1, <2>2, <2>3 DEF CreateRunner
<1>10. CASE RunnerExit(r)
  BY <1>3, <1>10 DEF RunnerExit
<1>11. CASE PostFunc(r)
  BY <1>1, <1>2, <1>11 DEF PostFunc, ServiceState
<1>12. CASE FinalUpdate(r)
  <2>1. result[r] \in ServiceState
    BY DEF TypeOK, ServiceState
  <2> QED
    BY <2>1, <1>1, <1>12 DEF FinalUpdate
<1> QED
  BY <1>4, <1>5, <1>6, <1>7, <1>8, <1>9, <1>10, <1>11, <1>12 DEF Goroutine

\* A service with a state, or an announcement of one, that is up has been up,
\* and so have the dependencies that a run was told of.
UpInv ==
  /\ \A s \in Services : "up" \in StateEvents(state[s]) => s \in everUp
  /\ \A r \in Runs : note[r] /= Nobody /\ "up" \in StateEvents(note[r]) => r[1] \in everUp
  /\ \A w \in RunWaiters : w \in token \/ wait[w] = "done" => w[2] \in everUp
  /\ DependenciesWereUp

\* A step of a run keeps both.
LEMMA ShapeKeeps ==
  ASSUME TypeOK, UpInv, NoLostNotification, NEW r \in Runs, NEW to \in RunPlaces,
         RunShape(r, to)
  PROVE  UpInv' /\ NoLostNotification'
<1> USE ServicesAssumption, DistinctAssumption
<1>1. r[1] \in Services
  BY RunParts
<1>2. everUp \subseteq everUp' /\ UNCHANGED <<wait, token, crashed>>
  BY DEF RunShape, SetState
<1>3. \A w \in RunWaiters : w \in token' \/ wait'[w] = "done" => w[2] \in everUp'
  BY <1>2 DEF UpInv
<1>4. DependenciesWereUp'
  <2> SUFFICES ASSUME NEW q \in Runs, run'[q] \in PastWait
               PROVE  DependsOn[q[1]] \subseteq everUp'
    BY DEF DependenciesWereUp, PastWait
  <2>1. CASE run[q] \in PastWait
    BY <1>2, <2>1 DEF UpInv, DependenciesWereUp, PastWait
  <2>2. CASE run[q] \notin PastWait
    <3>1. q = r /\ ConditionsDone(r)
      BY <2>2 DEF RunShape, TypeOK
    <3>2. ASSUME NEW d \in DependsOn[r[1]] PROVE d \in everUp
      <4>1. d \in Services /\ <<r, d>> \in RunWaiters
        BY <1>1 DEF RunWaiters
      <4>2. wait[<<r, d>>] = "done"
        BY <3>1 DEF ConditionsDone
      <4> QED
        BY <4>1, <4>2 DEF UpInv
    <3> QED
      BY <1>2, <3>1, <3>2
  <2> QED
    BY <2>1, <2>2
<1>5. CASE UNCHANGED <<state, note, everUp>>
  <2>1. NoLostNotification'
    BY <1>2, <1>5 DEF NoLostNotification
  <2> QED
    BY <1>3, <1>4, <1>5, <2>1 DEF UpInv
<1>6. ASSUME NEW x \in ServiceState, SetState(r, x)
      PROVE  UpInv' /\ NoLostNotification'
  <2>1. /\ state' = [state EXCEPT ![r[1]] = x] /\ note[r] = Nobody
        /\ note' = [note EXCEPT ![r] = x] /\ x /= Nobody
        /\ "up" \in StateEvents(x) => r[1] \in everUp'
    BY <1>1, <1>6 DEF SetState
  <2>2. \A s \in Services : "up" \in StateEvents(state'[s]) => s \in everUp'
    BY <1>1, <1>2, <2>1 DEF TypeOK, UpInv
  <2>3. \A q \in Runs : note'[q] /= Nobody /\ "up" \in StateEvents(note'[q]) => q[1] \in everUp'
    BY <1>1, <1>2, <2>1 DEF TypeOK, UpInv
  <2>4. ASSUME NEW w \in Waiters, wait[w] = "pending", w \notin token,
               Awaited(w) \in StateEvents(state'[w[2]]), ~crashed
        PROVE  \E q \in Runs : /\ q[1] = w[2] /\ note'[q] /= Nobody
                               /\ Awaited(w) \in StateEvents(note'[q])
    <3>1. CASE w[2] = r[1]
      <4>1. state'[w[2]] = x /\ note'[r] = x
        BY <1>1, <2>1, <3>1 DEF TypeOK
      <4> QED
        BY <2>1, <2>4, <3>1, <4>1
    <3>2. CASE w[2] /= r[1]
      <4>1. state'[w[2]] = state[w[2]]
        BY <2>1, <3>2, WaiterParts DEF TypeOK
      <4>2. PICK q \in Runs : /\ q[1] = w[2] /\ note[q] /= Nobody
                             /\ Awaited(w) \in StateEvents(note[q])
        BY <2>4, <4>1 DEF NoLostNotification
      <4>3. note'[q] = note[q]
        BY <2>1, <4>2 DEF TypeOK
      <4> QED
        BY <4>2, <4>3
    <3> QED
      BY <3>1, <3>2
  <2>5. NoLostNotification'
    BY <1>2, <2>4 DEF NoLostNotification, Awaited
  <2> QED
    BY <1>3, <1>4, <2>2, <2>3, <2>5 DEF UpInv
<1> QED
  BY <1>5, <1>6 DEF RunShape

\* The announcement reaches everybody who waits for it.
LEMMA FinishKeeps ==
  ASSUME TypeOK, UpInv, NoLostNotification, NEW r \in Runs, FinishUpdate(r)
  PROVE  UpInv' /\ NoLostNotification'
<1> USE ServicesAssumption
<1>1. /\ note[r] /= Nobody /\ note' = [note EXCEPT ![r] = Nobody]
      /\ \/ crashed' = TRUE /\ token' = token
         \/ token' = token \cup Notified(r[1], note[r]) /\ crashed' = crashed
      /\ UNCHANGED <<run, state, everUp, wait>>
  BY DEF FinishUpdate
<1>2. \A q \in Runs : note'[q] /= Nobody => note'[q] = note[q] /\ q /= r
  BY <1>1 DEF TypeOK
<1>3. \A q \in Runs : q /= r => note'[q] = note[q]
  BY <1>1 DEF TypeOK
<1>4. ASSUME NEW w \in RunWaiters, w \in token' \/ wait'[w] = "done"
      PROVE  w[2] \in everUp'
  <2>1. CASE w \in token \/ wait[w] = "done"
    BY <1>1, <2>1 DEF UpInv
  <2>2. CASE w \in Notified(r[1], note[r])
    <3>1. w \in Waiters /\ w[2] = r[1] /\ Awaited(w) \in StateEvents(note[r])
      BY <2>2 DEF Notified
    <3>2. Awaited(w) = "up"
      BY <3>1, WaiterParts DEF Awaited
    <3> QED
      BY <1>1, <3>1, <3>2 DEF UpInv
  <2> QED
    BY <1>1, <1>4, <2>1, <2>2
<1>5. UpInv'
  BY <1>1, <1>2, <1>4 DEF UpInv, DependenciesWereUp
<1>6. CASE crashed'
  BY <1>5, <1>6 DEF NoLostNotification
<1>7. CASE ~crashed'
  <2> SUFFICES ASSUME NEW w \in Waiters, wait[w] = "pending", w \notin token',
                      Awaited(w) \in StateEvents(state[w[2]])
               PROVE  \E q \in Runs : /\ q[1] = w[2] /\ note'[q] /= Nobody
                                      /\ Awaited(w) \in StateEvents(note'[q])
    BY <1>1, <1>5, <1>7 DEF NoLostNotification, Awaited
  <2>1. ~crashed /\ token' = token \cup Notified(r[1], note[r])
    BY <1>1, <1>7 DEF TypeOK
  <2>2. PICK q \in Runs : /\ q[1] = w[2] /\ note[q] /= Nobody
                         /\ Awaited(w) \in StateEvents(note[q])
    BY <2>1 DEF NoLostNotification
  <2>3. q /= r
    BY <2>1, <2>2 DEF Notified
  <2> QED
    BY <1>3, <2>2, <2>3
<1> QED
  BY <1>6, <1>7

\* Conditions are entered with a token if what they wait for is the case.
LEMMA WaiterKeeps ==
  ASSUME TypeOK, UpInv, NoLostNotification, NEW v \in Waiters, Waiter(v)
  PROVE  UpInv' /\ NoLostNotification'
<1> USE DEF manager, runner
<1>1. UNCHANGED <<run, note, state, everUp, crashed>>
  BY DEF Waiter, Subscribe, WaitEnds
<1>2. \A w \in Waiters : w /= v => wait'[w] = wait[w] /\ (w \in token' <=> w \in token)
  BY DEF Waiter, Subscribe, WaitEnds, TokenAtSubscribe, TypeOK
<1>3. CASE Subscribe(v)
  <2>1. /\ wait'[v] = "pending"
        /\ v \in token' => v \in token \/ Awaited(v) \in StateEvents(state[v[2]])
        /\ Awaited(v) \in StateEvents(state[v[2]]) => v \in token'
    BY <1>3 DEF Subscribe, TokenAtSubscribe, TypeOK
  <2>2. v \in RunWaiters /\ v \in token' => v[2] \in everUp
    <3>1. v \in RunWaiters => Awaited(v) = "up" /\ v[2] \in Services
      BY WaiterParts DEF Awaited
    <3> QED
      BY <2>1, <3>1 DEF UpInv
  <2>3. UpInv'
    BY <1>1, <1>2, <2>1, <2>2 DEF UpInv, DependenciesWereUp, Waiters
  <2>4. NoLostNotification'
    BY <1>1, <1>2, <2>1 DEF NoLostNotification, Awaited
  <2> QED
    BY <2>3, <2>4
<1>4. CASE WaitEnds(v)
  <2>1. /\ wait'[v] /= "pending" /\ v \notin token'
        /\ wait'[v] = "done" => v \in token
    BY <1>4 DEF WaitEnds, TypeOK
  <2>2. UpInv'
    BY <1>1, <1>2, <2>1 DEF UpInv, DependenciesWereUp, Waiters
  <2>3. NoLostNotification'
    BY <1>1, <1>2, <2>1 DEF NoLostNotification, Awaited
  <2> QED
    BY <2>2, <2>3
<1> QED
  BY <1>3, <1>4 DEF Waiter

\* Both are invariants, for any services, dependencies and callers.
THEOREM NotificationsCorrect == Spec => [](UpInv /\ NoLostNotification)
<1> USE ServicesAssumption
<1>1. Init => UpInv /\ NoLostNotification
  BY WaiterParts, DistinctAssumption
     DEF Init, UpInv, NoLostNotification, DependenciesWereUp, StateEvents, Waiters
<1>2. TypeOK /\ (UpInv /\ NoLostNotification) /\ [Next]_vars
        => (UpInv /\ NoLostNotification)'
  <2> SUFFICES ASSUME TypeOK, UpInv, NoLostNotification, [Next]_vars
               PROVE  UpInv' /\ NoLostNotification'
    OBVIOUS
  <2> USE DEF manager, runner, callers
  <2>0. ASSUME UNCHANGED <<run, note, state, everUp, wait, token, crashed>>
        PROVE  UpInv' /\ NoLostNotification'
    BY <2>0 DEF UpInv, NoLostNotification, DependenciesWereUp
  <2>1. ASSUME NEW s \in Services, Load(s) PROVE UpInv' /\ NoLostNotification'
    BY <2>0, <2>1 DEF Load
  <2>2. ASSUME NEW s \in Services, Start(s) PROVE UpInv' /\ NoLostNotification'
    <3>1. /\ UNCHANGED <<note, state, everUp, wait, token, crashed>>
          /\ \A r \in Runs : run'[r] = run[r] \/ run'[r] = "starting"
      BY <2>2 DEF Start, TypeOK
    <3>2. DependenciesWereUp'
      BY <3>1 DEF UpInv, DependenciesWereUp
    <3> QED
      BY <3>1, <3>2 DEF UpInv, NoLostNotification
  <2>3. CASE DenyNewServices
    BY <2>0, <2>3 DEF DenyNewServices
  <2>4. ASSUME NEW r \in Runs, Goroutine(r) \/ RunnerEvent(r) \/ RunnerExit(r)
        PROVE  UpInv' /\ NoLostNotification'
    BY <2>4, RunShapes, ShapeKeeps, FinishKeeps
  <2>5. ASSUME NEW r \in Runs, Watcher(r) PROVE UpInv' /\ NoLostNotification'
    BY <2>0, <2>5 DEF Watcher, WatcherArrives, WatcherCancels, Watching
  <2>6. ASSUME NEW w \in Waiters, Waiter(w) PROVE UpInv' /\ NoLostNotification'
    BY <2>6, WaiterKeeps
  <2>7. CASE Shutdown
    BY <2>0, <2>7 DEF Shutdown, StopServices
  <2>8. ASSUME NEW c \in Stoppers, NEW s \in Services, Stop(c, s)
        PROVE  UpInv' /\ NoLostNotification'
    BY <2>0, <2>8 DEF Stop, StopServices
  <2>9. ASSUME NEW c \in Callers, Stopping(c)
        PROVE  UpInv' /\ NoLostNotification'
    BY <2>0, <2>9 DEF Stopping, SendStop, WaitForDown, StopReturns, Moves
  <2>10. ASSUME NEW c \in Callers, StopGivesUp(c)
         PROVE  UpInv' /\ NoLostNotification'
    <3>1. /\ UNCHANGED <<run, note, state, everUp, crashed>>
          /\ \A w \in Waiters :
               /\ wait'[w] = IF w[1] = c THEN "failed" ELSE wait[w]
               /\ w \in token' <=> w \in token /\ w[1] /= c
      BY <2>10 DEF StopGivesUp, Moves, TypeOK
    <3>2. NoLostNotification'
      BY <3>1 DEF NoLostNotification, Awaited
    <3>3. \A w \in RunWaiters : w \in token' \/ wait'[w] = "done" => w[2] \in everUp'
      BY <3>1 DEF UpInv, Waiters
    <3> QED
      BY <3>1, <3>2, <3>3 DEF UpInv, DependenciesWereUp
  <2>11. CASE UNCHANGED vars
    BY <2>0, <2>11 DEF vars
  <2> QED
    BY <2>1, <2>2, <2>3, <2>4, <2>5, <2>6, <2>7, <2>8, <2>9, <2>10, <2>11
       DEF Next
<1> QED
  BY <1>1, <1>2, ServicesTypeCorrect, PTL DEF Spec

\* No notification is lost between UpdateState and Subscribe.
THEOREM NotificationsReach == Spec => []NoLostNotification
BY NotificationsCorrect, PTL

\* A run gets past waitFor only when its dependencies have been up.
THEOREM DependenciesUp == Spec => []DependenciesWereUp
<1>1. UpInv => DependenciesWereUp
  BY DEF UpInv
<1> QED
  BY <1>1, NotificationsCorrect, PTL

-----------------------------------------------------------------------------
(* The promise of the manager.                                             *)

\* A run of the service is past run().
HasEnded(s) == \E r \in Runs : r[1] = s /\ run[r] \in Past

\* Whoever is told, or has seen, that a service is down has reason to: a run
\* of it is past run().  Shutdown waits for all that is loaded, since nothing
\* is loaded any more, and does not give up.
PromiseInv ==
  /\ \A r \in Runs : run[r] /= "none" => r[1] \in loaded
  /\ \A s \in Services : state[s] \in Results => HasEnded(s)
  /\ \A r \in Runs : note[r] \in Results => run[r] \in Past
  /\ \A w \in CallerWaiters : w \in token \/ wait[w] = "done" => HasEnded(w[2])
  /\ caller[Main] /= "idle" => terminating /\ toStop[Main] = loaded
  /\ \A c \in Callers : caller[c] = "returned" =>
       \A s \in toStop[c] : wait[<<c, s>>] \in {"done", "failed"}
  /\ \A s \in Services : wait[<<Main, s>>] /= "failed"

LEMMA DownIsResult ==
  ASSUME NEW x PROVE "down" \in StateEvents(x) <=> x \in Results
BY DEF StateEvents, Results

\* The conditions of a caller, one per service.
LEMMA CallerPairs ==
  ASSUME NEW c \in Callers, NEW s \in Services
  PROVE  /\ <<c, s>> \in CallerWaiters /\ <<c, s>> \in Waiters
         /\ <<c, s>>[1] = c /\ <<c, s>>[2] = s
BY DEF CallerWaiters, Waiters

LEMMA OneRunEach ==
  ASSUME MaxStarts = 1
  PROVE  /\ \A r \in Runs : r[1] \in Services /\ r = <<r[1], 1>>
         /\ \A s \in Services : <<s, 1>> \in Runs /\ <<s, 1>>[1] = s
<1>1. 1 .. MaxStarts = {1}
  OBVIOUS
<1> QED
  BY <1>1 DEF Runs

\* PromiseInv is an invariant, for any number of starts.
THEOREM PromiseCorrect == Spec => []PromiseInv
<1> USE ServicesAssumption
<1>main. Main \in Callers /\ \A w \in CallerWaiters : w \in Waiters /\ w[2] \in Services
  BY DEF Callers, CallerWaiters, Waiters
<1>1. Init => PromiseInv
  <2> SUFFICES ASSUME Init PROVE PromiseInv
    OBVIOUS
  <2>1. \A s \in Services : wait[<<Main, s>>] = "off"
    BY <1>main, CallerPairs DEF Init
  <2>2. \A r \in Runs : note[r] \notin Results
    BY DistinctAssumption DEF Init, Results, ServiceState
  <2> QED
    BY <1>main, <2>1, <2>2 DEF Init, PromiseInv, Results
<1>2. TypeOK /\ RunsInv /\ PromiseInv /\ [Next]_vars => PromiseInv'
  <2> SUFFICES ASSUME TypeOK, RunsInv, PromiseInv, [Next]_vars PROVE PromiseInv'
    OBVIOUS
  <2> USE DEF manager, runner, callers
  <2>0. ASSUME UNCHANGED <<loaded, run, note, state, wait, token>>,
               UNCHANGED <<caller[Main], toStop[Main], terminating>>,
               \A c \in Callers : /\ caller'[c] = "returned" => caller[c] = "returned"
                                  /\ caller[c] = "returned" => toStop'[c] = toStop[c]
        PROVE  PromiseInv'
    BY <2>0, <1>main DEF PromiseInv, HasEnded
  <2>1. ASSUME NEW s \in Services, Load(s) PROVE PromiseInv'
    <3>1. caller[Main] = "idle"
      BY <2>1 DEF Load, Accepting, PromiseInv
    <3> QED
      BY <2>1, <3>1 DEF Load, PromiseInv, HasEnded
  <2>2. ASSUME NEW s \in Services, Start(s) PROVE PromiseInv'
    <3>0. <<s, starts[s] + 1>> \in Runs
      BY <2>2 DEF Start, TypeOK, Runs
    <3>1. PICK r \in Runs : r = <<s, starts[s] + 1>> /\ r[1] = s /\ r[2] = starts[s] + 1
      BY <3>0
    <3>2. /\ s \in loaded /\ run' = [run EXCEPT ![r] = "starting"]
          /\ UNCHANGED <<loaded, note, state, wait, token, caller, toStop, terminating>>
      BY <2>2, <3>1 DEF Start, Startable
    <3>3. run[r] = "none"
      BY <3>1 DEF RunsInv, TypeOK
    <3>4. /\ \A q \in Runs : run[q] \in Past => run'[q] \in Past
          /\ \A q \in Runs : run'[q] /= "none" => run[q] /= "none" \/ q[1] = s
      BY <3>1, <3>2, <3>3 DEF TypeOK, Past
    <3> QED
      BY <3>2, <3>4 DEF PromiseInv, HasEnded
  <2>3. CASE DenyNewServices
    BY <2>0, <2>3 DEF DenyNewServices
  <2>4. ASSUME NEW r \in Runs, Goroutine(r) \/ RunnerEvent(r) \/ RunnerExit(r)
        PROVE  PromiseInv'
    <3>0. r[1] \in Services
      BY RunParts
    <3>1. ASSUME NEW to \in RunPlaces, RunShape(r, to) PROVE PromiseInv'
      <4>1. /\ run[r] /= "none" /\ (run[r] \in Past => to \in Past)
            /\ run' = [run EXCEPT ![r] = to]
            /\ UNCHANGED <<loaded, terminating, caller, toStop, wait, token>>
        BY <3>1 DEF RunShape
      <4>2. /\ \A q \in Runs : /\ run'[q] /= "none" => run[q] /= "none"
                               /\ run[q] \in Past => run'[q] \in Past
            /\ \A u \in Services : HasEnded(u) => HasEnded(u)'
            /\ run'[r] = to
        BY <4>1 DEF TypeOK, HasEnded
      <4>3. \A s \in Services : state'[s] \in Results => HasEnded(s)'
        <5>1. CASE UNCHANGED state
          BY <4>2, <5>1 DEF PromiseInv
        <5>2. ASSUME NEW x \in ServiceState, SetState(r, x), x \in Results => to \in Past,
                     NEW s \in Services, state'[s] \in Results
              PROVE  HasEnded(s)'
          <6>1. CASE s = r[1]
            BY <3>0, <4>2, <5>2, <6>1 DEF SetState, TypeOK, HasEnded
          <6>2. CASE s /= r[1]
            BY <3>0, <4>2, <5>2, <6>2 DEF SetState, TypeOK, PromiseInv
          <6> QED
            BY <6>1, <6>2
        <5> QED
          BY <3>1, <5>1, <5>2 DEF RunShape
      <4>4. \A q \in Runs : note'[q] \in Results => run'[q] \in Past
        <5>1. CASE UNCHANGED note
          BY <4>2, <5>1 DEF PromiseInv
        <5>2. ASSUME NEW x \in ServiceState, SetState(r, x), x \in Results => to \in Past
              PROVE  \A q \in Runs : note'[q] \in Results => run'[q] \in Past
          BY <4>1, <4>2, <5>2 DEF SetState, TypeOK, PromiseInv
        <5> QED
          BY <3>1, <5>1, <5>2 DEF RunShape
      <4> QED
        BY <1>main, <4>1, <4>2, <4>3, <4>4 DEF PromiseInv
    <3>2. CASE FinishUpdate(r)
      <4>1. /\ note[r] /= Nobody /\ note' = [note EXCEPT ![r] = Nobody]
            /\ token' \subseteq token \cup Notified(r[1], note[r])
            /\ UNCHANGED <<loaded, terminating, caller, toStop, run, state, wait>>
        BY <3>2 DEF FinishUpdate
      <4>2. \A w \in CallerWaiters : w \in Notified(r[1], note[r]) => HasEnded(w[2])
        BY <3>0, DownIsResult DEF Notified, Awaited, PromiseInv, HasEnded
      <4>3. \A q \in Runs : note'[q] \in Results => run[q] \in Past
        BY <4>1, DistinctAssumption DEF TypeOK, PromiseInv, Results, ServiceState
      <4>4. \A u \in Services : HasEnded(u)' <=> HasEnded(u)
        BY <4>1 DEF HasEnded
      <4> QED
        BY <1>main, <4>1, <4>2, <4>3, <4>4 DEF PromiseInv
    <3> QED
      BY <2>4, <3>1, <3>2, RunShapes
  <2>5. ASSUME NEW r \in Runs, Watcher(r) PROVE PromiseInv'
    BY <2>0, <2>5 DEF Watcher, WatcherArrives, WatcherCancels, Watching
  <2>6. ASSUME NEW v \in Waiters, Waiter(v) PROVE PromiseInv'
    <3>1. UNCHANGED <<loaded, run, note, state, caller, toStop, terminating>>
      BY <2>6 DEF Waiter, Subscribe, WaitEnds
    <3>2. \A w \in Waiters : w /= v => wait'[w] = wait[w] /\ (w \in token' <=> w \in token)
      BY <2>6 DEF Waiter, Subscribe, WaitEnds, TokenAtSubscribe, TypeOK
    <3>3. \A u \in Services : HasEnded(u)' <=> HasEnded(u)
      BY <3>1 DEF HasEnded
    <3>4. /\ wait[v] \notin {"done", "failed"}
          /\ v \in CallerWaiters => wait'[v] /= "failed"
          /\ v \in CallerWaiters /\ (v \in token' \/ wait'[v] = "done") => HasEnded(v[2])
      <4>1. CASE Subscribe(v)
        <5>1. /\ wait[v] = "off" /\ wait'[v] = "pending"
              /\ v \in token' => v \in token \/ Awaited(v) \in StateEvents(state[v[2]])
          BY <4>1 DEF Subscribe, TokenAtSubscribe, TypeOK
        <5>2. v \in CallerWaiters /\ v \in token' => HasEnded(v[2])
          BY <1>main, <5>1, DownIsResult DEF PromiseInv, Awaited
        <5> QED
          BY <5>1, <5>2
      <4>2. CASE WaitEnds(v)
        <5>1. /\ wait[v] \in {"off", "pending"} /\ v \notin token'
              /\ wait'[v] = "done" => v \in token
              /\ wait'[v] = "failed" => v \in RunWaiters
          BY <4>2 DEF WaitEnds, TypeOK
        <5> QED
          BY <5>1, WaiterParts DEF PromiseInv
      <4> QED
        BY <2>6, <4>1, <4>2 DEF Waiter
    <3>5. \A c \in Callers : caller'[c] = "returned" =>
            \A s \in toStop'[c] : wait'[<<c, s>>] \in {"done", "failed"}
      BY <3>1, <3>2, <3>4, CallerPairs DEF PromiseInv, TypeOK
    <3>6. \A s \in Services : wait'[<<Main, s>>] /= "failed"
      BY <1>main, <3>2, <3>4, CallerPairs DEF PromiseInv
    <3>7. \A w \in CallerWaiters : w \in token' \/ wait'[w] = "done" => HasEnded(w[2])
      BY <1>main, <3>2, <3>4 DEF PromiseInv
    <3> QED
      BY <1>main, <3>1, <3>3, <3>5, <3>6, <3>7 DEF PromiseInv
  <2>7. CASE Shutdown
    <3>1. /\ terminating' /\ caller'[Main] = "sending" /\ toStop'[Main] = loaded
          /\ \A c \in Callers : c /= Main => caller'[c] = caller[c] /\ toStop'[c] = toStop[c]
          /\ UNCHANGED <<loaded, run, note, state, wait, token>>
      BY <2>7, <1>main DEF Shutdown, StopServices, TypeOK
    <3>2. \A u \in Services : HasEnded(u)' <=> HasEnded(u)
      BY <3>1 DEF HasEnded
    <3> QED
      BY <1>main, <3>1, <3>2 DEF PromiseInv
  <2>8. ASSUME NEW c \in Stoppers, NEW s \in Services, Stop(c, s) PROVE PromiseInv'
    <3>1. c /= Main /\ c \in Callers
      BY DEF Callers
    <3>2. /\ caller'[c] = "sending" /\ caller[c] = "idle"
          /\ \A d \in Callers : d /= c => caller'[d] = caller[d] /\ toStop'[d] = toStop[d]
          /\ UNCHANGED <<loaded, run, note, state, wait, token, terminating>>
      BY <2>8, <3>1 DEF Stop, StopServices, TypeOK
    <3> QED
      BY <2>0, <1>main, <3>1, <3>2
  <2>9. ASSUME NEW c \in Callers, Stopping(c) PROVE PromiseInv'
    <3>1. ASSUME NEW s \in Services, SendStop(c, s) PROVE PromiseInv'
      BY <2>0, <3>1 DEF SendStop
    <3>2. CASE WaitForDown(c) \/ StopReturns(c)
      <4>1. /\ caller[c] /= "idle" /\ \A d \in Callers : d /= c => caller'[d] = caller[d]
            /\ caller'[c] = "returned" => \A s \in toStop[c] : wait[<<c, s>>] = "done"
            /\ UNCHANGED <<loaded, run, note, state, wait, token, toStop, terminating>>
        BY <3>2 DEF WaitForDown, StopReturns, Stopped, Moves, TypeOK
      <4>2. \A u \in Services : HasEnded(u)' <=> HasEnded(u)
        BY <4>1 DEF HasEnded
      <4> QED
        BY <1>main, <4>1, <4>2 DEF PromiseInv
    <3> QED
      BY <2>9, <3>1, <3>2 DEF Stopping
  <2>10. ASSUME NEW c \in Callers, StopGivesUp(c) PROVE PromiseInv'
    <3>1. /\ c /= Main /\ \A d \in Callers : d /= c => caller'[d] = caller[d]
          /\ UNCHANGED <<loaded, run, note, state, toStop, terminating>>
      BY <2>10 DEF StopGivesUp, Moves, TypeOK
    <3>2. \A w \in Waiters : /\ w \in token' => w \in token
                             /\ wait'[w] = IF w[1] = c THEN "failed" ELSE wait[w]
      BY <2>10 DEF StopGivesUp, TypeOK
    <3>3. \A u \in Services : HasEnded(u)' <=> HasEnded(u)
      BY <3>1 DEF HasEnded
    <3>4. \A d \in Callers, s \in Services :
            wait'[<<d, s>>] = IF d = c THEN "failed" ELSE wait[<<d, s>>]
      <4> SUFFICES ASSUME NEW d \in Callers, NEW s \in Services
                   PROVE  wait'[<<d, s>>] = IF d = c THEN "failed" ELSE wait[<<d, s>>]
        OBVIOUS
      <4>0. <<d, s>> \in Waiters /\ <<d, s>>[1] = d
        BY CallerPairs
      <4>1. PICK w \in Waiters : w = <<d, s>> /\ w[1] = d
        BY <4>0
      <4>2. wait'[w] = IF w[1] = c THEN "failed" ELSE wait[w]
        BY <3>2
      <4> QED
        BY <4>1, <4>2
    <3>5. \A d \in Callers : caller'[d] = "returned" =>
            \A s \in toStop'[d] : wait'[<<d, s>>] \in {"done", "failed"}
      <4> SUFFICES ASSUME NEW d \in Callers, caller'[d] = "returned", NEW s \in toStop[d]
                   PROVE  wait'[<<d, s>>] \in {"done", "failed"}
        BY <3>1
      <4>1. s \in Services
        BY DEF TypeOK
      <4> QED
        BY <3>1, <3>4, <4>1 DEF PromiseInv
    <3>6. \A w \in CallerWaiters : w \in token' \/ wait'[w] = "done" => HasEnded(w[2])
      BY <1>main, <3>2 DEF PromiseInv
    <3>7. \A s \in Services : wait'[<<Main, s>>] /= "failed"
      BY <1>main, <3>1, <3>4 DEF PromiseInv
    <3> QED
      BY <1>main, <3>1, <3>3, <3>5, <3>6, <3>7 DEF PromiseInv
  <2>11. CASE UNCHANGED vars
    BY <2>0, <2>11 DEF vars
  <2> QED
    BY <2>1, <2>2, <2>3, <2>4, <2>5, <2>6, <2>7, <2>8, <2>9, <2>10, <2>11
       DEF Next
<1> QED
  BY <1>1, <1>2, ServicesTypeCorrect, RunsCorrect, PTL DEF Spec

\* A Stop or Shutdown that has returned has seen every one of its services
\* end, unless its ctx expired, which a Shutdown's never does.
ReturnedMeansEnded ==
  /\ \A c \in Callers : caller[c] = "returned" =>
       \A s \in toStop[c] : HasEnded(s) \/ wait[<<c, s>>] = "failed"
  /\ caller[Main] = "returned" => \A s \in loaded : HasEnded(s)

\* However often services are started, and whoever else stops them: a run of
\* each loaded service has left run() by the time Shutdown returns.
THEOREM ShutdownEndsServices == Spec => []ReturnedMeansEnded
<1>1. TypeOK /\ PromiseInv => ReturnedMeansEnded
  <2> SUFFICES ASSUME TypeOK, PromiseInv PROVE ReturnedMeansEnded
    OBVIOUS
  <2>1. ASSUME NEW c \in Callers, caller[c] = "returned", NEW s \in toStop[c]
        PROVE  s \in Services /\ (HasEnded(s) \/ wait[<<c, s>>] = "failed")
    <3>1. s \in Services
      BY DEF TypeOK
    <3>2. wait[<<c, s>>] \in {"done", "failed"}
      BY <2>1 DEF PromiseInv
    <3> QED
      BY <3>1, <3>2, CallerPairs DEF PromiseInv
  <2>2. ASSUME caller[Main] = "returned", NEW s \in loaded PROVE HasEnded(s)
    <3>1. s \in toStop[Main] /\ Main \in Callers
      BY <2>2 DEF PromiseInv, Callers
    <3> QED
      BY <2>1, <2>2, <3>1 DEF PromiseInv
  <2> QED
    BY <2>1, <2>2 DEF ReturnedMeansEnded
<1> QED
  BY <1>1, ServicesTypeCorrect, PromiseCorrect, PTL

\* With one start of each service, every behaviour of pkg/system is one of the
\* abstract manager: Shutdown returns only when every loaded service has left
\* run(), for any services, dependencies and callers of Stop.
THEOREM ServicesImplementManager ==
  ASSUME MaxStarts = 1 PROVE Spec => ImplementsManager
<1> USE ServicesAssumption
<1>1. Init => Promise!ManagerInit
  BY OneRunEach, DistinctAssumption DEF Init, Promise!ManagerInit, Life, Callers
<1>2. TypeOK /\ RunsInv /\ PromiseInv /\ [Next]_vars
        => [Promise!ManagerNext]_(Promise!managerVars)
  <2> SUFFICES ASSUME TypeOK, RunsInv, PromiseInv, [Next]_vars
               PROVE  Promise!ManagerNext \/ UNCHANGED Promise!managerVars
    OBVIOUS
  <2> USE DEF manager, runner, callers
  <2> DEFINE lives == [s \in Services |-> Life(s)]
  <2>main. Main \in Callers
    BY DEF Callers
  <2>0. ASSUME UNCHANGED <<loaded, run, terminating>>, UNCHANGED caller[Main]
        PROVE  UNCHANGED Promise!managerVars
    BY <2>0 DEF Promise!managerVars, Life
  <2>1. ASSUME NEW s \in Services, Load(s) PROVE Promise!Load(s)
    <3>1. /\ s \notin loaded /\ loaded' = loaded \cup {s} /\ ~terminating
          /\ UNCHANGED <<run, terminating, caller>>
      BY <2>1 DEF Load, Accepting
    <3>2. run[<<s, 1>>] = "none"
      BY <3>1, OneRunEach DEF PromiseInv
    <3>3. lives[s] = "unloaded" /\ lives' = [lives EXCEPT ![s] = "loaded"]
      <4>1. Life(s) = "unloaded" /\ Life(s)' = "loaded"
        BY <3>1, <3>2 DEF Life
      <4>2. \A u \in Services : u /= s => Life(u)' = Life(u)
        BY <3>1, <3>2 DEF Life
      <4> QED
        BY <4>1, <4>2
    <3> QED
      BY <3>1, <3>3 DEF Promise!Load, Promise!Becomes
  <2>2. ASSUME NEW s \in Services, Start(s) PROVE Promise!Start(s)
    <3>1. starts[s] = 0
      BY <2>2 DEF Start, TypeOK
    <3>2. /\ s \in loaded /\ run' = [run EXCEPT ![<<s, 1>>] = "starting"]
          /\ ~terminating /\ UNCHANGED <<loaded, terminating, caller>>
      BY <2>2, <3>1 DEF Start, Startable, Accepting
    <3>3. run[<<s, 1>>] = "none"
      BY <3>1, OneRunEach DEF RunsInv
    <3>4. /\ run'[<<s, 1>>] = "starting"
          /\ \A u \in Services : u /= s => run'[<<u, 1>>] = run[<<u, 1>>]
      BY <3>2, OneRunEach DEF TypeOK
    <3>5. lives[s] = "loaded" /\ lives' = [lives EXCEPT ![s] = "active"]
      <4>1. Life(s) = "loaded" /\ Life(s)' = "active"
        BY <3>2, <3>3, <3>4 DEF Life
      <4>2. \A u \in Services : u /= s => Life(u)' = Life(u)
        BY <3>2, <3>3, <3>4 DEF Life
      <4> QED
        BY <4>1, <4>2
    <3> QED
      BY <3>2, <3>5 DEF Promise!Start, Promise!Becomes
  <2>3. CASE DenyNewServices
    BY <2>0, <2>3 DEF DenyNewServices
  <2>4. ASSUME NEW r \in Runs, Goroutine(r) \/ RunnerEvent(r) \/ RunnerExit(r)
        PROVE  Promise!ManagerNext \/ UNCHANGED Promise!managerVars
    <3>1. CASE FinishUpdate(r)
      BY <2>0, <3>1 DEF FinishUpdate
    <3>2. ASSUME NEW to \in RunPlaces, RunShape(r, to)
          PROVE  Promise!End(r[1]) \/ UNCHANGED Promise!managerVars
      <4>1. /\ r[1] \in Services /\ r = <<r[1], 1>> /\ r[1] \in loaded
            /\ run[r] /= "none" /\ to /= "none" /\ (run[r] \in Past => to \in Past)
            /\ run' = [run EXCEPT ![r] = to]
            /\ UNCHANGED <<loaded, terminating, caller>>
        BY <3>2, OneRunEach DEF RunShape, PromiseInv
      <4>2. /\ run'[<<r[1], 1>>] = to
            /\ \A u \in Services : u /= r[1] => run'[<<u, 1>>] = run[<<u, 1>>]
        BY <4>1, OneRunEach DEF TypeOK
      <4>3. CASE run[r] \in Past \/ to \notin Past
        <5>1. lives' = lives
          BY <4>1, <4>2, <4>3 DEF Life, Past
        <5> QED
          BY <4>1, <5>1 DEF Promise!managerVars
      <4>4. CASE run[r] \notin Past /\ to \in Past
        <5>1. lives[r[1]] = "active" /\ lives' = [lives EXCEPT ![r[1]] = "ended"]
          <6>1. Life(r[1]) = "active" /\ Life(r[1])' = "ended"
            BY <4>1, <4>2, <4>4 DEF Life, Past
          <6>2. \A u \in Services : u /= r[1] => Life(u)' = Life(u)
            BY <4>1, <4>2, <4>4 DEF Life, Past
          <6> QED
            BY <4>1, <6>1, <6>2
        <5> QED
          BY <4>1, <5>1 DEF Promise!End, Promise!Becomes
      <4> QED
        BY <4>3, <4>4
    <3> QED
      BY <2>4, <3>1, <3>2, RunShapes, OneRunEach DEF Promise!ManagerNext
  <2>5. ASSUME NEW r \in Runs, Watcher(r) PROVE UNCHANGED Promise!managerVars
    BY <2>0, <2>5 DEF Watcher, WatcherArrives, WatcherCancels, Watching
  <2>6. ASSUME NEW w \in Waiters, Waiter(w) PROVE UNCHANGED Promise!managerVars
    BY <2>0, <2>6 DEF Waiter, Subscribe, WaitEnds
  <2>7. CASE Shutdown
    <3>1. /\ ~terminating /\ terminating' = TRUE /\ UNCHANGED <<loaded, run>>
          /\ caller[Main] = "idle" /\ caller'[Main] = "sending"
      BY <2>7, <2>main DEF Shutdown, StopServices, TypeOK
    <3>2. lives' = lives
      BY <3>1 DEF Life
    <3> QED
      BY <3>1, <3>2 DEF Promise!ManagerNext, Promise!Shutdown
  <2>8. ASSUME NEW c \in Stoppers, NEW s \in Services, Stop(c, s)
        PROVE  UNCHANGED Promise!managerVars
    <3>1. c /= Main /\ c \in Callers
      BY DEF Callers
    <3> QED
      BY <2>0, <2>8, <2>main, <3>1 DEF Stop, StopServices, TypeOK
  <2>9. ASSUME NEW c \in Callers, Stopping(c)
        PROVE  Promise!ManagerNext \/ UNCHANGED Promise!managerVars
    <3>1. ASSUME NEW s \in Services, SendStop(c, s)
          PROVE  UNCHANGED Promise!managerVars
      BY <2>0, <3>1 DEF SendStop
    <3>2. CASE WaitForDown(c)
      <4>1. /\ (caller'[Main] = "returned") = (caller[Main] = "returned")
            /\ UNCHANGED <<loaded, run, terminating>>
        BY <3>2, <2>main DEF WaitForDown, Moves, TypeOK
      <4> QED
        BY <4>1 DEF Promise!managerVars, Life
    <3>3. CASE StopReturns(c) /\ c /= Main
      <4>1. caller'[Main] = caller[Main] /\ UNCHANGED <<loaded, run, terminating>>
        BY <3>3, <2>main DEF StopReturns, Moves, TypeOK
      <4> QED
        BY <2>0, <4>1
    <3>4. CASE StopReturns(Main)
      <4>1. /\ caller[Main] = "waiting" /\ caller'[Main] = "returned"
            /\ UNCHANGED <<loaded, run, terminating>>
            /\ \A s \in toStop[Main] : wait[<<Main, s>>] = "done"
        BY <3>4, <2>main DEF StopReturns, Stopped, Moves, TypeOK
      <4>2. terminating /\ toStop[Main] = loaded
        BY <4>1 DEF PromiseInv
      <4>3. ASSUME NEW s \in Services PROVE lives[s] \in {"unloaded", "ended"}
        <5>1. CASE s \notin loaded
          BY <5>1 DEF Life
        <5>2. CASE s \in loaded
          <6>1. <<Main, s>> \in CallerWaiters /\ <<Main, s>>[2] = s
            BY <2>main DEF CallerWaiters
          <6>2. HasEnded(s)
            BY <4>1, <4>2, <5>2, <6>1 DEF PromiseInv
          <6>3. run[<<s, 1>>] \in Past
            BY <6>2, OneRunEach DEF HasEnded
          <6> QED
            BY <5>2, <6>3 DEF Life, Past
        <5> QED
          BY <5>1, <5>2
      <4>4. lives' = lives
        BY <4>1 DEF Life
      <4> QED
        BY <4>1, <4>2, <4>3, <4>4 DEF Promise!ManagerNext, Promise!ShutdownReturns
    <3> QED
      BY <2>9, <3>1, <3>2, <3>3, <3>4 DEF Stopping
  <2>10. ASSUME NEW c \in Callers, StopGivesUp(c)
         PROVE  UNCHANGED Promise!managerVars
    <3>1. caller'[Main] = caller[Main] /\ UNCHANGED <<loaded, run, terminating>>
      BY <2>10, <2>main DEF StopGivesUp, Moves, TypeOK
    <3> QED
      BY <2>0, <3>1
  <2>11. CASE UNCHANGED vars
    BY <2>0, <2>11 DEF vars
  <2> QED
    BY <2>1, <2>2, <2>3, <2>4, <2>5, <2>6, <2>7, <2>8, <2>9, <2>10, <2>11
       DEF Next, Promise!ManagerNext
<1> QED
  BY <1>1, <1>2, ServicesTypeCorrect, RunsCorrect, PromiseCorrect, PTL
     DEF Spec, ImplementsManager, Promise!ManagerSpec

-----------------------------------------------------------------------------
(* The manager's mutex and the stop channel.                               *)

Held     == {"starting", "started"}
Returned == {"final", "ended"}

\* What a step of a run does to the mutex, its ctx and its watcher: it keeps
\* the mutex until it closes runNotify, and only its return cancels its ctx.
RunSignals(r) ==
  /\ UNCHANGED <<stopCh, callers, starts>>
  /\ \/ UNCHANGED <<run, mu, cancelled, watcher>>
     \/ \E to \in RunPlaces \ {"none"} :
          /\ run[r] /= "none" /\ run' = [run EXCEPT ![r] = to]
          /\ \/ mu' = mu /\ (to \in Held <=> run[r] \in Held)
             \/ mu' = Nobody /\ run[r] \in Held /\ to \notin Held
          /\ \/ /\ UNCHANGED <<cancelled, watcher>>
                /\ to \in Returned => run[r] \in Returned
             \/ /\ cancelled' = cancelled \cup {r}
                /\ watcher' = [watcher EXCEPT ![r] = IF @ = "select" THEN "gone" ELSE @]

LEMMA RunSignalsShape ==
  ASSUME TypeOK, NEW r \in Runs,
         Goroutine(r) \/ RunnerEvent(r) \/ RunnerExit(r)
  PROVE  RunSignals(r)
<1> USE DEF manager, callers, Held, Returned
<1>0. ASSUME NEW from \in RunPlaces \ {"none"}, NEW to \in RunPlaces \ {"none"},
             Goto(r, from, to), UNCHANGED <<stopCh, callers, starts, mu, cancelled, watcher>>,
             to \in Held <=> from \in Held, to \in Returned => from \in Returned
      PROVE  RunSignals(r)
  BY <1>0 DEF Goto, RunSignals
<1>1. ASSUME NEW from \in RunPlaces \ {"none"}, NEW x, NEW to \in RunPlaces \ {"none"},
             Enter(r, from, x, to), to \in Held <=> from \in Held,
             to \in Returned => from \in Returned
      PROVE  RunSignals(r)
  BY <1>0, <1>1 DEF Enter
<1>2. ASSUME NEW x, run[r] \notin Held \cup {"none"}, Return(r, x)
      PROVE  RunSignals(r)
  BY <1>2 DEF Return, RunSignals, RunPlaces
<1>3. ASSUME NEW from \in {"create", "running"}, NEW x, Leave(r, from, x)
      PROVE  RunSignals(r)
  BY <1>0, <1>3 DEF Leave, RunPlaces
<1>4. CASE FinishUpdate(r)
  BY <1>4 DEF FinishUpdate, RunSignals
<1>5. CASE Starting(r) \/ WaitFor(r) \/ WaitTicks(r) \/ Prepare(r) \/ RunnerEvent(r)
  BY <1>1, <1>5 DEF Starting, WaitFor, WaitTicks, Prepare, RunnerEvent, RunPlaces
<1>6. CASE CloseRunNotify(r)
  <2>1. PICK to \in {"prepare", "wait"} : Goto(r, "started", to)
    BY <1>6 DEF CloseRunNotify
  <2> QED
    BY <1>6, <2>1 DEF CloseRunNotify, Goto, RunSignals, RunPlaces
<1>7. CASE WaitSucceeds(r)
  BY <1>0, <1>7 DEF WaitSucceeds, RunPlaces
<1>8. CASE WaitFails(r)
  BY <1>2, <1>8 DEF WaitFails
<1>9. CASE PreFunc(r)
  BY <1>1, <1>2, <1>9 DEF PreFunc, RunPlaces
<1>10. CASE CreateRunner(r)
  <2>1. CASE run[r] = "create" /\ Return(r, "Failed")
    BY <2>1, <1>2
  <2>2. ASSUME NEW x, Leave(r, "create", x) PROVE RunSignals(r)
    BY <2>2, <1>3
  <2>3. CASE /\ Goto(r, "create", "running")
             /\ UNCHANGED <<manager, note, result, cancelled, watcher,
                            state, everUp, callers, stopCh, wait, token,
                            crashed>>
    BY <1>0, <2>3 DEF RunPlaces
  <2> QED
    BY <1>10, <2>1, <2>2, <2>3 DEF CreateRunner
<1>11. CASE RunnerExit(r)
  BY <1>3, <1>11 DEF RunnerExit
<1>12. CASE PostFunc(r)
  BY <1>1, <1>2, <1>12 DEF PostFunc, RunPlaces
<1>13. CASE FinalUpdate(r)
  BY <1>1, <1>13 DEF FinalUpdate, RunPlaces
<1> QED
  BY <1>4, <1>5, <1>6, <1>7, <1>8, <1>9, <1>10, <1>11, <1>12, <1>13 DEF Goroutine

\* The run for which Start holds s.mu is in its first two steps.
HolderIsStarting ==
  \A r \in Runs : mu = r <=> run[r] \in {"starting", "started"}

\* A watcher in its select has nothing to wait for, and one that is gone has
\* cancelled the run or was ended by it.
WatchersInv ==
  \A r \in Runs :
    /\ watcher[r] = "none" <=> run[r] = "none"
    /\ watcher[r] = "select" => r \notin cancelled /\ stopCh[r[1]] = 0
    /\ watcher[r] = "gone" => r \in cancelled
    /\ run[r] \in {"final", "ended"} => r \in cancelled

\* A stop signal that ServiceRunner.Shutdown sent to a service that is not
\* started a second time reaches its run: the ctx is done, the watcher has
\* it, or it is in the channel and the watcher has yet to look.
NoLostStop ==
  \A c \in Callers, s \in Services :
    LET r == <<s, 1>>
    IN  s \in toStop[c] \ unsent[c] /\ starts[s] <= 1 =>
          \/ r \in cancelled
          \/ watcher[r] = "woken"
          \/ stopCh[s] = 1 /\ watcher[r] \in {"none", "ready"}

\* Start waits for its run while it holds s.mu, and that run neither waits
\* for a dependency nor needs the mutex until it has let Start go: for any
\* services and number of starts.
THEOREM HolderNeverWaits == Spec => []HolderIsStarting
<1> USE ServicesAssumption, DistinctAssumption
<1>1. Init => HolderIsStarting
  BY DEF Init, HolderIsStarting
<1>2. TypeOK /\ RunsInv /\ HolderIsStarting /\ [Next]_vars => HolderIsStarting'
  <2> SUFFICES ASSUME TypeOK, RunsInv, HolderIsStarting, [Next]_vars
               PROVE  HolderIsStarting'
    OBVIOUS
  <2> USE DEF manager, runner, callers
  <2>0. ASSUME UNCHANGED <<run, mu>> PROVE HolderIsStarting'
    BY <2>0 DEF HolderIsStarting
  <2>1. ASSUME NEW s \in Services, Start(s) PROVE HolderIsStarting'
    <3>1. <<s, starts[s] + 1>> \in Runs
      BY <2>1 DEF Start, TypeOK, Runs
    <3>2. PICK r \in Runs : r = <<s, starts[s] + 1>>
      BY <3>1
    <3>3. mu = Nobody /\ mu' = r /\ run' = [run EXCEPT ![r] = "starting"]
      BY <2>1, <3>2 DEF Start, Accepting
    <3> QED
      BY <3>3 DEF HolderIsStarting, TypeOK
  <2>2. ASSUME NEW s \in Services, Load(s) PROVE HolderIsStarting'
    BY <2>0, <2>2 DEF Load
  <2>3. CASE DenyNewServices
    BY <2>0, <2>3 DEF DenyNewServices
  <2>4. ASSUME NEW r \in Runs, Goroutine(r) \/ RunnerEvent(r) \/ RunnerExit(r)
        PROVE  HolderIsStarting'
    <3>1. RunSignals(r)
      BY <2>4, RunSignalsShape
    <3>2. ASSUME NEW to \in RunPlaces, run' = [run EXCEPT ![r] = to],
                 \/ mu' = mu /\ (to \in Held <=> run[r] \in Held)
                 \/ mu' = Nobody /\ run[r] \in Held /\ to \notin Held
          PROVE  HolderIsStarting'
      BY <3>2 DEF HolderIsStarting, TypeOK, Held
    <3> QED
      BY <2>0, <3>1, <3>2 DEF RunSignals
  <2>5. ASSUME NEW r \in Runs, Watcher(r) PROVE HolderIsStarting'
    BY <2>0, <2>5 DEF Watcher, WatcherArrives, WatcherCancels, Watching
  <2>6. ASSUME NEW w \in Waiters, Waiter(w) PROVE HolderIsStarting'
    BY <2>0, <2>6 DEF Waiter, Subscribe, WaitEnds
  <2>7. CASE Shutdown
    BY <2>0, <2>7 DEF Shutdown, StopServices
  <2>8. ASSUME NEW c \in Stoppers, NEW s \in Services, Stop(c, s)
        PROVE  HolderIsStarting'
    BY <2>0, <2>8 DEF Stop, StopServices
  <2>9. ASSUME NEW c \in Callers, Stopping(c) \/ StopGivesUp(c)
        PROVE  HolderIsStarting'
    BY <2>0, <2>9 DEF Stopping, SendStop, WaitForDown, StopReturns,
                      StopGivesUp, Moves
  <2>10. CASE UNCHANGED vars
    BY <2>0, <2>10 DEF vars
  <2> QED
    BY <2>1, <2>2, <2>3, <2>4, <2>5, <2>6, <2>7, <2>8, <2>9, <2>10 DEF Next
<1> QED
  BY <1>1, <1>2, ServicesTypeCorrect, RunsCorrect, PTL DEF Spec

\* WatchersInv is an invariant, for any number of starts.
THEOREM WatchersCorrect == Spec => []WatchersInv
<1> USE ServicesAssumption
<1>1. Init => WatchersInv
  BY RunParts DEF Init, WatchersInv
<1>2. TypeOK /\ RunsInv /\ WatchersInv /\ [Next]_vars => WatchersInv'
  <2> SUFFICES ASSUME TypeOK, RunsInv, WatchersInv, [Next]_vars PROVE WatchersInv'
    OBVIOUS
  <2> USE DEF manager, runner, callers
  <2>0. ASSUME UNCHANGED <<run, cancelled, watcher, stopCh>> PROVE WatchersInv'
    BY <2>0 DEF WatchersInv
  <2>1. ASSUME NEW s \in Services, Start(s) PROVE WatchersInv'
    <3>1. <<s, starts[s] + 1>> \in Runs
      BY <2>1 DEF Start, TypeOK, Runs
    <3>2. PICK r \in Runs : r = <<s, starts[s] + 1>>
      BY <3>1
    <3>3. /\ run' = [run EXCEPT ![r] = "starting"]
          /\ watcher' = [watcher EXCEPT ![r] = "ready"] /\ UNCHANGED <<cancelled, stopCh>>
      BY <2>1, <3>2 DEF Start
    <3> QED
      BY <3>3 DEF WatchersInv, TypeOK
  <2>2. ASSUME NEW s \in Services, Load(s) PROVE WatchersInv'
    BY <2>0, <2>2 DEF Load
  <2>3. CASE DenyNewServices
    BY <2>0, <2>3 DEF DenyNewServices
  <2>4. ASSUME NEW r \in Runs, Goroutine(r) \/ RunnerEvent(r) \/ RunnerExit(r)
        PROVE  WatchersInv'
    <3>1. RunSignals(r)
      BY <2>4, RunSignalsShape
    <3>2. CASE UNCHANGED <<run, mu, cancelled, watcher>>
      BY <2>0, <3>1, <3>2 DEF RunSignals
    <3>3. ASSUME NEW to \in RunPlaces \ {"none"}, UNCHANGED stopCh,
                 run[r] /= "none", run' = [run EXCEPT ![r] = to],
                 UNCHANGED <<cancelled, watcher>>,
                 to \in Returned => run[r] \in Returned
          PROVE  WatchersInv'
      BY <3>3 DEF WatchersInv, TypeOK, Returned
    <3>4. ASSUME NEW to \in RunPlaces \ {"none"}, UNCHANGED stopCh,
                 run[r] /= "none", run' = [run EXCEPT ![r] = to],
                 cancelled' = cancelled \cup {r},
                 watcher' = [watcher EXCEPT ![r] = IF @ = "select" THEN "gone" ELSE @]
          PROVE  WatchersInv'
      <4>1. \A q \in Runs : q /= r => /\ run'[q] = run[q] /\ watcher'[q] = watcher[q]
                                      /\ q \in cancelled' <=> q \in cancelled
        BY <3>4 DEF TypeOK
      <4>2. /\ run'[r] = to /\ r \in cancelled'
            /\ watcher'[r] = IF watcher[r] = "select" THEN "gone" ELSE watcher[r]
        BY <3>4 DEF TypeOK
      <4> QED
        BY <3>4, <4>1, <4>2 DEF WatchersInv
    <3> QED
      BY <3>1, <3>2, <3>3, <3>4 DEF RunSignals
  <2>5. ASSUME NEW r \in Runs, Watcher(r) PROVE WatchersInv'
    <3>1. \/ UNCHANGED <<run, stopCh, cancelled>> /\ r \in cancelled
             /\ watcher' = [watcher EXCEPT ![r] = "gone"]
          \/ UNCHANGED <<run, stopCh, cancelled>> /\ r \notin cancelled /\ stopCh[r[1]] = 0
             /\ watcher' = [watcher EXCEPT ![r] = "select"]
          \/ /\ UNCHANGED run /\ cancelled' = cancelled \cup {r}
             /\ watcher' = [watcher EXCEPT ![r] = "gone"]
             /\ stopCh' = stopCh \/ stopCh' = [stopCh EXCEPT ![r[1]] = 0]
      BY <2>5 DEF Watcher, WatcherArrives, WatcherCancels, Watching
    <3>2. watcher[r] \in {"ready", "woken"}
      BY <2>5 DEF Watcher, WatcherArrives, WatcherCancels
    <3>3. \A q \in Runs : stopCh[q[1]] = 0 => stopCh'[q[1]] = 0
      BY <3>1, RunParts DEF TypeOK
    <3> QED
      BY <3>1, <3>2, <3>3 DEF WatchersInv, TypeOK
  <2>6. ASSUME NEW w \in Waiters, Waiter(w) PROVE WatchersInv'
    BY <2>0, <2>6 DEF Waiter, Subscribe, WaitEnds
  <2>7. CASE Shutdown
    BY <2>0, <2>7 DEF Shutdown, StopServices
  <2>8. ASSUME NEW c \in Stoppers, NEW s \in Services, Stop(c, s) PROVE WatchersInv'
    BY <2>0, <2>8 DEF Stop, StopServices
  <2>9. ASSUME NEW c \in Callers, Stopping(c) \/ StopGivesUp(c) PROVE WatchersInv'
    <3>1. ASSUME NEW s \in Services, SendStop(c, s) PROVE WatchersInv'
      <4>1. CASE \E r \in Runs : /\ r[1] = s /\ watcher[r] = "select"
                                 /\ watcher' = [watcher EXCEPT ![r] = "woken"]
                                 /\ UNCHANGED <<run, cancelled, stopCh>>
        BY <4>1 DEF WatchersInv, TypeOK
      <4>2. CASE /\ \A r \in Runs : r[1] = s => watcher[r] /= "select"
                 /\ stopCh' = [stopCh EXCEPT ![s] = 1]
                 /\ UNCHANGED <<run, cancelled, watcher>>
        BY <4>2, RunParts DEF WatchersInv, TypeOK
      <4> QED
        BY <3>1, <4>1, <4>2 DEF SendStop
    <3> QED
      BY <2>0, <2>9, <3>1 DEF Stopping, WaitForDown, StopReturns, StopGivesUp, Moves
  <2>10. CASE UNCHANGED vars
    BY <2>0, <2>10 DEF vars
  <2> QED
    BY <2>1, <2>2, <2>3, <2>4, <2>5, <2>6, <2>7, <2>8, <2>9, <2>10 DEF Next
<1> QED
  BY <1>1, <1>2, ServicesTypeCorrect, RunsCorrect, PTL DEF Spec

\* Only the watcher of a service's own runs takes a signal from its channel,
\* and a run that is not started twice has one: no stop is lost, whatever the
\* order of Start, the watcher's select, Stop and Shutdown.
THEOREM StopIsNeverLost == Spec => []NoLostStop
<1> USE ServicesAssumption
<1>1. Init => NoLostStop
  BY DEF Init, NoLostStop
<1>2. TypeOK /\ RunsInv /\ WatchersInv /\ NoLostStop /\ [Next]_vars => NoLostStop'
  <2> SUFFICES ASSUME TypeOK, RunsInv, WatchersInv, NoLostStop, [Next]_vars,
                      NEW c \in Callers, NEW s \in Services,
                      s \in (toStop[c] \ unsent[c])', starts'[s] <= 1
               PROVE  \/ <<s, 1>> \in cancelled'
                      \/ watcher'[<<s, 1>>] = "woken"
                      \/ stopCh'[s] = 1 /\ watcher'[<<s, 1>>] \in {"none", "ready"}
    BY DEF NoLostStop
  <2> USE DEF manager, runner, callers
  <2> DEFINE Kept == \/ <<s, 1>> \in cancelled'
                     \/ watcher'[<<s, 1>>] = "woken"
                     \/ stopCh'[s] = 1 /\ watcher'[<<s, 1>>] \in {"none", "ready"}
  <2>run. <<s, 1>> \in Runs
    BY DEF Runs
  <2>had. ASSUME UNCHANGED callers, starts[s] <= 1
          PROVE  \/ <<s, 1>> \in cancelled
                 \/ watcher[<<s, 1>>] = "woken"
                 \/ stopCh[s] = 1 /\ watcher[<<s, 1>>] \in {"none", "ready"}
    BY <2>had DEF NoLostStop
  <2>0. ASSUME UNCHANGED <<starts, callers, cancelled, watcher, stopCh>> PROVE Kept
    BY <2>0, <2>had
  <2>1. ASSUME NEW u \in Services, Start(u) PROVE Kept
    <3>1. <<u, starts[u] + 1>> \in Runs
      BY <2>1 DEF Start, TypeOK, Runs
    <3>2. PICK q \in Runs : q = <<u, starts[u] + 1>>
      BY <3>1
    <3>3. /\ starts' = [starts EXCEPT ![u] = @ + 1]
          /\ watcher' = [watcher EXCEPT ![q] = "ready"]
          /\ UNCHANGED <<cancelled, stopCh, callers>>
      BY <2>1, <3>2 DEF Start
    <3>4. starts[s] <= 1
      BY <3>3 DEF TypeOK
    <3>5. run[q] = "none"
      BY <3>2 DEF RunsInv, TypeOK
    <3>6. watcher[q] = "none"
      BY <3>5 DEF WatchersInv
    <3> QED
      BY <3>3, <3>4, <3>6, <2>had, <2>run DEF TypeOK
  <2>2. ASSUME NEW u \in Services, Load(u) PROVE Kept
    BY <2>0, <2>2 DEF Load
  <2>3. CASE DenyNewServices
    BY <2>0, <2>3 DEF DenyNewServices
  <2>4. ASSUME NEW r \in Runs, Goroutine(r) \/ RunnerEvent(r) \/ RunnerExit(r)
        PROVE  Kept
    <3>1. RunSignals(r)
      BY <2>4, RunSignalsShape
    <3>2. CASE UNCHANGED <<cancelled, watcher>>
      BY <2>0, <3>1, <3>2 DEF RunSignals
    <3>3. CASE /\ cancelled' = cancelled \cup {r}
               /\ watcher' = [watcher EXCEPT ![r] = IF @ = "select" THEN "gone" ELSE @]
      <4>1. UNCHANGED <<starts, stopCh, callers>>
        BY <3>1 DEF RunSignals
      <4> QED
        BY <3>3, <4>1, <2>had, <2>run DEF TypeOK
    <3> QED
      BY <3>1, <3>2, <3>3 DEF RunSignals
  <2>5. ASSUME NEW r \in Runs, Watcher(r) PROVE Kept
    <3>1. UNCHANGED <<starts, callers>>
      BY <2>5 DEF Watcher, WatcherArrives, WatcherCancels, Watching
    <3>2. /\ \/ stopCh' = stopCh
             \/ stopCh' = [stopCh EXCEPT ![r[1]] = 0] /\ cancelled' = cancelled \cup {r}
          /\ \/ cancelled' = cancelled \cup {r}
             \/ cancelled' = cancelled /\ r \in cancelled
             \/ cancelled' = cancelled /\ stopCh[r[1]] = 0 /\ watcher[r] = "ready"
          /\ watcher' = [watcher EXCEPT ![r] = "gone"]
             \/ watcher' = [watcher EXCEPT ![r] = "select"]
      BY <2>5 DEF Watcher, WatcherArrives, WatcherCancels, Watching
    <3>3. watcher[r] \in {"ready", "woken"}
      BY <2>5 DEF Watcher, WatcherArrives, WatcherCancels
    <3>4. r[1] = s => r = <<s, 1>>
      <4>1. run[r] /= "none"
        BY <3>3 DEF WatchersInv
      <4>2. r[2] <= starts[r[1]] /\ r[2] \in 1 .. MaxStarts /\ r = <<r[1], r[2]>>
        BY <4>1, RunParts DEF RunsInv, TypeOK
      <4>3. r[1] = s => r[2] = 1
        BY <3>1, <4>2 DEF TypeOK
      <4> QED
        BY <4>2, <4>3
    <3>5. CASE r[1] = s
      BY <3>1, <3>2, <3>4, <3>5, <2>had, <2>run DEF TypeOK
    <3>6. CASE r[1] /= s
      <4>1. r /= <<s, 1>> /\ r[1] \in Services
        BY <3>6, RunParts
      <4> QED
        BY <3>1, <3>2, <3>6, <4>1, <2>had, <2>run DEF TypeOK
    <3> QED
      BY <3>5, <3>6
  <2>6. ASSUME NEW w \in Waiters, Waiter(w) PROVE Kept
    BY <2>0, <2>6 DEF Waiter, Subscribe, WaitEnds
  <2>7. ASSUME NEW k \in Callers, NEW ids, StopServices(k, ids) PROVE Kept
    <3>1. c /= k
      BY <2>7 DEF StopServices, TypeOK
    <3>2. toStop'[c] = toStop[c] /\ unsent'[c] = unsent[c] /\ starts' = starts
      BY <2>7, <3>1 DEF StopServices, TypeOK
    <3>3. UNCHANGED <<cancelled, watcher, stopCh>>
      BY <2>7 DEF StopServices
    <3> QED
      BY <3>2, <3>3 DEF NoLostStop
  <2>8. ASSUME NEW k \in Callers, Stopping(k) \/ StopGivesUp(k) PROVE Kept
    <3>1. ASSUME NEW u \in Services, SendStop(k, u) PROVE Kept
      <4>1. /\ UNCHANGED <<toStop, starts, cancelled>>
            /\ unsent' = [unsent EXCEPT ![k] = @ \ {u}]
        BY <3>1 DEF SendStop
      <4>2. CASE u /= s
        <5>1. s \in toStop[c] \ unsent[c] /\ starts[s] <= 1
          BY <4>1, <4>2 DEF TypeOK
        <5>2. \/ \E q \in Runs : /\ q[1] = u /\ watcher' = [watcher EXCEPT ![q] = "woken"]
                                 /\ UNCHANGED stopCh
              \/ UNCHANGED watcher /\ stopCh' = [stopCh EXCEPT ![u] = 1]
          BY <3>1 DEF SendStop
        <5> QED
          BY <4>1, <4>2, <5>1, <5>2, <2>run DEF NoLostStop, TypeOK
      <4>3. CASE u = s
        <5>1. \A q \in Runs : q[1] = s /\ watcher[q] = "select" => q = <<s, 1>>
          <6> SUFFICES ASSUME NEW q \in Runs, q[1] = s, watcher[q] = "select"
                       PROVE  q = <<s, 1>>
            OBVIOUS
          <6>1. run[q] /= "none"
            BY DEF WatchersInv
          <6>2. q[2] <= starts[s] /\ q[2] \in 1 .. MaxStarts /\ q = <<s, q[2]>>
            BY <6>1, RunParts DEF RunsInv, TypeOK
          <6> QED
            BY <4>1, <6>2 DEF TypeOK
        <5>2. CASE \E q \in Runs : /\ q[1] = s /\ watcher[q] = "select"
                                   /\ watcher' = [watcher EXCEPT ![q] = "woken"]
          BY <5>1, <5>2, <2>run DEF TypeOK
        <5>3. CASE /\ \A q \in Runs : q[1] = s => watcher[q] /= "select"
                   /\ UNCHANGED watcher /\ stopCh' = [stopCh EXCEPT ![s] = 1]
          <6>1. watcher[<<s, 1>>] \in {"none", "ready", "woken", "gone"}
            BY <5>3, <2>run DEF TypeOK
          <6>2. watcher[<<s, 1>>] = "gone" => <<s, 1>> \in cancelled
            BY <2>run DEF WatchersInv
          <6> QED
            BY <4>1, <5>3, <6>1, <6>2 DEF TypeOK
        <5> QED
          BY <3>1, <4>3, <5>2, <5>3 DEF SendStop
      <4> QED
        BY <4>2, <4>3
    <3>2. CASE WaitForDown(k) \/ StopReturns(k) \/ StopGivesUp(k)
      <4>1. UNCHANGED <<toStop, unsent, starts, cancelled, watcher, stopCh>>
        BY <3>2 DEF WaitForDown, StopReturns, StopGivesUp, Moves
      <4> QED
        BY <4>1 DEF NoLostStop
    <3> QED
      BY <2>8, <3>1, <3>2 DEF Stopping
  <2>9. CASE UNCHANGED vars
    BY <2>0, <2>9 DEF vars
  <2>10. Main \in Callers /\ Stoppers \subseteq Callers
    BY DEF Callers
  <2> QED
    BY <2>1, <2>2, <2>3, <2>4, <2>5, <2>6, <2>7, <2>8, <2>9, <2>10
       DEF Next, Shutdown, Stop
<1> QED
  BY <1>1, <1>2, ServicesTypeCorrect, RunsCorrect, WatchersCorrect, PTL DEF Spec
=============================================================================
