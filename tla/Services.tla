------------------------------ MODULE Services ------------------------------
(***************************************************************************)
(* The service manager of machined: the singleton of system.go, which      *)
(* loads, starts and stops services, one ServiceRunner.Run per start       *)
(* (service_runner.go) and the conditions that wait for a service to be    *)
(* up or down (service_events.go).                                         *)
(*                                                                         *)
(* Run n of service s is <<s, n>>.  A run's goroutine is at                *)
(*   "none"      not started yet                                           *)
(*   "starting"  in Start's goroutine, Start waits holding s.mu            *)
(*   "started"   state is Starting, runNotify still open                   *)
(*   "wait", "waiting"    before and in waitFor its dependencies           *)
(*   "prepare", "pre", "create"   around PreFunc and Runner                *)
(*   "running"   in run(), its runner at work                              *)
(*   "post", "posted"     around PostFunc                                  *)
(*   "final"     Run returned, no longer in the running map                *)
(*   "ended"     the final UpdateState was made                            *)
(*                                                                         *)
(* UpdateState sets the state under the runner's mutex and publishes and   *)
(* notifies after it: note[r] is the state whose publication r still owes. *)
(* Services here have no health check (module Health has), so Up is        *)
(* Running or Skipped.                                                     *)
(***************************************************************************)
EXTENDS Integers, FiniteSets

CONSTANTS Services,    \* service IDs
          DependsOn,   \* per service: the services it depends on
          Forever,     \* services whose runner only returns when cancelled
          Main,        \* the caller of Shutdown
          Stoppers,    \* callers of Stop
          HasRuntime,  \* svcrunner.runtime is not nil: events are published
          MaxStarts,   \* bound on the starts of one service
          Nobody       \* no run, no note

ASSUME ServicesAssumption ==
  /\ DependsOn \in [Services -> SUBSET Services]
  /\ Forever \subseteq Services
  /\ Main \notin Stoppers
  /\ HasRuntime \in BOOLEAN
  /\ MaxStarts \in Nat \ {0}

Runs    == Services \X (1 .. MaxStarts)
Callers == Stoppers \cup {Main}

\* One notify channel per condition: a run waits for a dependency to be up,
\* a caller of Stop or Shutdown for a service to be down.
RunWaiters    == {w \in Runs \X Services : w[2] \in DependsOn[w[1][1]]}
CallerWaiters == Callers \X Services
Waiters       == RunWaiters \cup CallerWaiters

ServiceState == {"Initialized", "Starting", "Waiting", "Preparing", "Running",
                 "Stopping", "Finished", "Failed", "Skipped"}

ASSUME DistinctAssumption ==
  Nobody \notin Runs \cup ServiceState /\ Callers \cap Runs = {}

VARIABLES loaded,       \* keys of s.state
          running,      \* keys of s.running
          terminating, denyNewServices,
          mu,           \* the run whose Start holds s.mu, or Nobody
          starts,       \* per service: number of starts
          state,        \* per service: svcrunner.state
          stopCh,       \* per service: tokens in svcrunner.stopCh
          run,          \* per run: where its goroutine is
          note, result, \* per run: owed publication, state it will end in
          cancelled,    \* runs whose ctx is done
          watcher,      \* per run: the goroutine that listens to stopCh
          caller,       \* per caller of Stop or Shutdown: where it is
          toStop, unsent, \* per caller: its services, those not yet signalled
          wait,         \* per waiter: where its condition is
          token,        \* waiters whose notify channel holds a token
          everUp,       \* services that have been up (history)
          crashed       \* a panic ended the process

manager == <<loaded, running, terminating, denyNewServices, mu, starts>>
runner  == <<run, note, result, cancelled, watcher, state, everUp>>
callers == <<caller, toStop, unsent>>
vars == <<manager, runner, callers, stopCh, wait, token, crashed>>

RunPlaces == {"none", "starting", "started", "wait", "waiting", "prepare",
              "pre", "create", "running", "post", "posted", "final", "ended"}

TypeOK ==
  /\ loaded \subseteq Services /\ running \subseteq loaded
  /\ terminating \in BOOLEAN /\ denyNewServices \in BOOLEAN
  /\ mu \in Runs \cup {Nobody}
  /\ starts \in [Services -> 0 .. MaxStarts]
  /\ state \in [Services -> ServiceState]
  /\ stopCh \in [Services -> 0 .. 1]
  /\ run \in [Runs -> RunPlaces]
  /\ note \in [Runs -> ServiceState \cup {Nobody}]
  /\ result \in [Runs -> {"Finished", "Failed", "Skipped"}]
  /\ cancelled \subseteq Runs
  /\ watcher \in [Runs -> {"none", "ready", "select", "woken", "gone"}]
  /\ caller \in [Callers -> {"idle", "sending", "waiting", "returned"}]
  /\ toStop \in [Callers -> SUBSET Services]
  /\ unsent \in [Callers -> SUBSET Services]
  /\ wait \in [Waiters -> {"off", "pending", "done", "failed"}]
  /\ token \subseteq Waiters
  /\ everUp \subseteq Services /\ crashed \in BOOLEAN

Init ==
  /\ loaded = {} /\ running = {} /\ mu = Nobody
  /\ terminating = FALSE /\ denyNewServices = FALSE
  /\ starts = [s \in Services |-> 0]
  /\ state = [s \in Services |-> "Initialized"]
  /\ stopCh = [s \in Services |-> 0]
  /\ run = [r \in Runs |-> "none"]
  /\ note = [r \in Runs |-> Nobody]
  /\ result = [r \in Runs |-> "Finished"]
  /\ cancelled = {}
  /\ watcher = [r \in Runs |-> "none"]
  /\ caller = [c \in Callers |-> "idle"]
  /\ toStop = [c \in Callers |-> {}]
  /\ unsent = [c \in Callers |-> {}]
  /\ wait = [w \in Waiters |-> "off"]
  /\ token = {}
  /\ everUp = {} /\ crashed = FALSE

-----------------------------------------------------------------------------
(* States and who waits for them.                                          *)

\* inStateLocked, for a service without health checks.
StateEvents(x) ==
  (IF x \in {"Running", "Skipped"} THEN {"up"} ELSE {}) \cup
  (IF x \in {"Failed", "Finished", "Skipped"} THEN {"down"} ELSE {})

Awaited(w) == IF w \in CallerWaiters THEN "down" ELSE "up"

\* The waiters notifyEvent finds among the subscribers of service s.
Notified(s, x) ==
  {w \in Waiters : /\ w[2] = s /\ wait[w] = "pending"
                   /\ Awaited(w) \in StateEvents(x)}

\* The part of UpdateState under the mutex.
SetState(r, x) ==
  /\ note[r] = Nobody
  /\ state' = [state EXCEPT ![r[1]] = x]
  /\ note' = [note EXCEPT ![r] = x]
  /\ everUp' = IF "up" \in StateEvents(x) THEN everUp \cup {r[1]} ELSE everUp

\* The part after it.  The final UpdateState of a run passes a nil context:
\* with a runtime, Publish dereferences it before anybody is notified.
FinishUpdate(r) ==
  /\ ~crashed /\ note[r] /= Nobody
  /\ note' = [note EXCEPT ![r] = Nobody]
  /\ IF run[r] = "ended" /\ HasRuntime
       THEN crashed' = TRUE /\ UNCHANGED token
       ELSE token' = token \cup Notified(r[1], note[r]) /\ UNCHANGED crashed
  /\ UNCHANGED <<manager, run, result, cancelled, watcher, state, everUp,
                 callers, stopCh, wait>>

-----------------------------------------------------------------------------
(* Load, Start, DenyNewServices.                                           *)

Accepting == ~crashed /\ mu = Nobody /\ ~terminating /\ ~denyNewServices

Load(s) ==
  /\ Accepting /\ s \notin loaded
  /\ loaded' = loaded \cup {s}
  /\ UNCHANGED <<running, terminating, denyNewServices, mu, starts,
                 runner, callers, stopCh, wait, token, crashed>>

\* Without a look at the running map a service can be started twice.
StartableWithoutCheck(s) == s \in loaded

\* Without a look at the state map a service that was never loaded can.
StartableUnloaded(s) == s \notin running

Startable(s) == s \in loaded /\ s \notin running

\* Start goes on to hold s.mu until the run closes runNotify.
Start(s) ==
  LET r == <<s, starts[s] + 1>>
  IN  /\ Accepting /\ Startable(s)
      /\ starts[s] < MaxStarts
      /\ starts' = [starts EXCEPT ![s] = @ + 1]
      /\ running' = running \cup {s}
      /\ mu' = r
      /\ run' = [run EXCEPT ![r] = "starting"]
      /\ watcher' = [watcher EXCEPT ![r] = "ready"]
      /\ UNCHANGED <<loaded, terminating, denyNewServices, note, result,
                     cancelled, state, everUp, callers, stopCh, wait, token,
                     crashed>>

DenyNewServices ==
  /\ ~crashed /\ mu = Nobody /\ ~denyNewServices
  /\ denyNewServices' = TRUE
  /\ UNCHANGED <<loaded, running, terminating, mu, starts,
                 runner, callers, stopCh, wait, token, crashed>>

-----------------------------------------------------------------------------
(* The run.  Goto is a step of its goroutine with nothing owed.            *)

Goto(r, from, to) ==
  /\ ~crashed /\ run[r] = from /\ note[r] = Nobody
  /\ run' = [run EXCEPT ![r] = to]

Enter(r, from, x, to) ==
  /\ Goto(r, from, to) /\ SetState(r, x)
  /\ UNCHANGED <<manager, result, cancelled, watcher, callers, stopCh,
                 wait, token, crashed>>

Starting(r) == Enter(r, "starting", "Starting", "started")

CloseRunNotify(r) ==
  /\ Goto(r, "started", IF DependsOn[r[1]] = {} THEN "prepare" ELSE "wait")
  /\ mu' = Nobody
  /\ UNCHANGED <<loaded, running, terminating, denyNewServices, starts, note,
                 result, cancelled, watcher, state, everUp, callers, stopCh,
                 wait, token, crashed>>

WaitFor(r) == Enter(r, "wait", "Waiting", "waiting")

\* The ticker of waitFor: the description changes while a dependency is
\* waited for (it is registered, or another one is up).
WaitTicks(r) ==
  /\ \E d \in DependsOn[r[1]] : wait[<<r, d>>] \in {"off", "pending"}
  /\ Enter(r, "waiting", "Waiting", "waiting")

\* The run returns: its ctx is cancelled, which ends a watcher that is in
\* its select, and its ID leaves the running map; UpdateState comes later.
Return(r, x) ==
  /\ ~crashed
  /\ run' = [run EXCEPT ![r] = "final"]
  /\ result' = [result EXCEPT ![r] = x]
  /\ running' = running \ {r[1]}
  /\ cancelled' = cancelled \cup {r}
  /\ watcher' = [watcher EXCEPT ![r] = IF @ = "select" THEN "gone" ELSE @]
  /\ UNCHANGED <<loaded, terminating, denyNewServices, mu, starts, note,
                 state, everUp, callers, stopCh, wait, token, crashed>>

\* Dropping the error of a condition whose ctx is done.
ConditionsEnded(r) ==
  \A d \in DependsOn[r[1]] : wait[<<r, d>>] \in {"done", "failed"}

ConditionsDone(r) ==
  \A d \in DependsOn[r[1]] : wait[<<r, d>>] = "done"

WaitSucceeds(r) ==
  /\ Goto(r, "waiting", "prepare") /\ ConditionsDone(r)
  /\ UNCHANGED <<manager, note, result, cancelled, watcher, state, everUp,
                 callers, stopCh, wait, token, crashed>>

\* A condition fails only because ctx is done, and Run then returns nil.
WaitFails(r) ==
  /\ run[r] = "waiting" /\ note[r] = Nobody
  /\ \A d \in DependsOn[r[1]] : wait[<<r, d>>] \in {"done", "failed"}
  /\ ~ConditionsDone(r)
  /\ Return(r, "Finished")

Prepare(r) == Enter(r, "prepare", "Preparing", "pre")

PreFunc(r) ==
  \/ Enter(r, "pre", "Preparing", "create")
  \/ /\ run[r] = "pre" /\ note[r] = Nobody
     /\ Return(r, IF r \in cancelled THEN "Finished" ELSE "Failed")

\* From here on PostFunc is deferred, so Run returns by way of "post".
Leave(r, from, x) ==
  /\ Goto(r, from, "post")
  /\ result' = [result EXCEPT ![r] = x]
  /\ UNCHANGED <<manager, note, cancelled, watcher, state, everUp, callers,
                 stopCh, wait, token, crashed>>

\* Runner fails, is nil (ErrSkip), cannot be opened, or runs.
CreateRunner(r) ==
  \/ /\ run[r] = "create" /\ note[r] = Nobody
     /\ Return(r, "Failed")
  \/ \E x \in {"Skipped", "Failed"} : Leave(r, "create", x)
  \/ /\ Goto(r, "create", "running")
     /\ UNCHANGED <<manager, note, result, cancelled, watcher, state, everUp,
                    callers, stopCh, wait, token, crashed>>

\* What runners report to the event sink.
RunnerEvent(r) ==
  \/ \E x \in {"Running", "Waiting"} : Enter(r, "running", x, "running")
  \/ r \in cancelled /\ Enter(r, "running", "Stopping", "running")

RunnerExit(r) ==
  /\ r \in cancelled \/ r[1] \notin Forever
  /\ \E x \in {"Finished", "Failed"} : Leave(r, "running", x)

PostFunc(r) ==
  \/ Enter(r, "post", "Failed", "posted")
  \/ /\ run[r] \in {"post", "posted"} /\ note[r] = Nobody
     /\ Return(r, result[r])

FinalUpdate(r) == Enter(r, "final", result[r], "ended")

-----------------------------------------------------------------------------
(* The goroutine of Run that turns a token of stopCh into a cancelled ctx. *)

Watching(r, w) ==
  /\ ~crashed
  /\ watcher' = [watcher EXCEPT ![r] = w]
  /\ UNCHANGED <<manager, run, note, result, state, everUp, callers, wait,
                 token, crashed>>

\* It gets to its select: either case may already be ready.
WatcherArrives(r) ==
  /\ watcher[r] = "ready"
  /\ \/ /\ r \in cancelled
        /\ Watching(r, "gone") /\ UNCHANGED <<cancelled, stopCh>>
     \/ /\ stopCh[r[1]] = 1
        /\ stopCh' = [stopCh EXCEPT ![r[1]] = 0]
        /\ cancelled' = cancelled \cup {r}
        /\ Watching(r, "gone")
     \/ /\ r \notin cancelled /\ stopCh[r[1]] = 0
        /\ Watching(r, "select") /\ UNCHANGED <<cancelled, stopCh>>

WatcherCancels(r) ==
  /\ watcher[r] = "woken"
  /\ cancelled' = cancelled \cup {r}
  /\ Watching(r, "gone") /\ UNCHANGED stopCh

-----------------------------------------------------------------------------
(* Conditions on services.                                                 *)

\* Wait has been called: the owner is in waitFor, or in WaitForAll.  The
\* publication of Waiting notifies nobody, so it may come later.
Wanted(w) ==
  IF w \in CallerWaiters
    THEN caller[w[1]] = "waiting" /\ w[2] \in toStop[w[1]]
    ELSE run[w[1]] = "waiting"

\* Subscribing without looking at the state misses what already happened.
TokenAtSubscribeNever(w) == token

TokenAtSubscribe(w) ==
  IF Awaited(w) \in StateEvents(state[w[2]]) THEN token \cup {w} ELSE token

\* A service that is not loaded yet is polled for (waitRegister).
Subscribe(w) ==
  /\ ~crashed /\ Wanted(w) /\ wait[w] = "off"
  /\ mu = Nobody /\ w[2] \in loaded
  /\ wait' = [wait EXCEPT ![w] = "pending"]
  /\ token' = TokenAtSubscribe(w)
  /\ UNCHANGED <<manager, runner, callers, stopCh, crashed>>

WaitEnds(w) ==
  /\ ~crashed
  /\ \/ /\ wait[w] = "pending" /\ w \in token
        /\ wait' = [wait EXCEPT ![w] = "done"]
     \/ /\ w \in RunWaiters /\ w[1] \in cancelled
        /\ \/ wait[w] = "pending"
           \/ wait[w] = "off" /\ Wanted(w) /\ mu = Nobody /\ w[2] \notin loaded
        /\ wait' = [wait EXCEPT ![w] = "failed"]
  /\ token' = token \ {w}
  /\ UNCHANGED <<manager, runner, callers, stopCh, crashed>>

-----------------------------------------------------------------------------
(* Stop and Shutdown.                                                      *)

StopServices(c, ids) ==
  /\ ~crashed /\ mu = Nobody /\ ~terminating /\ caller[c] = "idle"
  /\ caller' = [caller EXCEPT ![c] = "sending"]
  /\ toStop' = [toStop EXCEPT ![c] = ids]
  /\ unsent' = [unsent EXCEPT ![c] = ids]
  /\ UNCHANGED <<loaded, running, denyNewServices, mu, starts, runner,
                 stopCh, wait, token, crashed>>

Shutdown == terminating' = TRUE /\ StopServices(Main, loaded)

Stop(c, s) == UNCHANGED terminating /\ StopServices(c, {s} \cap loaded)

\* A send on a channel without a buffer is lost when nobody listens.
SendStopUnbuffered(c, s) ==
  LET listening == {r \in Runs : r[1] = s /\ watcher[r] = "select"}
  IN  /\ ~crashed /\ caller[c] = "sending" /\ s \in unsent[c]
      /\ unsent' = [unsent EXCEPT ![c] = @ \ {s}]
      /\ IF listening /= {}
           THEN \E r \in listening : watcher' = [watcher EXCEPT ![r] = "woken"]
           ELSE UNCHANGED watcher
      /\ UNCHANGED <<manager, run, note, result, cancelled, state, everUp,
                     caller, toStop, stopCh, wait, token, crashed>>

\* ServiceRunner.Shutdown: a send that does not block, handed to a watcher
\* in its select or kept in the channel.
SendStop(c, s) ==
  LET listening == {r \in Runs : r[1] = s /\ watcher[r] = "select"}
  IN  /\ ~crashed /\ caller[c] = "sending" /\ s \in unsent[c]
      /\ unsent' = [unsent EXCEPT ![c] = @ \ {s}]
      /\ IF listening /= {}
           THEN /\ \E r \in listening :
                     watcher' = [watcher EXCEPT ![r] = "woken"]
                /\ UNCHANGED stopCh
           ELSE /\ stopCh' = [stopCh EXCEPT ![s] = 1]
                /\ UNCHANGED watcher
      /\ UNCHANGED <<manager, run, note, result, cancelled, state, everUp,
                     caller, toStop, wait, token, crashed>>

Moves(c, from, to) ==
  /\ ~crashed /\ caller[c] = from
  /\ caller' = [caller EXCEPT ![c] = to]
  /\ UNCHANGED <<manager, runner, toStop, unsent, stopCh, crashed>>

WaitForDown(c) ==
  unsent[c] = {} /\ Moves(c, "sending", "waiting") /\ UNCHANGED <<wait, token>>

\* Not waiting for the conditions at all.
StoppedAtOnce(c) == TRUE

Stopped(c) == \A s \in toStop[c] : wait[<<c, s>>] = "done"

StopReturns(c) ==
  Stopped(c) /\ Moves(c, "waiting", "returned") /\ UNCHANGED <<wait, token>>

\* The ctx of a Stop may expire; Shutdown's is the background context.
StopGivesUp(c) ==
  /\ c \in Stoppers /\ Moves(c, "waiting", "returned")
  /\ wait' = [w \in Waiters |-> IF w[1] = c THEN "failed" ELSE wait[w]]
  /\ token' = {w \in token : w[1] /= c}

-----------------------------------------------------------------------------
Goroutine(r) ==
  \/ FinishUpdate(r) \/ Starting(r) \/ CloseRunNotify(r) \/ WaitFor(r)
  \/ WaitTicks(r) \/ WaitSucceeds(r) \/ WaitFails(r) \/ Prepare(r) \/ PreFunc(r)
  \/ CreateRunner(r) \/ PostFunc(r) \/ FinalUpdate(r)

Watcher(r) == WatcherArrives(r) \/ WatcherCancels(r)

Waiter(w) == Subscribe(w) \/ WaitEnds(w)

Stopping(c) ==
  (\E s \in Services : SendStop(c, s)) \/ WaitForDown(c) \/ StopReturns(c)

Next ==
  \/ \E s \in Services : Load(s) \/ Start(s)
  \/ DenyNewServices
  \/ \E r \in Runs :
       Goroutine(r) \/ RunnerEvent(r) \/ RunnerExit(r) \/ Watcher(r)
  \/ \E w \in Waiters : Waiter(w)
  \/ Shutdown
  \/ \E c \in Stoppers, s \in Services : Stop(c, s)
  \/ \E c \in Callers : Stopping(c) \/ StopGivesUp(c)

Spec == Init /\ [][Next]_vars

\* Goroutines that can run do.  A runner may report events for ever, but
\* one whose ctx is done returns (module Runner): strong fairness, since
\* reports keep disabling the exit.  Nobody has to load, start or stop.
FairSpec ==
  /\ Spec
  /\ \A r \in Runs : /\ WF_vars(Goroutine(r))
                     /\ WF_vars(Watcher(r))
                     /\ SF_vars(r \in cancelled /\ RunnerExit(r))
  /\ \A w \in Waiters : WF_vars(Waiter(w))
  /\ \A c \in Callers : WF_vars(Stopping(c))

-----------------------------------------------------------------------------
(* Properties.                                                             *)

Active(r) == run[r] \notin {"none", "final", "ended"}

\* Two Runs of one service never overlap before they return, and the running
\* map says which services have one (Start's runningMu section).
OneRunPerService ==
  \A s \in Services :
    LET active == {r \in Runs : r[1] = s /\ Active(r)}
    IN  Cardinality(active) <= 1 /\ (s \in running <=> active /= {})

\* A run gets past waitFor only when each of its dependencies has been up.
DependenciesWereUp ==
  \A r \in Runs :
    run[r] \in {"prepare", "pre", "create", "running"} =>
      DependsOn[r[1]] \subseteq everUp

\* No notification is lost between UpdateState and Subscribe: a subscriber
\* without a token is waiting for something that is not the case, or that
\* some goroutine is about to announce.
NoLostNotification ==
  \A w \in Waiters :
    wait[w] = "pending" /\ w \notin token
      /\ Awaited(w) \in StateEvents(state[w[2]])
    => crashed \/ \E r \in Runs : /\ r[1] = w[2] /\ note[r] /= Nobody
                                  /\ Awaited(w) \in StateEvents(note[r])

\* How far a service has come, for one start of each: it has ended when its
\* Run is past run(), although PostFunc or the final UpdateState may follow.
Life(s) ==
  CASE s \notin loaded -> "unloaded"
    [] s \in loaded /\ run[<<s, 1>>] = "none" -> "loaded"
    [] run[<<s, 1>>] \in {"posted", "final", "ended"} -> "ended"
    [] OTHER -> "active"

Promise == INSTANCE Manager
             WITH life <- [s \in Services |-> Life(s)],
                  returned <- caller[Main] = "returned"

\* With one start of each service the code of pkg/system keeps the promise of
\* Manager: nothing is loaded or started once Shutdown was called, and it
\* returns only when every loaded service has left run(), although it waits
\* for announcements that others make after they have released the mutex.
ImplementsManager == Promise!ManagerSpec

\* Shutdown returns, unless a service was loaded and never started.
ShutdownReturnsIfStarted ==
  terminating ~>
    (caller[Main] = "returned" \/ \E s \in loaded : starts[s] = 0)
=============================================================================
