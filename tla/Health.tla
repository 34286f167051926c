------------------------------- MODULE Health -------------------------------
(***************************************************************************)
(* One run() of a service with a health check (service_runner.go): the     *)
(* runner's goroutine, the health checker (health/check.go), the consumer  *)
(* of health changes and run() itself, which waits for all of them.        *)
(*                                                                         *)
(* Up is Running and healthy.  It can become true by a report of the       *)
(* runner (UpdateState) or by a change of health (healthUpdate), and both  *)
(* publish and notify after they have released the runner's mutex.         *)
(***************************************************************************)
EXTENDS Integers, Sequences

CONSTANTS Forever,  \* the runner only returns when cancelled
          Buffer    \* capacity of notifyCh

ASSUME HealthAssumption == Forever \in BOOLEAN /\ Buffer \in Nat \ {0}

VARIABLES state,      \* svcrunner.state
          healthy,    \* healthState: "unknown", "yes" or "no"
          subscribed, \* notifyCh is among healthState's subscribers
          notifyCh,   \* the health of the changes buffered in notifyCh
          cancelled,  \* ctx is done
          main,       \* run(): where it is
          runner,     \* the goroutine of runnr.Run: where it is
          report,     \* the event of the UpdateState it is in
          checker,    \* health.Run: where it is
          checked,    \* the change its Update is sending
          consumer,   \* the reader of notifyCh: where it is
          change,     \* the change it has taken, and the Up it has seen
          published,  \* the last event published
          wait        \* somebody's condition on Up

vars == <<state, healthy, subscribed, notifyCh, cancelled, main, runner,
          report, checker, checked, consumer, change, published, wait>>

Reported == {"Preparing", "Running", "Waiting", "Stopping"}
Healths  == {"unknown", "yes", "no"}
Event    == [state : Reported, health : Healths]

TypeOK ==
  /\ state \in Reported /\ healthy \in Healths
  /\ subscribed \in BOOLEAN /\ cancelled \in BOOLEAN
  /\ notifyCh \in Seq({"yes", "no"}) /\ Len(notifyCh) <= Buffer
  /\ main \in {"open", "select", "drain", "leave", "join", "returned"}
  /\ runner \in {"working", "locked", "publish", "unhealthy", "send", "exit",
                 "gone"}
  /\ report \in [event : Event, up : BOOLEAN]
  /\ checker \in {"none", "init", "delay", "check", "send", "tick", "gone"}
  /\ checked \in {"yes", "no"}
  /\ consumer \in {"none", "select", "got", "publish", "gone"}
  /\ change \in [health : {"yes", "no"}, up : BOOLEAN]
  /\ published \in Event
  /\ wait \in {"off", "pending", "told"}

\* A local variable that is not in use keeps a fixed value.
NoHealth == [state |-> "Preparing", health |-> "unknown"]

NoReport == [event |-> NoHealth, up |-> FALSE]
NoChange == [health |-> "no", up |-> FALSE]

Init ==
  /\ state = "Preparing" /\ healthy = "unknown"
  /\ subscribed = FALSE /\ notifyCh = <<>> /\ cancelled = FALSE
  /\ main = "open" /\ runner = "working" /\ checker = "none"
  /\ consumer = "none" /\ checked = "no"
  /\ report = NoReport /\ change = NoChange
  /\ published = NoHealth
  /\ wait = "off"

-----------------------------------------------------------------------------
\* inStateLocked(StateEventUp) of a service with a health check.
Up == state = "Running" /\ healthy = "yes"

\* svcrunner.mu is only held over a step by UpdateState, which reads the
\* health twice while it has it.
Unlocked == runner /= "locked"

Notify(up) == wait' = IF up /\ wait = "pending" THEN "told" ELSE wait

\* Subscribe: an Up that is already the case is told at once.
WaitForUp ==
  /\ wait = "off" /\ Unlocked
  /\ wait' = IF Up THEN "told" ELSE "pending"
  /\ UNCHANGED <<state, healthy, subscribed, notifyCh, cancelled, main,
                 runner, report, checker, checked, consumer, change,
                 published>>

\* A token of stopCh reaches the run's watcher.
Cancel ==
  /\ ~cancelled
  /\ cancelled' = TRUE
  /\ UNCHANGED <<state, healthy, subscribed, notifyCh, main, runner, report,
                 checker, checked, consumer, change, published, wait>>

\* A channel without a buffer only takes what is awaited.
SendAwaited(h) ==
  notifyCh' = IF consumer = "select" /\ notifyCh = <<>>
                THEN <<h>> ELSE notifyCh

\* State.Update sends to its copy of the subscribers, and never blocks.
Send(h) ==
  notifyCh' = IF Len(notifyCh) < Buffer THEN Append(notifyCh, h) ELSE notifyCh

-----------------------------------------------------------------------------
(* The runner's goroutine and its event sink.                              *)

RunnerReports ==
  /\ runner = "working"
  /\ \E x \in {"Running", "Waiting"} \cup
              (IF cancelled THEN {"Stopping"} ELSE {}) :
       /\ state' = x
       /\ report' = [event |-> [state |-> x,
                                health |-> IF x = "Running" THEN healthy
                                                            ELSE "unknown"],
                     up |-> FALSE]
  /\ runner' = "locked"
  /\ UNCHANGED <<healthy, subscribed, notifyCh, cancelled, main, checker,
                 checked, consumer, change, published, wait>>

ReportUnlocks ==
  /\ runner = "locked"
  /\ runner' = "publish" /\ report' = [report EXCEPT !.up = Up]
  /\ UNCHANGED <<state, healthy, subscribed, notifyCh, cancelled, main,
                 checker, checked, consumer, change, published, wait>>

PublishReport ==
  /\ runner = "publish"
  /\ published' = report.event /\ Notify(report.up)
  /\ runner' = IF report.event.state = "Running" THEN "working"
                                                 ELSE "unhealthy"
  /\ report' = NoReport
  /\ UNCHANGED <<state, healthy, subscribed, notifyCh, cancelled, main,
                 checker, checked, consumer, change>>

RunnerUnhealthy ==
  /\ runner = "unhealthy"
  /\ healthy' = "no"
  /\ runner' = IF healthy /= "no" /\ subscribed THEN "send" ELSE "working"
  /\ UNCHANGED <<state, subscribed, notifyCh, cancelled, main, report,
                 checker, checked, consumer, change, published, wait>>

RunnerSends ==
  /\ runner = "send"
  /\ runner' = "working" /\ Send("no")
  /\ UNCHANGED <<state, healthy, subscribed, cancelled, main, report, checker,
                 checked, consumer, change, published, wait>>

RunnerExits ==
  /\ runner = "working" /\ (cancelled \/ ~Forever)
  /\ runner' = "exit"
  /\ UNCHANGED <<state, healthy, subscribed, notifyCh, cancelled, main,
                 report, checker, checked, consumer, change, published, wait>>

-----------------------------------------------------------------------------
(* health.Run.                                                             *)

CheckerGoes(from, to) ==
  /\ checker = from /\ checker' = to
  /\ UNCHANGED <<state, subscribed, cancelled, main, runner, report,
                 consumer, change, published, wait>>

HealthInit ==
  /\ CheckerGoes("init", "delay")
  /\ healthy' = "unknown" /\ UNCHANGED <<notifyCh, checked>>

\* The check and the Update of its result under healthState's lock.
Check ==
  \E h \in {"yes", "no"} :
    /\ CheckerGoes("check", IF healthy /= h /\ subscribed THEN "send"
                                                         ELSE "tick")
    /\ healthy' = h
    /\ checked' = IF checker' = "send" THEN h ELSE "no"
    /\ UNCHANGED notifyCh

CheckerSends ==
  /\ CheckerGoes("send", "tick")
  /\ Send(checked) /\ checked' = "no" /\ UNCHANGED healthy

\* Going by the ticker alone, without a look at ctx.
TickAlways ==
  /\ \/ CheckerGoes("delay", "check")
     \/ CheckerGoes("tick", "check")
  /\ UNCHANGED <<healthy, checked, notifyCh>>

\* InitialDelay or the ticker, or the end of ctx.
Tick ==
  /\ \/ CheckerGoes("delay", "check")
     \/ CheckerGoes("tick", "check")
     \/ cancelled /\ CheckerGoes("delay", "gone")
     \/ cancelled /\ CheckerGoes("tick", "gone")
  /\ UNCHANGED <<healthy, checked, notifyCh>>

-----------------------------------------------------------------------------
(* The consumer of health changes.                                         *)

ConsumerTakes ==
  /\ consumer = "select" /\ notifyCh /= <<>>
  /\ consumer' = "got" /\ notifyCh' = Tail(notifyCh)
  /\ change' = [health |-> Head(notifyCh), up |-> FALSE]
  /\ UNCHANGED <<state, healthy, subscribed, cancelled, main, runner, report,
                 checker, checked, published, wait>>

\* healthUpdate under the mutex.
HealthUpdate ==
  /\ consumer = "got" /\ Unlocked
  /\ IF state /= "Running"
       THEN consumer' = "select" /\ change' = NoChange
       ELSE consumer' = "publish" /\ change' = [change EXCEPT !.up = Up]
  /\ UNCHANGED <<state, healthy, subscribed, notifyCh, cancelled, main,
                 runner, report, checker, checked, published, wait>>

PublishHealth ==
  /\ consumer = "publish"
  /\ consumer' = "select" /\ change' = NoChange
  /\ published' = [state |-> "Running", health |-> change.health]
  /\ Notify(change.up)
  /\ UNCHANGED <<state, healthy, subscribed, notifyCh, cancelled, main,
                 runner, report, checker, checked>>

ConsumerDone ==
  /\ consumer = "select" /\ cancelled
  /\ consumer' = "gone"
  /\ UNCHANGED <<state, healthy, subscribed, notifyCh, cancelled, main,
                 runner, report, checker, checked, change, published, wait>>

-----------------------------------------------------------------------------
(* run().                                                                  *)

\* The runner's goroutine is at work by now.
StartHealth ==
  /\ main = "open"
  /\ main' = "select" /\ subscribed' = TRUE
  /\ consumer' = "select" /\ checker' = "init"
  /\ UNCHANGED <<state, healthy, notifyCh, cancelled, runner, report, checked,
                 change, published, wait>>

MainGoes(from, to) ==
  /\ main = from /\ main' = to
  /\ UNCHANGED <<state, healthy, notifyCh, cancelled, report, checker,
                 checked, consumer, change, published, wait>>

SeeCancelled ==
  /\ cancelled /\ MainGoes("select", "drain")
  /\ UNCHANGED <<subscribed, runner>>

SeeExit ==
  /\ runner = "exit" /\ runner' = "gone"
  /\ MainGoes("select", "leave") \/ MainGoes("drain", "leave")
  /\ UNCHANGED subscribed

Unsubscribe ==
  /\ MainGoes("leave", "join")
  /\ subscribed' = FALSE /\ UNCHANGED runner

\* Returning without healthWg.Wait.
JoinNobody ==
  /\ MainGoes("join", "returned")
  /\ UNCHANGED <<subscribed, runner>>

Join ==
  /\ consumer = "gone" /\ checker = "gone"
  /\ MainGoes("join", "returned")
  /\ UNCHANGED <<subscribed, runner>>

-----------------------------------------------------------------------------
Runner   == \/ ReportUnlocks \/ PublishReport \/ RunnerUnhealthy
            \/ RunnerSends
Checker  == HealthInit \/ Check \/ CheckerSends \/ Tick
Consumer == ConsumerTakes \/ HealthUpdate \/ PublishHealth \/ ConsumerDone
Main     == StartHealth \/ SeeCancelled \/ SeeExit \/ Unsubscribe \/ Join

Next == \/ Cancel \/ WaitForUp \/ RunnerReports \/ RunnerExits
        \/ Runner \/ Checker \/ Consumer \/ Main

Spec == Init /\ [][Next]_vars

\* Goroutines that can run do.  A cancelled runner returns in the end (module
\* Runner).  Go's select picks a ready case at random, so a done ctx is not
\* passed over for ever: strong fairness for the two loops that select on it.
FairSpec ==
  /\ Spec
  /\ WF_vars(Runner) /\ WF_vars(Checker) /\ WF_vars(Consumer) /\ WF_vars(Main)
  /\ SF_vars(cancelled /\ RunnerExits)
  /\ SF_vars(cancelled /\ checker' = "gone" /\ Tick)
  /\ SF_vars(ConsumerDone)

-----------------------------------------------------------------------------
(* Properties.                                                             *)

\* Somebody is on the way to look at Up and to notify: a report or a health
\* update that has seen it, or a change that healthUpdate has yet to take.
Announced ==
  \/ runner = "locked" \/ checker = "send" \/ consumer = "got"
  \/ notifyCh /= <<>>
  \/ runner = "publish" /\ report.up
  \/ consumer = "publish" /\ change.up

\* A service that is up while a condition waits for it is announced, whichever
\* of state and health came last, and although a change may be dropped when
\* notifyCh is full.  When ctx is done, or the runner gone, the service is
\* going down anyway.
NoLostUp ==
  wait = "pending" /\ Up /\ ~cancelled /\ runner /= "gone" => Announced

\* Once run() has returned nothing of it is left that could publish an event
\* or change the health: the final state is the last word.
NothingAfterReturn ==
  [][main = "returned" =>
       UNCHANGED <<state, healthy, published, notifyCh>>]_vars

\* A cancelled run() returns: the checker and the consumer see ctx done.
RunReturnsWhenCancelled == cancelled ~> main = "returned"

Quiet ==
  /\ runner = "working" /\ checker \in {"delay", "check", "tick"}
  /\ consumer = "select" /\ notifyCh = <<>>

\* Stated of the Service resource, which ServiceController makes from the
\* last event: it reflects the state of the service.  DeviceStatusController
\* waits for one that is running and healthy.
UpIsPublished ==
  Quiet /\ Up => published = [state |-> "Running", health |-> "yes"]
=============================================================================
