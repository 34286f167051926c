---------------------------- MODULE HealthProofs ----------------------------
(***************************************************************************)
(* Proofs about Health: nobody who waits for Up is forgotten, nothing of a *)
(* run() outlives it, and a cancelled one waits for nobody who is stuck,   *)
(* for every buffer of the channel of changes and for runners that exit by *)
(* themselves or not.                                                      *)
(***************************************************************************)
EXTENDS Health, TLAPS

\* Every variable keeps its type; the channel never holds more than Buffer.
THEOREM HealthTypeCorrect == Spec => []TypeOK
<1> USE HealthAssumption DEF Reported, Healths, Event
<1>1. Init => TypeOK
  <2> SUFFICES ASSUME Init PROVE TypeOK
    OBVIOUS
  <2>1. notifyCh \in Seq({"yes", "no"}) /\ Len(notifyCh) <= Buffer
    BY DEF Init
  <2>2. report \in [event : Event, up : BOOLEAN] /\ published \in Event
    BY DEF Init, NoReport, NoHealth
  <2> QED
    BY <2>1, <2>2 DEF Init, TypeOK, NoChange
<1>2. TypeOK /\ [Next]_vars => TypeOK'
  <2> SUFFICES ASSUME TypeOK, [Next]_vars PROVE TypeOK'
    OBVIOUS
  <2> USE DEF TypeOK
  <2>0. ASSUME NEW h \in {"yes", "no"}, Send(h)
        PROVE  notifyCh' \in Seq({"yes", "no"}) /\ Len(notifyCh') <= Buffer
    <3>1. CASE Len(notifyCh) < Buffer
      BY <2>0, <3>1 DEF Send
    <3>2. CASE ~(Len(notifyCh) < Buffer)
      BY <2>0, <3>2 DEF Send
    <3> QED
      BY <3>1, <3>2
  <2>1. CASE Cancel
    BY <2>1 DEF Cancel
  <2>2. CASE WaitForUp
    BY <2>2 DEF WaitForUp
  <2>3. CASE RunnerReports
    BY <2>3 DEF RunnerReports
  <2>4. CASE RunnerExits
    BY <2>4 DEF RunnerExits
  <2>5. CASE Runner
    <3>1. CASE ReportUnlocks
      <4>1. Up \in BOOLEAN
        BY DEF Up
      <4>2. report' \in [event : Event, up : BOOLEAN]
        BY <3>1, <4>1 DEF ReportUnlocks
      <4> QED
        BY <3>1, <4>2 DEF ReportUnlocks
    <3>2. CASE PublishReport
      <4>1. published' \in Event
        BY <3>2 DEF PublishReport
      <4>2. report' \in [event : Event, up : BOOLEAN]
        BY <3>2 DEF PublishReport, NoReport, NoHealth
      <4>3. wait' \in {"off", "pending", "told"}
        BY <3>2 DEF PublishReport, Notify
      <4> QED
        BY <3>2, <4>1, <4>2, <4>3 DEF PublishReport
    <3>3. CASE RunnerUnhealthy
      BY <3>3 DEF RunnerUnhealthy
    <3>4. CASE RunnerSends
      BY <3>4, <2>0 DEF RunnerSends
    <3> QED
      BY <2>5, <3>1, <3>2, <3>3, <3>4 DEF Runner
  <2>6. CASE Checker
    <3> USE DEF CheckerGoes
    <3>1. CASE HealthInit
      BY <3>1 DEF HealthInit
    <3>2. CASE Check
      BY <3>2 DEF Check
    <3>3. CASE CheckerSends
      BY <3>3, <2>0 DEF CheckerSends
    <3>4. CASE Tick
      BY <3>4 DEF Tick
    <3> QED
      BY <2>6, <3>1, <3>2, <3>3, <3>4 DEF Checker
  <2>7. CASE Consumer
    <3>1. CASE ConsumerTakes
      <4>1. /\ Head(notifyCh) \in {"yes", "no"}
            /\ Tail(notifyCh) \in Seq({"yes", "no"})
            /\ Len(Tail(notifyCh)) <= Buffer
        BY <3>1 DEF ConsumerTakes
      <4> QED
        BY <3>1, <4>1 DEF ConsumerTakes
    <3>2. CASE HealthUpdate
      <4>1. Up \in BOOLEAN
        BY DEF Up
      <4>2. change' = NoChange \/ change' = [change EXCEPT !.up = Up]
        BY <3>2 DEF HealthUpdate
      <4>3. NoChange \in [health : {"yes", "no"}, up : BOOLEAN]
        BY DEF NoChange
      <4>4. [change EXCEPT !.up = Up] \in [health : {"yes", "no"}, up : BOOLEAN]
        BY <4>1
      <4>5. change' \in [health : {"yes", "no"}, up : BOOLEAN]
        BY <4>2, <4>3, <4>4
      <4> QED
        BY <3>2, <4>5 DEF HealthUpdate
    <3>3. CASE PublishHealth
      BY <3>3 DEF PublishHealth, Notify, NoChange
    <3>4. CASE ConsumerDone
      BY <3>4 DEF ConsumerDone
    <3> QED
      BY <2>7, <3>1, <3>2, <3>3, <3>4 DEF Consumer
  <2>8. CASE Main
    <3>1. CASE StartHealth
      BY <3>1 DEF StartHealth
    <3>2. CASE SeeCancelled
      BY <3>2 DEF SeeCancelled, MainGoes
    <3>3. CASE SeeExit
      BY <3>3 DEF SeeExit, MainGoes
    <3>4. CASE Unsubscribe
      <4>1. subscribed' \in BOOLEAN
        BY <3>4 DEF Unsubscribe
      <4>2. main' = "join" /\ runner' = runner
        BY <3>4 DEF Unsubscribe, MainGoes
      <4>3. UNCHANGED <<state, healthy, notifyCh, cancelled, report, checker,
                        checked, consumer, change, published, wait>>
        BY <3>4 DEF Unsubscribe, MainGoes
      <4> QED
        BY <4>1, <4>2, <4>3
    <3>5. CASE Join
      BY <3>5 DEF Join, MainGoes
    <3> QED
      BY <2>8, <3>1, <3>2, <3>3, <3>4, <3>5 DEF Main
  <2>9. CASE UNCHANGED vars
    BY <2>9 DEF vars
  <2> QED
    BY <2>1, <2>2, <2>3, <2>4, <2>5, <2>6, <2>7, <2>8, <2>9 DEF Next
<1> QED
  BY <1>1, <1>2, PTL DEF Spec

\* run() subscribes before the checker runs and unsubscribes only when the
\* runner is gone, so a check that finds the service healthy has somebody to
\* send the change to.
HealthInv ==
  /\ subscribed <=> main \in {"select", "drain", "leave"}
  /\ main = "open" => checker = "none" /\ consumer = "none"
  /\ main \in {"leave", "join", "returned"} => runner = "gone"
  /\ main = "returned" => checker = "gone" /\ consumer = "gone"
  /\ NoLostUp

\* HealthInv is an invariant, for every buffer.
THEOREM HealthCorrect == Spec => []HealthInv
<1> USE HealthAssumption
<1>1. Init => HealthInv
  BY DEF Init, HealthInv, NoLostUp
<1>2. TypeOK /\ HealthInv /\ [Next]_vars => HealthInv'
  <2> SUFFICES ASSUME TypeOK, HealthInv, [Next]_vars PROVE HealthInv'
    OBVIOUS
  <2> USE DEF HealthInv, NoLostUp, Announced, Up
  <2>0. ASSUME NEW h, Send(h) PROVE notifyCh' /= <<>>
    <3>1. CASE Len(notifyCh) < Buffer
      BY <2>0, <3>1 DEF Send, TypeOK
    <3>2. CASE ~(Len(notifyCh) < Buffer)
      BY <2>0, <3>2 DEF Send, TypeOK
    <3> QED
      BY <3>1, <3>2
  <2>1. CASE Cancel \/ WaitForUp
    BY <2>1 DEF Cancel, WaitForUp
  <2>2. CASE RunnerReports \/ RunnerExits
    BY <2>2 DEF RunnerReports, RunnerExits
  <2>3. CASE ReportUnlocks
    BY <2>3 DEF ReportUnlocks, TypeOK
  <2>4. CASE PublishReport
    BY <2>4 DEF PublishReport, Notify
  <2>5. CASE RunnerUnhealthy
    BY <2>5 DEF RunnerUnhealthy
  <2>6. CASE RunnerSends
    BY <2>0, <2>6 DEF RunnerSends
  <2>7. CASE Checker
    <3> USE DEF CheckerGoes
    <3>1. CASE HealthInit
      BY <3>1 DEF HealthInit
    <3>2. CASE Check
      BY <3>2 DEF Check, TypeOK
    <3>3. CASE CheckerSends
      BY <3>3, <2>0 DEF CheckerSends
    <3>4. CASE Tick
      BY <3>4 DEF Tick
    <3> QED
      BY <2>7, <3>1, <3>2, <3>3, <3>4 DEF Checker
  <2>8. CASE Consumer
    <3>1. CASE ConsumerTakes
      BY <3>1 DEF ConsumerTakes
    <3>2. CASE HealthUpdate
      BY <3>2 DEF HealthUpdate, TypeOK
    <3>3. CASE PublishHealth
      BY <3>3 DEF PublishHealth, Notify
    <3>4. CASE ConsumerDone
      BY <3>4 DEF ConsumerDone
    <3> QED
      BY <2>8, <3>1, <3>2, <3>3, <3>4 DEF Consumer
  <2>9. CASE StartHealth
    <3>1. NoLostUp'
      BY <2>9 DEF StartHealth
    <3> QED
      BY <2>9, <3>1 DEF StartHealth, TypeOK
  <2>10. CASE SeeCancelled \/ SeeExit \/ Unsubscribe \/ Join
    <3> USE DEF MainGoes, TypeOK
    <3>1. CASE SeeCancelled
      BY <3>1 DEF SeeCancelled
    <3>2. CASE SeeExit
      BY <3>2 DEF SeeExit
    <3>3. CASE Unsubscribe
      BY <3>3 DEF Unsubscribe
    <3>4. CASE Join
      BY <3>4 DEF Join
    <3> QED
      BY <2>10, <3>1, <3>2, <3>3, <3>4
  <2>11. CASE UNCHANGED vars
    BY <2>11 DEF vars
  <2> QED
    BY <2>1, <2>2, <2>3, <2>4, <2>5, <2>6, <2>7, <2>8, <2>9, <2>10, <2>11
       DEF Next, Runner, Main
<1> QED
  BY <1>1, <1>2, HealthTypeCorrect, PTL DEF Spec

\* Whoever waits for Up is told of it, or somebody is on the way to tell.
THEOREM UpIsAnnounced == Spec => []NoLostUp
<1>1. HealthInv => NoLostUp
  BY DEF HealthInv
<1> QED
  BY <1>1, HealthCorrect, PTL

\* Nothing is published or changed by a run() that has returned.
THEOREM ReturnIsFinal == Spec => NothingAfterReturn
<1>1. HealthInv /\ [Next]_vars =>
        [main = "returned" =>
           UNCHANGED <<state, healthy, published, notifyCh>>]_vars
  <2> SUFFICES ASSUME HealthInv, [Next]_vars, main = "returned"
               PROVE  UNCHANGED <<state, healthy, published, notifyCh>>
    OBVIOUS
  <2>1. runner = "gone" /\ checker = "gone" /\ consumer = "gone"
    BY DEF HealthInv
  <2>2. CASE UNCHANGED vars
    BY <2>2 DEF vars
  <2>3. CASE Runner \/ RunnerReports \/ RunnerExits
    BY <2>1, <2>3 DEF Runner, ReportUnlocks, PublishReport, RunnerUnhealthy,
                      RunnerSends, RunnerReports, RunnerExits
  <2>4. CASE Checker
    BY <2>1, <2>4 DEF Checker, HealthInit, Check, CheckerSends, Tick, CheckerGoes
  <2>5. CASE Consumer
    BY <2>1, <2>5 DEF Consumer, ConsumerTakes, HealthUpdate, PublishHealth,
                      ConsumerDone
  <2>6. CASE Cancel \/ WaitForUp \/ Main
    BY <2>6 DEF Cancel, WaitForUp, Main, StartHealth, SeeCancelled, SeeExit,
                Unsubscribe, Join, MainGoes
  <2> QED
    BY <2>2, <2>3, <2>4, <2>5, <2>6 DEF Next
<1> QED
  BY <1>1, HealthCorrect, PTL DEF Spec, NothingAfterReturn

-----------------------------------------------------------------------------
(* What a run() says before a check has succeeded.                         *)

\* Nothing on its way says that the service is healthy, or up.
NoGoodNews ==
  /\ published.health /= "yes" /\ wait /= "told"
  /\ report.event.health /= "yes" /\ ~report.up
  /\ checked = "no" /\ change = NoChange
  /\ \A i \in DOMAIN notifyCh : notifyCh[i] = "no"

NeverHealthy == healthy /= "yes"

NotAnnounced == published.health /= "yes" /\ wait /= "told"

\* As long as no check has succeeded, no event says that the service is
\* healthy and nobody who waits for Up is told, which is what module Boot
\* assumes of udevd: only Check makes the health "yes".
THEOREM UpNeedsCheck == Spec /\ []NeverHealthy => []NotAnnounced
<1>1. Init => NoGoodNews
  BY DEF Init, NoGoodNews, NoHealth, NoReport, NoChange
<1>2. TypeOK /\ NeverHealthy /\ NeverHealthy' /\ NoGoodNews /\ [Next]_vars => NoGoodNews'
  <2> SUFFICES ASSUME TypeOK, NeverHealthy, NeverHealthy', NoGoodNews, [Next]_vars
               PROVE  NoGoodNews'
    OBVIOUS
  <2> USE DEF NoGoodNews, NeverHealthy, NoChange, NoReport, NoHealth, Up
  <2>1. ASSUME Send("no")
        PROVE  \A i \in DOMAIN notifyCh' : notifyCh'[i] = "no"
    BY <2>1 DEF Send, TypeOK
  <2>2. CASE Cancel
    BY <2>2 DEF Cancel
  <2>3. CASE WaitForUp
    BY <2>3 DEF WaitForUp
  <2>4. CASE RunnerReports
    BY <2>4 DEF RunnerReports
  <2>5. CASE RunnerExits
    BY <2>5 DEF RunnerExits
  <2>6. CASE Runner
    <3>1. CASE ReportUnlocks
      BY <3>1 DEF ReportUnlocks, TypeOK
    <3>2. CASE PublishReport
      BY <3>2 DEF PublishReport, Notify
    <3>3. CASE RunnerUnhealthy
      BY <3>3 DEF RunnerUnhealthy
    <3>4. CASE RunnerSends
      BY <3>4, <2>1 DEF RunnerSends
    <3> QED
      BY <2>6, <3>1, <3>2, <3>3, <3>4 DEF Runner
  <2>7. CASE Checker
    <3> USE DEF CheckerGoes
    <3>1. CASE HealthInit
      BY <3>1 DEF HealthInit
    <3>2. CASE Check
      BY <3>2 DEF Check
    <3>3. CASE CheckerSends
      BY <3>3, <2>1 DEF CheckerSends
    <3>4. CASE Tick
      BY <3>4 DEF Tick
    <3> QED
      BY <2>7, <3>1, <3>2, <3>3, <3>4 DEF Checker
  <2>8. CASE Consumer
    <3>1. CASE ConsumerTakes
      <4>1. Head(notifyCh) = "no" /\ \A i \in DOMAIN notifyCh' : notifyCh'[i] = "no"
        BY <3>1 DEF ConsumerTakes, TypeOK
      <4> QED
        BY <3>1, <4>1 DEF ConsumerTakes
    <3>2. CASE HealthUpdate
      BY <3>2 DEF HealthUpdate, TypeOK
    <3>3. CASE PublishHealth
      BY <3>3 DEF PublishHealth, Notify
    <3>4. CASE ConsumerDone
      BY <3>4 DEF ConsumerDone
    <3> QED
      BY <2>8, <3>1, <3>2, <3>3, <3>4 DEF Consumer
  <2>9. CASE Main
    BY <2>9 DEF Main, StartHealth, SeeCancelled, SeeExit, Unsubscribe, Join, MainGoes
  <2>10. CASE UNCHANGED vars
    BY <2>10 DEF vars
  <2> QED
    BY <2>2, <2>3, <2>4, <2>5, <2>6, <2>7, <2>8, <2>9, <2>10 DEF Next
<1>3. NoGoodNews => NotAnnounced
  BY DEF NoGoodNews, NotAnnounced
<1> QED
  BY <1>1, <1>2, <1>3, HealthTypeCorrect, PTL DEF Spec

-----------------------------------------------------------------------------
(* A cancelled run(): what RunReturnsWhenCancelled rests on.               *)

\* Who has a next step once ctx is done: the guards of the actions of each.
MainMoves ==
  \/ main \in {"open", "select", "leave"}
  \/ main = "drain" /\ runner = "exit"
  \/ main = "join" /\ consumer = "gone" /\ checker = "gone"

RunnerMoves   == runner \notin {"exit", "gone"}
CheckerMoves  == checker \notin {"none", "gone"}
ConsumerMoves == consumer \in {"select", "publish"} \/ (consumer = "got" /\ Unlocked)

\* run() waits for the runner's exit, and then for the checker and the
\* consumer; whom it waits for has a next step, the consumer not even the
\* runner's mutex to wait for.
WaitsForTheLiving ==
  cancelled /\ main /= "returned" =>
    \/ MainMoves
    \/ main = "drain" /\ RunnerMoves
    \/ /\ main = "join" /\ (checker /= "gone" \/ consumer /= "gone")
       /\ checker /= "gone" => CheckerMoves
       /\ consumer /= "gone" => ConsumerMoves

\* How many of its steps run() has left.
MainLeft ==
  CASE main = "open" -> 5 [] main = "select" -> 4 [] main = "drain" -> 3
    [] main = "leave" -> 2 [] main = "join" -> 1 [] OTHER -> 0

\* ctx stays done, who is gone stays gone, and each step of run() is one of
\* the few it has.
WindDown ==
  /\ cancelled => cancelled'
  /\ runner = "gone" => runner' = "gone"
  /\ checker = "gone" => checker' = "gone"
  /\ consumer = "gone" => consumer' = "gone"
  /\ MainLeft' <= MainLeft /\ (Main => MainLeft' < MainLeft)

\* run() has somebody to wait for.
AwaitedInv ==
  /\ main \in {"open", "select", "drain"} => runner /= "gone"
  /\ main /= "open" => checker /= "none" /\ consumer /= "none"
  /\ main = "open" => checker = "none" /\ consumer = "none"

\* AwaitedInv is an invariant, for every buffer.
THEOREM AwaitedCorrect == Spec => []AwaitedInv
<1>1. Init => AwaitedInv
  BY DEF Init, AwaitedInv
<1>2. AwaitedInv /\ [Next]_vars => AwaitedInv'
  <2> SUFFICES ASSUME AwaitedInv, [Next]_vars PROVE AwaitedInv'
    OBVIOUS
  <2> USE DEF AwaitedInv
  <2>1. CASE Cancel \/ WaitForUp \/ RunnerReports \/ RunnerExits
    BY <2>1 DEF Cancel, WaitForUp, RunnerReports, RunnerExits
  <2>2. CASE Runner
    BY <2>2 DEF Runner, ReportUnlocks, PublishReport, RunnerUnhealthy, RunnerSends
  <2>3. CASE Checker
    BY <2>3 DEF Checker, HealthInit, Check, CheckerSends, Tick, CheckerGoes
  <2>4. CASE Consumer
    BY <2>4 DEF Consumer, ConsumerTakes, HealthUpdate, PublishHealth, ConsumerDone
  <2>5. CASE Main
    BY <2>5 DEF Main, StartHealth, SeeCancelled, SeeExit, Unsubscribe, Join, MainGoes
  <2>6. CASE UNCHANGED vars
    BY <2>6 DEF vars
  <2> QED
    BY <2>1, <2>2, <2>3, <2>4, <2>5, <2>6 DEF Next
<1> QED
  BY <1>1, <1>2, PTL DEF Spec

\* A cancelled run() never waits for somebody who is stuck or was never
\* started.
THEOREM NobodyWaitsForTheDead == Spec => []WaitsForTheLiving
<1>1. TypeOK /\ HealthInv /\ AwaitedInv => WaitsForTheLiving
  BY DEF TypeOK, HealthInv, AwaitedInv, WaitsForTheLiving, MainMoves,
         RunnerMoves, CheckerMoves, ConsumerMoves, Unlocked
<1> QED
  BY <1>1, HealthTypeCorrect, HealthCorrect, AwaitedCorrect, PTL

\* A run() only winds down: no step of any of its goroutines takes it back.
THEOREM RunWindsDown == Spec => [][WindDown]_vars
<1>1. AwaitedInv /\ Next => WindDown
  <2> SUFFICES ASSUME AwaitedInv, Next PROVE WindDown
    OBVIOUS
  <2>1. Main => MainLeft' < MainLeft
    BY DEF Main, StartHealth, SeeCancelled, SeeExit, Unsubscribe, Join, MainGoes,
           MainLeft
  <2>2. UNCHANGED main => MainLeft' = MainLeft
    BY DEF MainLeft
  <2>3. MainLeft \in 0 .. 5 /\ MainLeft' \in 0 .. 5
    BY DEF MainLeft
  <2> DEFINE Rest == /\ cancelled => cancelled'
                     /\ runner = "gone" => runner' = "gone"
                     /\ checker = "gone" => checker' = "gone"
                     /\ consumer = "gone" => consumer' = "gone"
                     /\ Main \/ UNCHANGED main
  <2>4. ASSUME Cancel \/ WaitForUp \/ RunnerReports \/ RunnerExits PROVE Rest
    BY <2>4 DEF Cancel, WaitForUp, RunnerReports, RunnerExits
  <2>5. ASSUME Runner PROVE Rest
    BY <2>5 DEF Runner, ReportUnlocks, PublishReport, RunnerUnhealthy, RunnerSends
  <2>6. ASSUME Checker PROVE Rest
    BY <2>6 DEF Checker, HealthInit, Check, CheckerSends, Tick, CheckerGoes
  <2>7. ASSUME Consumer PROVE Rest
    BY <2>7 DEF Consumer, ConsumerTakes, HealthUpdate, PublishHealth, ConsumerDone
  <2>8. ASSUME Main PROVE Rest
    BY <2>8 DEF Main, StartHealth, SeeCancelled, SeeExit, Unsubscribe, Join,
                MainGoes, AwaitedInv
  <2>9. Rest
    BY <2>4, <2>5, <2>6, <2>7, <2>8 DEF Next
  <2> QED
    BY <2>1, <2>2, <2>3, <2>9 DEF WindDown
<1> QED
  BY <1>1, AwaitedCorrect, PTL DEF Spec
=============================================================================
