---------------------------- MODULE RunnerProofs ----------------------------
(***************************************************************************)
(* Proofs about Runner: how children, restarts and cancellation meet, for  *)
(* both runners, every restart policy and any number of children.          *)
(***************************************************************************)
EXTENDS Runner, TLAPS

Living == {"alive", "termed", "killed"}

\* A child that lives is counted; there is none when the next is launched; one
\* that is left behind belongs to a goroutine runner whose timeout fired after
\* ctx was done, which then is not restarted.  Only the launch that was already
\* under way when ctx was done comes late.
RunnerInv ==
  /\ TypeOK
  /\ alive = IF child \in Living THEN 1 ELSE 0
  /\ at \in {"launch", "interval"} => child \notin Living
  /\ at \in {"stop", "grace", "reap"} => cancelled
  /\ at = "reap" => kind = "process"
  /\ at \in {"back", "returned"} /\ child \in Living =>
       timedOut /\ err = "aborted" /\ cancelled /\ kind = "goroutine"
  /\ late > 0 => late = 1 /\ cancelled /\ at \notin {"launch", "interval"}

\* RunnerInv is an invariant, for any number of launches.
THEOREM RunnerCorrect == Spec => []RunnerInv
<1> USE RunnerAssumption
<1>1. Init => RunnerInv
  <2> SUFFICES ASSUME Init PROVE RunnerInv
    OBVIOUS
  <2>1. alive \in 0 .. 1 /\ launches \in 0 .. MaxLaunches /\ late \in 0 .. launches
    BY DEF Init
  <2>2. TypeOK
    BY <2>1 DEF Init, TypeOK
  <2> QED
    BY <2>2 DEF Init, RunnerInv, Living
<1>2. RunnerInv /\ [Next]_vars => RunnerInv'
  <2> SUFFICES ASSUME RunnerInv, [Next]_vars PROVE RunnerInv'
    OBVIOUS
  <2> USE DEF RunnerInv, TypeOK, Living, fixed, count
  <2>1. CASE CancelContext
    BY <2>1 DEF CancelContext
  <2>2. CASE ChildExits
    BY <2>2 DEF ChildExits
  <2>3. CASE LaunchFails
    BY <2>3 DEF LaunchFails
  <2>4. CASE Launch
    BY <2>4 DEF Launch
  <2>5. CASE ExitSeen
    BY <2>5 DEF ExitSeen
  <2>6. CASE CancelSeen
    BY <2>6 DEF CancelSeen
  <2>7. CASE StopChild
    BY <2>7 DEF StopChild
  <2>8. CASE GraceExpires
    BY <2>8 DEF GraceExpires
  <2>9. CASE Decide
    BY <2>9 DEF Decide, MustReturn
  <2>10. CASE IntervalOver
    BY <2>10 DEF IntervalOver
  <2>11. CASE AbortRestart
    BY <2>11 DEF AbortRestart
  <2>12. CASE UNCHANGED vars
    BY <2>12 DEF vars
  <2> QED
    BY <2>1, <2>2, <2>3, <2>4, <2>5, <2>6, <2>7, <2>8, <2>9, <2>10, <2>11,
       <2>12 DEF Next, Run
<1> QED
  BY <1>1, <1>2, PTL DEF Spec

\* Children never overlap, and a process runner that has returned leaves no
\* process behind.
THEOREM NoTwoChildren == Spec => []OneChild
<1>1. RunnerInv => OneChild
  BY DEF RunnerInv, TypeOK, Living, OneChild
<1> QED
  BY <1>1, RunnerCorrect, PTL

\* A main is abandoned only after the timeout, and never by a runner that
\* would start it again.
THEOREM AbandonedLast == Spec => []AbandonedAfterTimeout
<1>1. RunnerInv => AbandonedAfterTimeout
  BY DEF RunnerInv, TypeOK, Living, AbandonedAfterTimeout
<1> QED
  BY <1>1, RunnerCorrect, PTL

\* However many children were started, at most one came after ctx was done.
THEOREM OneLateLaunch == Spec => []AtMostOneLateLaunch
<1>1. RunnerInv => AtMostOneLateLaunch
  BY DEF RunnerInv, TypeOK, AtMostOneLateLaunch
<1> QED
  BY <1>1, RunnerCorrect, PTL

-----------------------------------------------------------------------------
(* When a runner returns.                                                  *)

\* What the other modules take from a restart policy: a runner returns by
\* itself after Once, or UntilSuccess of a success, and never Forever.
ReturnsByPolicy ==
  at = "returned" => cancelled \/ type = "Once" \/ (type = "UntilSuccess" /\ err = "nil")

\* A service that is restarted for ever ends only when its ctx is done, which
\* is what modules Health and Boot assume of one.
THEOREM ForeverUntilCancelled == Spec => []ReturnsByPolicy
<1>1. Init => ReturnsByPolicy
  BY DEF Init, ReturnsByPolicy
<1>2. RunnerInv /\ ReturnsByPolicy /\ [Next]_vars => ReturnsByPolicy'
  BY DEF RunnerInv, TypeOK, ReturnsByPolicy, Next, Run, CancelContext, ChildExits, LaunchFails,
         Launch, ExitSeen, CancelSeen, StopChild, GraceExpires, Decide, MustReturn,
         IntervalOver, AbortRestart, fixed, count, vars
<1> QED
  BY <1>1, <1>2, RunnerCorrect, PTL DEF Spec

\* How far a runner is from its return, and how many steps it and its child
\* can still make.
Rank == CASE at = "interval" -> 7 [] at = "launch" -> 6 [] at = "select" -> 5
          [] at = "stop" -> 4 [] at = "grace" -> 3 [] at = "reap" -> 2
          [] at = "back" -> 1 [] OTHER -> 0

Left == 2 * Rank + alive

\* The measure is a number, and at zero there is nothing left to do.
LEMMA LeftIsNat ==
  ASSUME RunnerInv
  PROVE  Left \in 0 .. 15 /\ (Left = 0 <=> at = "returned" /\ alive = 0)
BY DEF RunnerInv, TypeOK, Left, Rank

\* Once ctx is done every step, of the runner or of its child, brings the end
\* nearer: no order of exits, timeouts and restarts keeps it going for ever,
\* and there are at most 15 steps.
THEOREM CancelledRunWindsDown ==
  Spec => [][cancelled => Left' \in 0 .. Left - 1]_vars
<1>1. RunnerInv /\ RunnerInv' /\ [Next]_vars => [cancelled => Left' \in 0 .. Left - 1]_vars
  <2> SUFFICES ASSUME RunnerInv, RunnerInv', Next, cancelled
               PROVE  Left' \in 0 .. Left - 1
    BY DEF vars
  <2>1. Left \in 0 .. 15 /\ Left' \in 0 .. 15
    BY LeftIsNat DEF RunnerInv, TypeOK, Left, Rank
  <2>2. Left' < Left
    <3> USE DEF Left, Rank, RunnerInv, TypeOK, Living, fixed, count
    <3>1. CASE ChildExits
      BY <3>1 DEF ChildExits
    <3>2. CASE LaunchFails
      BY <3>2 DEF LaunchFails
    <3>3. CASE Launch
      BY <3>3 DEF Launch
    <3>4. CASE ExitSeen
      BY <3>4 DEF ExitSeen
    <3>5. CASE CancelSeen
      BY <3>5 DEF CancelSeen
    <3>6. CASE StopChild
      BY <3>6 DEF StopChild
    <3>7. CASE GraceExpires
      BY <3>7 DEF GraceExpires
    <3>8. CASE Decide
      BY <3>8 DEF Decide, MustReturn
    <3>9. CASE IntervalOver
      BY <3>9 DEF IntervalOver
    <3>10. CASE AbortRestart
      BY <3>10 DEF AbortRestart
    <3>11. ~CancelContext
      BY DEF CancelContext
    <3> QED
      BY <3>1, <3>2, <3>3, <3>4, <3>5, <3>6, <3>7, <3>8, <3>9, <3>10, <3>11 DEF Next, Run
  <2> QED
    BY <2>1, <2>2
<1> QED
  BY <1>1, RunnerCorrect, PTL DEF Spec
=============================================================================
