------------------------------- MODULE Runner -------------------------------
(***************************************************************************)
(* One call of a service's runner: the restart policy of restart.go around *)
(* the process runner of process.go or the goroutine runner of             *)
(* goroutine.go.  The child is the process, or the service's main.         *)
(*                                                                         *)
(* at is where the restarter and the wrapped runner are:                   *)
(*   "launch"   about to call the wrapped runner's Run                     *)
(*   "select"   in its first select: the child exits or ctx is done        *)
(*   "stop"     ctx is done, about to report Stopping (and send SIGTERM)   *)
(*   "grace"    in its second select: the child exits or the timeout fires *)
(*   "reap"     process: SIGKILL sent, waiting for the exit                *)
(*   "back"     the wrapped runner returned err                            *)
(*   "interval" waiting for the restart interval                           *)
(*   "returned" the restarter's Run returned                               *)
(***************************************************************************)
EXTENDS Integers

CONSTANT MaxLaunches  \* bound on the children started

ASSUME RunnerAssumption == MaxLaunches \in Nat \ {0}

VARIABLES kind,       \* the wrapped runner, fixed when the service is created
          type,       \* the restart policy, fixed likewise
          cancelled,  \* ctx is done
          at,
          err,        \* how the last child ended: "nil", "error" or "aborted"
          child,      \* "none", "alive", "termed", "killed" or "exited"
          alive,      \* children that have not ended, abandoned ones included
          launches,   \* children started so far
          late,       \* those started with ctx done (history)
          timedOut,   \* the graceful shutdown timeout fired (history)
          reported    \* the last state given to the event sink

fixed == <<kind, type>>
count == <<launches, late>>
vars == <<fixed, count, cancelled, at, err, child, alive, timedOut, reported>>

TypeOK ==
  /\ kind \in {"process", "goroutine"}
  /\ type \in {"Forever", "Once", "UntilSuccess"}
  /\ cancelled \in BOOLEAN /\ timedOut \in BOOLEAN
  /\ at \in {"launch", "select", "stop", "grace", "reap", "back", "interval",
             "returned"}
  /\ err \in {"nil", "error", "aborted"}
  /\ child \in {"none", "alive", "termed", "killed", "exited"}
  /\ alive \in 0 .. 1
  /\ launches \in 0 .. MaxLaunches /\ late \in 0 .. launches
  /\ reported \in {"none", "Running", "Waiting", "Stopping"}

Init ==
  /\ kind \in {"process", "goroutine"}
  /\ type \in {"Forever", "Once", "UntilSuccess"}
  /\ cancelled = FALSE /\ timedOut = FALSE
  /\ at = "launch" /\ err = "nil" /\ child = "none"
  /\ alive = 0 /\ launches = 0 /\ late = 0 /\ reported = "none"

-----------------------------------------------------------------------------
(* The environment.                                                        *)

CancelContext ==
  /\ ~cancelled /\ at /= "returned"
  /\ cancelled' = TRUE
  /\ UNCHANGED <<fixed, count, at, err, child, alive, timedOut, reported>>

\* The child ends: by itself, or because it was signalled or saw ctx done.
ChildExits ==
  /\ child \in {"alive", "termed", "killed"}
  /\ child' = "exited" /\ alive' = alive - 1
  /\ UNCHANGED <<fixed, count, cancelled, at, err, timedOut, reported>>

-----------------------------------------------------------------------------
(* The wrapped runner.                                                     *)

\* Setting up or starting a process may fail before there is a child.
LaunchFails ==
  /\ at = "launch" /\ kind = "process"
  /\ at' = "back" /\ err' = "error" /\ child' = "none"
  /\ UNCHANGED <<fixed, count, cancelled, alive, timedOut, reported>>

Launch ==
  /\ at = "launch" /\ launches < MaxLaunches
  /\ at' = "select" /\ child' = "alive" /\ alive' = alive + 1
  /\ launches' = launches + 1
  /\ late' = IF cancelled THEN late + 1 ELSE late
  /\ reported' = "Running"
  /\ UNCHANGED <<fixed, cancelled, err, timedOut>>

\* What a child that ended left in waitCh or errCh: a signalled process is
\* an error, a main that returns context.Canceled is none.
ExitSeen ==
  /\ at \in {"select", "grace", "reap"} /\ child = "exited"
  /\ at' = "back" /\ err' \in {"nil", "error"}
  /\ UNCHANGED <<fixed, count, cancelled, child, alive, timedOut, reported>>

\* Giving up on the child as soon as ctx is done.
CancelSeenAndLeaves ==
  /\ at = "select" /\ cancelled
  /\ at' = "back" /\ err' = "aborted"
  /\ UNCHANGED <<fixed, count, cancelled, child, alive, timedOut, reported>>

CancelSeen ==
  /\ at = "select" /\ cancelled
  /\ at' = "stop"
  /\ UNCHANGED <<fixed, count, cancelled, err, child, alive, timedOut,
                reported>>

\* The signal fails when the process has ended; the report is made anyway.
StopChild ==
  /\ at = "stop"
  /\ at' = "grace" /\ reported' = "Stopping"
  /\ child' = IF kind = "process" /\ child = "alive" THEN "termed" ELSE child
  /\ UNCHANGED <<fixed, count, cancelled, err, alive, timedOut>>

\* The process runner kills and goes on waiting; giving up instead would
\* leave the process behind.
GraceExpiresAndLeaves ==
  /\ at = "grace"
  /\ timedOut' = TRUE /\ reported' = "Stopping"
  /\ at' = "back" /\ err' = "aborted"
  /\ UNCHANGED <<fixed, count, cancelled, child, alive>>

GraceExpires ==
  /\ at = "grace"
  /\ timedOut' = TRUE /\ reported' = "Stopping"
  /\ IF kind = "process"
       THEN /\ at' = "reap" /\ UNCHANGED err
            /\ child' = IF child = "termed" THEN "killed" ELSE child
       ELSE /\ at' = "back" /\ err' = "aborted" /\ UNCHANGED child
  /\ UNCHANGED <<fixed, count, cancelled, alive>>

-----------------------------------------------------------------------------
(* The restart policy.                                                     *)

\* Deciding on the policy alone, without a look at ctx.
MustReturnByPolicy == type = "Once" \/ (type = "UntilSuccess" /\ err = "nil")

MustReturn ==
  cancelled \/ type = "Once" \/ (type = "UntilSuccess" /\ err = "nil")

Decide ==
  /\ at = "back"
  /\ IF MustReturn
       THEN at' = "returned" /\ UNCHANGED reported
       ELSE at' = "interval" /\ reported' = "Waiting"
  /\ UNCHANGED <<fixed, count, cancelled, err, child, alive, timedOut>>

\* Both cases of the select may be ready.
IntervalOver ==
  /\ at = "interval" /\ launches < MaxLaunches
  /\ at' = "launch"
  /\ UNCHANGED <<fixed, count, cancelled, err, child, alive, timedOut,
                reported>>

AbortRestart ==
  /\ at = "interval" /\ cancelled
  /\ at' = "returned" /\ err' = "nil" /\ reported' = "Stopping"
  /\ UNCHANGED <<fixed, count, cancelled, child, alive, timedOut>>

Run == \/ LaunchFails \/ Launch \/ ExitSeen \/ CancelSeen \/ StopChild
       \/ GraceExpires \/ Decide \/ IntervalOver \/ AbortRestart

Next == CancelContext \/ ChildExits \/ Run

Spec == Init /\ [][Next]_vars

\* The runner's goroutine runs and timers fire; nothing makes a child exit
\* but SIGKILL.
FairSpec ==
  /\ Spec
  /\ WF_vars(Run)
  /\ WF_vars(child = "killed" /\ ChildExits)

-----------------------------------------------------------------------------
(* Properties.                                                             *)

\* A restart never overlaps the child before it, and a process runner that
\* returned leaves no process behind: SIGKILL is followed by a wait.
OneChild ==
  /\ alive <= 1
  /\ at \in {"launch", "back", "interval", "returned"} /\ kind = "process"
       => alive = 0

\* A main that ignores ctx is abandoned only after the timeout, with
\* ErrAborted, and never by a runner that would start it again.
AbandonedAfterTimeout ==
  alive = 1 /\ at \in {"launch", "back", "interval", "returned"} =>
    timedOut /\ err = "aborted" /\ cancelled /\ at \in {"back", "returned"}

\* The restart interval may end just as ctx is done, so a child may still be
\* started after the cancellation: one, never a second.
AtMostOneLateLaunch == late <= 1

\* A runner whose ctx is done returns, whatever its child does.
CancelledRunnerReturns == cancelled ~> at = "returned"
=============================================================================
