------------------------------ MODULE EventLog ------------------------------
(***************************************************************************)
(* What the runtime event stream promises to its users, with no ring       *)
(* buffer, mutex or condition variable in sight: an append-only log and,   *)
(* per watcher, a cursor into it.  A watcher receives every event from its *)
(* starting point on that passes its actor filter, in log order and once,  *)
(* until it gives up or falls Capacity events behind.                      *)
(*                                                                         *)
(* Module Events (the code of v1alpha1_events.go) is shown to implement it.*)
(***************************************************************************)
EXTENDS Integers, Sequences

CONSTANTS Consumers,  \* calls of Watch
          Actors,     \* actor IDs, the empty one included
          NoActor,    \* the empty actor ID
          Capacity,   \* events the stream can hold
          Gap         \* events held back from a new watcher's history

VARIABLES log,        \* all events ever published
          status,     \* per watcher: "new", "open" or "closed"
          cancelled,  \* per watcher: its WatchFunc has returned
          filter,     \* per watcher: the actor it listens to
          cursor,     \* per watcher: number of log entries behind it
          received    \* per watcher: the EventInfos its WatchFunc received

vars == <<log, status, cancelled, filter, cursor, received>>

Event == [id : Nat, actor : Actors]

Init ==
  /\ log = << >>
  /\ status = [c \in Consumers |-> "new"]
  /\ cancelled = [c \in Consumers |-> FALSE]
  /\ filter = [c \in Consumers |-> NoActor]
  /\ cursor = [c \in Consumers |-> 0]
  /\ received = [c \in Consumers |-> << >>]

Passes(c, e) == filter[c] \in {NoActor, e.actor}

\* One event of any publisher is added at the end.
Publish ==
  /\ Len(log') = Len(log) + 1
  /\ log' = Append(log, log'[Len(log) + 1])
  /\ log'[Len(log) + 1] \in Event
  /\ UNCHANGED <<status, cancelled, filter, cursor, received>>

\* A watcher starts at most Capacity - Gap events back.
Open(c, start, a) ==
  /\ status[c] = "new"
  /\ start >= Len(log) - (Capacity - Gap)
  /\ status' = [status EXCEPT ![c] = "open"]
  /\ cursor' = [cursor EXCEPT ![c] = start]
  /\ filter' = [filter EXCEPT ![c] = a]
  /\ UNCHANGED <<log, cancelled, received>>

\* The next log entry goes to the WatchFunc, with a backlog that was exact
\* at some moment since the entry was published.
Deliver(c, backlog) ==
  /\ status[c] = "open" /\ ~cancelled[c]
  /\ cursor[c] < Len(log)
  /\ Passes(c, log[cursor[c] + 1])
  /\ backlog < Len(log) - cursor[c]
  /\ cursor' = [cursor EXCEPT ![c] = @ + 1]
  /\ received' = [received EXCEPT ![c] =
       Append(@, [event |-> log[cursor[c] + 1], backlog |-> backlog])]
  /\ UNCHANGED <<log, status, cancelled, filter>>

Skip(c) ==
  /\ status[c] = "open"
  /\ cursor[c] < Len(log)
  /\ ~Passes(c, log[cursor[c] + 1])
  /\ cursor' = [cursor EXCEPT ![c] = @ + 1]
  /\ UNCHANGED <<log, status, cancelled, filter, received>>

Cancel(c) ==
  /\ status[c] /= "new"
  /\ cancelled' = [cancelled EXCEPT ![c] = TRUE]
  /\ UNCHANGED <<log, status, filter, cursor, received>>

\* Only a watcher that gave up, or that is a whole ring behind, is closed.
Close(c) ==
  /\ status[c] = "open"
  /\ cancelled[c] \/ Len(log) - cursor[c] >= Capacity
  /\ status' = [status EXCEPT ![c] = "closed"]
  /\ UNCHANGED <<log, cancelled, filter, cursor, received>>

Next ==
  \/ Publish
  \/ \E c \in Consumers :
       \/ \E start \in 0 .. Len(log), a \in Actors : Open(c, start, a)
       \/ \E backlog \in 0 .. Capacity - 1 : Deliver(c, backlog)
       \/ Skip(c) \/ Cancel(c) \/ Close(c)

Spec == Init /\ [][Next]_vars
=============================================================================
