------------------------------- MODULE Events -------------------------------
(***************************************************************************)
(* The runtime event stream of v1alpha1_events.go: a ring buffer of        *)
(* Capacity events, written by Publish, read by one goroutine per call of  *)
(* Watch.  A mutex protects stream and writePos, so a critical section is  *)
(* one action; sync.Cond.Wait leaves the critical section and sleeps.      *)
(*                                                                         *)
(* A consumer goroutine is                                                 *)
(*   "idle"     Watch has not been called                                  *)
(*   "loop"     about to lock at the head of its loop                      *)
(*   "asleep"   in Wait, not signalled yet                                 *)
(*   "woken"    in Wait, signalled, about to get the mutex back            *)
(*   "send"     offering item to its WatchFunc, the mutex released         *)
(*   "overrun"  returned because the publishers lapped it                  *)
(*   "closed"   returned because its WatchFunc did, nothing on offer       *)
(*   "aborted"  the same, while it was offering item                       *)
(*                                                                         *)
(* log, start, opened and received are history variables: they record      *)
(* what was published and delivered and no action's guard reads them.      *)
(***************************************************************************)
EXTENDS Integers, Sequences

CONSTANTS Consumers,   \* calls of Watch
          Publishers,  \* goroutines that call Publish
          Actors,      \* actor IDs, the empty one included
          NoActor,     \* the empty actor ID
          Capacity,    \* cap
          Gap,         \* gap
          TailCounts,  \* numbers passed to WithTailEvents
          MaxPublish   \* bound on the events created

\* NewEvents panics when gap >= capacity.
ASSUME EventsAssumption ==
  /\ Capacity \in Nat \ {0} /\ Gap \in 0 .. Capacity - 1
  /\ NoActor \in Actors
  /\ TailCounts \subseteq Int \ {0}
  /\ MaxPublish \in Nat

VARIABLES stream, writePos,
          nextId,     \* the next ID xid.New() returns
          pending,    \* per publisher: the event created and not yet written
          log,        \* all events in the order they were written
          pc, pos, item, filter,
          cancelled,  \* per consumer: its WatchFunc returned, ctx is done
          start,      \* per consumer: pos when Watch returned
          opened,     \* per consumer: writePos when Watch returned
          received    \* per consumer: the EventInfos its WatchFunc received

consumerVars == <<pc, pos, item, filter, cancelled, start, opened, received>>
vars == <<stream, writePos, nextId, pending, log, consumerVars>>

Event     == [id : Nat, actor : Actors]
EventInfo == [event : Event, backlog : Int]
NoEvent   == [id |-> 0, actor |-> NoActor]

TypeOK ==
  /\ stream \in [0 .. Capacity - 1 -> Event]
  /\ writePos \in Nat /\ nextId \in Nat
  /\ pending \in [Publishers -> Event]
  /\ log \in Seq(Event)
  /\ pc \in [Consumers ->
       {"idle", "loop", "asleep", "woken", "send", "overrun", "closed",
        "aborted"}]
  /\ pos \in [Consumers -> Nat]
  /\ item \in [Consumers -> EventInfo]
  /\ filter \in [Consumers -> Actors]
  /\ cancelled \in [Consumers -> BOOLEAN]
  /\ start \in [Consumers -> Nat] /\ opened \in [Consumers -> Nat]
  /\ received \in [Consumers -> Seq(EventInfo)]

Init ==
  /\ stream = [i \in 0 .. Capacity - 1 |-> NoEvent]
  /\ writePos = 0 /\ nextId = 1
  /\ pending = [p \in Publishers |-> NoEvent]
  /\ log = << >>
  /\ pc = [c \in Consumers |-> "idle"]
  /\ pos = [c \in Consumers |-> 0]
  /\ item = [c \in Consumers |-> [event |-> NoEvent, backlog |-> 0]]
  /\ filter = [c \in Consumers |-> NoActor]
  /\ cancelled = [c \in Consumers |-> FALSE]
  /\ start = [c \in Consumers |-> 0]
  /\ opened = [c \in Consumers |-> 0]
  /\ received = [c \in Consumers |-> << >>]

-----------------------------------------------------------------------------
(* Publishers.  The ID is drawn before the mutex is taken, so events may   *)
(* be written in an order other than that of their IDs.                    *)

NewEvent(p, a) ==
  /\ pending[p] = NoEvent
  /\ nextId <= MaxPublish
  /\ pending' = [pending EXCEPT ![p] = [id |-> nextId, actor |-> a]]
  /\ nextId' = nextId + 1
  /\ UNCHANGED <<stream, writePos, log, consumerVars>>

\* A write that wakes nobody.
NoBroadcast == pc

Broadcast ==
  [c \in Consumers |-> IF pc[c] = "asleep" THEN "woken" ELSE pc[c]]

Publish(p) ==
  /\ pending[p] /= NoEvent
  /\ stream' = [stream EXCEPT ![writePos % Capacity] = pending[p]]
  /\ log' = Append(log, pending[p])
  /\ writePos' = writePos + 1
  /\ pending' = [pending EXCEPT ![p] = NoEvent]
  /\ pc' = Broadcast
  /\ UNCHANGED <<nextId, pos, item, filter, cancelled, start, opened, received>>

-----------------------------------------------------------------------------
(* Watch: where a new consumer starts.                                     *)

\* Forgetting the gap offers events the publishers are about to overwrite.
MinPosWithoutGap ==
  IF writePos - Capacity > 0 THEN writePos - Capacity ELSE 0

MinPos ==
  IF writePos - (Capacity - Gap) > 0 THEN writePos - (Capacity - Gap) ELSE 0

Open(c, from, a) ==
  /\ pc[c] = "idle"
  /\ pc' = [pc EXCEPT ![c] = "loop"]
  /\ pos' = [pos EXCEPT ![c] = from]
  /\ filter' = [filter EXCEPT ![c] = a]
  /\ start' = [start EXCEPT ![c] = from]
  /\ opened' = [opened EXCEPT ![c] = writePos]
  /\ UNCHANGED <<stream, writePos, nextId, pending, log,
                 item, cancelled, received>>

WatchNew(c, a) == Open(c, writePos, a)

\* Without the clamp a short history yields a position before the first.
TailStartUnclamped(n) == IF n < 0 THEN MinPos ELSE writePos - n

TailStart(n) == IF n < 0 \/ writePos - n < MinPos THEN MinPos ELSE writePos - n

WatchTailEvents(c, n, a) == Open(c, TailStart(n), a)

\* The indices a binary search of i .. j-1 probes when it ends at r
\* (sort.Search of the Go library: h is the middle, a probe that is true
\* moves j to h, one that is false moves i to h+1).
Searches == Nat \X Nat \X Nat

Probes[q \in Searches] ==
  LET i == q[1]  j == q[2]  r == q[3]
      h == (i + j) \div 2
  IN  IF i >= j THEN {}
      ELSE {h} \cup (IF r <= h THEN Probes[<<i, h, r>>]
                               ELSE Probes[<<h + 1, j, r>>])

\* Comparing with >= delivers the event named by the caller once more.
SearchEndsAtInclusive(r, k) ==
  \A h \in Probes[<<0, writePos - MinPos, r>>] :
    (stream[(MinPos + h) % Capacity].id >= k) <=> (h >= r)

\* The search over the available history ends r events after MinPos: every
\* probe answered "ID > k" on the right of r and not on its left.
SearchEndsAt(r, k) ==
  \A h \in Probes[<<0, writePos - MinPos, r>>] :
    (stream[(MinPos + h) % Capacity].id > k) <=> (h >= r)

\* WithTailID, and WithTailDuration: IDs hold their creation time, so
\* "created after the timestamp" is "ID greater than some k".
WatchTailAfter(c, k, a) ==
  \E r \in 0 .. writePos - MinPos :
    SearchEndsAt(r, k) /\ Open(c, MinPos + r, a)

Watch(c, a) ==
  \/ WatchNew(c, a)
  \/ \E n \in TailCounts : WatchTailEvents(c, n, a)
  \/ \E k \in 0 .. MaxPublish : WatchTailAfter(c, k, a)

-----------------------------------------------------------------------------
(* The consumer goroutine.                                                 *)

Passes(c, e) == filter[c] \in {NoActor, e.actor}

\* Holding the mutex inside the loop: ctx is only looked at after a Wait.
Locked(c) == pc[c] = "loop" \/ (pc[c] = "woken" /\ ~cancelled[c])

Sleep(c) ==
  /\ Locked(c) /\ pos[c] = writePos
  /\ pc' = [pc EXCEPT ![c] = "asleep"]
  /\ UNCHANGED <<stream, writePos, nextId, pending, log,
                 pos, item, filter, cancelled, start, opened, received>>

\* Without the test a lapped consumer reads a newer event in its slot.
NeverLapped(c) == FALSE

Lapped(c) == writePos - pos[c] >= Capacity

Overrun(c) ==
  /\ Locked(c) /\ Lapped(c)
  /\ pc' = [pc EXCEPT ![c] = "overrun"]
  /\ UNCHANGED <<stream, writePos, nextId, pending, log,
                 pos, item, filter, cancelled, start, opened, received>>

Take(c) ==
  LET event == stream[pos[c] % Capacity]
  IN  /\ Locked(c) /\ pos[c] /= writePos /\ ~Lapped(c)
      /\ pos' = [pos EXCEPT ![c] = @ + 1]
      /\ IF Passes(c, event)
           THEN /\ pc' = [pc EXCEPT ![c] = "send"]
                /\ item' = [item EXCEPT ![c] =
                     [event |-> event, backlog |-> writePos - (pos[c] + 1)]]
           ELSE /\ pc' = [pc EXCEPT ![c] = "loop"]
                /\ UNCHANGED item
      /\ UNCHANGED <<stream, writePos, nextId, pending, log,
                     filter, cancelled, start, opened, received>>

\* The unbuffered send completes when the WatchFunc receives.
Receive(c) ==
  /\ pc[c] = "send" /\ ~cancelled[c]
  /\ received' = [received EXCEPT ![c] = Append(@, item[c])]
  /\ pc' = [pc EXCEPT ![c] = "loop"]
  /\ UNCHANGED <<stream, writePos, nextId, pending, log,
                 pos, item, filter, cancelled, start, opened>>

\* ctx is done: noticed in the select of the send, or after a Wait.
Abort(c) ==
  /\ pc[c] \in {"send", "woken"} /\ cancelled[c]
  /\ pc' = [pc EXCEPT ![c] = IF @ = "send" THEN "aborted" ELSE "closed"]
  /\ UNCHANGED <<stream, writePos, nextId, pending, log,
                 pos, item, filter, cancelled, start, opened, received>>

\* The WatchFunc may return at any time; its goroutine then cancels ctx.
WatchFuncReturns(c) ==
  /\ pc[c] /= "idle" /\ ~cancelled[c]
  /\ cancelled' = [cancelled EXCEPT ![c] = TRUE]
  /\ UNCHANGED <<stream, writePos, nextId, pending, log,
                 pc, pos, item, filter, start, opened, received>>

Goroutine(c) == Sleep(c) \/ Overrun(c) \/ Take(c) \/ Receive(c) \/ Abort(c)

Next ==
  \/ \E p \in Publishers : Publish(p) \/ \E a \in Actors : NewEvent(p, a)
  \/ \E c \in Consumers :
       \/ \E a \in Actors : Watch(c, a)
       \/ Goroutine(c)
       \/ WatchFuncReturns(c)

Spec == Init /\ [][Next]_vars

\* Goroutines that can run do run; nobody is obliged to publish, to watch
\* or to stop watching.  A WatchFunc that has not returned keeps receiving.
FairSpec ==
  /\ Spec
  /\ \A c \in Consumers : WF_vars(Goroutine(c))
  /\ \A p \in Publishers : WF_vars(Publish(p))

-----------------------------------------------------------------------------
(* Properties.                                                             *)

Finished == {"overrun", "closed", "aborted"}

\* Log entries the consumer has dealt with: one less than pos while it still
\* offers the last one, or when that offer was aborted.
Cursor(c) == IF pc[c] \in {"send", "aborted"} THEN pos[c] - 1 ELSE pos[c]

\* The entries of the log a consumer should have been sent by now.
Due(c) == {k \in start[c] + 1 .. Cursor(c) : Passes(c, log[k])}

\* The i-th event received is entry at[i] of the log: in order, and all due.
Delivered(c, at) ==
  /\ \A i \in DOMAIN received[c] : received[c][i].event = log[at[i]]
  /\ \A i, j \in DOMAIN received[c] : i < j => at[i] < at[j]
  /\ \A k \in Due(c) : \E i \in DOMAIN received[c] : at[i] = k

\* What a consumer was sent is exactly the part of the log from its start to
\* its cursor that passes its filter: nothing lost, repeated, reordered or
\* read from a slot that was overwritten (Watch's read of e.stream).
DeliveredIsLogSegment ==
  \A c \in Consumers :
    pc[c] /= "idle" => \E at \in [DOMAIN received[c] -> Due(c)] : Delivered(c, at)

\* The gap is what a new consumer has to spare: it is only ever overrun after
\* at least Gap events were published since Watch returned, however much
\* history it asked for (minPos in Watch).
OverrunNeedsGap ==
  \A c \in Consumers : pc[c] = "overrun" => writePos - opened[c] >= Gap

\* What every critical section preserves, and the three parts it needs:
\* the ring holds the last Capacity log entries, each in its slot; the item
\* on offer is the log entry before pos; and a consumer stands where its
\* start, and the writes since it was opened, allow.
RingHoldsLogTail ==
  /\ Len(log) = writePos
  /\ \A i \in 0 .. writePos - 1 :
       i >= writePos - Capacity => stream[i % Capacity] = log[i + 1]

ItemIsLogEntry ==
  \A c \in Consumers : pc[c] \in {"send", "aborted"} =>
    /\ pos[c] > 0
    /\ item[c].event = log[pos[c]]
    /\ Passes(c, log[pos[c]])
    /\ item[c].backlog \in 0 .. Capacity - 1
    /\ item[c].backlog <= writePos - pos[c]

ConsumersPlaced ==
  \A c \in Consumers :
    /\ pos[c] <= writePos
    /\ start[c] <= pos[c]
    /\ opened[c] <= writePos
    /\ start[c] >= opened[c] - (Capacity - Gap)
    /\ pc[c] = "overrun" => Lapped(c)
    /\ cancelled[c] => pc[c] /= "idle"

RingInvariant == RingHoldsLogTail /\ ItemIsLogEntry /\ ConsumersPlaced

\* The detailed stream implements the abstract log.
Status(c) == CASE pc[c] = "idle" -> "new"
               [] pc[c] \in Finished -> "closed"
               [] OTHER -> "open"

Abstract == INSTANCE EventLog
  WITH status <- [c \in Consumers |-> Status(c)],
       cursor <- [c \in Consumers |-> Cursor(c)]

\* Every behaviour of the ring buffer is one of the append-only log with
\* cursors: reads of Watch are log entries in order, history is at most
\* Capacity - Gap events, only a lapped or abandoned consumer is closed.
ImplementsLog == Abstract!Spec

\* A published event reaches every open consumer, unless the consumer is
\* lapped or gives up: no wakeup is lost between the test pos == writePos
\* and the Wait, whatever the order of Publish and the loop.
EveryEventConsumed ==
  \A c \in Consumers, i \in 0 .. MaxPublish - 1 :
    (pc[c] /= "idle" /\ pos[c] <= i /\ i < writePos)
      ~> (Cursor(c) > i \/ pc[c] \in Finished \/ cancelled[c])

\* ctx aborts the loop when the WatchFunc exits, not at once: nothing wakes
\* a consumer that sleeps, and events its filter drops do not make it look at
\* ctx.  The next event that wakes it or that it wants ends its goroutine.
AbandonedConsumerEnds ==
  \A c \in Consumers :
    /\ cancelled[c]
    /\ \/ pc[c] = "woken"
       \/ \E i \in pos[c] .. writePos - 1 : Passes(c, log[i + 1])
    ~> pc[c] \in Finished

\* The IDs of the available history were written in order.
InOrder ==
  \A i, j \in MinPos .. writePos - 1 : i < j => log[i + 1].id < log[j + 1].id

\* While IDs are written in order, the binary search of WithTailID is exact:
\* the start is the first event of the available history with an ID greater
\* than k.
TailIDExactWhenOrdered ==
  [][\A c \in Consumers, k \in 0 .. MaxPublish, a \in Actors :
       WatchTailAfter(c, k, a) /\ InOrder =>
         \A i \in MinPos .. writePos - 1 :
           (i >= pos'[c]) <=> (log[i + 1].id > k)]_vars
=============================================================================
