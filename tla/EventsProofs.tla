---------------------------- MODULE EventsProofs ----------------------------
(***************************************************************************)
(* The event stream is right for every capacity, gap, number of publishers *)
(* and watchers: its invariants hold, its binary search is exact and it    *)
(* implements EventLog.  The other ring of recent events, the history of a *)
(* service, returns its tail for every size and number of events.          *)
(***************************************************************************)
EXTENDS Events, History, WellFoundedInduction, TLAPS

-----------------------------------------------------------------------------
(* Arithmetic of ring slots.                                               *)

\* A product with a positive factor moves away from zero.
LEMMA Products ==
  \A c, d \in Int : c > 0 => (d >= 1 => c * d >= c) /\ (d <= 0 => c * d <= 0)
  OBVIOUS

\* Division with remainder.
LEMMA DivMod ==
  ASSUME NEW n \in Nat, NEW c \in Nat \ {0}
  PROVE  /\ n \div c \in Nat
         /\ n % c \in 0 .. c - 1
         /\ n = c * (n \div c) + (n % c)
  OBVIOUS

\* Positions less than one ring apart are in different slots.
LEMMA SlotsDiffer ==
  ASSUME NEW c \in Nat \ {0}, NEW i \in Nat, NEW w \in Nat, i < w, w - i < c
  PROVE  i % c /= w % c
<1> DEFINE d == (w \div c) - (i \div c)
<1>1. SUFFICES ASSUME i % c = w % c PROVE FALSE
  OBVIOUS
<1>2. w - i = c * (w \div c) - c * (i \div c) /\ d \in Int
  BY <1>1, DivMod
<1>3. c * (w \div c) - c * (i \div c) = c * d
  BY DivMod
<1>4. CASE d >= 1
  BY <1>2, <1>3, <1>4, Products
<1>5. CASE d <= 0
  BY <1>2, <1>3, <1>5, Products
<1> QED
  BY <1>2, <1>4, <1>5

-----------------------------------------------------------------------------
(* Type correctness.                                                       *)

\* The oldest position offered to a new consumer exists, and keeps the gap.
LEMMA MinPosBounds ==
  ASSUME TypeOK
  PROVE  /\ MinPos \in 0 .. writePos
         /\ MinPos >= writePos - (Capacity - Gap)
  BY EventsAssumption DEF TypeOK, MinPos

\* Whatever the options, Watch is an Open at a position of the available
\* history.
LEMMA WatchOpens ==
  ASSUME TypeOK, NEW c \in Consumers, NEW a \in Actors, Watch(c, a)
  PROVE  \E from \in MinPos .. writePos : Open(c, from, a)
<1>1. CASE WatchNew(c, a)
  <2>1. writePos \in MinPos .. writePos
    BY MinPosBounds DEF TypeOK
  <2> QED
    BY <1>1, <2>1 DEF WatchNew
<1>2. CASE \E n \in TailCounts : WatchTailEvents(c, n, a)
  <2>1. PICK n \in TailCounts : WatchTailEvents(c, n, a)
    BY <1>2
  <2>2. /\ n \in Int /\ writePos \in Nat /\ MinPos \in Int
        /\ MinPos <= writePos /\ MinPos >= 0
    BY EventsAssumption, MinPosBounds DEF TypeOK
  <2>3. TailStart(n) \in MinPos .. writePos
    <3> HIDE DEF MinPos
    <3> QED BY <2>2 DEF TailStart
  <2> QED
    BY <2>1, <2>3 DEF WatchTailEvents
<1>3. CASE \E k \in 0 .. MaxPublish : WatchTailAfter(c, k, a)
  <2>1. PICK r \in 0 .. writePos - MinPos : Open(c, MinPos + r, a)
    BY <1>3 DEF WatchTailAfter
  <2>2. writePos \in Nat /\ MinPos \in Int /\ MinPos <= writePos
    BY MinPosBounds DEF TypeOK
  <2>3. MinPos + r \in MinPos .. writePos
    <3> HIDE DEF MinPos
    <3> QED BY <2>2
  <2> QED
    BY <2>1, <2>3
<1> QED
  BY <1>1, <1>2, <1>3 DEF Watch

\* The stream, the cursors and the channels keep their types.
THEOREM TypeCorrect == Spec => []TypeOK
<1>1. Init => TypeOK
  BY EventsAssumption DEF Init, TypeOK, NoEvent, Event, EventInfo
<1>2. TypeOK /\ [Next]_vars => TypeOK'
  <2> SUFFICES ASSUME TypeOK, [Next]_vars PROVE TypeOK'
    OBVIOUS
  <2> USE EventsAssumption
  <2>1. ASSUME NEW p \in Publishers, NEW a \in Actors, NewEvent(p, a)
        PROVE  TypeOK'
    BY <2>1 DEF NewEvent, TypeOK, Event, consumerVars
  <2>2. ASSUME NEW p \in Publishers, Publish(p)
        PROVE  TypeOK'
    <3>1. writePos % Capacity \in 0 .. Capacity - 1
      BY DivMod DEF TypeOK
    <3>2. /\ stream' \in [0 .. Capacity - 1 -> Event]
          /\ log' \in Seq(Event)
          /\ pending' \in [Publishers -> Event]
      BY <2>2, <3>1 DEF Publish, TypeOK, Event, NoEvent
    <3> QED
      BY <2>2, <3>2 DEF Publish, Broadcast, TypeOK
  <2>3. ASSUME NEW c \in Consumers, NEW a \in Actors, Watch(c, a)
        PROVE  TypeOK'
    <3>1. PICK from \in MinPos .. writePos : Open(c, from, a)
      BY <2>3, WatchOpens
    <3>2. from \in Nat
      BY MinPosBounds DEF TypeOK
    <3> QED
      BY <3>1, <3>2 DEF Open, TypeOK
  <2>4. ASSUME NEW c \in Consumers, Sleep(c) PROVE TypeOK'
    BY <2>4 DEF Sleep, TypeOK
  <2>5. ASSUME NEW c \in Consumers, Overrun(c) PROVE TypeOK'
    BY <2>5 DEF Overrun, TypeOK
  <2>6. ASSUME NEW c \in Consumers, Take(c) PROVE TypeOK'
    <3>1. pos[c] \in Nat /\ pos[c] % Capacity \in 0 .. Capacity - 1
      BY DivMod DEF TypeOK
    <3>2. stream[pos[c] % Capacity] \in Event
      BY <3>1 DEF TypeOK
    <3>3. pos' \in [Consumers -> Nat]
      BY <2>6 DEF Take, TypeOK
    <3>4. CASE Passes(c, stream[pos[c] % Capacity])
      <4>1. writePos - (pos[c] + 1) \in Int
        BY <2>6 DEF Take, TypeOK
      <4> DEFINE info == [event   |-> stream[pos[c] % Capacity],
                          backlog |-> writePos - (pos[c] + 1)]
      <4>2. info \in EventInfo
        BY <3>2, <4>1 DEF EventInfo
      <4>3. /\ item' = [item EXCEPT ![c] = info]
            /\ pc' = [pc EXCEPT ![c] = "send"]
        BY <2>6, <3>4 DEF Take
      <4>4. item' \in [Consumers -> EventInfo]
        BY <4>2, <4>3 DEF TypeOK
      <4> QED
        BY <2>6, <3>3, <4>3, <4>4 DEF Take, TypeOK
    <3>5. CASE ~Passes(c, stream[pos[c] % Capacity])
      BY <2>6, <3>3, <3>5 DEF Take, TypeOK
    <3> QED
      BY <3>4, <3>5
  <2>7. ASSUME NEW c \in Consumers, Receive(c) PROVE TypeOK'
    BY <2>7 DEF Receive, TypeOK
  <2>8. ASSUME NEW c \in Consumers, Abort(c) PROVE TypeOK'
    BY <2>8 DEF Abort, TypeOK
  <2>9. ASSUME NEW c \in Consumers, WatchFuncReturns(c) PROVE TypeOK'
    BY <2>9 DEF WatchFuncReturns, TypeOK
  <2>10. CASE UNCHANGED vars
    BY <2>10 DEF vars, consumerVars, TypeOK
  <2> QED
    BY <2>1, <2>2, <2>3, <2>4, <2>5, <2>6, <2>7, <2>8, <2>9, <2>10
       DEF Next, Goroutine
<1> QED
  BY <1>1, <1>2, PTL DEF Spec

-----------------------------------------------------------------------------
(* The inductive invariant.                                                *)

\* A write keeps the ring equal to the tail of the log: it only replaces the
\* entry that is one ring old.
LEMMA PublishKeepsRing ==
  ASSUME TypeOK, RingHoldsLogTail, NEW p \in Publishers, Publish(p)
  PROVE  RingHoldsLogTail'
<1>1. /\ writePos' = writePos + 1
      /\ log' = Append(log, pending[p])
      /\ stream' = [stream EXCEPT ![writePos % Capacity] = pending[p]]
      /\ pending[p] \in Event
  BY DEF Publish, TypeOK
<1>2. /\ writePos \in Nat /\ Capacity \in Nat \ {0}
      /\ log \in Seq(Event) /\ Len(log) = writePos
      /\ stream \in [0 .. Capacity - 1 -> Event]
  BY EventsAssumption DEF TypeOK, RingHoldsLogTail
<1>3. Len(log') = writePos' /\ log'[writePos + 1] = pending[p]
  BY <1>1, <1>2
<1>4. ASSUME NEW i \in 0 .. writePos' - 1, i >= writePos' - Capacity
      PROVE  stream'[i % Capacity] = log'[i + 1]
  <2>1. i \in Nat /\ i <= writePos /\ writePos - i < Capacity
    BY <1>1, <1>2, <1>4
  <2>2. i % Capacity \in 0 .. Capacity - 1
    BY <1>2, <2>1, DivMod
  <2>3. CASE i = writePos
    BY <1>1, <1>2, <1>3, <2>2, <2>3
  <2>4. CASE i < writePos
    <3>1. i % Capacity /= writePos % Capacity
      BY <1>2, <2>1, <2>4, SlotsDiffer
    <3>2. stream'[i % Capacity] = stream[i % Capacity]
      BY <1>1, <1>2, <2>2, <3>1
    <3>3. log'[i + 1] = log[i + 1]
      BY <1>1, <1>2, <2>1, <2>4
    <3>4. i \in 0 .. writePos - 1 /\ i >= writePos - Capacity
      BY <1>2, <2>1, <2>4
    <3>5. stream[i % Capacity] = log[i + 1]
      BY <3>4 DEF RingHoldsLogTail
    <3> QED
      BY <3>2, <3>3, <3>5
  <2> QED
    BY <1>2, <2>1, <2>3, <2>4
<1> QED
  BY <1>3, <1>4 DEF RingHoldsLogTail

\* A consumer that is neither caught up nor lapped finds, in its slot, the
\* log entry of its position.
LEMMA TakeReadsLog ==
  ASSUME TypeOK, RingInvariant, NEW c \in Consumers, Take(c)
  PROVE  /\ pos[c] \in 0 .. writePos - 1
         /\ writePos - (pos[c] + 1) \in 0 .. Capacity - 1
         /\ stream[pos[c] % Capacity] = log[pos[c] + 1]
<1> USE EventsAssumption
<1>1. pos[c] \in 0 .. writePos - 1
  BY DEF Take, TypeOK, RingInvariant, ConsumersPlaced
<1>2. writePos - pos[c] < Capacity /\ writePos \in Nat /\ pos[c] \in Nat
  BY DEF Take, Lapped, TypeOK
<1>3. /\ writePos - (pos[c] + 1) \in 0 .. Capacity - 1
      /\ pos[c] >= writePos - Capacity
  BY <1>1, <1>2
<1>4. stream[pos[c] % Capacity] = log[pos[c] + 1]
  BY <1>1, <1>3 DEF RingInvariant, RingHoldsLogTail
<1> QED
  BY <1>1, <1>3, <1>4

\* The ring holds the tail of the log, an item on offer is the log entry of
\* its position and consumers stay where Watch and the writes put them.
THEOREM RingCorrect == Spec => []RingInvariant
<1> USE EventsAssumption
<1>1. Init => RingInvariant
  BY DEF Init, RingInvariant, RingHoldsLogTail, ItemIsLogEntry, ConsumersPlaced
<1>2. TypeOK /\ TypeOK' /\ RingInvariant /\ [Next]_vars => RingInvariant'
  <2> SUFFICES ASSUME TypeOK, TypeOK', RingInvariant, [Next]_vars
               PROVE  RingInvariant'
    OBVIOUS
  <2>1. ASSUME NEW p \in Publishers, NEW a \in Actors, NewEvent(p, a)
        PROVE  RingInvariant'
    BY <2>1 DEF NewEvent, consumerVars, RingInvariant, RingHoldsLogTail,
                ItemIsLogEntry, ConsumersPlaced, Passes, Lapped
  <2>2. ASSUME NEW p \in Publishers, Publish(p)
        PROVE  RingInvariant'
    <3>1. RingHoldsLogTail'
      BY <2>2, PublishKeepsRing DEF RingInvariant
    <3>2. /\ writePos' = writePos + 1
          /\ \A c \in Consumers :
               /\ pc'[c] \in {"send", "aborted"} => pc'[c] = pc[c]
               /\ pc'[c] \in {"idle", "overrun"} <=> pc[c] \in {"idle", "overrun"}
               /\ pc[c] \in {"idle", "overrun"} => pc'[c] = pc[c]
          /\ UNCHANGED <<pos, item, filter, cancelled, start, opened>>
      BY <2>2 DEF Publish, Broadcast, TypeOK
    <3>3. \A i \in 1 .. writePos : log'[i] = log[i]
      BY <2>2 DEF Publish, TypeOK, RingInvariant, RingHoldsLogTail
    <3>4. ItemIsLogEntry'
      <4> SUFFICES ASSUME NEW d \in Consumers, pc'[d] \in {"send", "aborted"}
                   PROVE  /\ pos'[d] > 0
                          /\ item'[d].event = log'[pos'[d]]
                          /\ filter'[d] \in {NoActor, log'[pos'[d]].actor}
                          /\ item'[d].backlog \in 0 .. Capacity - 1
                          /\ item'[d].backlog <= writePos' - pos'[d]
        BY DEF ItemIsLogEntry, Passes
      <4>1. /\ pos[d] > 0 /\ pos[d] <= writePos
            /\ item[d].event = log[pos[d]]
            /\ filter[d] \in {NoActor, log[pos[d]].actor}
            /\ item[d].backlog \in 0 .. Capacity - 1
            /\ item[d].backlog <= writePos - pos[d]
        BY <3>2 DEF RingInvariant, ItemIsLogEntry, ConsumersPlaced, Passes
      <4>2. pos[d] \in 1 .. writePos /\ writePos \in Nat
        BY <4>1 DEF TypeOK
      <4> QED
        BY <3>2, <3>3, <4>1, <4>2
    <3>5. ConsumersPlaced'
      BY <3>2 DEF TypeOK, RingInvariant, ConsumersPlaced, Lapped
    <3> QED
      BY <3>1, <3>4, <3>5 DEF RingInvariant
  <2>3. ASSUME NEW c \in Consumers, NEW a \in Actors, Watch(c, a)
        PROVE  RingInvariant'
    <3>1. PICK from \in MinPos .. writePos : Open(c, from, a)
      BY <2>3, WatchOpens
    <3>2. from \in 0 .. writePos /\ from >= writePos - (Capacity - Gap)
      <4>1. /\ MinPos \in 0 .. writePos
            /\ MinPos >= writePos - (Capacity - Gap)
        BY MinPosBounds
      <4>2. writePos \in Nat
        BY DEF TypeOK
      <4> QED
        BY <4>1, <4>2
    <3>3. RingHoldsLogTail'
      BY <3>1 DEF Open, RingInvariant, RingHoldsLogTail
    <3>4. ItemIsLogEntry'
      BY <3>1 DEF Open, TypeOK, RingInvariant, ItemIsLogEntry, Passes
    <3>5. ConsumersPlaced'
      <4>1. /\ pc' = [pc EXCEPT ![c] = "loop"]
            /\ pos' = [pos EXCEPT ![c] = from]
            /\ start' = [start EXCEPT ![c] = from]
            /\ opened' = [opened EXCEPT ![c] = writePos]
            /\ UNCHANGED <<writePos, cancelled>>
        BY <3>1 DEF Open
      <4> SUFFICES ASSUME NEW d \in Consumers
                   PROVE  /\ pos'[d] <= writePos
                          /\ start'[d] <= pos'[d]
                          /\ opened'[d] <= writePos
                          /\ start'[d] >= opened'[d] - (Capacity - Gap)
                          /\ pc'[d] = "overrun" => writePos - pos'[d] >= Capacity
                          /\ cancelled[d] => pc'[d] /= "idle"
        BY <4>1 DEF ConsumersPlaced, Lapped
      <4>2. CASE d = c
        <5>1. /\ pos'[d] = from /\ start'[d] = from
              /\ opened'[d] = writePos /\ pc'[d] = "loop"
          BY <4>1, <4>2 DEF TypeOK
        <5>2. writePos \in Nat
          BY DEF TypeOK
        <5> QED
          BY <3>2, <5>1, <5>2
      <4>3. CASE d /= c
        <5>1. /\ pos'[d] = pos[d] /\ start'[d] = start[d]
              /\ opened'[d] = opened[d] /\ pc'[d] = pc[d]
          BY <4>1, <4>3 DEF TypeOK
        <5> QED
          BY <5>1 DEF RingInvariant, ConsumersPlaced, Lapped
      <4> QED
        BY <4>2, <4>3
    <3> QED
      BY <3>3, <3>4, <3>5 DEF RingInvariant
  <2>4. ASSUME NEW c \in Consumers, Sleep(c) PROVE RingInvariant'
    BY <2>4 DEF Sleep, Locked, TypeOK, RingInvariant, RingHoldsLogTail,
                ItemIsLogEntry, ConsumersPlaced, Passes, Lapped
  <2>5. ASSUME NEW c \in Consumers, Overrun(c) PROVE RingInvariant'
    BY <2>5 DEF Overrun, Locked, TypeOK, RingInvariant, RingHoldsLogTail,
                ItemIsLogEntry, ConsumersPlaced, Passes, Lapped
  <2>6. ASSUME NEW c \in Consumers, Take(c) PROVE RingInvariant'
    <3>1. /\ pos[c] \in 0 .. writePos - 1
          /\ writePos - (pos[c] + 1) \in 0 .. Capacity - 1
          /\ stream[pos[c] % Capacity] = log[pos[c] + 1]
      BY <2>6, TakeReadsLog
    <3>2. /\ pos' = [pos EXCEPT ![c] = @ + 1]
          /\ UNCHANGED <<stream, writePos, log, filter, cancelled, start, opened>>
          /\ pc[c] \in {"loop", "woken"}
      BY <2>6 DEF Take, Locked
    <3>3. RingHoldsLogTail'
      BY <3>2 DEF RingInvariant, RingHoldsLogTail
    <3>4. CASE Passes(c, log[pos[c] + 1])
      <4>1. /\ pc' = [pc EXCEPT ![c] = "send"]
            /\ item' = [item EXCEPT ![c] =
                 [event   |-> log[pos[c] + 1],
                  backlog |-> writePos - (pos[c] + 1)]]
        BY <2>6, <3>1, <3>4 DEF Take
      <4>2. ItemIsLogEntry'
        <5> SUFFICES ASSUME NEW d \in Consumers, pc'[d] \in {"send", "aborted"}
                     PROVE  /\ pos'[d] > 0
                            /\ item'[d].event = log[pos'[d]]
                            /\ filter[d] \in {NoActor, log[pos'[d]].actor}
                            /\ item'[d].backlog \in 0 .. Capacity - 1
                            /\ item'[d].backlog <= writePos - pos'[d]
          BY <3>2 DEF ItemIsLogEntry, Passes
        <5>1. CASE d = c
          <6>1. /\ pos'[c] = pos[c] + 1
                /\ item'[c] = [event   |-> log[pos[c] + 1],
                               backlog |-> writePos - (pos[c] + 1)]
            BY <3>2, <4>1 DEF TypeOK
          <6>2. writePos \in Nat /\ pos[c] \in Nat /\ Capacity \in Nat
            BY DEF TypeOK
          <6> QED
            BY <3>1, <3>4, <5>1, <6>1, <6>2 DEF Passes
        <5>2. CASE d /= c
          <6>1. pos'[d] = pos[d] /\ item'[d] = item[d] /\ pc'[d] = pc[d]
            BY <3>2, <4>1, <5>2 DEF TypeOK
          <6> QED
            BY <6>1 DEF RingInvariant, ItemIsLogEntry, Passes
        <5> QED
          BY <5>1, <5>2
      <4>3. ConsumersPlaced'
        <5> SUFFICES ASSUME NEW d \in Consumers
                     PROVE  /\ pos'[d] <= writePos
                            /\ start[d] <= pos'[d]
                            /\ opened[d] <= writePos
                            /\ start[d] >= opened[d] - (Capacity - Gap)
                            /\ pc'[d] = "overrun" => writePos - pos'[d] >= Capacity
                            /\ cancelled[d] => pc'[d] /= "idle"
          BY <3>2 DEF ConsumersPlaced, Lapped
        <5>1. CASE d = c
          <6>1. pos'[c] = pos[c] + 1 /\ pc'[c] = "send"
            BY <3>2, <4>1 DEF TypeOK
          <6>2. /\ writePos \in Nat /\ pos[c] \in Nat
                /\ start[c] \in Nat /\ opened[c] \in Nat
            BY DEF TypeOK
          <6> QED
            BY <3>1, <5>1, <6>1, <6>2 DEF RingInvariant, ConsumersPlaced
        <5>2. CASE d /= c
          <6>1. pos'[d] = pos[d] /\ pc'[d] = pc[d]
            BY <3>2, <4>1, <5>2 DEF TypeOK
          <6> QED
            BY <6>1 DEF RingInvariant, ConsumersPlaced, Lapped
        <5> QED
          BY <5>1, <5>2
      <4> QED
        BY <3>3, <4>2, <4>3 DEF RingInvariant
    <3>5. CASE ~Passes(c, log[pos[c] + 1])
      <4>1. pc' = [pc EXCEPT ![c] = "loop"] /\ UNCHANGED item
        BY <2>6, <3>1, <3>5 DEF Take
      <4>2. ItemIsLogEntry'
        BY <3>1, <3>2, <4>1 DEF TypeOK, RingInvariant, ItemIsLogEntry, Passes
      <4>3. ConsumersPlaced'
        <5> SUFFICES ASSUME NEW d \in Consumers
                     PROVE  /\ pos'[d] <= writePos
                            /\ start[d] <= pos'[d]
                            /\ opened[d] <= writePos
                            /\ start[d] >= opened[d] - (Capacity - Gap)
                            /\ pc'[d] = "overrun" => writePos - pos'[d] >= Capacity
                            /\ cancelled[d] => pc'[d] /= "idle"
          BY <3>2 DEF ConsumersPlaced, Lapped
        <5>1. CASE d = c
          <6>1. pos'[c] = pos[c] + 1 /\ pc'[c] = "loop"
            BY <3>2, <4>1 DEF TypeOK
          <6>2. /\ writePos \in Nat /\ pos[c] \in Nat
                /\ start[c] \in Nat /\ opened[c] \in Nat
            BY DEF TypeOK
          <6> QED
            BY <3>1, <5>1, <6>1, <6>2 DEF RingInvariant, ConsumersPlaced
        <5>2. CASE d /= c
          <6>1. pos'[d] = pos[d] /\ pc'[d] = pc[d]
            BY <3>2, <4>1, <5>2 DEF TypeOK
          <6> QED
            BY <6>1 DEF RingInvariant, ConsumersPlaced, Lapped
        <5> QED
          BY <5>1, <5>2
      <4> QED
        BY <3>3, <4>2, <4>3 DEF RingInvariant
    <3> QED
      BY <3>4, <3>5
  <2>7. ASSUME NEW c \in Consumers, Receive(c) PROVE RingInvariant'
    BY <2>7 DEF Receive, TypeOK, RingInvariant, RingHoldsLogTail,
                ItemIsLogEntry, ConsumersPlaced, Passes, Lapped
  <2>8. ASSUME NEW c \in Consumers, Abort(c) PROVE RingInvariant'
    BY <2>8 DEF Abort, TypeOK, RingInvariant, RingHoldsLogTail,
                ItemIsLogEntry, ConsumersPlaced, Passes, Lapped
  <2>9. ASSUME NEW c \in Consumers, WatchFuncReturns(c) PROVE RingInvariant'
    BY <2>9 DEF WatchFuncReturns, TypeOK, RingInvariant, RingHoldsLogTail,
                ItemIsLogEntry, ConsumersPlaced, Passes, Lapped
  <2>10. CASE UNCHANGED vars
    BY <2>10 DEF vars, consumerVars, RingInvariant, RingHoldsLogTail,
                 ItemIsLogEntry, ConsumersPlaced, Passes, Lapped
  <2> QED
    BY <2>1, <2>2, <2>3, <2>4, <2>5, <2>6, <2>7, <2>8, <2>9, <2>10
       DEF Next, Goroutine
<1> QED
  BY <1>1, <1>2, TypeCorrect, PTL DEF Spec

\* A watcher is only lapped after Gap further events, whatever it asked for.
THEOREM GapIsGuaranteed == Spec => []OverrunNeedsGap
<1>1. TypeOK /\ RingInvariant => OverrunNeedsGap
  BY EventsAssumption
     DEF TypeOK, RingInvariant, ConsumersPlaced, OverrunNeedsGap, Lapped
<1> QED
  BY <1>1, TypeCorrect, RingCorrect, PTL

-----------------------------------------------------------------------------
(* What consumers receive.                                                 *)

\* A consumer that was not opened has received nothing.
NothingEarly == \A c \in Consumers : pc[c] = "idle" => received[c] = << >>

\* What a consumer offers comes after its start.
OfferAhead ==
  \A c \in Consumers : pc[c] \in {"send", "aborted"} => start[c] < pos[c]

DeliveryInv == NothingEarly /\ OfferAhead /\ DeliveredIsLogSegment

\* A step that leaves a consumer's log entries, those due and those received
\* as they are keeps its part of the property.
LEMMA SameDelivery ==
  ASSUME NEW c \in Consumers, received'[c] = received[c], Due(c)' = Due(c),
         \A k \in Due(c) : log'[k] = log[k],
         \E at \in [DOMAIN received[c] -> Due(c)] : Delivered(c, at)
  PROVE  \E at \in [DOMAIN received'[c] -> Due(c)'] : Delivered(c, at)'
<1>1. PICK at \in [DOMAIN received[c] -> Due(c)] : Delivered(c, at)
  OBVIOUS
<1>2. Delivered(c, at)'
  BY <1>1 DEF Delivered
<1> QED BY <1>1, <1>2

\* The entries due are in the log.
LEMMA DueInLog ==
  ASSUME TypeOK, RingInvariant, NEW c \in Consumers
  PROVE  Due(c) \subseteq 1 .. writePos /\ Cursor(c) \in Nat /\ Cursor(c) <= writePos
BY DEF Due, Cursor, TypeOK, RingInvariant, ConsumersPlaced, ItemIsLogEntry

\* An event that is written changes none of them.
LEMMA PublishDelivers ==
  ASSUME TypeOK, RingInvariant, DeliveryInv, NEW p \in Publishers, Publish(p)
  PROVE  DeliveryInv'
<1>1. /\ log' = Append(log, pending[p]) /\ Len(log) = writePos /\ log \in Seq(Event)
      /\ pc' = Broadcast /\ UNCHANGED <<pos, filter, start, received>>
  BY DEF Publish, RingInvariant, RingHoldsLogTail, TypeOK
<1>2. \A k \in 1 .. writePos : log'[k] = log[k]
  BY <1>1 DEF TypeOK
<1>3. \A c \in Consumers : /\ (pc'[c] = "idle" <=> pc[c] = "idle")
                           /\ Cursor(c)' = Cursor(c)
  BY <1>1 DEF Broadcast, Cursor
<1>4. ASSUME NEW c \in Consumers, pc'[c] /= "idle"
      PROVE  \E at \in [DOMAIN received'[c] -> Due(c)'] : Delivered(c, at)'
  <2>1. Due(c) \subseteq 1 .. writePos /\ Cursor(c) \in Nat /\ Cursor(c) <= writePos
    BY DueInLog
  <2>2. \A k \in start[c] + 1 .. Cursor(c) : k \in 1 .. writePos
    BY <2>1 DEF TypeOK
  <2>3. Due(c)' = Due(c)
    BY <1>1, <1>2, <1>3, <2>2 DEF Due, Passes
  <2>4. \E at \in [DOMAIN received[c] -> Due(c)] : Delivered(c, at)
    BY <1>3, <1>4 DEF DeliveryInv, DeliveredIsLogSegment
  <2> QED BY <1>1, <1>2, <2>1, <2>3, <2>4, SameDelivery
<1>5. OfferAhead'
  BY <1>1 DEF DeliveryInv, OfferAhead, Broadcast
<1> QED BY <1>1, <1>3, <1>4, <1>5 DEF DeliveryInv, NothingEarly, DeliveredIsLogSegment

\* A consumer that is opened has nothing due, and nothing received.
LEMMA OpenDelivers ==
  ASSUME TypeOK, DeliveryInv, NEW c \in Consumers, NEW from \in Nat, NEW a, Open(c, from, a)
  PROVE  DeliveryInv'
<1>1. /\ pc[c] = "idle" /\ pc'[c] = "loop" /\ pos'[c] = from /\ start'[c] = from
      /\ received' = received /\ log' = log
      /\ \A d \in Consumers \ {c} : /\ pc'[d] = pc[d] /\ pos'[d] = pos[d]
                                   /\ start'[d] = start[d] /\ filter'[d] = filter[d]
  BY DEF Open, TypeOK
<1>2. received'[c] = << >> /\ Due(c)' = {}
  BY <1>1 DEF DeliveryInv, NothingEarly, Due, Cursor
<1>3. \E at \in [DOMAIN received'[c] -> Due(c)'] : Delivered(c, at)'
  <2>1. [i \in {} |-> 0] \in [DOMAIN received'[c] -> Due(c)']
    BY <1>2
  <2>2. Delivered(c, [i \in {} |-> 0])'
    BY <1>2 DEF Delivered
  <2> QED BY <2>1, <2>2
<1>4. ASSUME NEW d \in Consumers \ {c}, pc'[d] /= "idle"
      PROVE  \E at \in [DOMAIN received'[d] -> Due(d)'] : Delivered(d, at)'
  <2>1. Due(d)' = Due(d)
    BY <1>1 DEF Due, Cursor, Passes
  <2>2. \E at \in [DOMAIN received[d] -> Due(d)] : Delivered(d, at)
    BY <1>1, <1>4 DEF DeliveryInv, DeliveredIsLogSegment
  <2> QED BY <1>1, <2>1, <2>2, SameDelivery
<1>5. OfferAhead'
  BY <1>1 DEF DeliveryInv, OfferAhead
<1> QED BY <1>1, <1>3, <1>4, <1>5 DEF DeliveryInv, NothingEarly, DeliveredIsLogSegment

\* The receive of an item adds the entry at the cursor to both.
LEMMA ReceiveDelivers ==
  ASSUME TypeOK, RingInvariant, DeliveryInv, NEW c \in Consumers, Receive(c)
  PROVE  \E at \in [DOMAIN received'[c] -> Due(c)'] : Delivered(c, at)'
<1> DEFINE n == Len(received[c])
<1>1. /\ pc[c] = "send" /\ pc'[c] = "loop" /\ UNCHANGED <<pos, start, filter, log>>
      /\ received'[c] = Append(received[c], item[c])
      /\ received[c] \in Seq(EventInfo) /\ pos[c] \in Nat /\ start[c] \in Nat
      /\ item[c] \in EventInfo
  BY DEF Receive, TypeOK
<1>2. /\ pos[c] > 0 /\ item[c].event = log[pos[c]] /\ Passes(c, log[pos[c]])
      /\ start[c] <= pos[c]
  BY <1>1 DEF RingInvariant, ItemIsLogEntry, ConsumersPlaced
<1>3. PICK at \in [DOMAIN received[c] -> Due(c)] : Delivered(c, at)
  BY <1>1 DEF DeliveryInv, DeliveredIsLogSegment
<1>4. Cursor(c) = pos[c] - 1 /\ Cursor(c)' = pos[c]
  BY <1>1 DEF Cursor
<1>5. start[c] < pos[c]
  BY <1>1 DEF DeliveryInv, OfferAhead
<1>6. Due(c)' = Due(c) \cup {pos[c]} /\ \A k \in Due(c) : k \in Int /\ k < pos[c]
  BY <1>1, <1>2, <1>4, <1>5 DEF Due, Passes
<1>7. /\ DOMAIN received[c] = 1 .. n /\ DOMAIN received'[c] = 1 .. n + 1 /\ n \in Nat
      /\ \A i \in 1 .. n : received'[c][i] = received[c][i]
      /\ received'[c][n + 1] = item[c]
  BY <1>1
<1> DEFINE more == [i \in 1 .. n + 1 |-> IF i = n + 1 THEN pos[c] ELSE at[i]]
<1> HIDE DEF n
<1>8. /\ more \in [1 .. n + 1 -> Due(c)'] /\ more[n + 1] = pos[c]
      /\ \A i \in 1 .. n : more[i] = at[i] /\ at[i] \in Due(c)
  BY <1>6, <1>7
<1> HIDE DEF more
<1>9. /\ \A i \in 1 .. n + 1 : received'[c][i].event = log'[more[i]]
      /\ \A i, j \in 1 .. n + 1 : i < j => more[i] < more[j]
      /\ \A k \in Due(c)' : \E i \in 1 .. n + 1 : more[i] = k
  <2>1. \A i \in 1 .. n + 1 : received'[c][i].event = log'[more[i]]
    <3>1. \A i \in 1 .. n : received[c][i].event = log[at[i]]
      BY <1>3, <1>7 DEF Delivered
    <3> SUFFICES ASSUME NEW i \in 1 .. n + 1 PROVE received'[c][i].event = log'[more[i]]
      OBVIOUS
    <3>2. CASE i = n + 1
      BY <1>1, <1>2, <1>7, <1>8, <3>2
    <3>3. CASE i /= n + 1
      <4>1. i \in 1 .. n
        BY <1>7, <3>3
      <4> QED BY <1>1, <1>7, <1>8, <3>1, <4>1
    <3> QED BY <3>2, <3>3
  <2>2. \A i, j \in 1 .. n + 1 : i < j => more[i] < more[j]
    <3> SUFFICES ASSUME NEW i \in 1 .. n + 1, NEW j \in 1 .. n + 1, i < j
                 PROVE  more[i] < more[j]
      OBVIOUS
    <3>1. i \in 1 .. n
      BY <1>7
    <3>2. CASE j = n + 1
      BY <1>6, <1>8, <3>1, <3>2
    <3>3. CASE j /= n + 1
      <4>1. j \in 1 .. n
        BY <1>7, <3>3
      <4>2. at[i] < at[j]
        BY <1>3, <1>7, <3>1, <4>1 DEF Delivered
      <4> QED BY <1>8, <3>1, <4>1, <4>2
    <3> QED BY <3>2, <3>3
  <2>3. \A k \in Due(c)' : \E i \in 1 .. n + 1 : more[i] = k
    BY <1>3, <1>6, <1>7, <1>8 DEF Delivered
  <2> QED BY <2>1, <2>2, <2>3
<1>10. PICK m \in [DOMAIN received'[c] -> Due(c)'] : m = more
  BY <1>7, <1>8
<1>11. Delivered(c, m)'
  BY <1>7, <1>9, <1>10 DEF Delivered
<1> QED BY <1>10, <1>11

\* A step of a goroutine, or of its WatchFunc, concerns one consumer; all but
\* the receive leave what is due to it as it is.
LEMMA GoroutineDelivers ==
  ASSUME TypeOK, RingInvariant, DeliveryInv, NEW c \in Consumers,
         Goroutine(c) \/ WatchFuncReturns(c)
  PROVE  DeliveryInv'
<1> USE DEF TypeOK
<1>1. /\ UNCHANGED <<log, start, filter>>
      /\ \A d \in Consumers \ {c} : /\ pc'[d] = pc[d] /\ pos'[d] = pos[d]
                                   /\ received'[d] = received[d]
      /\ pc[c] /= "idle" /\ pc'[c] /= "idle"
  BY DEF Goroutine, Sleep, Overrun, Take, Receive, Abort, WatchFuncReturns, Locked
<1>2. NothingEarly'
  BY <1>1 DEF DeliveryInv, NothingEarly
<1>3. OfferAhead'
  <2>1. pc'[c] \in {"send", "aborted"} => start[c] < pos'[c]
    <3>1. CASE Take(c)
      BY <3>1 DEF Take, RingInvariant, ConsumersPlaced
    <3>2. CASE ~Take(c)
      BY <3>2 DEF Goroutine, Sleep, Overrun, Receive, Abort, WatchFuncReturns,
                  DeliveryInv, OfferAhead
    <3> QED BY <3>1, <3>2
  <2> QED BY <1>1, <2>1 DEF DeliveryInv, OfferAhead
<1>4. \E at \in [DOMAIN received'[c] -> Due(c)'] : Delivered(c, at)'
  <2>1. CASE Receive(c)
    BY <2>1, ReceiveDelivers
  <2>2. CASE Take(c)
    <3>1. /\ stream[pos[c] % Capacity] = log[pos[c] + 1] /\ pos[c] \in Nat
          /\ pos'[c] = pos[c] + 1 /\ received' = received /\ start[c] \in Nat
          /\ pc[c] \in {"loop", "woken"}
          /\ IF Passes(c, log[pos[c] + 1]) THEN pc'[c] = "send" ELSE pc'[c] = "loop"
      BY <2>2, TakeReadsLog DEF Take, Locked
    <3>2. Due(c)' = Due(c)
      BY <1>1, <3>1 DEF Due, Cursor, Passes
    <3>3. \E at \in [DOMAIN received[c] -> Due(c)] : Delivered(c, at)
      BY <1>1 DEF DeliveryInv, DeliveredIsLogSegment
    <3> QED BY <1>1, <3>1, <3>2, <3>3, SameDelivery
  <2>3. CASE Sleep(c) \/ Overrun(c) \/ Abort(c) \/ WatchFuncReturns(c)
    <3>1. /\ UNCHANGED <<pos, received>>
          /\ pc'[c] \in {"send", "aborted"} <=> pc[c] \in {"send", "aborted"}
      BY <2>3 DEF Sleep, Overrun, Abort, WatchFuncReturns, Locked
    <3>2. Due(c)' = Due(c)
      BY <1>1, <3>1 DEF Due, Cursor, Passes
    <3>3. \E at \in [DOMAIN received[c] -> Due(c)] : Delivered(c, at)
      BY <1>1 DEF DeliveryInv, DeliveredIsLogSegment
    <3> QED BY <1>1, <3>1, <3>2, <3>3, SameDelivery
  <2> QED BY <2>1, <2>2, <2>3 DEF Goroutine
<1>5. ASSUME NEW d \in Consumers \ {c}, pc'[d] /= "idle"
      PROVE  \E at \in [DOMAIN received'[d] -> Due(d)'] : Delivered(d, at)'
  <2>1. Due(d)' = Due(d)
    BY <1>1 DEF Due, Cursor, Passes
  <2>2. \E at \in [DOMAIN received[d] -> Due(d)] : Delivered(d, at)
    BY <1>1, <1>5 DEF DeliveryInv, DeliveredIsLogSegment
  <2> QED BY <1>1, <2>1, <2>2, SameDelivery
<1> QED BY <1>2, <1>3, <1>4, <1>5 DEF DeliveryInv, DeliveredIsLogSegment

\* The invariant of delivery, for any ring, publishers and consumers.
THEOREM DeliveryCorrect == Spec => []DeliveryInv
<1>1. Init => DeliveryInv
  BY DEF Init, DeliveryInv, NothingEarly, OfferAhead, DeliveredIsLogSegment
<1>2. TypeOK /\ RingInvariant /\ DeliveryInv /\ [Next]_vars => DeliveryInv'
  <2> SUFFICES ASSUME TypeOK, RingInvariant, DeliveryInv, [Next]_vars
               PROVE  DeliveryInv'
    OBVIOUS
  <2>1. ASSUME UNCHANGED <<log, consumerVars>> PROVE DeliveryInv'
    BY <2>1 DEF DeliveryInv, NothingEarly, OfferAhead, DeliveredIsLogSegment, Delivered,
                Due, Cursor, Passes, consumerVars
  <2>2. ASSUME NEW c \in Consumers, NEW a \in Actors, Watch(c, a)
        PROVE  DeliveryInv'
    <3>1. PICK from \in MinPos .. writePos : Open(c, from, a)
      BY <2>2, WatchOpens
    <3>2. from \in Nat
      BY MinPosBounds DEF TypeOK
    <3> QED BY <3>1, <3>2, OpenDelivers
  <2>3. CASE \E p \in Publishers, a \in Actors : NewEvent(p, a)
    BY <2>1, <2>3 DEF NewEvent
  <2>4. CASE UNCHANGED vars
    BY <2>1, <2>4 DEF vars
  <2> QED BY <2>2, <2>3, <2>4, PublishDelivers, GoroutineDelivers DEF Next
<1> QED BY <1>1, <1>2, TypeCorrect, RingCorrect, PTL DEF Spec

\* Every consumer has received exactly its part of the log, for any ring.
THEOREM DeliversSegment == Spec => []DeliveredIsLogSegment
<1>1. DeliveryInv => DeliveredIsLogSegment
  BY DEF DeliveryInv
<1> QED BY <1>1, DeliveryCorrect, PTL

-----------------------------------------------------------------------------
(* Wakeups.                                                                *)

\* A consumer sleeps only when it has read everything, and is woken only when
\* there is something to read.
SleepersHaveRead ==
  \A c \in Consumers : /\ pc[c] = "asleep" => pos[c] = writePos
                       /\ pc[c] = "woken" => pos[c] < writePos

\* No wakeup is lost between the test of the loop and the Wait, for any number
\* of publishers and consumers: what Publish writes wakes every sleeper.
THEOREM NoLostWakeup == Spec => []SleepersHaveRead
<1>1. Init => SleepersHaveRead
  BY DEF Init, SleepersHaveRead
<1>2. TypeOK /\ RingInvariant /\ SleepersHaveRead /\ [Next]_vars => SleepersHaveRead'
  <2> SUFFICES ASSUME TypeOK, RingInvariant, SleepersHaveRead, [Next]_vars
               PROVE  SleepersHaveRead'
    OBVIOUS
  <2>1. ASSUME NEW p \in Publishers, Publish(p) PROVE SleepersHaveRead'
    BY <2>1 DEF Publish, Broadcast, SleepersHaveRead, TypeOK, RingInvariant, ConsumersPlaced
  <2>2. ASSUME NEW c \in Consumers, NEW a \in Actors, Watch(c, a)
        PROVE  SleepersHaveRead'
    <3>1. PICK from \in MinPos .. writePos : Open(c, from, a)
      BY <2>2, WatchOpens
    <3> QED BY <3>1 DEF Open, SleepersHaveRead, TypeOK
  <2>3. ASSUME NEW c \in Consumers, Goroutine(c) PROVE SleepersHaveRead'
    BY <2>3 DEF Goroutine, Sleep, Overrun, Take, Receive, Abort, SleepersHaveRead, TypeOK
  <2>4. ASSUME UNCHANGED <<writePos, pc, pos>> PROVE SleepersHaveRead'
    BY <2>4 DEF SleepersHaveRead
  <2>5. CASE \E p \in Publishers, a \in Actors : NewEvent(p, a)
    BY <2>4, <2>5 DEF NewEvent, consumerVars
  <2>6. CASE \E c \in Consumers : WatchFuncReturns(c)
    BY <2>4, <2>6 DEF WatchFuncReturns
  <2>7. CASE UNCHANGED vars
    BY <2>4, <2>7 DEF vars, consumerVars
  <2> QED BY <2>1, <2>2, <2>3, <2>5, <2>6, <2>7 DEF Next
<1> QED BY <1>1, <1>2, TypeCorrect, RingCorrect, PTL DEF Spec

-----------------------------------------------------------------------------
(* Consumers whose WatchFunc has returned.                                 *)

\* Event i is still to be read, and the consumer's filter lets it pass.
Wanted(c, i) ==
  /\ pc[c] \notin Finished /\ pos[c] <= i /\ i < writePos
  /\ Passes(c, log[i + 1])

\* With ctx done, the next step of a consumer that was woken or offers an
\* event is its last.  With an event ahead that it wants, each of its steps
\* brings it nearer to that event or makes it offer one or end, and nothing
\* that publishers or other consumers do takes the event away.
AbandonedStep ==
  \A c \in Consumers : cancelled[c] =>
    /\ pc[c] \in {"send", "woken"} =>
         IF Goroutine(c) THEN pc'[c] \in Finished ELSE pc'[c] = pc[c]
    /\ \A i \in Nat : Wanted(c, i) =>
         IF Goroutine(c)
           THEN \/ pc'[c] \in {"send"} \cup Finished
                \/ Wanted(c, i)' /\ pos'[c] > pos[c]
           ELSE Wanted(c, i)'

\* A consumer that was abandoned ends at the first event it wants, for any
\* ring, publishers and consumers: what AbandonedConsumerEnds needs beside
\* fairness.
THEOREM AbandonedConsumersGoOn == Spec => [][AbandonedStep]_vars
<1>1. TypeOK /\ RingInvariant /\ SleepersHaveRead /\ Next => AbandonedStep
  <2> SUFFICES ASSUME TypeOK, RingInvariant, SleepersHaveRead, Next,
                      NEW c \in Consumers, cancelled[c]
               PROVE  /\ pc[c] \in {"send", "woken"} =>
                           IF Goroutine(c) THEN pc'[c] \in Finished ELSE pc'[c] = pc[c]
                      /\ \A i \in Nat : Wanted(c, i) =>
                           IF Goroutine(c)
                             THEN \/ pc'[c] \in {"send"} \cup Finished
                                  \/ Wanted(c, i)' /\ pos'[c] > pos[c]
                             ELSE Wanted(c, i)'
    BY DEF AbandonedStep
  <2> USE EventsAssumption
  <2>0. writePos \in Nat /\ pos[c] \in Nat /\ pc \in [Consumers ->
          {"idle", "loop", "asleep", "woken", "send", "overrun", "closed", "aborted"}]
    BY DEF TypeOK
  <2>1. CASE Goroutine(c)
    <3>1. Sleep(c) => pc[c] = "loop" /\ pos[c] = writePos
      BY DEF Sleep, Locked
    <3>2. Overrun(c) => pc[c] = "loop" /\ pc'[c] = "overrun"
      BY <2>0 DEF Overrun, Locked
    <3>3. ~Receive(c)
      BY DEF Receive
    <3>4. Abort(c) => pc'[c] \in {"aborted", "closed"}
      BY <2>0 DEF Abort
    <3>5. ASSUME Take(c)
          PROVE  /\ pc[c] = "loop" /\ pos'[c] = pos[c] + 1
                 /\ Passes(c, log[pos[c] + 1]) => pc'[c] = "send"
                 /\ pc'[c] \in {"send", "loop"}
                 /\ UNCHANGED <<writePos, log, filter>>
      <4>1. stream[pos[c] % Capacity] = log[pos[c] + 1]
        BY <3>5, TakeReadsLog
      <4>2. pc[c] = "loop" /\ UNCHANGED <<writePos, log, filter>>
        BY <3>5 DEF Take, Locked
      <4>3. pos' = [pos EXCEPT ![c] = @ + 1]
        BY <3>5 DEF Take
      <4>4. IF Passes(c, log[pos[c] + 1])
              THEN pc' = [pc EXCEPT ![c] = "send"]
              ELSE pc' = [pc EXCEPT ![c] = "loop"]
        BY <3>5, <4>1 DEF Take
      <4>5. pos'[c] = pos[c] + 1
        BY <4>3 DEF TypeOK
      <4> QED
        BY <2>0, <4>2, <4>4, <4>5
    <3>6. ASSUME NEW i \in Nat, Wanted(c, i)
          PROVE  \/ pc'[c] \in {"send"} \cup Finished
                 \/ Wanted(c, i)' /\ pos'[c] > pos[c]
      <4>1. ~Sleep(c)
        BY <2>0, <3>1, <3>6 DEF Wanted
      <4>2. CASE Take(c)
        <5>1. CASE i = pos[c]
          BY <3>5, <3>6, <4>2, <5>1 DEF Wanted
        <5>2. CASE i /= pos[c]
          <6>1. pos'[c] <= i /\ pos'[c] > pos[c]
            BY <2>0, <3>5, <3>6, <4>2, <5>2 DEF Wanted
          <6>2. Passes(c, log[i + 1])' /\ i < writePos'
            BY <3>5, <3>6, <4>2 DEF Wanted, Passes
          <6>3. pc'[c] \in {"send"} \/ pc'[c] \notin Finished
            BY <3>5, <4>2 DEF Finished
          <6> QED
            BY <6>1, <6>2, <6>3 DEF Wanted
        <5> QED
          BY <5>1, <5>2
      <4> QED
        BY <2>1, <3>2, <3>3, <3>4, <4>1, <4>2 DEF Goroutine, Finished
    <3>7. pc[c] \in {"send", "woken"} => pc'[c] \in Finished
      BY <2>1, <3>1, <3>2, <3>3, <3>4, <3>5 DEF Goroutine, Finished
    <3> QED
      BY <2>1, <3>6, <3>7
  <2>2. CASE ~Goroutine(c)
    <3> DEFINE Kept ==
          /\ pc'[c] = pc[c] \/ (pc[c] = "asleep" /\ pc'[c] = "woken")
          /\ pos'[c] = pos[c] /\ filter'[c] = filter[c]
          /\ writePos' \in {writePos, writePos + 1}
          /\ \A i \in 0 .. writePos - 1 : log'[i + 1] = log[i + 1]
    <3>1. ASSUME UNCHANGED <<pc, pos, filter, writePos, log>> PROVE Kept
      BY <2>0, <3>1
    <3>2. ASSUME NEW p \in Publishers, Publish(p) PROVE Kept
      <4>1. Len(log) = writePos /\ log \in Seq(Event)
        BY DEF RingInvariant, RingHoldsLogTail, TypeOK
      <4>2. log' = Append(log, pending[p]) /\ writePos' = writePos + 1
        BY <3>2 DEF Publish
      <4>3. \A i \in 0 .. writePos - 1 : log'[i + 1] = log[i + 1]
        BY <2>0, <4>1, <4>2
      <4>4. UNCHANGED <<pos, filter>> /\ pc' = Broadcast
        BY <3>2 DEF Publish
      <4> QED
        BY <2>0, <4>2, <4>3, <4>4 DEF Broadcast
    <3>3. ASSUME NEW d \in Consumers \ {c}, Goroutine(d) PROVE Kept
      <4>1. UNCHANGED <<filter, writePos, log>>
        BY <3>3 DEF Goroutine, Sleep, Overrun, Take, Receive, Abort
      <4>2. pc'[c] = pc[c] /\ pos'[c] = pos[c]
        BY <3>3 DEF Goroutine, Sleep, Overrun, Take, Receive, Abort, TypeOK
      <4> QED
        BY <2>0, <4>1, <4>2
    <3>4. ASSUME NEW d \in Consumers, NEW a \in Actors, Watch(d, a) PROVE Kept
      <4>1. PICK from \in MinPos .. writePos : Open(d, from, a)
        BY <3>4, WatchOpens
      <4>2. d /= c
        BY <4>1 DEF Open, RingInvariant, ConsumersPlaced
      <4>3. pc'[c] = pc[c] /\ pos'[c] = pos[c] /\ filter'[c] = filter[c]
        BY <4>1, <4>2 DEF Open, TypeOK
      <4> QED
        BY <2>0, <4>1, <4>3 DEF Open
    <3>5. ASSUME \E p \in Publishers, a \in Actors : NewEvent(p, a) PROVE Kept
      BY <3>1, <3>5 DEF NewEvent, consumerVars
    <3>6. ASSUME \E d \in Consumers : WatchFuncReturns(d) PROVE Kept
      BY <3>1, <3>6 DEF WatchFuncReturns
    <3>7. Kept
      BY <2>2, <3>2, <3>3, <3>4, <3>5, <3>6 DEF Next
    <3>8. ASSUME NEW i \in Nat, Wanted(c, i) PROVE Wanted(c, i)'
      <4>1. i \in 0 .. writePos - 1 /\ pc[c] /= "asleep"
        BY <2>0, <3>8 DEF Wanted, SleepersHaveRead
      <4>2. pc'[c] = pc[c] /\ log'[i + 1] = log[i + 1]
        BY <3>7, <4>1
      <4> QED
        BY <2>0, <3>7, <3>8, <4>2 DEF Wanted, Passes
    <3> QED
      BY <2>2, <3>7, <3>8
  <2> QED
    BY <2>1, <2>2
<1> QED
  BY <1>1, TypeCorrect, RingCorrect, NoLostWakeup, PTL DEF Spec

-----------------------------------------------------------------------------
(* Induction.  The rules of the library take the predicate as a parameter, *)
(* so proofs here go by the least counterexample instead.                  *)

\* Every set of numbers that is not empty has a least one.
LEMMA LeastNat ==
  ASSUME NEW T \in SUBSET Nat, T /= {}
  PROVE  \E n \in T : \A m \in T : n <= m
<1>1. PICK n \in T : \A m \in T : ~(<<m, n>> \in OpToRel(<, Nat))
  BY NatLessThanWellFounded, WFMin
<1>2. ASSUME NEW m \in T PROVE ~(m < n)
  <2>1. <<m, n>> \notin OpToRel(<, Nat)
    BY <1>1, Zenon
  <2> QED BY <2>1 DEF OpToRel
<1> HIDE <1>1
<1>3. ASSUME NEW m \in T PROVE n <= m
  <2>1. ~(m < n)
    BY <1>2
  <2>2. m \in Nat /\ n \in Nat
    OBVIOUS
  <2> QED BY <2>1, <2>2
<1> QED BY <1>3

\* Induction, for a set in the place of a predicate.
LEMMA NatInduct ==
  ASSUME NEW G, \A n \in Nat : (\A m \in 0 .. n - 1 : m \in G) => n \in G
  PROVE  Nat \subseteq G
<1> DEFINE Bad == {n \in Nat : n \notin G}
<1> SUFFICES ASSUME Bad /= {} PROVE FALSE
  OBVIOUS
<1>1. PICK n \in Bad : \A m \in Bad : n <= m
  <2>1. Bad \in SUBSET Nat
    OBVIOUS
  <2> HIDE DEF Bad
  <2> QED BY <2>1, LeastNat
<1>2. n \in Nat /\ n \notin G
  OBVIOUS
<1>3. ASSUME NEW m \in 0 .. n - 1 PROVE m \in G
  <2>1. m \in Nat /\ ~(n <= m)
    BY <1>2
  <2> QED BY <1>1, <2>1
<1> QED BY <1>2, <1>3

-----------------------------------------------------------------------------
(* The binary search of WithTailID.                                        *)

\* The body of Probes, for any function in its place.
ProbesOf(f, q) ==
  LET i == q[1]  j == q[2]  r == q[3]
      h == (i + j) \div 2
  IN  IF i >= j THEN {}
      ELSE {h} \cup (IF r <= h THEN f[<<i, h, r>>] ELSE f[<<h + 1, j, r>>])

\* The middle lies in the range, and both halves are searches.
LEMMA Middle ==
  ASSUME NEW i \in Nat, NEW j \in Nat, i < j
  PROVE  (i + j) \div 2 \in i .. j - 1
OBVIOUS

LEMMA ProbesMonotone ==
  ASSUME NEW f, NEW g, NEW q \in Searches, \A p \in Searches : f[p] \subseteq g[p]
  PROVE  ProbesOf(f, q) \subseteq ProbesOf(g, q)
<1> DEFINE h == (q[1] + q[2]) \div 2
<1>1. CASE q[1] >= q[2]
  BY <1>1 DEF ProbesOf
<1>2. CASE ~(q[1] >= q[2])
  <2>1. h \in Nat
    BY <1>2, Middle DEF Searches
  <2>2. <<q[1], h, q[3]>> \in Searches /\ <<h + 1, q[2], q[3]>> \in Searches
    BY <2>1 DEF Searches
  <2> HIDE DEF h
  <2>3. /\ f[<<q[1], h, q[3]>>] \subseteq g[<<q[1], h, q[3]>>]
        /\ f[<<h + 1, q[2], q[3]>>] \subseteq g[<<h + 1, q[2], q[3]>>]
    BY <2>2
  <2> QED BY <1>2, <2>3 DEF ProbesOf, h
<1> QED BY <1>1, <1>2

\* The definition of Probes has a solution, the least one, so it is one.
LEMMA ProbesDef == \A q \in Searches : Probes[q] = ProbesOf(Probes, q)
<1> DEFINE Closed == {f \in [Searches -> SUBSET Nat] :
                        \A q \in Searches : ProbesOf(f, q) \subseteq f[q]}
           least == [q \in Searches |-> {n \in Nat : \A f \in Closed : n \in f[q]}]
           next == [q \in Searches |-> ProbesOf(least, q)]
<1>1. ASSUME NEW f \in [Searches -> SUBSET Nat], NEW q \in Searches
      PROVE  ProbesOf(f, q) \in SUBSET Nat
  <2>1. CASE q[1] >= q[2]
    BY <2>1 DEF ProbesOf
  <2>2. CASE ~(q[1] >= q[2])
    <3> DEFINE h == (q[1] + q[2]) \div 2
    <3>1. h \in Nat
      BY <2>2, Middle DEF Searches
    <3>2. <<q[1], h, q[3]>> \in Searches /\ <<h + 1, q[2], q[3]>> \in Searches
      BY <3>1 DEF Searches
    <3> QED BY <2>2, <3>1, <3>2 DEF ProbesOf
  <2> QED BY <2>1, <2>2
<1>2. \A f \in Closed, q \in Searches : least[q] \subseteq f[q]
  OBVIOUS
<1>3. ASSUME NEW q \in Searches PROVE ProbesOf(least, q) \subseteq least[q]
  <2>1. \A f \in Closed : ProbesOf(least, q) \subseteq f[q]
    <3> SUFFICES ASSUME NEW f \in Closed PROVE ProbesOf(least, q) \subseteq f[q]
      OBVIOUS
    <3>1. ProbesOf(least, q) \subseteq ProbesOf(f, q)
      BY <1>2, ProbesMonotone
    <3> QED BY <3>1
  <2>2. ProbesOf(least, q) \subseteq Nat
    BY <1>1
  <2> QED BY <2>1, <2>2
<1>4. next \in Closed
  <2>1. next \in [Searches -> SUBSET Nat] /\ least \in [Searches -> SUBSET Nat]
    BY <1>1
  <2>2. \A q \in Searches : next[q] \subseteq least[q]
    BY <1>3
  <2>3. ASSUME NEW q \in Searches PROVE ProbesOf(next, q) \subseteq next[q]
    <3>1. ProbesOf(next, q) \subseteq ProbesOf(least, q)
      BY <2>2, ProbesMonotone
    <3> QED BY <3>1
  <2> QED BY <2>1, <2>3
<1>5. least = [q \in Searches |-> ProbesOf(least, q)]
  <2>1. \A q \in Searches : least[q] = ProbesOf(least, q)
    BY <1>2, <1>3, <1>4
  <2> QED BY <2>1
<1> HIDE DEF least, next, Closed
<1>6. Probes = [q \in Searches |-> ProbesOf(Probes, q)]
  <2> DEFINE Solves(f) == f = [q \in Searches |-> ProbesOf(f, q)]
  <2>1. Probes = CHOOSE f : Solves(f)
    BY DEF Probes, ProbesOf
  <2>2. Solves(least)
    BY <1>5
  <2> HIDE DEF Solves
  <2>3. Solves(CHOOSE f : Solves(f))
    BY <2>2, Zenon
  <2>4. Solves(Probes)
    BY <2>1, <2>3
  <2> QED BY <2>4 DEF Solves
<1> QED BY <1>6

\* An empty search looks at nothing.
LEMMA SearchEmpty ==
  ASSUME NEW i \in Nat, NEW j \in Nat, NEW r \in Nat, i >= j
  PROVE  Probes[<<i, j, r>>] = {}
<1>1. <<i, j, r>> \in Searches
  BY DEF Searches
<1>2. Probes[<<i, j, r>>] = ProbesOf(Probes, <<i, j, r>>)
  BY <1>1, ProbesDef
<1> QED BY <1>2 DEF ProbesOf

\* One step of a search of i .. j - 1 that ends at r.
LEMMA SearchStep ==
  ASSUME NEW i \in Nat, NEW j \in Nat, i < j
  PROVE  \E h \in i .. j - 1 : \A r \in Nat :
           /\ r <= h => Probes[<<i, j, r>>] = {h} \cup Probes[<<i, h, r>>]
           /\ r > h  => Probes[<<i, j, r>>] = {h} \cup Probes[<<h + 1, j, r>>]
<1>1. PICK h : h = (i + j) \div 2
  OBVIOUS
<1>2. h \in i .. j - 1
  BY <1>1, Middle
<1>3. ASSUME NEW r \in Nat
      PROVE  /\ r <= h => Probes[<<i, j, r>>] = {h} \cup Probes[<<i, h, r>>]
             /\ r > h  => Probes[<<i, j, r>>] = {h} \cup Probes[<<h + 1, j, r>>]
  <2>1. <<i, j, r>> \in Searches
    BY DEF Searches
  <2>2. Probes[<<i, j, r>>] = ProbesOf(Probes, <<i, j, r>>)
    BY <2>1, ProbesDef
  <2> QED BY <1>1, <1>2, <2>2 DEF ProbesOf
<1> QED BY <1>2, <1>3

\* A search stays in its range.
LEMMA ProbesInRange ==
  ASSUME NEW i \in Nat, NEW j \in Nat, NEW r \in i .. j
  PROVE  Probes[<<i, j, r>>] \subseteq i .. j - 1
<1> DEFINE In(a, b, e) == Probes[<<a, b, e>>] \subseteq a .. b - 1
           G == {n \in Nat : \A a, b \in Nat : \A e \in a .. b : b - a = n => In(a, b, e)}
<1>1. ASSUME NEW n \in Nat, \A m \in 0 .. n - 1 : m \in G
      PROVE  n \in G
  <2> SUFFICES ASSUME NEW a \in Nat, NEW b \in Nat, NEW e \in a .. b, b - a = n
               PROVE  In(a, b, e)
    OBVIOUS
  <2>1. ASSUME NEW c \in Nat, NEW d \in Nat, e \in c .. d, d - c < n
        PROVE  In(c, d, e)
    <3>1. d - c \in 0 .. n - 1
      BY <2>1
    <3>2. d - c \in G
      <4> HIDE DEF G
      <4> QED BY <1>1, <3>1
    <3> QED BY <2>1, <3>2
  <2>2. e \in Nat /\ a <= b /\ a <= e /\ e <= b
    OBVIOUS
  <2> HIDE DEF G
  <2>3. CASE a = b
    BY <2>2, <2>3, SearchEmpty
  <2>4. CASE a < b
    <3>1. PICK h \in a .. b - 1 : \A w \in Nat :
             /\ w <= h => Probes[<<a, b, w>>] = {h} \cup Probes[<<a, h, w>>]
             /\ w > h  => Probes[<<a, b, w>>] = {h} \cup Probes[<<h + 1, b, w>>]
      BY <2>4, SearchStep
    <3>2. /\ h \in a .. b - 1
          /\ e <= h => Probes[<<a, b, e>>] = {h} \cup Probes[<<a, h, e>>]
          /\ e > h  => Probes[<<a, b, e>>] = {h} \cup Probes[<<h + 1, b, e>>]
      BY <2>2, <3>1
    <3>3. h \in Nat /\ h + 1 \in Nat
      BY <3>2
    <3> HIDE <3>1
    <3>4. CASE e <= h
      <4>1. e \in a .. h /\ h - a < n
        BY <2>2, <3>2, <3>4
      <4>2. In(a, h, e)
        BY <2>1, <3>3, <4>1
      <4> QED BY <3>2, <3>4, <4>2
    <3>5. CASE e > h
      <4>1. e \in h + 1 .. b /\ b - (h + 1) < n
        BY <2>2, <3>2, <3>5
      <4>2. In(h + 1, b, e)
        BY <2>1, <3>3, <4>1
      <4> QED BY <3>2, <3>5, <4>2
    <3> QED BY <2>2, <3>2, <3>4, <3>5
  <2> QED BY <2>2, <2>3, <2>4
<1>2. Nat \subseteq G
  <2> HIDE DEF G
  <2> QED BY <1>1, NatInduct
<1>3. j - i \in Nat
  OBVIOUS
<1>4. j - i \in G
  <2> HIDE DEF G
  <2> QED BY <1>2, <1>3
<1> QED BY <1>4

\* A search that ends at r has looked at r and at the place before it, as far
\* as they are in the range.
LEMMA SearchBrackets ==
  ASSUME NEW i \in Nat, NEW j \in Nat, NEW r \in i .. j
  PROVE  /\ i < r => r - 1 \in Probes[<<i, j, r>>]
         /\ r < j => r \in Probes[<<i, j, r>>]
<1> DEFINE Brackets(a, b, e) == /\ a < e => e - 1 \in Probes[<<a, b, e>>]
                                /\ e < b => e \in Probes[<<a, b, e>>]
           G == {n \in Nat : \A a, b \in Nat : \A e \in a .. b :
                               b - a = n => Brackets(a, b, e)}
<1>1. ASSUME NEW n \in Nat, \A m \in 0 .. n - 1 : m \in G
      PROVE  n \in G
  <2> SUFFICES ASSUME NEW a \in Nat, NEW b \in Nat, NEW e \in a .. b, b - a = n
               PROVE  Brackets(a, b, e)
    OBVIOUS
  <2>1. ASSUME NEW c \in Nat, NEW d \in Nat, e \in c .. d, d - c < n
        PROVE  Brackets(c, d, e)
    <3>1. d - c \in 0 .. n - 1
      BY <2>1
    <3>2. d - c \in G
      <4> HIDE DEF G
      <4> QED BY <1>1, <3>1
    <3> QED BY <2>1, <3>2
  <2>2. e \in Nat /\ a <= b /\ a <= e /\ e <= b
    OBVIOUS
  <2> HIDE DEF G
  <2>3. CASE a = b
    BY <2>2, <2>3
  <2>4. CASE a < b
    <3>1. PICK h \in a .. b - 1 : \A w \in Nat :
             /\ w <= h => Probes[<<a, b, w>>] = {h} \cup Probes[<<a, h, w>>]
             /\ w > h  => Probes[<<a, b, w>>] = {h} \cup Probes[<<h + 1, b, w>>]
      BY <2>4, SearchStep
    <3>2. /\ h \in a .. b - 1
          /\ e <= h => Probes[<<a, b, e>>] = {h} \cup Probes[<<a, h, e>>]
          /\ e > h  => Probes[<<a, b, e>>] = {h} \cup Probes[<<h + 1, b, e>>]
      BY <2>2, <3>1
    <3>3. h \in Nat /\ h + 1 \in Nat
      BY <3>2
    <3> HIDE <3>1
    <3>4. CASE e <= h
      <4>1. e \in a .. h /\ h - a < n
        BY <2>2, <3>2, <3>4
      <4>2. Brackets(a, h, e)
        BY <2>1, <3>3, <4>1
      <4> QED BY <2>2, <3>2, <3>3, <3>4, <4>2
    <3>5. CASE e > h
      <4>1. e \in h + 1 .. b /\ b - (h + 1) < n
        BY <2>2, <3>2, <3>5
      <4>2. Brackets(h + 1, b, e)
        BY <2>1, <3>3, <4>1
      <4>3. e - 1 = h \/ h + 1 < e
        BY <2>2, <3>3, <3>5
      <4> QED BY <3>2, <3>5, <4>2, <4>3
    <3> QED BY <2>2, <3>2, <3>4, <3>5
  <2> QED BY <2>2, <2>3, <2>4
<1>2. Nat \subseteq G
  <2> HIDE DEF G
  <2> QED BY <1>1, NatInduct
<1>3. j - i \in Nat
  OBVIOUS
<1>4. j - i \in G
  <2> HIDE DEF G
  <2> QED BY <1>2, <1>3
<1> QED BY <1>4

\* Whatever the probes answer, in order or not, a search ends, at one place:
\* the S are the places where the answer is true.
LEMMA SearchEndsOnce ==
  ASSUME NEW S, NEW i \in Nat, NEW j \in Nat, i <= j
  PROVE  \E r \in i .. j :
           /\ \A h \in Probes[<<i, j, r>>] : h \in S <=> h >= r
           /\ \A e \in i .. j :
                (\A h \in Probes[<<i, j, e>>] : h \in S <=> h >= e) => e = r
<1> DEFINE Ends(a, b, e) == \A h \in Probes[<<a, b, e>>] : h \in S <=> h >= e
           Once(a, b) == \E r \in a .. b :
                           Ends(a, b, r) /\ \A e \in a .. b : Ends(a, b, e) => e = r
           G == {n \in Nat : \A a, b \in Nat : b - a = n => Once(a, b)}
<1>1. ASSUME NEW n \in Nat, \A m \in 0 .. n - 1 : m \in G
      PROVE  n \in G
  <2> SUFFICES ASSUME NEW a \in Nat, NEW b \in Nat, b - a = n
               PROVE  Once(a, b)
    <3> HIDE DEF Once
    <3> QED OBVIOUS
  <2>1. ASSUME NEW c \in Nat, NEW d \in Nat, c <= d, d - c < n
        PROVE  Once(c, d)
    <3>1. d - c \in 0 .. n - 1
      BY <2>1
    <3>2. d - c \in G
      <4> HIDE DEF G
      <4> QED BY <1>1, <3>1
    <3> HIDE DEF Once
    <3> QED BY <2>1, <3>2
  <2> HIDE DEF G
  <2>2. CASE a = b
    <3>1. Probes[<<a, b, a>>] = {}
      BY <2>2, SearchEmpty
    <3>2. a \in a .. b /\ Ends(a, b, a) /\ \A e \in a .. b : e = a
      BY <2>2, <3>1
    <3> QED BY <3>2
  <2>3. CASE a < b
    <3>1. PICK h \in a .. b - 1 : \A w \in Nat :
             /\ w <= h => Probes[<<a, b, w>>] = {h} \cup Probes[<<a, h, w>>]
             /\ w > h  => Probes[<<a, b, w>>] = {h} \cup Probes[<<h + 1, b, w>>]
      BY <2>3, SearchStep
    <3>2. h \in a .. b - 1
      BY <3>1
    <3>3. \A e \in a .. b :
            /\ e <= h => (Ends(a, b, e) <=> h \in S /\ Ends(a, h, e))
            /\ e > h  => (Ends(a, b, e) <=> h \notin S /\ Ends(h + 1, b, e))
      <4> SUFFICES ASSUME NEW e \in a .. b
                   PROVE  /\ e <= h => (Ends(a, b, e) <=> h \in S /\ Ends(a, h, e))
                          /\ e > h  => (Ends(a, b, e) <=> h \notin S /\ Ends(h + 1, b, e))
        OBVIOUS
      <4>1. e \in Nat
        OBVIOUS
      <4>2. /\ h \in a .. b - 1
            /\ e <= h => Probes[<<a, b, e>>] = {h} \cup Probes[<<a, h, e>>]
            /\ e > h  => Probes[<<a, b, e>>] = {h} \cup Probes[<<h + 1, b, e>>]
        BY <3>1, <3>2, <4>1
      <4> QED BY <3>2, <4>1, <4>2
    <3>4. h \in Nat /\ h + 1 \in Nat /\ a <= h /\ h + 1 <= b /\ h - a < n /\ b - (h + 1) < n
      BY <3>2
    <3> HIDE <3>1
    <3>5. CASE h \in S
      <4>1. Once(a, h)
        <5> HIDE DEF Once
        <5> QED BY <2>1, <3>4
      <4>2. PICK r \in a .. h : Ends(a, h, r) /\ \A e \in a .. h : Ends(a, h, e) => e = r
        BY <4>1
      <4> HIDE DEF Ends
      <4>3. r \in a .. b /\ Ends(a, b, r)
        BY <3>2, <3>3, <3>5, <4>2
      <4>4. ASSUME NEW e \in a .. b, Ends(a, b, e) PROVE e = r
        <5>1. e <= h
          BY <3>2, <3>3, <3>5, <4>4
        <5>2. e \in a .. h /\ Ends(a, h, e)
          BY <3>2, <3>3, <4>4, <5>1
        <5> QED BY <4>2, <5>2
      <4> QED BY <4>3, <4>4
    <3>6. CASE h \notin S
      <4>1. Once(h + 1, b)
        <5> HIDE DEF Once
        <5> QED BY <2>1, <3>4
      <4>2. PICK r \in h + 1 .. b :
              Ends(h + 1, b, r) /\ \A e \in h + 1 .. b : Ends(h + 1, b, e) => e = r
        BY <4>1
      <4> HIDE DEF Ends
      <4>3. r \in a .. b /\ Ends(a, b, r)
        BY <3>4, <3>3, <3>6, <4>2
      <4>4. ASSUME NEW e \in a .. b, Ends(a, b, e) PROVE e = r
        <5>1. e > h
          BY <3>4, <3>3, <3>6, <4>4
        <5>2. e \in h + 1 .. b /\ Ends(h + 1, b, e)
          BY <3>4, <3>3, <4>4, <5>1
        <5> QED BY <4>2, <5>2
      <4> QED BY <4>3, <4>4
    <3> QED BY <3>5, <3>6
  <2> HIDE DEF Once
  <2> QED BY <2>2, <2>3
<1>2. Nat \subseteq G
  <2> HIDE DEF G
  <2> QED BY <1>1, NatInduct
<1>3. j - i \in Nat
  OBVIOUS
<1>4. j - i \in G
  <2> HIDE DEF G
  <2> QED BY <1>2, <1>3
<1>5. Once(i, j)
  <2> HIDE DEF Once
  <2> QED BY <1>4
<1> QED BY <1>5

\* In every state WithTailID finds one position and no other, although the
\* IDs in the ring may be out of order.
THEOREM SearchIsDefined ==
  Spec => [](\A k \in Nat : \E r \in 0 .. writePos - MinPos :
               /\ SearchEndsAt(r, k)
               /\ \A e \in 0 .. writePos - MinPos : SearchEndsAt(e, k) => e = r)
<1>1. ASSUME TypeOK, NEW k \in Nat
      PROVE  \E r \in 0 .. writePos - MinPos :
               /\ SearchEndsAt(r, k)
               /\ \A e \in 0 .. writePos - MinPos : SearchEndsAt(e, k) => e = r
  <2> DEFINE n == writePos - MinPos
             S == {h \in 0 .. n - 1 : stream[(MinPos + h) % Capacity].id > k}
  <2>1. n \in Nat
    BY <1>1, MinPosBounds DEF TypeOK
  <2>2. \E r \in 0 .. n :
           /\ \A h \in Probes[<<0, n, r>>] : h \in S <=> h >= r
           /\ \A e \in 0 .. n :
                (\A h \in Probes[<<0, n, e>>] : h \in S <=> h >= e) => e = r
    <3> HIDE DEF n, S
    <3>1. 0 \in Nat /\ 0 <= n
      BY <2>1
    <3> QED BY <2>1, <3>1, SearchEndsOnce
  <2>3. \A e \in 0 .. n : \A h \in Probes[<<0, n, e>>] : h \in 0 .. n - 1
    BY <2>1, ProbesInRange
  <2> QED BY <2>2, <2>3 DEF SearchEndsAt
<1>2. TypeOK => \A k \in Nat : \E r \in 0 .. writePos - MinPos :
               /\ SearchEndsAt(r, k)
               /\ \A e \in 0 .. writePos - MinPos : SearchEndsAt(e, k) => e = r
  BY <1>1
<1> QED BY <1>2, TypeCorrect, PTL

\* While the IDs of the available history are in order, WithTailID starts a
\* consumer at the first event with a greater ID, for any ring.
THEOREM TailIDIsExact == Spec => TailIDExactWhenOrdered
<1> USE EventsAssumption
<1>1. ASSUME TypeOK, RingInvariant, NEW c \in Consumers, NEW k \in 0 .. MaxPublish,
             NEW a \in Actors, WatchTailAfter(c, k, a), InOrder,
             NEW i \in MinPos .. writePos - 1
      PROVE  (i >= pos'[c]) <=> (log[i + 1].id > k)
  <2> DEFINE n == writePos - MinPos
             id(h) == log[MinPos + h + 1].id
  <2>1. /\ n \in Nat /\ MinPos \in Nat /\ MinPos <= writePos /\ writePos \in Nat
        /\ MinPos >= writePos - Capacity /\ k \in Nat
    <3>1. writePos \in Nat /\ k \in Nat /\ Capacity \in Nat /\ Gap \in Nat
      BY <1>1 DEF TypeOK, EventsAssumption
    <3>2. MinPos \in 0 .. writePos /\ MinPos >= writePos - (Capacity - Gap)
      BY <1>1, MinPosBounds
    <3> QED BY <3>1, <3>2
  <2>2. PICK r \in 0 .. n : SearchEndsAt(r, k) /\ Open(c, MinPos + r, a)
    BY <1>1 DEF WatchTailAfter
  <2>3. pos'[c] = MinPos + r
    BY <1>1, <2>2 DEF Open, TypeOK
  <2>4. \A h \in 0 .. n - 1 : stream[(MinPos + h) % Capacity].id = id(h) /\ id(h) \in Nat
    <3> SUFFICES ASSUME NEW h \in 0 .. n - 1
                 PROVE  stream[(MinPos + h) % Capacity].id = id(h) /\ id(h) \in Nat
      OBVIOUS
    <3>1. MinPos + h \in 0 .. writePos - 1 /\ MinPos + h >= writePos - Capacity
      BY <2>1
    <3>2. stream[(MinPos + h) % Capacity] = log[MinPos + h + 1]
      BY <1>1, <3>1 DEF RingInvariant, RingHoldsLogTail
    <3>3. log[MinPos + h + 1] \in Event
      BY <1>1, <3>1 DEF TypeOK, RingInvariant, RingHoldsLogTail
    <3> QED BY <3>2, <3>3 DEF Event
  <2>5. \A g, h \in 0 .. n - 1 : g < h => id(g) < id(h)
    <3> SUFFICES ASSUME NEW g \in 0 .. n - 1, NEW h \in 0 .. n - 1, g < h
                 PROVE  id(g) < id(h)
      OBVIOUS
    <3>1. /\ MinPos + g \in MinPos .. writePos - 1 /\ MinPos + h \in MinPos .. writePos - 1
          /\ MinPos + g < MinPos + h
      BY <2>1
    <3> QED BY <1>1, <3>1 DEF InOrder
  <2>6. i - MinPos \in 0 .. n - 1 /\ log[i + 1].id = id(i - MinPos)
    BY <2>1
  <2>7. /\ 0 < r => r - 1 \in Probes[<<0, n, r>>]
        /\ r < n => r \in Probes[<<0, n, r>>]
    BY <2>1, SearchBrackets
  <2> HIDE DEF id
  <2>8. (r < n => id(r) > k) /\ (0 < r => ~(id(r - 1) > k))
    <3>1. \A h \in Probes[<<0, n, r>>] :
            (stream[(MinPos + h) % Capacity].id > k) <=> (h >= r)
      BY <2>2 DEF SearchEndsAt
    <3> HIDE DEF n
    <3>2. ASSUME r < n PROVE id(r) > k
      <4>1. r \in 0 .. n - 1 /\ r \in Probes[<<0, n, r>>] /\ r >= r
        BY <2>1, <2>7, <3>2
      <4> QED BY <2>4, <3>1, <4>1
    <3>3. ASSUME 0 < r PROVE ~(id(r - 1) > k)
      <4>1. r - 1 \in 0 .. n - 1 /\ r - 1 \in Probes[<<0, n, r>>] /\ ~(r - 1 >= r)
        BY <2>1, <2>7, <3>3
      <4> QED BY <2>4, <3>1, <4>1
    <3> QED BY <3>2, <3>3
  <2> HIDE DEF n
  <2>9. CASE i - MinPos >= r
    <3>1. r \in 0 .. n - 1 /\ (i - MinPos = r \/ id(r) < id(i - MinPos))
      BY <2>1, <2>5, <2>6, <2>9
    <3> QED BY <2>1, <2>3, <2>4, <2>6, <2>8, <2>9, <3>1
  <2>10. CASE i - MinPos < r
    <3>1. r - 1 \in 0 .. n - 1 /\ (i - MinPos = r - 1 \/ id(i - MinPos) < id(r - 1))
      BY <2>1, <2>5, <2>6, <2>10
    <3> QED BY <2>1, <2>3, <2>4, <2>6, <2>8, <2>10, <3>1
  <2> QED BY <2>1, <2>6, <2>9, <2>10
<1>2. TypeOK /\ RingInvariant =>
        \A c \in Consumers, k \in 0 .. MaxPublish, a \in Actors :
          WatchTailAfter(c, k, a) /\ InOrder =>
            \A i \in MinPos .. writePos - 1 : (i >= pos'[c]) <=> (log[i + 1].id > k)
  BY <1>1
<1> QED BY <1>2, TypeCorrect, RingCorrect, PTL DEF TailIDExactWhenOrdered

-----------------------------------------------------------------------------
(* Refinement.                                                             *)

\* The ring buffer implements the append-only log with cursors.
THEOREM RingImplementsLog == Spec => ImplementsLog
<1> USE EventsAssumption
<1> DEFINE st  == [c \in Consumers |-> Status(c)]
           cur == [c \in Consumers |-> Cursor(c)]
<1>1. Init => Abstract!Init
  BY DEF Init, Abstract!Init, Status, Cursor, Finished
<1>2. /\ TypeOK /\ TypeOK' /\ RingInvariant /\ [Next]_vars
      => [Abstract!Next]_(Abstract!vars)
  <2> SUFFICES ASSUME TypeOK, TypeOK', RingInvariant, [Next]_vars
               PROVE  Abstract!Next \/ UNCHANGED Abstract!vars
    OBVIOUS
  <2>len. Len(log) = writePos /\ writePos \in Nat /\ log \in Seq(Event)
    BY DEF TypeOK, RingInvariant, RingHoldsLogTail
  <2>1. ASSUME NEW p \in Publishers, NEW a \in Actors, NewEvent(p, a)
        PROVE  UNCHANGED Abstract!vars
    BY <2>1 DEF NewEvent, consumerVars, Abstract!vars, Status, Cursor, Finished
  <2>2. ASSUME NEW p \in Publishers, Publish(p)
        PROVE  Abstract!Publish
    <3>1. st' = st /\ cur' = cur
      BY <2>2 DEF Publish, Broadcast, TypeOK, Status, Cursor, Finished
    <3>2. log' = Append(log, pending[p]) /\ pending[p] \in Event
      BY <2>2 DEF Publish, TypeOK
    <3>3. /\ Len(log') = Len(log) + 1
          /\ log'[Len(log) + 1] = pending[p]
      BY <3>2, <2>len
    <3> QED
      BY <2>2, <3>1, <3>2, <3>3 DEF Publish, Abstract!Publish, Abstract!Event, Event
  <2>3. ASSUME NEW c \in Consumers, NEW a \in Actors, Watch(c, a)
        PROVE  Abstract!Next
    <3>1. PICK from \in MinPos .. writePos : Open(c, from, a)
      BY <2>3, WatchOpens
    <3>2. from \in 0 .. Len(log) /\ from >= Len(log) - (Capacity - Gap)
      BY <2>len, MinPosBounds
    <3>3. /\ st[c] = "new"
          /\ st' = [st EXCEPT ![c] = "open"]
          /\ cur' = [cur EXCEPT ![c] = from]
      BY <3>1, <3>2 DEF Open, TypeOK, Status, Cursor, Finished
    <3>4. Abstract!Open(c, from, a)
      BY <3>1, <3>2, <3>3 DEF Open, Abstract!Open
    <3> QED
      BY <3>2, <3>4 DEF Abstract!Next
  <2>4. ASSUME NEW c \in Consumers, Sleep(c) PROVE UNCHANGED Abstract!vars
    BY <2>4 DEF Sleep, Locked, TypeOK, Abstract!vars, Status, Cursor, Finished
  <2>5. ASSUME NEW c \in Consumers, Overrun(c) PROVE Abstract!Close(c)
    <3>1. /\ st[c] = "open" /\ cur[c] = pos[c]
          /\ st' = [st EXCEPT ![c] = "closed"]
          /\ cur' = cur
      BY <2>5 DEF Overrun, Locked, TypeOK, Status, Cursor, Finished
    <3> QED
      BY <2>5, <2>len, <3>1 DEF Overrun, Lapped, Abstract!Close
  <2>6. ASSUME NEW c \in Consumers, Take(c)
        PROVE  Abstract!Skip(c) \/ UNCHANGED Abstract!vars
    <3>1. /\ pos[c] \in 0 .. writePos - 1
          /\ stream[pos[c] % Capacity] = log[pos[c] + 1]
      BY <2>6, TakeReadsLog
    <3>2. CASE Passes(c, log[pos[c] + 1])
      <4>1. /\ pc' = [pc EXCEPT ![c] = "send"]
            /\ pos' = [pos EXCEPT ![c] = @ + 1]
            /\ pc[c] \in {"loop", "woken"}
        BY <2>6, <3>1, <3>2 DEF Take, Locked
      <4>2. ASSUME NEW d \in Consumers
            PROVE  Status(d)' = Status(d) /\ Cursor(d)' = Cursor(d)
        <5>1. CASE d = c
          <6>1. pos[c] \in Nat /\ pos'[c] = pos[c] + 1 /\ pc'[c] = "send"
            BY <4>1 DEF TypeOK
          <6>2. (pos[c] + 1) - 1 = pos[c]
            BY <6>1
          <6> QED
            BY <4>1, <5>1, <6>1, <6>2 DEF Status, Cursor, Finished
        <5>2. CASE d /= c
          <6>1. pos'[d] = pos[d] /\ pc'[d] = pc[d]
            BY <4>1, <5>2 DEF TypeOK
          <6> QED
            BY <6>1 DEF Status, Cursor, Finished
        <5> QED
          BY <5>1, <5>2
      <4>3. st' = st /\ cur' = cur
        BY <4>2
      <4> QED
        BY <2>6, <4>3 DEF Take, Abstract!vars
    <3>3. CASE ~Passes(c, log[pos[c] + 1])
      <4>1. /\ pc' = [pc EXCEPT ![c] = "loop"]
            /\ pos' = [pos EXCEPT ![c] = @ + 1]
            /\ pc[c] \in {"loop", "woken"}
        BY <2>6, <3>1, <3>3 DEF Take, Locked
      <4>2. /\ st[c] = "open" /\ cur[c] = pos[c]
            /\ st' = st
            /\ cur' = [cur EXCEPT ![c] = @ + 1]
        BY <4>1 DEF TypeOK, Status, Cursor, Finished
      <4>3. cur[c] < Len(log) /\ cur[c] + 1 = pos[c] + 1
        BY <2>len, <3>1, <4>2
      <4>4. ~Abstract!Passes(c, log[cur[c] + 1])
        BY <3>3, <4>3 DEF Passes, Abstract!Passes
      <4> QED
        BY <2>6, <4>2, <4>3, <4>4 DEF Take, Abstract!Skip
    <3> QED
      BY <3>2, <3>3
  <2>7. ASSUME NEW c \in Consumers, Receive(c) PROVE Abstract!Next
    <3>1. /\ pos[c] > 0 /\ pos[c] <= Len(log)
          /\ item[c].event = log[pos[c]]
          /\ Passes(c, log[pos[c]])
          /\ item[c].backlog \in 0 .. Capacity - 1
          /\ item[c].backlog <= Len(log) - pos[c]
      BY <2>7, <2>len
         DEF Receive, RingInvariant, ItemIsLogEntry, ConsumersPlaced
    <3>2. /\ st[c] = "open" /\ cur[c] = pos[c] - 1
          /\ st' = st
          /\ cur' = [cur EXCEPT ![c] = @ + 1]
      <4>1. /\ pc[c] = "send" /\ pc' = [pc EXCEPT ![c] = "loop"]
            /\ pos' = pos /\ pos[c] \in Nat
        BY <2>7 DEF Receive, TypeOK
      <4>2. (pos[c] - 1) + 1 = pos[c]
        BY <4>1
      <4> QED
        BY <4>1, <4>2 DEF TypeOK, Status, Cursor, Finished
    <3>3. item[c] = [event |-> log[pos[c]], backlog |-> item[c].backlog]
      BY <3>1 DEF TypeOK, EventInfo
    <3>4. pos[c] \in Nat /\ cur[c] + 1 = pos[c]
      BY <3>2 DEF TypeOK
    <3>5. /\ cur[c] < Len(log)
          /\ item[c].backlog < Len(log) - cur[c]
          /\ Abstract!Passes(c, log[cur[c] + 1])
          /\ item[c] = [event |-> log[cur[c] + 1], backlog |-> item[c].backlog]
      <4> HIDE DEF cur
      <4>1. cur[c] = pos[c] - 1 /\ Len(log) \in Nat /\ item[c].backlog \in Int
        BY <2>len, <3>1, <3>2
      <4>2. cur[c] < Len(log) /\ item[c].backlog < Len(log) - cur[c]
        BY <3>1, <3>4, <4>1
      <4> QED
        BY <3>1, <3>3, <3>4, <4>2 DEF Passes, Abstract!Passes
    <3>6. Abstract!Deliver(c, item[c].backlog)
      BY <2>7, <3>2, <3>5 DEF Receive, Abstract!Deliver
    <3> QED
      BY <3>1, <3>6 DEF Abstract!Next
  <2>8. ASSUME NEW c \in Consumers, Abort(c) PROVE Abstract!Close(c)
    <3>1. /\ st[c] = "open"
          /\ st' = [st EXCEPT ![c] = "closed"]
          /\ cur' = cur
      BY <2>8 DEF Abort, TypeOK, Status, Cursor, Finished
    <3> QED
      BY <2>8, <3>1 DEF Abort, Abstract!Close
  <2>9. ASSUME NEW c \in Consumers, WatchFuncReturns(c) PROVE Abstract!Cancel(c)
    <3>1. st[c] /= "new" /\ st' = st /\ cur' = cur
      BY <2>9 DEF WatchFuncReturns, Status, Cursor, Finished
    <3> QED
      BY <2>9, <3>1 DEF WatchFuncReturns, Abstract!Cancel
  <2>10. CASE UNCHANGED vars
    BY <2>10 DEF vars, consumerVars, Abstract!vars, Status, Cursor, Finished
  <2> QED
    BY <2>1, <2>2, <2>3, <2>4, <2>5, <2>6, <2>7, <2>8, <2>9, <2>10
       DEF Next, Goroutine, Abstract!Next
<1> QED
  BY <1>1, <1>2, TypeCorrect, RingCorrect, PTL
     DEF Spec, ImplementsLog, Abstract!Spec

-----------------------------------------------------------------------------
(* The history of service events, module History.                          *)

\* Numbers that differ by rounds of the ring are in the same slot.
LEMMA SameSlot ==
  ASSUME NEW c \in Nat \ {0}, NEW n \in Nat, NEW r \in 0 .. c - 1, NEW q \in Int,
         n = c * q + r
  PROVE  n % c = r
<1>1. n % c \in 0 .. c - 1 /\ n = c * (n \div c) + (n % c) /\ n \div c \in Nat
  BY DivMod
<1> DEFINE d == q - (n \div c)
<1>2. d \in Int /\ (n % c) - r = c * d
  <2>1. c * q - c * (n \div c) = c * d
    BY <1>1
  <2> QED BY <1>1, <2>1
<1> HIDE DEF d
<1>3. CASE d >= 1
  BY <1>1, <1>2, <1>3, Products
<1>4. CASE d <= -1
  <2>1. -d >= 1 /\ -d \in Int /\ c * (-d) = -(c * d)
    BY <1>2, <1>4
  <2>2. c * (-d) >= c
    BY <2>1, Products
  <2> QED BY <1>1, <1>2, <2>1, <2>2
<1>5. CASE d = 0
  BY <1>1, <1>2, <1>5
<1> QED BY <1>2, <1>3, <1>4, <1>5

\* Moving by one round stays in the slot.
LEMMA NextRound ==
  ASSUME NEW c \in Nat \ {0}, NEW n \in Nat
  PROVE  (n + c) % c = n % c
<1>1. n % c \in 0 .. c - 1 /\ n = c * (n \div c) + (n % c) /\ n \div c \in Nat
  BY DivMod
<1>2. n + c = c * ((n \div c) + 1) + (n % c)
  BY <1>1
<1>3. (n \div c) + 1 \in Int /\ n + c \in Nat
  BY <1>1
<1> QED BY <1>1, <1>2, <1>3, SameSlot

\* The remainder of a number behind a slot: i is the slot of m.
LEMMA BehindSlot ==
  ASSUME NEW c \in Nat \ {0}, NEW m \in Nat, NEW x \in 0 .. c - 1
  PROVE  (m + x - (m % c)) % c = x
<1>1. m % c \in 0 .. c - 1 /\ m = c * (m \div c) + (m % c) /\ m \div c \in Nat
  BY DivMod
<1>2. m + x - (m % c) = c * (m \div c) + x
  BY <1>1
<1>3. c * (m \div c) \in Nat
  BY <1>1
<1>4. m + x - (m % c) \in Nat /\ m \div c \in Int
  BY <1>1, <1>2, <1>3
<1> QED BY <1>2, <1>4, SameSlot

\* The successor of a number is in the next slot, or in the first.
LEMMA NextSlot ==
  ASSUME NEW c \in Nat \ {0}, NEW n \in Nat
  PROVE  (n + 1) % c = IF n % c = c - 1 THEN 0 ELSE (n % c) + 1
<1>1. n % c \in 0 .. c - 1 /\ n = c * (n \div c) + (n % c) /\ n \div c \in Nat
  BY DivMod
<1>2. CASE n % c = c - 1
  <2>1. n + 1 = c * ((n \div c) + 1) + 0
    BY <1>1, <1>2
  <2>2. (n \div c) + 1 \in Int /\ n + 1 \in Nat /\ 0 \in 0 .. c - 1
    BY <1>1
  <2>3. (n + 1) % c = 0
    BY <2>1, <2>2, SameSlot
  <2> QED BY <1>2, <2>3
<1>3. CASE n % c /= c - 1
  <2>1. n + 1 = c * (n \div c) + ((n % c) + 1)
    BY <1>1
  <2>2. n \div c \in Int /\ n + 1 \in Nat /\ (n % c) + 1 \in 0 .. c - 1
    BY <1>1, <1>3
  <2>3. (n + 1) % c = (n % c) + 1
    BY <2>1, <2>2, SameSlot
  <2> QED BY <1>3, <2>3
<1> QED BY <1>2, <1>3

\* The history after n pushes: slot i holds the last event k with k - 1 in
\* that slot.
LastIn(n, i) == IF i >= n THEN Empty ELSE n - ((n - 1 - i) % MaxEventsToKeep)

Ring(n) ==
  [events    |-> [i \in Slots |-> LastIn(n, i)],
   pos       |-> n % MaxEventsToKeep,
   discarded |-> IF n > MaxEventsToKeep THEN n - MaxEventsToKeep ELSE 0]

\* Pushing event n turns the history of n - 1 events into that of n.
LEMMA PushRing ==
  ASSUME NEW n \in Nat \ {0}
  PROVE  Push(Ring(n - 1), n) = Ring(n)
<1> USE HistoryAssumption
<1> DEFINE M == MaxEventsToKeep
           p == (n - 1) % M
<1>1. p \in 0 .. M - 1 /\ n - 1 \in Nat /\ M \in Nat \ {0}
  BY DivMod
<1>2. p <= n - 1 /\ (p < n - 1 <=> n > M)
  <2>1. CASE n - 1 < M
    <3>1. p = n - 1
      BY <2>1
    <3> QED BY <1>1, <2>1, <3>1
  <2>2. CASE n - 1 >= M
    BY <1>1, <2>2
  <2> QED BY <1>1, <2>1, <2>2
<1> HIDE DEF p
<1>3. ASSUME NEW i \in Slots PROVE LastIn(n, i) = IF i = p THEN n ELSE LastIn(n - 1, i)
  <2>1. i \in 0 .. M - 1
    BY DEF Slots
  <2>2. CASE i = p
    <3>1. 0 \in 0 .. M - 1
      BY <1>1
    <3>2. (n - 1 + 0 - p) % M = 0
      BY <1>1, <3>1, BehindSlot DEF p
    <3>3. n - 1 + 0 - p = n - 1 - i
      BY <1>1, <2>2
    <3>4. (n - 1 - i) % M = 0
      BY <3>2, <3>3
    <3>5. ~(i >= n)
      BY <1>1, <1>2, <2>2
    <3> QED BY <2>2, <3>4, <3>5 DEF LastIn
  <2>3. CASE i /= p /\ i >= n - 1
    <3>1. i /= n - 1
      <4> SUFFICES ASSUME i = n - 1 PROVE FALSE
        OBVIOUS
      <4>1. p = i
        BY <1>1, <2>1 DEF p
      <4> QED BY <2>3, <4>1
    <3> QED BY <1>1, <2>1, <2>3, <3>1 DEF LastIn
  <2>4. CASE i /= p /\ i < n - 1
    <3> DEFINE x == n - 2 - i
    <3>1. x \in Nat
      BY <1>1, <2>1, <2>4
    <3>2. x % M \in 0 .. M - 1 /\ x = M * (x \div M) + (x % M) /\ x \div M \in Nat
      BY <1>1, <3>1, DivMod
    <3>3. x % M /= M - 1
      <4> SUFFICES ASSUME x % M = M - 1 PROVE FALSE
        OBVIOUS
      <4>1. n - 1 = M * ((x \div M) + 1) + i
        BY <2>1, <3>1, <3>2
      <4>2. (x \div M) + 1 \in Int
        BY <3>2
      <4> HIDE DEF x
      <4>3. (n - 1) % M = i
        BY <1>1, <2>1, <4>1, <4>2, SameSlot
      <4> QED BY <2>4, <4>3 DEF p
    <3>4. (x + 1) % M = (x % M) + 1
      BY <1>1, <3>1, <3>3, NextSlot
    <3>5. x + 1 = n - 1 - i /\ x = (n - 1) - 1 - i
      BY <2>1
    <3>6. /\ LastIn(n, i) = n - ((x + 1) % M)
          /\ LastIn(n - 1, i) = (n - 1) - (x % M)
      <4> HIDE DEF x
      <4> QED BY <1>1, <2>1, <2>4, <3>5 DEF LastIn
    <3> HIDE DEF x
    <3> QED BY <2>4, <3>2, <3>4, <3>6
  <2> QED BY <1>1, <2>1, <2>2, <2>3, <2>4
<1>4. Ring(n - 1).pos = p /\ p \in Slots
  BY <1>1 DEF Ring, p, Slots
<1>5. Push(Ring(n - 1), n).events = Ring(n).events
  <2>1. Ring(n - 1).events \in [Slots -> {LastIn(n - 1, i) : i \in Slots}]
    BY DEF Ring
  <2> HIDE DEF LastIn
  <2> QED BY <1>3, <1>4 DEF Push, Ring
<1>6. Push(Ring(n - 1), n).pos = Ring(n).pos
  <2>1. (n - 1) + 1 = n
    OBVIOUS
  <2>2. n % M = IF p = M - 1 THEN 0 ELSE p + 1
    BY <1>1, <2>1, NextSlot DEF p
  <2>3. (p + 1) % M = IF p = M - 1 THEN 0 ELSE p + 1
    BY <1>1
  <2> QED BY <1>4, <2>2, <2>3 DEF Push, Ring
<1>7. Push(Ring(n - 1), n).discarded = Ring(n).discarded
  <2>1. Ring(n - 1).events[p] = LastIn(n - 1, p)
    BY <1>4 DEF Ring
  <2>2. LastIn(n - 1, p) /= Empty <=> n > M
    <3>1. CASE p >= n - 1
      BY <1>1, <1>2, <3>1 DEF LastIn
    <3>2. CASE p < n - 1
      <4>1. (n - 1) - 1 - p \in Nat
        BY <1>1, <3>2
      <4>2. ((n - 1) - 1 - p) % M <= (n - 1) - 1 - p /\ ((n - 1) - 1 - p) % M \in Nat
        BY <1>1, <4>1
      <4>3. LastIn(n - 1, p) = (n - 1) - (((n - 1) - 1 - p) % M)
        BY <1>1, <3>2 DEF LastIn
      <4>4. LastIn(n - 1, p) > 0
        BY <1>1, <4>1, <4>2, <4>3
      <4> QED BY <1>2, <3>2, <4>4 DEF Empty
    <3> QED BY <1>1, <3>1, <3>2
  <2>3. Push(Ring(n - 1), n).discarded =
          Ring(n - 1).discarded + IF n > M THEN 1 ELSE 0
    BY <1>4, <2>1, <2>2 DEF Push
  <2>4. Ring(n - 1).discarded = (IF n - 1 > M THEN n - 1 - M ELSE 0)
    BY DEF Ring
  <2>5. Ring(n).discarded = (IF n > M THEN n - M ELSE 0)
    BY DEF Ring
  <2> QED BY <1>1, <2>3, <2>4, <2>5
<1> QED BY <1>5, <1>6, <1>7 DEF Push, Ring

\* Before the first push.
LEMMA RingOfNothing == Ring(0) = New
<1>1. \A i \in Slots : LastIn(0, i) = Empty
  BY HistoryAssumption DEF LastIn, Slots
<1>2. 0 % MaxEventsToKeep = 0 /\ ~(0 > MaxEventsToKeep)
  BY HistoryAssumption
<1> QED BY <1>1, <1>2 DEF Ring, New

\* The closed form solves the recursive definition, which so has a solution.
LEMMA PushedDef ==
  \A n \in Nat : Pushed[n] = IF n = 0 THEN New ELSE Push(Pushed[n - 1], n)
<1> DEFINE Body(f, n) == IF n = 0 THEN New ELSE Push(f[n - 1], n)
           Solves(f) == f = [n \in Nat |-> Body(f, n)]
           ring == [n \in Nat |-> Ring(n)]
<1>1. Pushed = CHOOSE f : Solves(f)
  BY DEF Pushed
<1>2. Solves(ring)
  <2>1. ASSUME NEW n \in Nat PROVE Ring(n) = Body(ring, n)
    <3>1. CASE n = 0
      BY <3>1, RingOfNothing
    <3>2. CASE n /= 0
      <4>1. n - 1 \in Nat /\ n \in Nat \ {0}
        BY <3>2
      <4>2. ring[n - 1] = Ring(n - 1)
        BY <4>1
      <4>3. Push(Ring(n - 1), n) = Ring(n)
        BY <4>1, PushRing
      <4> QED BY <3>2, <4>2, <4>3
    <3> QED BY <3>1, <3>2
  <2> HIDE DEF Body
  <2> QED BY <2>1
<1> HIDE DEF Solves, ring
<1>3. Solves(CHOOSE f : Solves(f))
  BY <1>2, Zenon
<1>4. Solves(Pushed)
  BY <1>1, <1>3
<1> QED BY <1>4 DEF Solves

\* The recursive definition and the closed form are the same.
LEMMA PushedIsRing == \A n \in Nat : Pushed[n] = Ring(n)
<1> DEFINE G == {n \in Nat : Pushed[n] = Ring(n)}
<1>1. ASSUME NEW n \in Nat, \A m \in 0 .. n - 1 : m \in G
      PROVE  n \in G
  <2>1. CASE n = 0
    <3>1. Pushed[0] = New
      BY PushedDef
    <3> QED BY <2>1, <3>1, RingOfNothing
  <2>2. CASE n /= 0
    <3>1. n - 1 \in 0 .. n - 1 /\ n \in Nat \ {0}
      BY <2>2
    <3>2. Pushed[n - 1] = Ring(n - 1)
      BY <1>1, <3>1
    <3>3. Pushed[n] = Push(Pushed[n - 1], n)
      BY <2>2, PushedDef
    <3>4. Push(Ring(n - 1), n) = Ring(n)
      BY <3>1, PushRing
    <3> QED BY <3>2, <3>3, <3>4
  <2> QED BY <2>1, <2>2
<1>2. Nat \subseteq G
  <2> HIDE DEF G
  <2> QED BY <1>1, NatInduct
<1> QED BY <1>2

\* Round k of a Get of c events finds event n - c + k, or an empty slot when
\* there is no such event.
LEMMA RoundFinds ==
  ASSUME NEW n \in Nat, NEW c \in 1 .. MaxEventsToKeep, NEW k \in 1 .. c
  PROVE  LET slot == (GetStart(Ring(n), c) + k - 1) % MaxEventsToKeep
         IN  /\ slot \in Slots
             /\ Ring(n).events[slot] = IF n - c + k >= 1 THEN n - c + k ELSE Empty
<1> USE HistoryAssumption
<1> DEFINE M == MaxEventsToKeep
           slot == (GetStart(Ring(n), c) + k - 1) % M
           m == n - c + k - 1
<1>1. M \in Nat \ {0} /\ c <= M /\ c \in Nat /\ k \in Nat /\ k >= 1 /\ k <= c
  OBVIOUS
<1>2. n % M \in 0 .. M - 1 /\ n = M * (n \div M) + (n % M) /\ n \div M \in Nat
  BY <1>1, DivMod
<1>3. PICK y \in Nat : y = (n % M) - c + M
  <2>1. (n % M) - c + M \in Nat
    BY <1>1, <1>2
  <2> QED BY <2>1
<1>4. GetStart(Ring(n), c) = y % M
  BY <1>3 DEF GetStart, Ring
<1>5. y % M \in 0 .. M - 1 /\ y = M * (y \div M) + (y % M) /\ y \div M \in Nat
  BY <1>1, <1>3, DivMod
<1>6. (y % M) + k - 1 \in Nat
  BY <1>1, <1>5
<1>7. PICK z \in Nat : z = (y % M) + k - 1
  BY <1>6
<1>8. z % M \in 0 .. M - 1 /\ z = M * (z \div M) + (z % M) /\ z \div M \in Nat
  BY <1>1, <1>7, DivMod
<1>9. slot = z % M
  BY <1>4, <1>7
<1>10. slot \in 0 .. M - 1 /\ slot \in Slots
  BY <1>8, <1>9 DEF Slots
<1>11. m \in Int /\ m + M \in Nat /\ (m + M) % M = slot
  <2>1. PICK a \in Int, b \in Int, d \in Int : a = n \div M /\ b = y \div M /\ d = z \div M
    BY <1>2, <1>5, <1>8
  <2>2. /\ n = M * a + (n % M) /\ y = M * b + (y % M) /\ z = M * d + slot
        /\ M * a \in Int /\ M * b \in Int /\ M * d \in Int
    BY <1>1, <1>2, <1>5, <1>8, <1>9, <2>1
  <2> HIDE DEF slot
  <2>3. m + M = M * a + M * b + M * d + slot
    BY <1>1, <1>2, <1>3, <1>5, <1>7, <1>10, <2>2
  <2>4. M * a + M * b + M * d = M * (a + b + d) /\ a + b + d \in Int
    BY <1>1, <2>1
  <2>5. m \in Int /\ m + M \in Nat
    BY <1>1
  <2>6. m + M = M * (a + b + d) + slot
    BY <2>3, <2>4
  <2> HIDE DEF m
  <2> QED BY <1>1, <1>10, <2>4, <2>5, <2>6, SameSlot
<1>12. Ring(n).events[slot] = LastIn(n, slot)
  <2> HIDE DEF slot
  <2> QED BY <1>10 DEF Ring
<1> HIDE DEF slot
<1>13. ASSUME n - c + k >= 1 PROVE Ring(n).events[slot] = n - c + k
  <2>1. m \in Nat
    BY <1>1, <1>13
  <2>2. m % M = slot /\ slot <= m
    <3> HIDE DEF m
    <3>1. m % M = slot
      BY <1>1, <1>11, <2>1, NextRound
    <3> QED BY <1>1, <2>1, <3>1
  <2>3. PICK x \in 0 .. M - 1 : x = c - k
    BY <1>1
  <2>4. (m + x - slot) % M = x
    <3> HIDE DEF m
    <3> QED BY <1>1, <2>1, <2>2, BehindSlot
  <2>5. m + x - slot = n - 1 - slot /\ ~(slot >= n)
    BY <1>1, <1>10, <2>2, <2>3
  <2>6. LastIn(n, slot) = n - x
    BY <2>4, <2>5 DEF LastIn
  <2> QED BY <1>1, <1>12, <2>3, <2>6
<1>14. ASSUME ~(n - c + k >= 1) PROVE Ring(n).events[slot] = Empty
  <2>1. m + M \in 0 .. M - 1 /\ m + M >= n
    BY <1>1, <1>14
  <2>2. (m + M) % M = m + M
    <3> HIDE DEF m
    <3> QED BY <1>1, <2>1
  <2>3. slot >= n
    BY <1>11, <2>1, <2>2
  <2> QED BY <1>12, <2>3 DEF LastIn
<1> QED BY <1>13, <1>14, <1>10 DEF slot

\* What k rounds of a Get of c events have collected: the first rounds find
\* empty slots when fewer than c events were pushed.
EmptyRounds(n, c) == IF c > n THEN c - n ELSE 0

Collected(n, c, k) ==
  [i \in 1 .. k - EmptyRounds(n, c) |-> n - c + EmptyRounds(n, c) + i]

\* One round, for any function in the place of result.
Round(f, n, c, k) ==
  LET e == Ring(n).events[(GetStart(Ring(n), c) + k - 1) % MaxEventsToKeep]
  IN  IF e /= Empty THEN Append(f[k - 1], e) ELSE f[k - 1]

\* A round adds the next event, once there is one.
LEMMA RoundCollects ==
  ASSUME NEW n \in Nat, NEW c \in 1 .. MaxEventsToKeep, NEW k \in 1 .. c,
         NEW f, f[k - 1] = Collected(n, c, k - 1)
  PROVE  Round(f, n, c, k) = Collected(n, c, k)
<1> USE HistoryAssumption
<1> DEFINE z == EmptyRounds(n, c)
           e == Ring(n).events[(GetStart(Ring(n), c) + k - 1) % MaxEventsToKeep]
<1>1. e = IF n - c + k >= 1 THEN n - c + k ELSE Empty
  BY RoundFinds
<1>2. z \in Nat /\ n - c + z \in Nat /\ (k > z <=> n - c + k >= 1)
  BY DEF EmptyRounds
<1>3. k \in Nat /\ c \in Nat /\ k >= 1
  OBVIOUS
<1>4. Round(f, n, c, k) = IF e /= Empty THEN Append(f[k - 1], e) ELSE f[k - 1]
  BY DEF Round
<1> HIDE DEF z, e
<1>5. CASE k > z
  <2>1. e = n - c + k /\ e /= Empty /\ e \in Nat
    BY <1>1, <1>2, <1>3, <1>5 DEF Empty
  <2>2. PICK w \in Nat : w = k - 1 - z
    <3>1. k - 1 - z \in Nat
      BY <1>2, <1>3, <1>5
    <3> QED BY <3>1
  <2>3. PICK b \in Nat : b = n - c + z
    BY <1>2
  <2>4. /\ Collected(n, c, k - 1) = [i \in 1 .. w |-> b + i]
        /\ Collected(n, c, k) = [i \in 1 .. w + 1 |-> b + i]
    <3>1. k - z = w + 1 /\ (k - 1) - z = w
      BY <1>2, <1>3, <2>2
    <3> QED BY <2>3, <3>1 DEF Collected, z
  <2>5. e = b + (w + 1)
    BY <1>2, <1>3, <2>1, <2>2, <2>3
  <2>6. Append([i \in 1 .. w |-> b + i], b + (w + 1)) = [i \in 1 .. w + 1 |-> b + i]
    <3> DEFINE s == [i \in 1 .. w |-> b + i]
    <3>1. s \in Seq(Nat) /\ Len(s) = w
      OBVIOUS
    <3>2. /\ Append(s, b + (w + 1)) \in Seq(Nat)
          /\ Len(Append(s, b + (w + 1))) = w + 1
          /\ \A i \in 1 .. w + 1 : Append(s, b + (w + 1))[i] =
               IF i = w + 1 THEN b + (w + 1) ELSE s[i]
      <4> HIDE DEF s
      <4> QED BY <3>1
    <3>3. \A i \in 1 .. w + 1 : Append(s, b + (w + 1))[i] = b + i
      BY <3>2
    <3> HIDE DEF s
    <3>4. Append(s, b + (w + 1)) = [i \in 1 .. w + 1 |-> b + i]
      BY <3>2, <3>3
    <3> QED BY <3>4 DEF s
  <2> QED BY <1>4, <2>1, <2>4, <2>5, <2>6
<1>6. CASE ~(k > z)
  <2>1. e = Empty
    BY <1>1, <1>2, <1>6
  <2>2. 1 .. k - z = {} /\ 1 .. (k - 1) - z = {}
    BY <1>2, <1>3, <1>6
  <2>3. Collected(n, c, k - 1) = Collected(n, c, k)
    BY <2>2 DEF Collected, z
  <2> QED BY <1>4, <2>1, <2>3
<1> QED BY <1>5, <1>6

\* The loop of Get collects, round by round, the last events.
LEMMA RoundsCollect ==
  ASSUME NEW n \in Nat, NEW c \in 1 .. MaxEventsToKeep
  PROVE  Rounds(Ring(n), c)[c] = Collected(n, c, c)
<1> USE HistoryAssumption
<1> DEFINE Body(f, k) == IF k = 0 THEN << >> ELSE Round(f, n, c, k)
           Solves(f) == f = [k \in 0 .. c |-> Body(f, k)]
           all == [k \in 0 .. c |-> Collected(n, c, k)]
           rounds == Rounds(Ring(n), c)
<1>1. rounds = CHOOSE f : Solves(f)
  BY DEF Rounds, Round
<1>2. Collected(n, c, 0) = << >>
  <2>1. 1 .. 0 - EmptyRounds(n, c) = {}
    BY DEF EmptyRounds
  <2> QED BY <2>1 DEF Collected
<1>3. Solves(all)
  <2>1. ASSUME NEW k \in 0 .. c PROVE Collected(n, c, k) = Body(all, k)
    <3>1. CASE k = 0
      BY <1>2, <3>1
    <3>2. CASE k /= 0
      <4>1. k \in 1 .. c /\ k - 1 \in 0 .. c
        BY <3>2
      <4>2. all[k - 1] = Collected(n, c, k - 1)
        BY <4>1
      <4> HIDE DEF all
      <4>3. Round(all, n, c, k) = Collected(n, c, k)
        BY <4>1, <4>2, RoundCollects
      <4> QED BY <3>2, <4>3
    <3> QED BY <3>1, <3>2
  <2> HIDE DEF Body
  <2> QED BY <2>1
<1> HIDE DEF Solves, all
<1>4. Solves(CHOOSE f : Solves(f))
  BY <1>3, Zenon
<1>5. Solves(rounds)
  BY <1>1, <1>4
<1>6. \A k \in 0 .. c : rounds[k] = Body(rounds, k)
  <2> HIDE DEF Body, rounds
  <2> QED BY <1>5 DEF Solves
<1> HIDE DEF rounds
<1> DEFINE G == {k \in Nat : k <= c => rounds[k] = Collected(n, c, k)}
<1>7. ASSUME NEW k \in Nat, \A m \in 0 .. k - 1 : m \in G
      PROVE  k \in G
  <2>1. CASE k = 0
    BY <1>2, <1>6, <2>1
  <2>2. CASE k /= 0 /\ k <= c
    <3>1. k \in 1 .. c /\ k - 1 \in 0 .. k - 1 /\ k - 1 <= c /\ k \in 0 .. c
      BY <2>2
    <3>2. rounds[k - 1] = Collected(n, c, k - 1)
      BY <1>7, <3>1
    <3>3. rounds[k] = Round(rounds, n, c, k)
      BY <1>6, <2>2, <3>1
    <3>4. Round(rounds, n, c, k) = Collected(n, c, k)
      BY <3>1, <3>2, RoundCollects
    <3> QED BY <3>3, <3>4
  <2>3. CASE ~(k <= c)
    BY <2>3
  <2> QED BY <2>1, <2>2, <2>3
<1>8. Nat \subseteq G
  <2> HIDE DEF G
  <2> QED BY <1>7, NatInduct
<1>9. c \in G /\ c <= c
  <2> HIDE DEF G
  <2>1. c \in Nat /\ c <= c
    OBVIOUS
  <2> QED BY <1>8, <2>1
<1> QED BY <1>9 DEF rounds

\* GetEventHistory returns the last events of a service, whatever the size of
\* the ring, the number of events pushed and the count asked for.
THEOREM GetReturnsTail == \A n \in Nat, count \in Int : GetsTail(n, count)
<1> USE HistoryAssumption
<1> SUFFICES ASSUME NEW n \in Nat, NEW count \in Int PROVE GetsTail(n, count)
  OBVIOUS
<1> DEFINE M == MaxEventsToKeep
           c == IF count > M THEN M ELSE count
           bounds == {n, count, M}
           size == CHOOSE k \in bounds : \A j \in bounds : k <= j
<1>1. size \in bounds /\ \A j \in bounds : size <= j
  <2>1. \E k \in bounds : \A j \in bounds : k <= j
    <3>1. CASE n <= count /\ n <= M
      BY <3>1
    <3>2. CASE count <= n /\ count <= M
      BY <3>2
    <3>3. CASE M <= n /\ M <= count
      BY <3>3
    <3> HIDE DEF bounds
    <3> QED BY <3>1, <3>2, <3>3
  <2> HIDE DEF bounds
  <2> QED BY <2>1
<1>2. size \in Int /\ size = IF c > n THEN n ELSE c
  <2> HIDE DEF size
  <2> QED BY <1>1
<1> HIDE DEF size
<1>3. Pushed[n] = Ring(n)
  BY PushedIsRing
<1>4. Get(Pushed[n], count) = [i \in 1 .. size |-> n - size + i]
  <2>1. CASE c > 0
    <3>1. c \in 1 .. M /\ c \in Nat
      BY <2>1
    <3>2. Get(Pushed[n], count) = Rounds(Ring(n), c)[c]
      BY <1>3, <2>1 DEF Get
    <3> HIDE DEF c
    <3>3. Rounds(Ring(n), c)[c] = Collected(n, c, c)
      BY <3>1, RoundsCollect
    <3>4. c - EmptyRounds(n, c) = size /\ n - c + EmptyRounds(n, c) = n - size
      BY <1>2, <3>1 DEF EmptyRounds
    <3>5. Collected(n, c, c) = [i \in 1 .. size |-> n - size + i]
      BY <3>4 DEF Collected
    <3> QED BY <3>2, <3>3, <3>5
  <2>2. CASE ~(c > 0)
    <3>1. Get(Pushed[n], count) = << >>
      BY <2>2 DEF Get
    <3>2. 1 .. size = {}
      BY <1>2, <2>2
    <3> QED BY <3>1, <3>2
  <2> QED BY <2>1, <2>2
<1> QED BY <1>4 DEF GetsTail, size

\* Events are kept or counted as discarded, for any ring and number of events.
THEOREM DiscardedAreCounted == \A n \in Nat : CountsDiscarded(n)
<1> USE HistoryAssumption
<1> SUFFICES ASSUME NEW n \in Nat PROVE CountsDiscarded(n)
  OBVIOUS
<1> DEFINE M == MaxEventsToKeep
           size == IF M > n THEN n ELSE M
<1>1. M \in 1 .. M /\ M \in Nat /\ M > 0 /\ ~(M > M)
  OBVIOUS
<1>2. Get(Pushed[n], M) = Collected(n, M, M)
  <2>1. Get(Ring(n), M) = Rounds(Ring(n), M)[M]
    BY <1>1 DEF Get
  <2> QED BY <1>1, <2>1, PushedIsRing, RoundsCollect
<1>3. M - EmptyRounds(n, M) = size /\ size \in Nat
  BY <1>1 DEF EmptyRounds
<1>4. Len(Collected(n, M, M)) = size
  <2> HIDE DEF size
  <2>1. Collected(n, M, M) = [i \in 1 .. size |-> n - M + EmptyRounds(n, M) + i]
    BY <1>3 DEF Collected
  <2> QED BY <1>3, <2>1
<1>5. Pushed[n].discarded = IF n > M THEN n - M ELSE 0
  <2>1. Ring(n).discarded = IF n > M THEN n - M ELSE 0
    BY DEF Ring
  <2>2. Pushed[n] = Ring(n)
    BY PushedIsRing
  <2> QED BY <2>1, <2>2
<1> QED BY <1>1, <1>2, <1>4, <1>5 DEF CountsDiscarded
=============================================================================
