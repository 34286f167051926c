------------------------------ MODULE History -------------------------------
(***************************************************************************)
(* ServiceEvents of events/events.go: the last MaxEventsToKeep events of a *)
(* service in a ring, read by GetEventHistory.  A history is a record of   *)
(* the three fields of the struct.  A slot is in use when its message is   *)
(* not empty; every event the runner pushes has a message.  Events are     *)
(* numbers, in the order they are pushed, and 0 is the empty message.      *)
(***************************************************************************)
EXTENDS Integers, Sequences

CONSTANTS MaxEventsToKeep,
          MaxPushes         \* bound on the events pushed

ASSUME HistoryAssumption == MaxEventsToKeep \in Nat \ {0} /\ MaxPushes \in Nat

Slots == 0 .. MaxEventsToKeep - 1
Empty == 0

New == [events |-> [i \in Slots |-> Empty], pos |-> 0, discarded |-> 0]

Push(h, e) ==
  [events    |-> [h.events EXCEPT ![h.pos] = e],
   pos       |-> (h.pos + 1) % MaxEventsToKeep,
   discarded |-> h.discarded + IF h.events[h.pos] /= Empty THEN 1 ELSE 0]

\* Where the last count events begin; the sum keeps % above zero.
GetStart(h, count) == (h.pos - count + MaxEventsToKeep) % MaxEventsToKeep

\* The result after k of the count rounds of Get's loop.
Rounds(h, count) ==
  LET result[k \in 0 .. count] ==
        IF k = 0 THEN << >>
        ELSE LET e == h.events[(GetStart(h, count) + k - 1) % MaxEventsToKeep]
             IN  IF e /= Empty THEN Append(result[k - 1], e) ELSE result[k - 1]
  IN  result

Get(h, count) ==
  LET c == IF count > MaxEventsToKeep THEN MaxEventsToKeep ELSE count
  IN  IF c > 0 THEN Rounds(h, c)[c] ELSE << >>

\* The history after events 1 .. n.
Pushed[n \in Nat] == IF n = 0 THEN New ELSE Push(Pushed[n - 1], n)

\* Get(count) is the last count events pushed, the most recent one last, or
\* as many as were pushed and kept, for counts below zero and beyond the ring
\* as well.
GetsTail(n, count) ==
  LET bounds == {n, count, MaxEventsToKeep}
      size   == CHOOSE k \in bounds : \A j \in bounds : k <= j
  IN  Get(Pushed[n], count) = [i \in 1 .. size |-> n - size + i]

\* discarded counts exactly the events that are lost.
CountsDiscarded(n) == Len(Get(Pushed[n], MaxEventsToKeep)) + Pushed[n].discarded = n

ASSUME GetIsTail ==
  \A n \in 0 .. MaxPushes :
    CountsDiscarded(n) /\ \A count \in -1 .. MaxEventsToKeep + 1 : GetsTail(n, count)
=============================================================================
