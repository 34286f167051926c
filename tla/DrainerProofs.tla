--------------------------- MODULE DrainerProofs ----------------------------
(* The drainer loses no wakeup, for any number of drains and subscribers.  *)
EXTENDS Drainer, FiniteSetTheorems, TLAPS

\* The drainer's state keeps its types.
THEOREM DrainerTypeCorrect == Spec => []TypeOK
<1>1. Init => TypeOK
  <2> SUFFICES ASSUME Init PROVE TypeOK
    OBVIOUS
  <2>1. draining \in BOOLEAN
    BY DEF Init
  <2>2. shutdown \in 0 .. 1
    BY DEF Init
  <2>3. subscriptions \subseteq Subscriptions /\ events \subseteq Subscriptions
    BY DEF Init
  <2>4. /\ drain \in [Drains ->
            {"idle", "check", "counted", "blocked", "drained", "expired",
             "refused"}]
        /\ sub \in [Subscriptions ->
            {"new", "active", "told", "cancelling", "gone"}]
    BY DEF Init
  <2> QED
    BY <2>1, <2>2, <2>3, <2>4 DEF TypeOK
<1>2. TypeOK /\ [Next]_vars => TypeOK'
  <2> SUFFICES ASSUME TypeOK, [Next]_vars PROVE TypeOK'
    OBVIOUS
  <2> USE DEF TypeOK
  <2>1. ASSUME NEW d \in Drains, Drain(d) PROVE TypeOK'
    BY <2>1 DEF Drain
  <2>2. ASSUME NEW d \in Drains, CountSubscriptions(d) PROVE TypeOK'
    BY <2>2 DEF CountSubscriptions
  <2>3. ASSUME NEW d \in Drains, DrainWakes(d) PROVE TypeOK'
    BY <2>3 DEF DrainWakes
  <2>4. ASSUME NEW d \in Drains, DrainExpires(d) PROVE TypeOK'
    BY <2>4 DEF DrainExpires
  <2>5. ASSUME NEW s \in Subscriptions, Subscribe(s) PROVE TypeOK'
    BY <2>5 DEF Subscribe, EventAtSubscribe
  <2>6. ASSUME NEW s \in Subscriptions, ReceiveEvent(s) PROVE TypeOK'
    BY <2>6 DEF ReceiveEvent
  <2>7. ASSUME NEW s \in Subscriptions, Cancel(s) PROVE TypeOK'
    BY <2>7 DEF Cancel
  <2>8. ASSUME NEW s \in Subscriptions, SendShutdown(s) PROVE TypeOK'
    BY <2>8 DEF SendShutdown
  <2>9. ASSUME NEW d \in Drains, DrainBlocks(d) PROVE TypeOK'
    BY <2>9 DEF DrainBlocks
  <2>10. CASE UNCHANGED vars
    BY <2>10 DEF vars
  <2> QED
    BY <2>1, <2>2, <2>3, <2>4, <2>5, <2>6, <2>7, <2>8, <2>9, <2>10
       DEF Next, Draining
<1> QED
  BY <1>1, <1>2, PTL DEF Spec

\* The list of subscriptions, the flag and the channel keep in step.
THEOREM DrainerCorrect == Spec => []DrainInvariant
<1>1. Init => DrainInvariant
  BY DEF Init, DrainInvariant, NoLostShutdown, EveryoneIsTold, OneDrain
<1>2. TypeOK /\ TypeOK' /\ DrainInvariant /\ [Next]_vars => DrainInvariant'
  <2> SUFFICES ASSUME TypeOK, TypeOK', DrainInvariant, [Next]_vars
               PROVE  DrainInvariant'
    OBVIOUS
  <2> USE DEF TypeOK, DrainInvariant, NoLostShutdown, EveryoneIsTold, OneDrain
  <2>1. ASSUME NEW d \in Drains, Drain(d) PROVE DrainInvariant'
    BY <2>1 DEF Drain
  <2>2. ASSUME NEW d \in Drains, CountSubscriptions(d) PROVE DrainInvariant'
    BY <2>2 DEF CountSubscriptions
  <2>3. ASSUME NEW d \in Drains, DrainWakes(d) PROVE DrainInvariant'
    BY <2>3 DEF DrainWakes
  <2>4. ASSUME NEW d \in Drains, DrainExpires(d) PROVE DrainInvariant'
    BY <2>4 DEF DrainExpires
  <2>5. ASSUME NEW s \in Subscriptions, Subscribe(s) PROVE DrainInvariant'
    BY <2>5 DEF Subscribe, EventAtSubscribe
  <2>6. ASSUME NEW s \in Subscriptions, ReceiveEvent(s) PROVE DrainInvariant'
    BY <2>6 DEF ReceiveEvent
  <2>7. ASSUME NEW s \in Subscriptions, Cancel(s) PROVE DrainInvariant'
    BY <2>7 DEF Cancel
  <2>8. ASSUME NEW s \in Subscriptions, SendShutdown(s) PROVE DrainInvariant'
    BY <2>8 DEF SendShutdown
  <2>9. ASSUME NEW d \in Drains, DrainBlocks(d) PROVE DrainInvariant'
    BY <2>9 DEF DrainBlocks
  <2>10. CASE UNCHANGED vars
    BY <2>10 DEF vars
  <2> QED
    BY <2>1, <2>2, <2>3, <2>4, <2>5, <2>6, <2>7, <2>8, <2>9, <2>10
       DEF Next, Draining
<1> QED
  BY <1>1, <1>2, DrainerTypeCorrect, PTL DEF Spec

\* No drain sleeps through the end of the last subscription.
THEOREM DrainerLosesNoWakeup == Spec => []NoLostShutdown
<1>1. DrainInvariant => NoLostShutdown
  BY DEF DrainInvariant
<1> QED
  BY <1>1, DrainerCorrect, PTL

\* No subscriber misses the drain, however late it subscribed.
THEOREM DrainerTellsEveryone == Spec => []EveryoneIsTold
<1>1. DrainInvariant => EveryoneIsTold
  BY DEF DrainInvariant
<1> QED
  BY <1>1, DrainerCorrect, PTL

-----------------------------------------------------------------------------
(* How long a drain can take.                                              *)

\* A drain that sleeps with no wakeup coming waits for somebody, and everybody
\* it waits for has been told or has the event in its channel.
SleepsForAReason ==
  \A d \in Drains :
    /\ drain[d] = "blocked" /\ shutdown = 0
    /\ \A s \in Subscriptions : sub[s] /= "cancelling"
    => subscriptions /= {} /\ \A s \in subscriptions : s \in events \/ sub[s] = "told"

\* The drain can only be kept waiting by an owner that does not cancel.
THEOREM DrainWaitsForOwners == Spec => []SleepsForAReason
<1>1. DrainInvariant => SleepsForAReason
  BY DEF DrainInvariant, NoLostShutdown, EveryoneIsTold, SleepsForAReason
<1> QED
  BY <1>1, DrainerCorrect, PTL

\* The rounds of Drain's loop that are left: one for the token in the channel
\* and one for each subscription that may still send one.
Remaining == {s \in Subscriptions : sub[s] /= "gone"}

Rank(d) == CASE drain[d] = "idle" -> 3 [] drain[d] = "check" -> 2
             [] drain[d] = "counted" -> 1 [] OTHER -> 0

Left(d) == 3 * (shutdown + Cardinality(Remaining)) + Rank(d)

\* With n subscriptions in all, Drain's loop takes at most 3 * n + 3 steps: it
\* never spins on tokens, however the owners cancel and new ones subscribe.
THEOREM DrainDoesNotSpin ==
  ASSUME IsFiniteSet(Subscriptions)
  PROVE  Spec => [][\A d \in Drains :
                      /\ Left(d)' \in 0 .. Left(d)
                      /\ Draining(d) => Left(d)' < Left(d)]_vars
<1>1. ASSUME TypeOK, TypeOK', Next, NEW d \in Drains
      PROVE  /\ Left(d)' \in 0 .. Left(d)
             /\ Draining(d) => Left(d)' < Left(d)
  <2>1. IsFiniteSet(Remaining) /\ IsFiniteSet(Remaining')
    BY <1>1, FS_Subset DEF Remaining
  <2>2. PICK m \in Nat, n \in Nat : m = Cardinality(Remaining) /\ n = Cardinality(Remaining')
    BY <2>1, FS_CardinalityType
  <2>3. Rank(d) \in 0 .. 3 /\ Rank(d)' \in 0 .. 3 /\ shutdown \in 0 .. 1 /\ shutdown' \in 0 .. 1
    BY <1>1 DEF Rank, TypeOK
  <2>4. /\ Left(d) = 3 * (shutdown + m) + Rank(d)
        /\ Left(d)' = 3 * (shutdown' + n) + Rank(d)'
    BY <2>2 DEF Left
  <2>5. ASSUME NEW s \in Subscriptions, SendShutdown(s)
        PROVE  n = m - 1 /\ shutdown' = 1 /\ drain' = drain
    <3>1. Remaining' = Remaining \ {s} /\ s \in Remaining
      BY <1>1, <2>5 DEF SendShutdown, Remaining, TypeOK
    <3>2. Cardinality(Remaining \ {s}) = Cardinality(Remaining) - 1
      BY <2>1, <3>1, FS_RemoveElement
    <3> QED
      BY <2>2, <2>5, <3>1, <3>2 DEF SendShutdown
  <2>6. ASSUME Remaining' = Remaining PROVE n = m
    BY <2>2, <2>6
  <2>7. ASSUME NEW s \in Subscriptions, Subscribe(s) \/ ReceiveEvent(s) \/ Cancel(s)
        PROVE  n = m /\ UNCHANGED <<shutdown, drain>>
    <3>1. Remaining' = Remaining
      BY <1>1, <2>7 DEF Subscribe, ReceiveEvent, Cancel, Remaining, TypeOK
    <3> QED
      BY <2>6, <2>7, <3>1 DEF Subscribe, ReceiveEvent, Cancel
  <2>8. ASSUME NEW e \in Drains, Drain(e) \/ Draining(e) \/ DrainExpires(e)
        PROVE  n = m
    <3>1. Remaining' = Remaining
      BY <2>8 DEF Drain, Draining, CountSubscriptions, DrainBlocks, DrainWakes,
                  DrainExpires, Remaining
    <3> QED
      BY <2>6, <3>1
  <2>9. ASSUME NEW e \in Drains, Drain(e) \/ Draining(e) \/ DrainExpires(e), e /= d
        PROVE  Rank(d)' = Rank(d) /\ shutdown' <= shutdown /\ drain'[d] = drain[d]
    BY <1>1, <2>3, <2>9 DEF Drain, Draining, CountSubscriptions, DrainBlocks, DrainWakes,
                      DrainExpires, Rank, TypeOK
  <2>10. ASSUME Draining(d) PROVE 3 * shutdown' + Rank(d)' < 3 * shutdown + Rank(d)
    BY <1>1, <2>10 DEF Draining, CountSubscriptions, DrainBlocks, DrainWakes, Rank, TypeOK
  <2>11. ASSUME Drain(d) \/ DrainExpires(d)
         PROVE  shutdown' = shutdown /\ Rank(d)' <= Rank(d)
    BY <1>1, <2>11 DEF Drain, DrainExpires, Rank, TypeOK
  <2>12. ASSUME UNCHANGED drain PROVE Rank(d)' = Rank(d) /\ ~Draining(d)
    BY <1>1, <2>12 DEF Rank, Draining, CountSubscriptions, DrainBlocks, DrainWakes, TypeOK
  <2>13. Left(d) \in Nat /\ Left(d)' \in Nat
    BY <2>3, <2>4
  <2> HIDE DEF Left, Rank
  <2>14. CASE \E s \in Subscriptions : SendShutdown(s)
    <3>1. n = m - 1 /\ shutdown' = 1 /\ drain' = drain
      BY <2>5, <2>14
    <3> QED
      BY <2>3, <2>4, <2>12, <2>13, <3>1
  <2>15. CASE \E s \in Subscriptions : Subscribe(s) \/ ReceiveEvent(s) \/ Cancel(s)
    <3>1. n = m /\ UNCHANGED <<shutdown, drain>>
      BY <2>7, <2>15
    <3> QED
      BY <2>3, <2>4, <2>12, <2>13, <3>1
  <2>16. CASE \E e \in Drains \ {d} : Drain(e) \/ Draining(e) \/ DrainExpires(e)
    <3>1. n = m /\ Rank(d)' = Rank(d) /\ shutdown' <= shutdown /\ drain'[d] = drain[d]
      BY <2>8, <2>9, <2>16
    <3>2. ~Draining(d)
      BY <1>1, <3>1 DEF Draining, CountSubscriptions, DrainBlocks, DrainWakes, TypeOK
    <3> QED
      BY <2>3, <2>4, <2>13, <3>1, <3>2
  <2>17. CASE Drain(d) \/ DrainExpires(d)
    <3>1. n = m /\ shutdown' = shutdown /\ Rank(d)' <= Rank(d)
      BY <2>8, <2>11, <2>17
    <3>2. ~Draining(d)
      BY <1>1, <2>17 DEF Drain, DrainExpires, Draining, CountSubscriptions, DrainBlocks,
                   DrainWakes, TypeOK
    <3> QED
      BY <2>3, <2>4, <2>13, <3>1, <3>2
  <2>18. CASE Draining(d)
    <3>1. n = m
      BY <2>8, <2>18
    <3> QED
      BY <2>3, <2>4, <2>10, <2>13, <2>18, <3>1
  <2> QED
    BY <1>1, <2>14, <2>15, <2>16, <2>17, <2>18 DEF Next
<1>2. TypeOK /\ TypeOK' /\ [Next]_vars =>
        [\A d \in Drains : /\ Left(d)' \in 0 .. Left(d)
                           /\ Draining(d) => Left(d)' < Left(d)]_vars
  BY <1>1
<1> QED
  BY <1>2, DrainerTypeCorrect, PTL DEF Spec
=============================================================================
