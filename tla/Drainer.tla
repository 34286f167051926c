------------------------------ MODULE Drainer -------------------------------
(***************************************************************************)
(* The Drainer of drainer.go: controllers subscribe, Drain tells every     *)
(* subscription to shut down and waits, on a channel with one slot, until  *)
(* the last one is cancelled.  Cancel removes the subscription under the   *)
(* mutex and signals after it, so the two are separate steps.              *)
(***************************************************************************)
EXTENDS Integers, FiniteSets

CONSTANTS Drains,         \* calls of Drain
          Subscriptions   \* subscriptions ever made

VARIABLES draining,
          subscriptions,  \* the Drainer's list
          events,         \* subscriptions whose channel holds a DrainEvent
          shutdown,       \* tokens in the shutdown channel
          drain,          \* per call of Drain: where it is
          sub             \* per subscription: where its owner is

vars == <<draining, subscriptions, events, shutdown, drain, sub>>

TypeOK ==
  /\ draining \in BOOLEAN
  /\ subscriptions \subseteq Subscriptions
  /\ events \subseteq Subscriptions
  /\ shutdown \in 0 .. 1
  /\ drain \in [Drains ->
       {"idle", "check", "counted", "blocked", "drained", "expired",
        "refused"}]
  /\ sub \in [Subscriptions ->
       {"new", "active", "told", "cancelling", "gone"}]

Init ==
  /\ draining = FALSE
  /\ subscriptions = {} /\ events = {}
  /\ shutdown = 0
  /\ drain = [d \in Drains |-> "idle"]
  /\ sub = [s \in Subscriptions |-> "new"]

\* A second call is refused; the first one fills the events channels.
Drain(d) ==
  /\ drain[d] = "idle"
  /\ IF draining
       THEN /\ drain' = [drain EXCEPT ![d] = "refused"]
            /\ UNCHANGED <<draining, events>>
       ELSE /\ drain' = [drain EXCEPT ![d] = "check"]
            /\ draining' = TRUE
            /\ events' = events \cup subscriptions
  /\ UNCHANGED <<subscriptions, shutdown, sub>>

CountSubscriptions(d) ==
  /\ drain[d] = "check"
  /\ drain' = [drain EXCEPT ![d] =
                 IF subscriptions = {} THEN "drained" ELSE "counted"]
  /\ UNCHANGED <<draining, subscriptions, events, shutdown, sub>>

\* The mutex is released before the select is reached.
DrainBlocks(d) ==
  /\ drain[d] = "counted"
  /\ drain' = [drain EXCEPT ![d] = "blocked"]
  /\ UNCHANGED <<draining, subscriptions, events, shutdown, sub>>

DrainWakes(d) ==
  /\ drain[d] = "blocked" /\ shutdown = 1
  /\ drain' = [drain EXCEPT ![d] = "check"]
  /\ shutdown' = 0
  /\ UNCHANGED <<draining, subscriptions, events, sub>>

DrainExpires(d) ==
  /\ drain[d] = "blocked"
  /\ drain' = [drain EXCEPT ![d] = "expired"]
  /\ UNCHANGED <<draining, subscriptions, events, shutdown, sub>>

\* Forgetting the late subscriber.
EventAtSubscribeNever(s) == events

EventAtSubscribe(s) == IF draining THEN events \cup {s} ELSE events

Subscribe(s) ==
  /\ sub[s] = "new"
  /\ sub' = [sub EXCEPT ![s] = "active"]
  /\ subscriptions' = subscriptions \cup {s}
  /\ events' = EventAtSubscribe(s)
  /\ UNCHANGED <<draining, shutdown, drain>>

\* The owner reads EventCh.
ReceiveEvent(s) ==
  /\ sub[s] = "active" /\ s \in events
  /\ sub' = [sub EXCEPT ![s] = "told"]
  /\ events' = events \ {s}
  /\ UNCHANGED <<draining, subscriptions, shutdown, drain>>

\* The owner may cancel at any time, told to or not.
Cancel(s) ==
  /\ sub[s] \in {"active", "told"}
  /\ sub' = [sub EXCEPT ![s] = "cancelling"]
  /\ subscriptions' = subscriptions \ {s}
  /\ UNCHANGED <<draining, events, shutdown, drain>>

\* On a channel without a buffer a send that does not block is lost unless
\* the drain is already in its select.
SendUnbuffered(s) ==
  /\ sub[s] = "cancelling"
  /\ sub' = [sub EXCEPT ![s] = "gone"]
  /\ shutdown' = IF \E d \in Drains : drain[d] = "blocked" THEN 1 ELSE shutdown
  /\ UNCHANGED <<draining, subscriptions, events, drain>>

\* A channel without a bound in place of the non-blocking send.
SendUnbounded(s) ==
  /\ sub[s] = "cancelling"
  /\ sub' = [sub EXCEPT ![s] = "gone"]
  /\ shutdown' = shutdown + 1
  /\ UNCHANGED <<draining, subscriptions, events, drain>>

SendShutdown(s) ==
  /\ sub[s] = "cancelling"
  /\ sub' = [sub EXCEPT ![s] = "gone"]
  /\ shutdown' = 1
  /\ UNCHANGED <<draining, subscriptions, events, drain>>

Draining(d) == CountSubscriptions(d) \/ DrainBlocks(d) \/ DrainWakes(d)

Next ==
  \/ \E d \in Drains : Drain(d) \/ Draining(d) \/ DrainExpires(d)
  \/ \E s \in Subscriptions :
       Subscribe(s) \/ ReceiveEvent(s) \/ Cancel(s) \/ SendShutdown(s)

Spec == Init /\ [][Next]_vars

\* Drain's loop runs, a Cancel that began finishes, an owner reads its
\* channel and, once told, cancels, which is what it subscribed for.
FairSpec ==
  /\ Spec
  /\ \A d \in Drains : WF_vars(Draining(d))
  /\ \A s \in Subscriptions :
       /\ WF_vars(ReceiveEvent(s))
       /\ WF_vars(sub[s] = "told" /\ Cancel(s))
       /\ WF_vars(SendShutdown(s))

-----------------------------------------------------------------------------
\* A drain that counted subscriptions, and sleeps or is about to, while
\* nothing is subscribed any more has a wakeup coming: in the channel, or in
\* a Cancel that is about to send it.
NoLostShutdown ==
  \A d \in Drains :
    drain[d] \in {"counted", "blocked"} /\ subscriptions = {} =>
      shutdown = 1 \/ \E s \in Subscriptions : sub[s] = "cancelling"

\* Whoever is subscribed while a drain is on has been told or will find the
\* event in its channel, also when it subscribed late.
EveryoneIsTold ==
  draining => \A s \in subscriptions : s \in events \/ sub[s] = "told"

\* Only one call of Drain ever gets past the flag, so the one slot of the
\* shutdown channel has one reader.
OneDrain ==
  \A d, e \in Drains :
    {drain[d], drain[e]} \cap {"idle", "refused"} = {} => d = e

\* The inductive invariant: the list is who subscribed and has not begun to
\* cancel, and drains run only while the flag is up.
DrainInvariant ==
  /\ \A s \in Subscriptions :
       s \in subscriptions <=> sub[s] \in {"active", "told"}
  /\ \A d \in Drains : drain[d] /= "idle" => draining
  /\ NoLostShutdown /\ EveryoneIsTold /\ OneDrain

\* A drain ends: it is never left waiting by owners that do cancel.
DrainEnds ==
  \A d \in Drains : drain[d] = "check" ~>
    drain[d] \in {"drained", "expired"}
=============================================================================
