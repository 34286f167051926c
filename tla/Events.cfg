\* One watcher, two publishers racing for the mutex, a ring of three.
SPECIFICATION FairSpec
CONSTANTS
  w1 = w1
  p1 = p1
  p2 = p2
  a1 = a1
  none = none
  Consumers = {w1}
  Publishers <- Writers
  Actors <- ActorIDs
  NoActor = none
  Capacity = 3
  Gap = 1
  TailCounts <- Tails
  MaxPublish = 4
INVARIANTS
  TypeOK
  DeliveredIsLogSegment
  OverrunNeedsGap
PROPERTIES
  ImplementsLog
  EveryEventConsumed
  AbandonedConsumerEnds
  TailIDExactWhenOrdered
CHECK_DEADLOCK FALSE
