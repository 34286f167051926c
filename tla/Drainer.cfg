\* Two calls of Drain, three subscriptions.
SPECIFICATION FairSpec
CONSTANTS
  Drains = {d1, d2}
  Subscriptions = {s1, s2, s3}
INVARIANTS
  TypeOK
  NoLostShutdown
  EveryoneIsTold
PROPERTY DrainEnds
CHECK_DEADLOCK FALSE
