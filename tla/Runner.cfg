\* Every wrapped runner under every restart policy.
SPECIFICATION FairSpec
CONSTANT MaxLaunches = 4
INVARIANTS
  OneChild
  AbandonedAfterTimeout
  AtMostOneLateLaunch
PROPERTY CancelledRunnerReturns
CHECK_DEADLOCK FALSE
