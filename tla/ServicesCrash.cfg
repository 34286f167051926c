\* The service manager as machined creates it, with a runtime.
SPECIFICATION FairSpec
CONSTANTS
  st = st
  udevd = udevd
  tailscaled = tailscaled
  Services = {udevd}
  DependsOn <- Alone
  Forever = {udevd}
  Main = Main
  Stoppers = {}
  HasRuntime = TRUE
  MaxStarts = 1
  Nobody = Nobody
  MaxEventsToKeep = 3
  MaxPushes = 8
PROPERTY ShutdownReturnsIfStarted
CHECK_DEADLOCK FALSE
