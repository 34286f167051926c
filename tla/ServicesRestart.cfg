\* One service started twice, stopped by Stop and by Shutdown.
SPECIFICATION Spec
CONSTANTS
  st = st
  udevd = udevd
  tailscaled = tailscaled
  Services = {udevd}
  DependsOn <- Alone
  Forever = {}
  Main = Main
  Stoppers = {st}
  HasRuntime = FALSE
  MaxStarts = 2
  Nobody = Nobody
  MaxEventsToKeep = 3
  MaxPushes = 8
INVARIANT OneRunPerService
CHECK_DEADLOCK FALSE
