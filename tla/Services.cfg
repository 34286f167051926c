\* Two services, one depending on the other, and the Shutdown.
SPECIFICATION FairSpec
CONSTANTS
  st = st
  udevd = udevd
  tailscaled = tailscaled
  Services = {udevd, tailscaled}
  DependsOn <- Chain
  Forever = {udevd, tailscaled}
  Main = Main
  Stoppers = {}
  HasRuntime = FALSE
  MaxStarts = 1
  Nobody = Nobody
  MaxEventsToKeep = 3
  MaxPushes = 8
INVARIANTS
  TypeOK
  DependenciesWereUp
  NoLostNotification
PROPERTIES
  ShutdownReturnsIfStarted
  ImplementsManager
CHECK_DEADLOCK FALSE
