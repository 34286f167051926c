\* udevd, apid and every controller of the boot, with main.
SPECIFICATION FairSpec
CONSTANTS
  Udevd = udevd
  Apid = apid
  Services = {udevd, apid}
  Capacity = 2
  SigCap = 1
INVARIANTS
  TypeOK
  BootOrder
  ResourceFollowsEvents
  FilesystemsUnderServices
PROPERTIES
  BootProceeds
  SignalStops
CHECK_DEADLOCK FALSE
