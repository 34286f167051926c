\* Is an address deleted before its finalizer is removed?
SPECIFICATION Spec
CONSTANTS
  x = x
  y = y
  eth0 = eth0
  eth1 = eth1
  Specs = {x, y}
  Links = {eth0, eth1}
  Addresses <- LeasedAddresses
  Routes <- LeasedRoutes
  Foreign <- OthersEntries
  Nothing = Nothing
  MaxChanges = 3
  MaxFaults = 0
PROPERTY RemovedFirst
CHECK_DEADLOCK FALSE
