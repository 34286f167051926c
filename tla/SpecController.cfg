\* Both controllers, two specs, two links, five changes from outside and a failed call.
SPECIFICATION FairSpec
CONSTANTS
  x = x
  y = y
  eth0 = eth0
  eth1 = eth1
  Specs = {x, y}
  Links = {eth0, eth1}
  Addresses <- LeasedAddresses
  Routes <- LeasedRoutes
  Foreign <- OthersEntries
  Nothing = Nothing
  MaxChanges = 5
  MaxFaults = 1
INVARIANTS
  HeldWhileAdding
  AppliedWhenIdle
PROPERTIES
  RouteRemovedFirst
  ForeignKept
  Settles
CHECK_DEADLOCK FALSE
