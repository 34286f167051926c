\* Two links and three passes over them: a link's status is written, deleted
\* and written again, and the link gets a second client.
SPECIFICATION FairSpec
CONSTANTS
  Links = {eth0, eth1}
  Physical = {eth0, eth1}
  Leases <- OneLease
  Routers <- LeaseRouters
  Outside <- LeaseOutside
  Resolving <- LeaseResolving
  Nobody = Nobody
  MaxPasses = 3
INVARIANTS
  TypeOK
  OneClientPerLink
  MapFollowsStatuses
  AddressFollowsLease
PROPERTIES
  StopReturns
CHECK_DEADLOCK FALSE
