------------------------------ MODULE MCDHCP4 ------------------------------
(* Two links with clients, and a lease of an address and a route.         *)
EXTENDS DHCP4

\* A router in the network of the lease, no name servers.
OneLease       == {"lease"}
LeaseRouters   == [k \in OneLease |-> <<"gw">>]
LeaseOutside   == [k \in OneLease |-> {}]
LeaseResolving == {}
=============================================================================
