-------------------------- MODULE MCSpecController --------------------------
(* Two links, a spec for each, and entries that were there before.         *)
EXTENDS SpecController, TLC

CONSTANTS x, y, eth0, eth1

Entry(l, k, g, v) == [link |-> l, key |-> k, via |-> g, val |-> v]

\* The address of eth0 changes with its lease; eth1 may get the same one.
LeasedAddresses ==
  (x :> {Entry(eth0, "a", "-", "v"), Entry(eth0, "b", "-", "v")}) @@
  (y :> {Entry(eth1, "a", "-", "v")})

\* The source of a default route changes, or its link, which is not part of
\* the ID as destination and gateway are; another has another gateway.
LeasedRoutes ==
  (x :> {Entry(eth0, "default", "g", "a"), Entry(eth0, "default", "g", "b"),
         Entry(eth1, "default", "g", "b")}) @@
  (y :> {Entry(eth1, "default", "h", "a"), Entry(eth1, "net", "h", "a")})

\* An address with other flags, one on another link; a route to elsewhere.
OthersEntries ==
  [k \in {"address", "route"} |->
     IF k = "address"
       THEN {Entry(eth0, "a", "-", "w"), Entry(eth1, "b", "-", "w")}
       ELSE {Entry(eth0, "default", "g", "w"), Entry(eth1, "lan", "g", "w")}]
=============================================================================
