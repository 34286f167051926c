------------------------------ MODULE MCEvents ------------------------------
(* Small instances of the event stream for TLC.                            *)
EXTENDS Events

CONSTANTS w1, p1, p2, a1, none

Writers  == {p1, p2}
ActorIDs == {none, a1}
Tails    == {-1, 1, 2}
=============================================================================
