----------------------------- MODULE MCServices -----------------------------
(* Small instances of the service manager for TLC, which also evaluates    *)
(* the assumption of History about the ring of recent events.              *)
EXTENDS Services, History

CONSTANTS udevd, tailscaled, st

\* tailscaled depends on udevd.
Chain == [s \in {udevd, tailscaled} |->
            IF s = tailscaled THEN {udevd} ELSE {}]

Alone == [s \in {udevd} |-> {}]
=============================================================================
