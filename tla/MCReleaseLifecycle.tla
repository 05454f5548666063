------------------------ MODULE MCReleaseLifecycle ------------------------
(* Three deployments: d1 keeps an RDB, d2 an AOF; d3 is an old production     *)
(* deployment whose network and attestation predate the present contract.     *)
EXTENDS ReleaseLifecycle, TLC

CONSTANTS d1, d2, d3

MCDeployment == {d1, d2, d3}
MCMode == (d1 :> "rdb") @@ (d2 :> "aof") @@ (d3 :> "rdb")
MCContract == (d1 :> {}) @@ (d2 :> {}) @@ (d3 :> {"network"})
MCUnitOf == [d \in MCDeployment |-> "unit"]

============================================================================
