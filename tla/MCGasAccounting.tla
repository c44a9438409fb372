-------------------------- MODULE MCGasAccounting --------------------------
(* Instances of GasAccounting for TLC. *)
EXTENDS GasAccounting

Limits == {0, 2, 5}
Costs == {0, 1, 3}
Sizes == {0, 1, 3}
=============================================================================
