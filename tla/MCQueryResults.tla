-------------------------- MODULE MCQueryResults --------------------------
(***************************************************************************)
(* QueryResults for model checking: names for data and messages.           *)
(***************************************************************************)
EXTENDS QueryResults

CONSTANTS d1, d2, t1, t2

=============================================================================
