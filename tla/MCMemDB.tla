------------------------------ MODULE MCMemDB ------------------------------
(***************************************************************************)
(* MemDB for model checking: names for the clients, iterators and values.  *)
(***************************************************************************)
EXTENDS MemDB

CONSTANTS c1, c2, i1, i2, v1, v2

=============================================================================
