---------------------------- MODULE MCCodeCache ----------------------------
(***************************************************************************)
(* CodeCache for model checking: a short and a long valid code and one     *)
(* that fails the validation; limits that are too low for all of them, for *)
(* the long one and for none.                                              *)
(***************************************************************************)
EXTENDS CodeCache

CONSTANTS short, long, bad

MCCodeLen == [c \in Codes |-> IF c = long THEN 2 ELSE 1]

=============================================================================
