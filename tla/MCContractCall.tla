--------------------------- MODULE MCContractCall ---------------------------
(* The instance of ContractCall for TLC: every entry point and callback. *)
EXTENDS ContractCall

AllEntries == Contracts \cup CacheOperations

AllSlots == DOMAIN vtables
=============================================================================
