----------------------------- MODULE MCCacheLock -----------------------------
(* Instance of CacheLock for TLC: two VMs of one process share a directory     *)
(* with a VM of another process; a fourth VM has a directory of its own.       *)
EXTENDS CacheLock

TheVMs == {"a1", "a2", "b1", "b2"}
TheProcess == [v \in TheVMs |-> IF v \in {"a1", "a2"} THEN "a" ELSE "b"]
TheDir == [v \in TheVMs |-> IF v = "b2" THEN "other" ELSE "shared"]
=============================================================================
