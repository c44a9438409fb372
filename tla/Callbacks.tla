------------------------------ MODULE Callbacks ------------------------------
(***************************************************************************)
(* What crosses the language border while a contract runs: the optional    *)
(* byte vectors (type UnmanagedVector of libwasmvm/src/memory.rs and       *)
(* internal/api/memory.go), what the Go callbacks of                       *)
(* internal/api/callbacks.go can answer, and what the Rust traits of       *)
(* storage.rs, iterator.rs, api.rs and querier.rs make of the answer.      *)
(*                                                                         *)
(* Bytes are abstracted to what nil checks and length checks tell apart;   *)
(* gas is left to module GasAccounting.                                    *)
(***************************************************************************)
EXTENDS Naturals, Sequences

\* A Go []byte, and equally a Rust Option<Vec<u8>>.
Bytes == {"nil", "empty", "bytes"}

\* UnmanagedVector with ptr the address of its allocation and 0 if cap = 0.
NoneVector == [is_none |-> TRUE, ptr |-> 0]
EmptyVector == [is_none |-> FALSE, ptr |-> 0]
uninitializedUnmanagedVector == EmptyVector

fault_newUnmanagedVector(data, address) ==
  IF data = "bytes" THEN [is_none |-> FALSE, ptr |-> address] ELSE NoneVector

\* The vector for data when the allocator answers with the given address.
newUnmanagedVector(data, address) ==
  CASE data = "nil"   -> NoneVector
    [] data = "empty" -> EmptyVector
    [] data = "bytes" -> [is_none |-> FALSE, ptr |-> address]

\* UnmanagedVector::consume, the data without its memory.
consume(v) ==
  CASE v.is_none               -> "nil"
    [] ~v.is_none /\ v.ptr = 0 -> "empty"
    [] ~v.is_none /\ v.ptr # 0 -> "bytes"

\* copyAndDestroyUnmanagedVector decides by the same two fields.
copyAndDestroyUnmanagedVector(v) ==
  IF v.is_none THEN "nil" ELSE IF v.ptr = 0 THEN "empty" ELSE "bytes"

-----------------------------------------------------------------------------
(* The Go callbacks: the set of answers each can give.  An answer is the   *)
(* GoError, the bytes written to each out parameter and the bytes written  *)
(* to errOut, "nil" where nothing is written.  GoError_BadArgument is not  *)
(* among them: Rust passes the addresses of locals and an order of 1 or 2. *)

Answer(ret, outs, err) == [ret |-> ret, outs |-> outs, err |-> err]

\* []byte(err.Error()) is never nil, but may be empty.
Messages == {"empty", "bytes"}

\* recoverPanic: the callback panicked, in the application's code or in its own
\* checks, before it wrote anything; n is the number of out parameters.
recoverPanic(n) ==
  {Answer(e, [k \in 1 .. n |-> "nil"], "nil") : e \in {"OutOfGas", "Panic"}}

cGet == recoverPanic(1) \cup {Answer("None", <<v>>, "nil") : v \in Bytes}

cSet == recoverPanic(0) \cup {Answer("None", <<>>, "nil")}

cDelete == recoverPanic(0) \cup {Answer("None", <<>>, "nil")}

\* The GoIter it writes is not memory of Rust; see module IteratorFrames.
cScan ==
  recoverPanic(0) \cup {Answer("None", <<>>, "nil")}
                  \cup {Answer("User", <<>>, m) : m \in Messages}

\* Nothing is written at the end of the domain.
cNext ==
  recoverPanic(2) \cup {Answer("None", <<"nil", "nil">>, "nil")}
                  \cup {Answer("None", kv, "nil") : kv \in Bytes \X Bytes}

\* cNextKey and cNextValue.
nextPart == recoverPanic(1) \cup {Answer("None", <<v>>, "nil") : v \in Bytes}

\* An empty address is a panic.
cHumanizeAddress ==
  recoverPanic(1) \cup {Answer("None", <<"bytes">>, "nil")}
                  \cup {Answer("User", <<"nil">>, m) : m \in Messages}

cCanonicalizeAddress ==
  recoverPanic(1) \cup {Answer("None", <<"bytes">>, "nil")}
                  \cup {Answer("User", <<"nil">>, m) : m \in Messages}

cValidateAddress ==
  recoverPanic(0) \cup {Answer("None", <<>>, "nil")}
                  \cup {Answer("User", <<>>, m) : m \in Messages}

cQueryExternal ==
  recoverPanic(1) \cup {Answer("None", <<"bytes">>, "nil")}
                  \cup {Answer("CannotSerialize", <<"nil">>, m) : m \in Messages}

\* db_vtable, iterator_vtable, api_vtable and querier_vtable: the slot of the
\* vtable that Rust calls, and the Go function behind it.
vtables == [
  read_db |-> cGet, write_db |-> cSet, remove_db |-> cDelete, scan_db |-> cScan,
  next |-> cNext, next_key |-> nextPart, next_value |-> nextPart,
  humanize_address |-> cHumanizeAddress,
  canonicalize_address |-> cCanonicalizeAddress,
  validate_address |-> cValidateAddress,
  query_external |-> cQueryExternal]

-----------------------------------------------------------------------------
(* The Rust side.  Each operator gives the set of results for the outputs  *)
(* of a successful callback: Trap is a BackendError, anything else is what *)
(* the contract gets to see.                                               *)

Trap == <<"trap">>

\* GoError::into_result: "ok", an error for the contract, or one that aborts it.
into_result(ret) ==
  CASE ret = "None" -> "ok"
    [] ret = "User" -> "user_err"
    [] ret \in {"Panic", "OutOfGas", "CannotSerialize", "BadArgument", "Other"} -> "trap"

GoStorage_get(outs) == {outs}

GoStorage_set(outs) == {outs}

GoStorage_remove(outs) == {outs}

GoStorage_scan(outs) == {outs}

\* A missing key is the end, a key without value an error.
GoIter_next(outs) ==
  CASE outs[1] = "nil"                    -> {<<"nil", "nil">>}
    [] outs[1] # "nil" /\ outs[2] # "nil" -> {outs}
    [] outs[1] # "nil" /\ outs[2] = "nil" -> {Trap}

next_key_or_val(outs) == {outs}

addr_canonicalize(outs) == IF outs[1] = "nil" THEN {Trap} ELSE {outs}

\* The bytes may not be UTF-8.
addr_humanize(outs) == IF outs[1] = "nil" THEN {Trap} ELSE {outs, Trap}

addr_validate(outs) == {outs}

\* Bytes that are no SystemResult are reported to the contract as a SystemError.
query_raw(outs) == {outs, <<"invalid_response">>}

Results(slot, outs) ==
  CASE slot = "read_db"    -> GoStorage_get(outs)
    [] slot = "write_db"   -> GoStorage_set(outs)
    [] slot = "remove_db"  -> GoStorage_remove(outs)
    [] slot = "scan_db"    -> GoStorage_scan(outs)
    [] slot = "next"       -> GoIter_next(outs)
    [] slot \in {"next_key", "next_value"} -> next_key_or_val(outs)
    [] slot = "canonicalize_address" -> addr_canonicalize(outs)
    [] slot = "humanize_address"     -> addr_humanize(outs)
    [] slot = "validate_address"     -> addr_validate(outs)
    [] slot = "query_external"       -> query_raw(outs)
=============================================================================
