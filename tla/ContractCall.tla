---------------------------- MODULE ContractCall ----------------------------
(***************************************************************************)
(* A call into the Rust library and back: the functions of                 *)
(* internal/api/lib.go, the C functions of libwasmvm/src/calls.rs and      *)
(* cache.rs, the error convention of libwasmvm/src/error, and the          *)
(* callbacks in between.                                                   *)
(*                                                                         *)
(* A failed C call sets errno, which cgo turns into the Go error, and      *)
(* stores its message in *error_msg.  errno belongs to the OS thread.      *)
(* A contract that queries another contract makes Go enter the library     *)
(* again from a callback, on the same thread and before the outer C call   *)
(* has returned, and every libc function may overwrite errno.  The memory  *)
(* of results and messages is allocated by Rust on behalf of either side   *)
(* and has to be given back exactly once.                                  *)
(*                                                                         *)
(* One thread is modelled: errno and the stack of calls are its own, and   *)
(* threads share nothing else here but the allocator.                      *)
(***************************************************************************)
EXTENDS EntryPoints, Callbacks, FiniteSetsExt, Functions

CONSTANTS
  Entries,   \* the entry points and cache operations that are called
  Slots,     \* the callbacks contracts use
  Nesting,   \* bound: the contract calls that query, and that queries make
  MaxDepth,  \* bound: nesting of calls
  MaxCalls,  \* bound: calls in a behaviour
  MaxOps     \* bound: callbacks of one call

VARIABLES
  stack,  \* the calls in progress, innermost last
  errno,  \* the thread's errno
  heap,   \* allocated vectors: address -> serial number of the call it is for
  calls,  \* number of calls made so far
  last    \* what the call that returned last gave to its Go caller

vars == <<stack, errno, heap, calls, last>>

-----------------------------------------------------------------------------
(* The operations on the cache.  takes is the number of result vectors     *)
(* that Go copies and destroys, gives the number that Rust returns, and    *)
(* onError what Rust returns instead of each after an error.               *)

CacheApi(c, takes) == [c |-> c, takes |-> takes]
api_StoreCode == CacheApi("store_code", 1)
api_StoreCodeUnchecked == CacheApi("store_code", 1)
api_RemoveCode == CacheApi("remove_wasm", 0)
api_GetCode == CacheApi("load_wasm", 1)
api_Pin == CacheApi("pin", 0)
api_Unpin == CacheApi("unpin", 0)
api_SyncPinnedCodes == CacheApi("sync_pinned_codes", 0)
api_AnalyzeCode == CacheApi("analyze_code", 2)
api_GetMetrics == CacheApi("get_metrics", 0)
api_GetPinnedMetrics == CacheApi("get_pinned_metrics", 1)

CacheApis == [
  StoreCode |-> api_StoreCode, StoreCodeUnchecked |-> api_StoreCodeUnchecked,
  RemoveCode |-> api_RemoveCode, GetCode |-> api_GetCode, Pin |-> api_Pin,
  Unpin |-> api_Unpin, SyncPinnedCodes |-> api_SyncPinnedCodes,
  AnalyzeCode |-> api_AnalyzeCode, GetMetrics |-> api_GetMetrics,
  GetPinnedMetrics |-> api_GetPinnedMetrics]

CacheFunction(gives, onError) == [gives |-> gives, onError |-> onError]
store_code == CacheFunction(1, EmptyVector)
remove_wasm == CacheFunction(0, NoneVector)
load_wasm == CacheFunction(1, EmptyVector)
pin == CacheFunction(0, NoneVector)
unpin == CacheFunction(0, NoneVector)
sync_pinned_codes == CacheFunction(0, NoneVector)
analyze_code == CacheFunction(2, NoneVector)
get_metrics == CacheFunction(0, NoneVector)
get_pinned_metrics == CacheFunction(1, NoneVector)

CacheFunctions == [
  store_code |-> store_code, remove_wasm |-> remove_wasm, load_wasm |-> load_wasm,
  pin |-> pin, unpin |-> unpin, sync_pinned_codes |-> sync_pinned_codes,
  analyze_code |-> analyze_code, get_metrics |-> get_metrics,
  get_pinned_metrics |-> get_pinned_metrics]

Contracts == DOMAIN VMMethods
CacheOperations == DOMAIN CacheApis

ASSUME EntriesAssumption ==
  /\ Entries \subseteq Contracts \cup CacheOperations
  /\ Slots \subseteq DOMAIN vtables
  /\ MaxDepth \in Nat /\ MaxCalls \in Nat /\ MaxOps \in Nat

\* The C function behind an entry, and the number of vectors Go expects of it.
Returns(e) ==
  IF e \in Contracts THEN CacheFunction(1, EmptyVector) ELSE CacheFunctions[CacheApis[e].c]

Takes(e) == IF e \in Contracts THEN 1 ELSE CacheApis[e].takes

-----------------------------------------------------------------------------
(* Errors.                                                                 *)

ErrnoValue == [Success |-> 0, Other |-> 1, OutOfGas |-> 2]

\* libc uses the same numbers (2 is ENOENT) and others, all of them called 3.
Errnos == 0 .. 3

\* The results of a C function: Ok or the RustError, with the conversion from
\* VmError (GasDepletion becomes OutOfGas, everything else VmErr, here called
\* CacheErr when it comes from the cache and not from a contract).
RustErrors == {"OutOfGas", "VmErr", "Panic", "UnsetArg", "CacheErr"}

fault_clear_error == errno

clear_error == ErrnoValue.Success

set_error(err) == IF err = "OutOfGas" THEN ErrnoValue.OutOfGas ELSE ErrnoValue.Other

\* handle_c_error_binary, handle_c_error_default: what they do to errno.
handle_c_error(result) == IF result = "Ok" THEN clear_error ELSE set_error(result)

\* The kind of Go error for an errno and a message.
errorWithMessage(no, msg) ==
  CASE no = ErrnoValue.OutOfGas                  -> "OutOfGasError"
    [] no # ErrnoValue.OutOfGas /\ msg = "nil"   -> "errno"
    [] no # ErrnoValue.OutOfGas /\ msg # "nil"   -> "message"

-----------------------------------------------------------------------------
(* Memory.                                                                 *)

\* The k-th address the allocator hands out next.
Address(k) == Max(DOMAIN heap \cup {0}) + k

Addresses(vectors) == {v.ptr : v \in vectors} \ {0}

\* The heap after vectors were allocated for call n, or given back.
Allocate(vectors, n) ==
  [p \in DOMAIN heap \cup Addresses(vectors) |-> IF p \in DOMAIN heap THEN heap[p] ELSE n]

Free(vectors) == [p \in DOMAIN heap \ Addresses(vectors) |-> heap[p]]

-----------------------------------------------------------------------------
(* Calls.                                                                  *)

Locations == {"called", "wasm", "callback", "answered", "trap", "done", "back"}

\* A callback: its slot, what Go answered, and what the contract saw of it.
Callback(slot, ret, given, seen) == [slot |-> slot, ret |-> ret, given |-> given, seen |-> seen]

NoAnswer == Callback("none", "None", <<>>, <<>>)

\* Go has entered the C function: gasReport is zero and errmsg uninitialized.
NewCall(e, n) ==
  [entry |-> e, serial |-> n, pc |-> "called", ops |-> 0, answer |-> NoAnswer,
   outs |-> <<>>, err |-> NoneVector, result |-> "none", gasReport |-> "zero",
   errmsg |-> uninitializedUnmanagedVector, res |-> <<>>]

NothingReturned ==
  [serial |-> 0, result |-> "none", err |-> "nil", msg |-> 0, data |-> 0, gas |-> "zero"]

depth == Len(stack)
top == stack[depth]
At(l) == depth > 0 /\ top.pc = l

\* The innermost call changes to c.
Becomes(c) == stack' = [stack EXCEPT ![depth] = c]

Init ==
  /\ stack = <<>>
  /\ errno = 0
  /\ heap = [p \in {} |-> 0]
  /\ calls = 0
  /\ last = NothingReturned

\* Where Go code may call into the library: the application, or the querier
\* inside the callback cQueryExternal, which runs contracts only.
MayCall(e) ==
  /\ calls < MaxCalls
  /\ depth < MaxDepth
  /\ \/ depth = 0
     \/ /\ At("callback") /\ top.answer.slot = "query_external" /\ e \in Contracts
        /\ {top.entry, e} \subseteq Nesting

\* The VM method and the api function up to the C call.  In the form with two
\* results cgo sets errno to 0 before it calls the C function.
CallC(e) ==
  /\ MayCall(e)
  /\ stack' = Append(stack, NewCall(e, calls + 1))
  /\ calls' = calls + 1
  /\ errno' = 0
  /\ UNCHANGED <<heap, last>>

\* A VM method whose arguments do not serialize returns before that.
MarshalFails(e) ==
  /\ MayCall(e)
  /\ e \in Contracts
  /\ calls' = calls + 1
  /\ last' = [NothingReturned EXCEPT !.serial = calls + 1, !.result = "MarshalError",
                                     !.err = "marshal"]
  /\ UNCHANGED <<stack, errno, heap>>

\* Anything the library, cosmwasm_vm, the Go runtime or the application does on
\* this thread may leave its errno behind.
libcSetsErrno(no) ==
  /\ depth > 0 /\ top.pc # "back"
  /\ errno' = no
  /\ UNCHANGED <<stack, heap, calls, last>>

\* do_call_2_args and do_call_3_args until the contract starts.
get_instance ==
  /\ At("called")
  /\ top.entry \in Contracts
  /\ Becomes([top EXCEPT !.pc = "wasm"])
  /\ UNCHANGED <<errno, heap, calls, last>>

\* They give up before: cache, checksum or argument is missing or malformed, or
\* there is no instance for the checksum.
rejected(result) ==
  /\ At("called")
  /\ top.entry \in Contracts
  /\ result \in {"UnsetArg", "CacheErr"}
  /\ Becomes([top EXCEPT !.pc = "done", !.result = result])
  /\ UNCHANGED <<errno, heap, calls, last>>

\* An operation on the cache.
cacheOperation(result) ==
  /\ At("called")
  /\ top.entry \in CacheOperations
  /\ result \in {"Ok", "UnsetArg", "CacheErr"}
  /\ Becomes([top EXCEPT !.pc = "done", !.result = result])
  /\ UNCHANGED <<errno, heap, calls, last>>

\* catch_unwind: Rust panics below the C function.
panicked ==
  /\ depth > 0 /\ top.pc \in {"called", "wasm", "trap"}
  /\ Becomes([top EXCEPT !.pc = "done", !.result = "Panic", !.answer = NoAnswer])
  /\ UNCHANGED <<errno, heap, calls, last>>

\* The contract uses an import, and Rust calls the function in the vtable.
callback(slot) ==
  /\ At("wasm")
  /\ top.ops < MaxOps
  /\ Becomes([top EXCEPT !.pc = "callback", !.ops = @ + 1,
                         !.answer = Callback(slot, "None", <<>>, <<>>)])
  /\ UNCHANGED <<errno, heap, calls, last>>

\* The Go function writes its outputs and returns a GoError.
answer(a) ==
  LET outs == [k \in DOMAIN a.outs |-> newUnmanagedVector(a.outs[k], Address(k))]
      err  == newUnmanagedVector(a.err, Address(Len(a.outs) + 1))
  IN
  /\ At("callback")
  /\ a \in vtables[top.answer.slot]
  /\ Becomes([top EXCEPT !.pc = "answered", !.outs = outs, !.err = err,
                         !.answer = Callback(top.answer.slot, a.ret, a.outs, <<>>)])
  /\ heap' = Allocate(Range(outs) \cup {err}, top.serial)
  /\ UNCHANGED <<errno, calls, last>>

fault_consumed == Range(top.outs)

\* The vectors Rust takes over from a callback, "no matter if we need the data".
consumed == Range(top.outs) \cup {top.err}

\* Rust takes the answer.  The VM passes a user error on to the contract or
\* aborts it, depending on the import.
takeAnswer(seen, l) ==
  LET ok == into_result(top.answer.ret) = "ok"
      outs == [k \in DOMAIN top.outs |-> consume(top.outs[k])]
  IN
  /\ At("answered")
  /\ IF ok THEN seen \in Results(top.answer.slot, outs) ELSE seen = Trap
  /\ CASE seen # Trap                                 -> l = "wasm"
       [] seen = Trap /\ top.answer.ret = "User"      -> l \in {"wasm", "trap"}
       [] seen = Trap /\ top.answer.ret # "User"      -> l = "trap"
  /\ Becomes([top EXCEPT !.pc = l, !.outs = <<>>, !.err = NoneVector,
                         !.answer = Callback(top.answer.slot, top.answer.ret, top.answer.given, seen)])
  /\ heap' = Free(consumed)
  /\ UNCHANGED <<errno, calls, last>>

fault_reportedGas(result) == IF result = "Ok" THEN "vm" ELSE "zero"

\* The gas is reported before the result of vm_fn is looked at.
reportedGas(result) == "vm"

\* vm_fn returns.
vmReturns(result) ==
  /\ \/ At("wasm") /\ result \in {"Ok", "OutOfGas", "VmErr"}
     \/ At("trap") /\ result \in {"OutOfGas", "VmErr"}
  /\ Becomes([top EXCEPT !.pc = "done", !.result = result, !.gasReport = reportedGas(result),
                         !.answer = NoAnswer])
  /\ UNCHANGED <<errno, heap, calls, last>>

\* The end of the C function: result vectors with the given data, or the error
\* message, and errno.
returnC(data) ==
  LET e == Returns(top.entry)
      ok == top.result = "Ok"
      res == [k \in 1 .. e.gives |->
                IF ok THEN newUnmanagedVector(data[k], Address(k)) ELSE e.onError]
      errmsg == IF ok THEN top.errmsg ELSE newUnmanagedVector("bytes", Address(1))
  IN
  /\ At("done")
  /\ errno' = handle_c_error(top.result)
  /\ Becomes([top EXCEPT !.pc = "back", !.res = res, !.errmsg = errmsg])
  /\ heap' = Allocate(Range(res) \cup {errmsg}, top.serial)
  /\ UNCHANGED <<calls, last>>

Content(v) == IF v.ptr \in DOMAIN heap THEN heap[v.ptr] ELSE 0

\* Go: the call failed.
returnError ==
  /\ At("back")
  /\ errno # ErrnoValue.Success
  /\ last' = [serial |-> top.serial, result |-> top.result,
              err |-> errorWithMessage(errno, copyAndDestroyUnmanagedVector(top.errmsg)),
              msg |-> Content(top.errmsg), data |-> 0, gas |-> top.gasReport]
  /\ heap' = Free({top.errmsg})
  /\ stack' = SubSeq(stack, 1, depth - 1)
  /\ UNCHANGED <<errno, calls>>

\* Go: the call succeeded; DeserializeResponse, or the MessagePack decoder of
\* GetPinnedMetrics, may still refuse the data.
returnOk(err) ==
  LET taken == {top.res[k] : k \in 1 .. Takes(top.entry)} IN
  /\ At("back")
  /\ errno = ErrnoValue.Success
  /\ err = "nil" \/ (err = "deserialize" /\ top.entry \in Contracts \cup {"GetPinnedMetrics"})
  /\ last' = [serial |-> top.serial, result |-> top.result, err |-> err, msg |-> 0,
              data |-> IF taken = {} THEN 0 ELSE Content(top.res[1]), gas |-> top.gasReport]
  /\ heap' = Free(taken)
  /\ stack' = SubSeq(stack, 1, depth - 1)
  /\ UNCHANGED <<errno, calls>>

\* Everything the thread does inside a call.
Step ==
  \/ get_instance
  \/ \E r \in RustErrors : rejected(r)
  \/ \E r \in RustErrors \cup {"Ok"} : cacheOperation(r) \/ vmReturns(r)
  \/ panicked
  \/ \E s \in Slots : callback(s)
  \/ \E a \in UNION Range(vtables) : answer(a)
  \/ At("answered") /\ \E l \in {"wasm", "trap"} :
       \E seen \in Results(top.answer.slot, [k \in DOMAIN top.outs |-> consume(top.outs[k])])
                   \cup {Trap} : takeAnswer(seen, l)
  \/ \E data \in {"empty", "bytes"} \X {"empty", "bytes"} : returnC(data)
  \/ returnError
  \/ \E err \in {"nil", "deserialize"} : returnOk(err)

Next ==
  \/ \E e \in Entries : CallC(e) \/ MarshalFails(e)
  \/ \E no \in Errnos : libcSetsErrno(no)
  \/ Step

Spec == Init /\ [][Next]_vars

-----------------------------------------------------------------------------
(* Properties.                                                             *)

Vectors == [is_none : BOOLEAN, ptr : 0 .. 4 * MaxDepth]

\* A callback has at most two out parameters, a C function at most two results.
UpTo2(S) == UNION {[1 .. n -> S] : n \in 0 .. 2}

CallType == [
  entry : Entries, serial : 1 .. MaxCalls, pc : Locations, ops : 0 .. MaxOps,
  answer : [slot : Slots \cup {"none"},
            ret : {"None", "User", "Panic", "OutOfGas", "CannotSerialize"},
            given : UpTo2(Bytes),
            seen : UpTo2(Bytes \cup {"trap", "invalid_response"})],
  outs : UpTo2(Vectors), err : Vectors,
  result : RustErrors \cup {"Ok", "none"}, gasReport : {"zero", "vm"},
  errmsg : Vectors, res : UpTo2(Vectors)]

\* Every variable has its type; a call that is not the innermost one is inside
\* the callback cQueryExternal, and errno is one of the known values when the C
\* function has returned.
TypeOK ==
  /\ depth <= MaxDepth
  /\ \A k \in DOMAIN stack : stack[k] \in CallType
  /\ \A k \in 1 .. depth - 1 :
       stack[k].pc = "callback" /\ stack[k].answer.slot = "query_external"
  /\ errno \in Errnos
  /\ At("back") => errno \in Range(ErrnoValue)
  /\ DOMAIN heap \subseteq 1 .. 4 * MaxDepth
  /\ Range(heap) \subseteq 1 .. MaxCalls
  /\ calls \in 0 .. MaxCalls

\* The vectors call c is responsible for, on either side of the border.
Held(c) == c.outs \o c.res \o <<c.err, c.errmsg>>

\* "exactly once" (libwasmvm/src/memory.rs): every vector of a call in progress
\* is allocated, was made for that call and is in one place only, so nothing is
\* freed twice or used after it was freed; and every allocation is in such a
\* place, so nothing leaks, on no error path and at no depth of nesting.
OneOwner ==
  /\ DOMAIN heap = UNION {Addresses(Range(Held(stack[k]))) : k \in DOMAIN stack}
  /\ \A k \in DOMAIN stack : \A i \in DOMAIN Held(stack[k]) :
       LET p == Held(stack[k])[i].ptr IN
       p # 0 => /\ heap[p] = stack[k].serial
                /\ \A j \in DOMAIN Held(stack[k]) : Held(stack[k])[j].ptr = p => j = i

\* The Go caller gets the outcome of its own call: an error if and only if the
\* Rust function it called failed, OutOfGasError if and only if that contract
\* ran out of gas, and otherwise the message or the data made for this call.
\* Neither a failed nested call nor an errno left by libc (ENOENT has the number
\* of OutOfGas) is taken for the outcome of a call.
OutcomeIsOwn ==
  /\ last.err \in {"nil", "deserialize"} <=> last.result \in {"Ok", "none"}
  /\ last.err = "OutOfGasError" <=> last.result = "OutOfGas"
  /\ last.err # "errno"
  /\ last.err # "marshal" /\ last.result \notin {"Ok", "none"} => last.msg = last.serial
  /\ last.data \in {0, last.serial}

\* "Depending on the nature of the error, `gasUsed` will either have a meaningful
\* value, or just 0" (internal/api/lib.go): a failed call reports gas exactly if
\* its contract ran to an end, be it out of gas, aborted by a callback or failed.
FailureReportsGas ==
  last.result # "Ok" => (last.gas = "vm" <=> last.result \in {"OutOfGas", "VmErr"})

\* What a contract sees of its store is what the store said: a missing key is
\* not an empty value, next gives a whole pair or the end, and the end only where
\* the store gave no key.  next_key and next_value pass on nil where the store
\* gives nil, which is the end for a key; what nil is for a value is the store's
\* affair.
AnswersArrive ==
  \A k \in DOMAIN stack :
    LET a == stack[k].answer IN
    stack[k].pc = "wasm" /\ a.ret = "None" =>
      /\ a.slot \in {"read_db", "next_key", "next_value"} => a.seen = a.given
      /\ a.slot = "next" => \/ (a.seen = a.given /\ a.given[2] # "nil")
                           \/ (a.seen = <<"nil", "nil">> /\ a.given[1] = "nil")

\* The entry point of the contract that runs is the one of the VM method that was
\* called, through the three layers of lib_libwasmvm.go, lib.go and calls.rs: it
\* gets its arguments in the order it expects, and its answer is decoded into the
\* type it has.
DispatchedRight ==
  \A k \in DOMAIN stack : stack[k].pc = "wasm" =>
    LET d == Dispatch(stack[k].entry) IN
    /\ RawFunctions[d.vm_fn].entry = stack[k].entry
    /\ d.args = RawFunctions[d.vm_fn].params
    /\ d.decodes = RawFunctions[d.vm_fn].answer
=============================================================================
