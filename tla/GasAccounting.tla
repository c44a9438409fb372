---------------------------- MODULE GasAccounting ----------------------------
(***************************************************************************)
(* Gas.  A contract call has a gas limit.  The VM meters what the contract *)
(* does itself (used internally); what a callback of                       *)
(* internal/api/callbacks.go costs is read off the gas meter of the        *)
(* application before and after the operation and reported to the VM,      *)
(* which takes it off the same limit (used externally).  A query of        *)
(* another contract is such an operation, and the queried contract uses    *)
(* the same meter.  When the contract is done, DeserializeResponse of      *)
(* lib_libwasmvm.go charges for decoding its answer.                       *)
(*                                                                         *)
(* All amounts are unsigned words that wrap around, as in Go.              *)
(***************************************************************************)
EXTENDS Naturals, Sequences

CONSTANTS
  Word,         \* amounts are taken modulo this number (2^64 in the code)
  GasLimits,    \* gas limits the application gives
  Amounts,      \* what an instruction or an operation of the store may cost
  Lengths,      \* lengths of a contract's answer
  Numerator,    \* deserCost, a types.UFraction
  Denominator,
  MaxDepth,     \* bound: nesting of calls
  MaxMeter      \* bound: gas the application's meter counts in a behaviour

ASSUME GasAssumption ==
  /\ Word \in Nat \ {0}
  /\ GasLimits \subseteq 0 .. Word - 1
  /\ Amounts \subseteq Nat
  /\ Lengths \subseteq Nat
  /\ Numerator \in Nat
  /\ Denominator \in Nat \ {0}
  /\ MaxMeter \in Nat /\ MaxMeter < Word
  /\ MaxDepth \in Nat

VARIABLES
  meter,   \* GasConsumed() of the application's gas meter
  stack,   \* the contract calls in progress, innermost last
  report   \* the gas report and error of the call that returned last

vars == <<meter, stack, report>>

plus(a, b) == (a + b) % Word
minus(a, b) == (a + Word - b) % Word
monus(a, b) == IF a < b THEN 0 ELSE a - b

\* A call: its limit, what is left of it, what was reported as used externally,
\* and gasBefore, the local variable of cQueryExternal while a query runs.
\* start is the meter's reading when the call began, for the properties.
CallRecord(limit, left, ext, gasBefore, pc, start) ==
  [limit |-> limit, left |-> left, ext |-> ext, gasBefore |-> gasBefore, pc |-> pc,
   start |-> start]

NewCall(limit) == CallRecord(limit, limit, 0, 0, "wasm", meter)

GasReport(limit, remaining, external, internal) ==
  [Limit |-> limit, Remaining |-> remaining, UsedExternally |-> external,
   UsedInternally |-> internal]

EmptyGasReport(limit) == GasReport(limit, limit, 0, 0)

top == stack[Len(stack)]
At(l) == stack # <<>> /\ top.pc = l
Becomes(c) == stack' = [stack EXCEPT ![Len(stack)] = c]
Popped == SubSeq(stack, 1, Len(stack) - 1)

-----------------------------------------------------------------------------
(* cosmwasm_vm.                                                            *)

\* Gas for the instructions of the contract and the functions of the API.
Charged(c, n) ==
  IF n <= c.left
  THEN CallRecord(c.limit, c.left - n, c.ext, c.gasBefore, c.pc, c.start)
  ELSE CallRecord(c.limit, 0, c.ext, c.gasBefore, "out_of_gas", c.start)

\* process_gas_info: a callback reports n as used, and the call goes on at l.
ChargedExternally(c, n, l) ==
  CallRecord(c.limit, monus(c.left, n), plus(c.ext, n), 0,
             IF n <= c.left THEN l ELSE "out_of_gas", c.start)

\* Instance::create_gas_report, and the two conversions to types.GasReport.
create_gas_report(c) ==
  GasReport(c.limit, c.left, c.ext, monus(monus(c.limit, c.ext), c.left))

-----------------------------------------------------------------------------
(* Actions.                                                                *)

Init ==
  /\ meter = 0
  /\ stack = <<>>
  /\ report = [gas |-> EmptyGasReport(0), err |-> "nil"]

\* The application, or the querier for a contract that may spend what it has
\* left, calls a contract.
Call(limit) ==
  /\ Len(stack) < MaxDepth
  /\ \/ stack = <<>> /\ limit \in GasLimits
     \/ At("query") /\ limit = top.left
  /\ stack' = Append(stack, NewCall(limit))
  /\ UNCHANGED <<meter, report>>

\* The contract computes, or uses an address function of the API.
instruction(n) ==
  /\ At("wasm")
  /\ n > 0
  /\ Becomes(Charged(top, n))
  /\ UNCHANGED <<meter, report>>

fault_usedGas(gasBefore, gasAfter) == gasAfter

\* What a callback writes to *usedGas.
usedGas(gasBefore, gasAfter) == minus(gasAfter, gasBefore)

\* The application's meter counts n more; it panics before it exceeds its limit.
Metered(n) == meter + n <= MaxMeter /\ meter' = meter + n

\* cGet, cSet, cDelete, cScan, cNext, nextPart.
storeOperation(n) ==
  /\ At("wasm")
  /\ Metered(n)
  /\ Becomes(ChargedExternally(top, usedGas(meter, meter + n), "wasm"))
  /\ UNCHANGED report

\* The same when the store or its meter panics: *usedGas stays 0, and the
\* GoError aborts the contract.
storePanics(n) ==
  /\ At("wasm")
  /\ Metered(n)
  /\ Becomes(ChargedExternally(top, 0, "trap"))
  /\ UNCHANGED report

\* cQueryExternal until it runs the querier.
query ==
  /\ At("wasm")
  /\ Becomes(CallRecord(top.limit, top.left, top.ext, meter, "query", top.start))
  /\ UNCHANGED <<meter, report>>

\* cQueryExternal after the querier, whose own work costs n.
queryDone(n) ==
  /\ At("query")
  /\ Metered(n)
  /\ Becomes(ChargedExternally(top, usedGas(top.gasBefore, meter + n), "wasm"))
  /\ UNCHANGED report

queryPanics ==
  /\ At("query")
  /\ Becomes(ChargedExternally(top, 0, "trap"))
  /\ UNCHANGED <<meter, report>>

\* The call returns r and the application puts the gas it used on the meter.
Returned(gas, err) ==
  /\ Metered(gas.UsedInternally)
  /\ report' = [gas |-> gas, err |-> err]
  /\ stack' = Popped

\* The contract fails, or was aborted.
callFails ==
  /\ At("wasm") \/ At("trap") \/ At("out_of_gas")
  /\ Returned(create_gas_report(top), IF At("out_of_gas") THEN "OutOfGas" ELSE "vm")

\* Mul and Floor of types.UFraction.
UFraction_Mul_Floor(m) == ((Numerator * m) % Word) \div Denominator

fault_insufficient(gas, cost) == gas.Limit < cost

\* The check of DeserializeResponse.
insufficient(gas, cost) == gas.Limit < plus(cost, gas.UsedInternally)

\* DeserializeResponse: too expensive, or charged and then decoded; decoding and
\* the check of the payload sizes fail after the gas is charged.
DeserializeResponse(n, err) ==
  LET gas == create_gas_report(top)
      cost == UFraction_Mul_Floor(n)
  IN
  /\ At("wasm")
  /\ IF insufficient(gas, cost)
     THEN err = "insufficient gas" /\ Returned(gas, err)
     ELSE /\ err \in {"nil", "decode", "payload"}
          /\ Returned(GasReport(gas.Limit, minus(gas.Remaining, cost), gas.UsedExternally,
                               plus(gas.UsedInternally, cost)), err)

Errors == {"nil", "OutOfGas", "vm", "insufficient gas", "decode", "payload"}

Next ==
  \/ \E limit \in 0 .. Word - 1 : Call(limit)
  \/ \E n \in Amounts : instruction(n) \/ storeOperation(n) \/ storePanics(n) \/ queryDone(n)
  \/ query
  \/ queryPanics
  \/ callFails
  \/ \E n \in Lengths, err \in Errors : DeserializeResponse(n, err)

Spec == Init /\ [][Next]_vars

-----------------------------------------------------------------------------
(* Properties.                                                             *)

Words == 0 .. Word - 1

\* Every variable has its type, a call never has more gas left than its
\* limit, and never used more externally than the meter counted in all.
TypeOK ==
  /\ meter \in 0 .. MaxMeter
  /\ stack \in Seq([limit : Words, left : Words, ext : Words, gasBefore : Words,
                     pc : {"wasm", "query", "trap", "out_of_gas"}, start : Words])
  /\ Len(stack) <= MaxDepth
  /\ \A k \in DOMAIN stack : stack[k].left <= stack[k].limit /\ stack[k].ext <= meter
  /\ report.gas \in [Limit : Words, Remaining : Words, UsedExternally : Words,
                     UsedInternally : Words]
  /\ report.err \in Errors

\* While a contract runs, what its callbacks reported as used adds up to exactly
\* what the application's meter counted since the call began: operations of the
\* contract, of every contract it queried at any depth, and what those calls
\* were charged, each of them once.
ExternalIsMetered ==
  \A k \in DOMAIN stack :
    /\ stack[k].pc = "wasm" => stack[k].ext = meter - stack[k].start
    /\ stack[k].pc = "query" => stack[k].ext = stack[k].gasBefore - stack[k].start

\* The gas a VM method returns for the application to charge never exceeds the
\* limit the application gave, on success and on every failure, decoding included.
ChargeWithinLimit == report.gas.UsedInternally <= report.gas.Limit

\* "The remaining gas that can be spend" (libwasmvm/src/gas_report.rs): what is
\* reported as remaining after a call is part of its limit.
RemainingIsLeft == report.gas.Remaining <= report.gas.Limit
=============================================================================
