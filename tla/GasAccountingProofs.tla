------------------------- MODULE GasAccountingProofs -------------------------
(***************************************************************************)
(* Theorems about GasAccounting, for any width of words, limits, costs,    *)
(* prices and depth of nesting.                                            *)
(***************************************************************************)
EXTENDS GasAccounting, Integers, TLAPS

Calls ==
  [limit : Words, left : Words, ext : Words, gasBefore : Words,
   pc : {"wasm", "query", "trap", "out_of_gas"}, start : Words]

Reports ==
  [Limit : Words, Remaining : Words, UsedExternally : Words, UsedInternally : Words]

\* What holds of a call when the meter reads m.
Sound(c, m) ==
  /\ c.left <= c.limit /\ c.ext <= m /\ c.start <= m
  /\ c.pc = "wasm" => c.ext = m - c.start
  /\ c.pc = "query" => /\ c.ext = c.gasBefore - c.start
                       /\ c.gasBefore <= m /\ c.start <= c.gasBefore

(***************************************************************************)
(* The inductive invariant.  ExternalIsMetered needs that the meter moves  *)
(* only for the innermost call, every other call being inside a query with *)
(* the reading from before it; that readings do not decrease; and that no  *)
(* sum or difference of readings wraps around.                             *)
(***************************************************************************)

StackInv ==
  /\ \A k \in DOMAIN stack : Sound(stack[k], meter)
  /\ \A k \in DOMAIN stack : k < Len(stack) => stack[k].pc = "query"

IInv == TypeOK /\ StackInv /\ ChargeWithinLimit

-----------------------------------------------------------------------------
(* Words                                                                   *)

LEMMA WordsAreModular ==
  ASSUME NEW a \in Int
  PROVE  a % Word \in Words
  BY GasAssumption DEF GasAssumption, Words

LEMMA SmallNumbers ==
  ASSUME NEW a \in Words
  PROVE  a % Word = a /\ (a + Word) % Word = a
  BY GasAssumption DEF GasAssumption, Words

LEMMA Plus ==
  ASSUME NEW a \in Nat, NEW b \in Nat, a + b < Word
  PROVE  plus(a, b) = a + b
  BY GasAssumption, SmallNumbers DEF GasAssumption, Words, plus

LEMMA Minus ==
  ASSUME NEW a \in Words, NEW b \in Words, b <= a
  PROVE  minus(a, b) = a - b
<1>1. a - b \in Words /\ a + Word - b = (a - b) + Word
  BY GasAssumption DEF GasAssumption, Words
<1> QED BY <1>1, SmallNumbers DEF minus

-----------------------------------------------------------------------------
(* Steps on the stack                                                      *)

\* A call inside a query does not see the meter count.
LEMMA QueriesWait ==
  ASSUME NEW c \in Calls, c.pc = "query", NEW m \in Nat, NEW n \in Nat, Sound(c, m)
  PROVE  Sound(c, m + n)
<1>1. c.ext \in Nat /\ c.start \in Nat /\ c.gasBefore \in Nat
  BY GasAssumption DEF GasAssumption, Calls, Words
<1> QED BY <1>1 DEF Sound

\* The innermost call changes to c while the meter counts n.
LEMMA TopStep ==
  ASSUME IInv, stack # << >>, NEW c \in Calls, Becomes(c),
         NEW n \in Nat, meter' = meter + n, meter + n <= MaxMeter,
         Sound(c, meter + n), UNCHANGED report
  PROVE  IInv'
<1> USE GasAssumption DEF GasAssumption, Becomes
<1>1. /\ stack \in Seq(Calls) /\ Len(stack) \in Nat \ {0} /\ meter \in Nat
      /\ DOMAIN stack = 1 .. Len(stack)
  BY DEF IInv, TypeOK, Calls
<1>2. /\ stack' \in Seq(Calls) /\ Len(stack') = Len(stack) /\ DOMAIN stack' = DOMAIN stack
      /\ stack'[Len(stack)] = c
      /\ \A k \in DOMAIN stack : k # Len(stack) => stack'[k] = stack[k]
  BY <1>1
<1>3. ASSUME NEW k \in DOMAIN stack
      PROVE  Sound(stack'[k], meter')
  <2>1. CASE k = Len(stack)
    BY <1>2, <2>1
  <2>2. CASE k # Len(stack)
    <3>1. stack[k] \in Calls /\ stack[k].pc = "query" /\ Sound(stack[k], meter)
      BY <1>1, <2>2 DEF IInv, StackInv
    <3> QED BY <1>1, <1>2, <2>2, <3>1, QueriesWait, SMTT(30)
  <2> QED BY <2>1, <2>2
<1>4. StackInv'
  BY <1>1, <1>2, <1>3 DEF IInv, StackInv
<1>5. TypeOK' /\ ChargeWithinLimit'
  <2>1. \A k \in DOMAIN stack' : stack'[k].left <= stack'[k].limit /\ stack'[k].ext <= meter'
    BY <1>2, <1>3 DEF Sound
  <2> QED BY <1>1, <1>2, <2>1 DEF IInv, TypeOK, Calls, ChargeWithinLimit
<1> QED BY <1>4, <1>5 DEF IInv

\* A call begins inside a query, or when there is none.
LEMMA CallStep ==
  ASSUME IInv, NEW limit \in 0 .. Word - 1, Call(limit)
  PROVE  IInv'
<1> USE GasAssumption DEF GasAssumption
<1> DEFINE c == NewCall(limit)
<1>1. /\ stack \in Seq(Calls) /\ Len(stack) \in Nat /\ meter \in Nat /\ meter < Word
      /\ DOMAIN stack = 1 .. Len(stack)
  BY DEF IInv, TypeOK, Calls
<1>2. c \in Calls /\ Sound(c, meter)
  BY <1>1 DEF NewCall, CallRecord, Calls, Words, Sound
<1>3. stack' = Append(stack, c) /\ UNCHANGED <<meter, report>> /\ Len(stack) < MaxDepth
  BY DEF Call
<1> HIDE DEF c
<1>4. /\ stack' \in Seq(Calls) /\ Len(stack') = Len(stack) + 1
      /\ DOMAIN stack' = 1 .. Len(stack) + 1 /\ stack'[Len(stack) + 1] = c
      /\ \A k \in DOMAIN stack : stack'[k] = stack[k]
  BY <1>1, <1>2, <1>3
<1>5. \A k \in DOMAIN stack' : k = Len(stack) + 1 \/ k \in DOMAIN stack
  BY <1>1, <1>4
<1>6. \A k \in DOMAIN stack' : Sound(stack'[k], meter')
  BY <1>2, <1>3, <1>4, <1>5 DEF IInv, StackInv
<1>7. stack # << >> => stack[Len(stack)].pc = "query"
  BY DEF Call, At, top
<1>8. \A k \in DOMAIN stack' : k < Len(stack') => stack'[k].pc = "query"
  BY <1>1, <1>4, <1>5, <1>7 DEF IInv, StackInv
<1>9. TypeOK' /\ ChargeWithinLimit'
  <2>1. \A k \in DOMAIN stack' : stack'[k].left <= stack'[k].limit /\ stack'[k].ext <= meter'
    BY <1>6 DEF Sound
  <2> QED BY <1>1, <1>3, <1>4, <2>1 DEF IInv, TypeOK, Calls, ChargeWithinLimit
<1> QED BY <1>6, <1>8, <1>9 DEF IInv, StackInv

\* The innermost call returns.
LEMMA ReturnedStep ==
  ASSUME IInv, stack # << >>, NEW gas \in Reports, NEW err \in Errors, Returned(gas, err),
         gas.UsedInternally <= gas.Limit
  PROVE  IInv'
<1> USE GasAssumption DEF GasAssumption
<1> DEFINE n == gas.UsedInternally
<1>1. /\ stack \in Seq(Calls) /\ Len(stack) \in Nat \ {0} /\ meter \in Nat
      /\ DOMAIN stack = 1 .. Len(stack)
  BY DEF IInv, TypeOK, Calls
<1>2. n \in Nat /\ meter' = meter + n /\ meter + n <= MaxMeter
  BY DEF Returned, Metered, Reports, Words
<1>3. stack' = SubSeq(stack, 1, Len(stack) - 1) /\ report' = [gas |-> gas, err |-> err]
  BY DEF Returned, Popped
<1> HIDE DEF n
<1>4. /\ stack' \in Seq(Calls) /\ Len(stack') = Len(stack) - 1
      /\ DOMAIN stack' = 1 .. Len(stack) - 1
      /\ \A k \in 1 .. Len(stack) - 1 : stack'[k] = stack[k]
  BY <1>1, <1>3
<1>5. ASSUME NEW k \in DOMAIN stack'
      PROVE  Sound(stack'[k], meter') /\ stack'[k].pc = "query"
  <2>1. /\ k \in DOMAIN stack /\ k < Len(stack) /\ stack'[k] = stack[k]
    BY <1>1, <1>4
  <2>2. stack[k] \in Calls /\ stack[k].pc = "query" /\ Sound(stack[k], meter)
    BY <1>1, <2>1 DEF IInv, StackInv
  <2> QED BY <1>1, <1>2, <2>1, <2>2, QueriesWait, Zenon
<1>6. TypeOK' /\ ChargeWithinLimit'
  <2>1. \A k \in DOMAIN stack' : stack'[k].left <= stack'[k].limit /\ stack'[k].ext <= meter'
    BY <1>5 DEF Sound
  <2>2. report'.gas = gas /\ report'.err = err
    BY <1>3
  <2> QED BY <1>1, <1>2, <1>4, <2>1, <2>2 DEF IInv, TypeOK, Calls, Reports, ChargeWithinLimit
<1> QED BY <1>5, <1>6 DEF IInv, StackInv

-----------------------------------------------------------------------------
(* The steps of a contract                                                 *)

\* The innermost call.
LEMMA TopIsSound ==
  ASSUME IInv, stack # << >>
  PROVE  /\ top \in Calls /\ Sound(top, meter) /\ meter \in Nat /\ meter <= MaxMeter
         /\ MaxMeter \in Nat /\ Word \in Nat /\ MaxMeter < Word
<1>1. stack \in Seq(Calls) /\ Len(stack) \in 1 .. Len(stack) /\ DOMAIN stack = 1 .. Len(stack)
  BY DEF IInv, TypeOK, Calls
<1> QED BY <1>1, GasAssumption DEF GasAssumption, IInv, TypeOK, StackInv, top

LEMMA InstructionStep ==
  ASSUME IInv, NEW n \in Amounts, instruction(n)
  PROVE  IInv'
<1>1. stack # << >> /\ top.pc = "wasm" /\ n \in Nat
  BY GasAssumption DEF instruction, At, GasAssumption
<1>2. /\ top \in Calls /\ Sound(top, meter) /\ meter \in Nat /\ meter <= MaxMeter
  BY <1>1, TopIsSound
<1>3. Charged(top, n) \in Calls /\ Sound(Charged(top, n), meter)
  <2> USE GasAssumption DEF GasAssumption, CallRecord, Calls, Words
  <2>1. top.left \in Nat /\ top.limit \in Nat /\ top.left < Word
    BY <1>2
  <2>2. CASE n <= top.left
    <3>1. top.left - n \in Nat /\ top.left - n <= top.limit /\ top.left - n < Word
      BY <1>1, <1>2, <2>1, <2>2 DEF Sound
    <3> QED BY <1>1, <1>2, <2>2, <3>1 DEF Charged, Sound
  <2>3. CASE ~(n <= top.left)
    BY <1>1, <1>2, <2>1, <2>3 DEF Charged, Sound
  <2> QED BY <2>2, <2>3
<1>4. Becomes(Charged(top, n)) /\ meter' = meter + 0 /\ meter + 0 = meter /\ UNCHANGED report
  BY <1>2 DEF instruction
<1> QED BY <1>1, <1>2, <1>3, <1>4, TopStep

\* A callback reports what the meter has counted for it.
LEMMA Charging ==
  ASSUME NEW c \in Calls, NEW m \in Nat, NEW n \in Nat, NEW used \in Nat,
         NEW l \in {"wasm", "trap"}, m + n <= MaxMeter,
         Sound(c, m), l = "wasm" => c.ext + used = m + n - c.start, l = "trap" => used = 0
  PROVE  ChargedExternally(c, used, l) \in Calls /\ Sound(ChargedExternally(c, used, l), m + n)
<1>1. /\ c.ext \in Nat /\ c.start \in Nat /\ c.left \in Nat /\ c.limit \in Nat
      /\ c.limit < Word /\ c.ext < Word /\ c.start < Word /\ c.ext <= m /\ c.start <= m
      /\ c.left <= c.limit /\ m + n < Word /\ Word \in Nat
  BY GasAssumption DEF GasAssumption, Calls, Words, Sound
<1>2. c.ext + used <= m + n
  BY <1>1
<1>3. plus(c.ext, used) = c.ext + used
  BY <1>1, <1>2, Plus
<1>4. monus(c.left, used) \in Nat /\ monus(c.left, used) <= c.limit
  BY <1>1 DEF monus
<1>5. l = "trap" => used <= c.left
  BY <1>1
<1> QED BY <1>1, <1>2, <1>3, <1>4, <1>5 DEF ChargedExternally, CallRecord, Calls, Words, Sound

LEMMA StoreOperationStep ==
  ASSUME IInv, NEW n \in Amounts, storeOperation(n)
  PROVE  IInv'
<1>1. /\ stack # << >> /\ top.pc = "wasm" /\ n \in Nat
      /\ meter' = meter + n /\ meter + n <= MaxMeter /\ UNCHANGED report
  BY GasAssumption DEF storeOperation, At, Metered, GasAssumption
<1>2. /\ top \in Calls /\ Sound(top, meter) /\ meter \in Nat /\ meter <= MaxMeter
      /\ MaxMeter \in Nat /\ Word \in Nat /\ MaxMeter < Word
  BY <1>1, TopIsSound
<1>3. usedGas(meter, meter + n) = n
  <2>1. meter \in Words /\ meter + n \in Words /\ meter <= meter + n /\ (meter + n) - meter = n
    BY <1>1, <1>2 DEF Words
  <2> QED BY <2>1, Minus DEF usedGas
<1>4. top.ext + n = meter + n - top.start
  BY <1>1, <1>2 DEF Sound, Calls, Words
<1>5. /\ ChargedExternally(top, n, "wasm") \in Calls
      /\ Sound(ChargedExternally(top, n, "wasm"), meter + n)
  BY <1>1, <1>2, <1>4, Charging
<1>6. Becomes(ChargedExternally(top, n, "wasm"))
  BY <1>3 DEF storeOperation
<1> QED BY <1>1, <1>2, <1>5, <1>6, TopStep

\* The call is aborted; the meter may have counted.
LEMMA PanicStep ==
  ASSUME IInv, stack # << >>, NEW n \in Nat, Becomes(ChargedExternally(top, 0, "trap")),
         meter' = meter + n, meter + n <= MaxMeter, UNCHANGED report
  PROVE  IInv'
<1>1. /\ top \in Calls /\ Sound(top, meter) /\ meter \in Nat
  BY TopIsSound
<1>2. /\ ChargedExternally(top, 0, "trap") \in Calls
      /\ Sound(ChargedExternally(top, 0, "trap"), meter + n)
  BY <1>1, Charging, Zenon
<1> QED BY <1>2, TopStep

LEMMA QueryStep ==
  ASSUME IInv, query
  PROVE  IInv'
<1> DEFINE c == CallRecord(top.limit, top.left, top.ext, meter, "query", top.start)
<1>1. stack # << >> /\ top.pc = "wasm"
  BY DEF query, At
<1>2. /\ top \in Calls /\ Sound(top, meter) /\ meter \in Nat /\ meter <= MaxMeter
      /\ MaxMeter \in Nat /\ Word \in Nat /\ MaxMeter < Word
  BY <1>1, TopIsSound
<1>3. c \in Calls /\ Sound(c, meter)
  BY <1>1, <1>2 DEF CallRecord, Calls, Words, Sound
<1>4. Becomes(c) /\ meter' = meter + 0 /\ meter + 0 = meter /\ UNCHANGED report
  BY <1>2 DEF query
<1> QED BY <1>1, <1>2, <1>3, <1>4, TopStep

LEMMA QueryDoneStep ==
  ASSUME IInv, NEW n \in Amounts, queryDone(n)
  PROVE  IInv'
<1> DEFINE used == (meter + n) - top.gasBefore
<1>1. /\ stack # << >> /\ top.pc = "query" /\ n \in Nat
      /\ meter' = meter + n /\ meter + n <= MaxMeter /\ UNCHANGED report
  BY GasAssumption DEF queryDone, At, Metered, GasAssumption
<1>2. /\ top \in Calls /\ Sound(top, meter) /\ meter \in Nat /\ meter <= MaxMeter
      /\ MaxMeter \in Nat /\ Word \in Nat /\ MaxMeter < Word
  BY <1>1, TopIsSound
<1>3. /\ top.gasBefore \in Words /\ meter + n \in Words /\ top.gasBefore <= meter + n
      /\ used \in Nat /\ top.ext + used = meter + n - top.start
  BY <1>1, <1>2, SMTT(30) DEF Sound, Calls, Words
<1>4. usedGas(top.gasBefore, meter + n) = used
  BY <1>3, Minus DEF usedGas
<1>5. Becomes(ChargedExternally(top, used, "wasm"))
  BY <1>4 DEF queryDone
<1> HIDE DEF used
<1>6. /\ ChargedExternally(top, used, "wasm") \in Calls
      /\ Sound(ChargedExternally(top, used, "wasm"), meter + n)
  BY <1>1, <1>2, <1>3, Charging
<1> QED BY <1>1, <1>2, <1>5, <1>6, TopStep

\* The report of a call is made of words, and the gas it says was used by the
\* contract is part of the limit.
LEMMA ReportIsSound ==
  ASSUME NEW c \in Calls
  PROVE  /\ create_gas_report(c) \in Reports
         /\ create_gas_report(c).UsedInternally <= create_gas_report(c).Limit
<1>1. /\ c.limit \in Words /\ c.left \in Words /\ c.ext \in Words /\ Word \in Nat
  BY GasAssumption DEF GasAssumption, Calls
<1>2. /\ monus(monus(c.limit, c.ext), c.left) \in Words
      /\ monus(monus(c.limit, c.ext), c.left) <= c.limit
  BY <1>1 DEF monus, Words
<1> QED BY <1>1, <1>2 DEF create_gas_report, GasReport, Reports

LEMMA CallFailsStep ==
  ASSUME IInv, callFails
  PROVE  IInv'
<1>1. stack # << >>
  BY DEF callFails, At
<1>2. /\ create_gas_report(top) \in Reports
      /\ create_gas_report(top).UsedInternally <= create_gas_report(top).Limit
  BY <1>1, TopIsSound, ReportIsSound
<1>3. PICK err \in {"OutOfGas", "vm"} : Returned(create_gas_report(top), err)
  BY DEF callFails
<1> QED BY <1>1, <1>2, <1>3, ReturnedStep DEF Errors

\* If the check of DeserializeResponse lets a call through, the sum it has
\* compared with the limit is the sum that is charged, wrapped around or not.
LEMMA DeserializeStep ==
  ASSUME IInv, NEW n \in Lengths, NEW err \in Errors, DeserializeResponse(n, err)
  PROVE  IInv'
<1> DEFINE gas == create_gas_report(top)
           cost == UFraction_Mul_Floor(n)
           charged == GasReport(gas.Limit, minus(gas.Remaining, cost), gas.UsedExternally,
                                plus(gas.UsedInternally, cost))
<1>1. stack # << >>
  BY DEF DeserializeResponse, At
<1>2. gas \in Reports /\ gas.UsedInternally <= gas.Limit
  BY <1>1, TopIsSound, ReportIsSound
<1>3. CASE insufficient(gas, cost)
  BY <1>1, <1>2, <1>3, ReturnedStep DEF DeserializeResponse
<1>4. CASE ~insufficient(gas, cost)
  <2>1. Returned(charged, err)
    BY <1>4 DEF DeserializeResponse
  <2>2. cost \in Int
    BY GasAssumption DEF GasAssumption, UFraction_Mul_Floor
  <2> HIDE DEF gas, cost
  <2>3. /\ gas.Limit \in Words /\ gas.UsedExternally \in Words
        /\ gas.UsedInternally \in Int /\ gas.Remaining \in Int /\ Word \in Int
    BY <1>2, GasAssumption DEF GasAssumption, Reports, Words
  <2>4. plus(gas.UsedInternally, cost) \in Words /\ minus(gas.Remaining, cost) \in Words
    BY <2>2, <2>3, WordsAreModular DEF plus, minus
  <2>5. plus(cost, gas.UsedInternally) = plus(gas.UsedInternally, cost)
    <3>1. cost + gas.UsedInternally = gas.UsedInternally + cost
      BY <2>2, <2>3
    <3> QED BY <3>1 DEF plus
  <2>6. plus(gas.UsedInternally, cost) <= gas.Limit
    BY <1>4, <2>3, <2>4, <2>5, GasAssumption DEF insufficient, Words, GasAssumption
  <2>7. charged \in Reports /\ charged.UsedInternally <= charged.Limit
    BY <2>3, <2>4, <2>6 DEF GasReport, Reports
  <2> QED BY <1>1, <2>1, <2>7, ReturnedStep
<1> QED BY <1>3, <1>4

-----------------------------------------------------------------------------

LEMMA InitInv == Init => IInv
<1> SUFFICES ASSUME Init PROVE IInv
  OBVIOUS
<1>1. stack = << >> /\ stack \in Seq(Calls) /\ Len(stack) = 0 /\ DOMAIN stack = {}
  BY DEF Init
<1>2. /\ report.gas \in Reports /\ report.err \in Errors
      /\ report.gas.UsedInternally = 0 /\ report.gas.Limit = 0
  BY GasAssumption DEF GasAssumption, Init, EmptyGasReport, GasReport, Reports, Words, Errors
<1> QED BY <1>1, <1>2, GasAssumption
        DEF GasAssumption, Init, IInv, TypeOK, StackInv, ChargeWithinLimit, Calls, Reports

LEMMA NextStep ==
  ASSUME IInv, [Next]_vars
  PROVE  IInv'
<1>1. CASE UNCHANGED vars
  BY <1>1 DEF vars, IInv, TypeOK, StackInv, ChargeWithinLimit, Sound
<1>2. ASSUME NEW n \in Amounts, storePanics(n)
      PROVE  IInv'
  BY <1>2, PanicStep, GasAssumption DEF storePanics, At, Metered, GasAssumption
<1>3. CASE queryPanics
  <2>1. stack # << >> /\ meter' = meter + 0 /\ meter + 0 <= MaxMeter
    BY <1>3, TopIsSound DEF queryPanics, At
  <2> QED BY <1>3, <2>1, PanicStep DEF queryPanics
<1> QED BY <1>1, <1>2, <1>3, CallStep, InstructionStep, StoreOperationStep, QueryStep,
           QueryDoneStep, CallFailsStep, DeserializeStep DEF Next

LEMMA Invariance == Spec => []IInv
  BY InitInv, NextStep, PTL DEF Spec

\* Every amount stays a word, and no call has more gas left than its limit.
THEOREM TypeCorrect == Spec => []TypeOK
<1>1. IInv => TypeOK
  BY DEF IInv
<1> QED BY <1>1, Invariance, PTL

\* What the callbacks of a running contract have reported is exactly what the
\* meter has counted since its call began, at every depth of nesting: no
\* callback, query or nested call is counted twice or missed (callbacks.go).
THEOREM ExternalAlwaysMetered == Spec => []ExternalIsMetered
<1>1. IInv => ExternalIsMetered
  BY DEF IInv, StackInv, Sound, ExternalIsMetered
<1> QED BY <1>1, Invariance, PTL

\* No call is charged more than its limit, decoding included, whatever the
\* price of a byte is: also when the sum in DeserializeResponse wraps around.
THEOREM ChargeAlwaysWithinLimit == Spec => []ChargeWithinLimit
<1>1. IInv => ChargeWithinLimit
  BY DEF IInv
<1> QED BY <1>1, Invariance, PTL

=============================================================================
