------------------------- MODULE ContractCallProofs -------------------------
(***************************************************************************)
(* Safety of the calls into the Rust library for every set of entry points *)
(* and callbacks, every nesting depth and every number of calls.           *)
(*                                                                         *)
(* The invariant IInv says what a call has at each of its locations, and   *)
(* that a call that waits in cQueryExternal holds no memory at all: every  *)
(* allocation belongs to the innermost call, and only between the moment   *)
(* one side has written its vectors and the moment the other side has      *)
(* taken them.                                                             *)
(***************************************************************************)
EXTENDS ContractCall, TLAPS

\* The steps are first-order: Zenon is the backend, and the leaves that reason
\* about numbers or sequences cite SMT.
USE Zenon

-----------------------------------------------------------------------------
(* The invariant.                                                          *)

\* What the contract has seen of a successful read is what the store gave.
Arrived(a) ==
  /\ a.slot \in {"read_db", "next_key", "next_value"} => a.seen = a.given
  /\ a.slot = "next" => \/ (a.seen = a.given /\ a.given[2] # "nil")
                       \/ (a.seen = <<"nil", "nil">> /\ a.given[1] = "nil")

\* The vectors Go has written for Rust stand for the bytes of the answer.
AnswerHeld(c) ==
  /\ Len(c.outs) = Len(c.answer.given)
  /\ \A k \in 1 .. Len(c.outs) :
       consume(c.outs[k]) = c.answer.given[k] /\ c.outs[k].ptr \in {0, k}
  /\ c.err.ptr \in {0, Len(c.outs) + 1}

\* The vectors Rust has written for Go: those of the result or the message.
ResultHeld(c) ==
  /\ Len(c.res) = Takes(c.entry)
  /\ c.result = "Ok" =>
       c.errmsg = EmptyVector /\ \A k \in 1 .. Len(c.res) : c.res[k].ptr \in {0, k}
  /\ c.result # "Ok" =>
       c.errmsg = [is_none |-> FALSE, ptr |-> 1] /\ \A k \in 1 .. Len(c.res) : c.res[k].ptr = 0

\* What a call has at its location.
CallOK(c) ==
  /\ c.pc = "called" => c.answer = NoAnswer
  /\ c.pc \in {"wasm", "callback", "answered", "trap"} => c.entry \in Contracts
  /\ c.pc \in {"callback", "answered"} => c.answer.slot \in Slots
  /\ c.pc = "answered" => AnswerHeld(c)
  /\ c.pc # "answered" => c.outs = <<>> /\ c.err = NoneVector
  /\ c.pc = "wasm" /\ c.answer.ret = "None" => Arrived(c.answer)
  /\ c.pc \notin {"done", "back"} => c.gasReport = "zero"
  /\ c.pc \in {"done", "back"} =>
       /\ c.result \in RustErrors \cup {"Ok"}
       /\ c.result # "Ok" => (c.gasReport = "vm" <=> c.result \in {"OutOfGas", "VmErr"})
  /\ c.pc = "back" => ResultHeld(c)
  /\ c.pc # "back" => c.res = <<>> /\ c.errmsg = EmptyVector

StackInv ==
  /\ stack \in Seq(CallType)
  /\ Len(stack) <= MaxDepth
  /\ \A k \in 1 .. Len(stack) : CallOK(stack[k])
  /\ \A k \in 1 .. Len(stack) - 1 :
       stack[k].pc = "callback" /\ stack[k].answer.slot = "query_external"

\* The memory a call is responsible for.
Owned(c) == Addresses(Range(c.outs) \cup Range(c.res) \cup {c.err, c.errmsg})

\* The innermost call has all memory.
HeapInv ==
  /\ Len(stack) = 0 => DOMAIN heap = {}
  /\ Len(stack) > 0 =>
       DOMAIN heap = Owned(top) /\ \A p \in DOMAIN heap : heap[p] = top.serial

\* Between the end of the C function and cgo's look at it nothing sets errno.
ErrnoInv == errno \in Errnos /\ (At("back") => errno = handle_c_error(top.result))

IInv ==
  /\ StackInv /\ HeapInv /\ ErrnoInv
  /\ calls \in 0 .. MaxCalls
  /\ OutcomeIsOwn /\ FailureReportsGas

-----------------------------------------------------------------------------
(* Sequences of at most two elements.                                      *)

LEMMA ShortSeq ==
  ASSUME NEW S
  PROVE  \A s : s \in UpTo2(S) <=> s \in Seq(S) /\ Len(s) <= 2
  <1>1. ASSUME NEW s \in UpTo2(S) PROVE s \in Seq(S) /\ Len(s) <= 2
    <2>1. PICK m \in 0 .. 2 : s \in [1 .. m -> S]
      BY DEF UpTo2
    <2> QED
      BY <2>1, SMT
  <1>2. ASSUME NEW s \in Seq(S), Len(s) <= 2 PROVE s \in UpTo2(S)
    <2>1. Len(s) \in Nat /\ s \in [1 .. Len(s) -> S]
      BY SMT
    <2>2. \A n \in Nat : n <= 2 => n \in 0 .. 2
      BY SMT
    <2>3. Len(s) \in 0 .. 2
      BY <1>2, <2>1, <2>2
    <2> QED
      BY <2>1, <2>3 DEF UpTo2
  <1> QED
    BY <1>1, <1>2

LEMMA ShortSeqElements ==
  ASSUME NEW S, NEW s \in UpTo2(S)
  PROVE  /\ s \in Seq(S) /\ Len(s) \in 0 .. 2 /\ DOMAIN s = 1 .. Len(s)
         /\ \A k \in 1 .. Len(s) : s[k] \in S
  <1>1. s \in Seq(S) /\ Len(s) <= 2
    BY ShortSeq
  <1>2. Len(s) \in Nat /\ DOMAIN s = 1 .. Len(s) /\ \A k \in 1 .. Len(s) : s[k] \in S
    BY <1>1, SMT
  <1>3. \A n \in Nat : n <= 2 => n \in 0 .. 2
    BY SMT
  <1> QED
    BY <1>1, <1>2, <1>3

LEMMA ShortSeqs ==
  ASSUME NEW S
  PROVE  /\ <<>> \in UpTo2(S)
         /\ \A x \in S : <<x>> \in UpTo2(S)
         /\ \A x, y \in S : <<x, y>> \in UpTo2(S)
         /\ \A n \in 0 .. 2 : \A x \in S : [k \in 1 .. n |-> x] \in UpTo2(S)
  <1>1. <<>> \in Seq(S) /\ Len(<<>>) <= 2
    BY SMT
  <1>2. \A x \in S : <<x>> \in Seq(S) /\ Len(<<x>>) <= 2
    BY SMT
  <1>3. \A x, y \in S : <<x, y>> \in Seq(S) /\ Len(<<x, y>>) <= 2
    BY SMT
  <1>4. \A n \in 0 .. 2 : \A x \in S : [k \in 1 .. n |-> x] \in UpTo2(S)
    BY SMT DEF UpTo2
  <1> QED
    BY <1>1, <1>2, <1>3, <1>4, ShortSeq

LEMMA ShortFunctions ==
  ASSUME NEW S, NEW n \in 0 .. 2, NEW s \in [1 .. n -> S]
  PROVE  s \in UpTo2(S) /\ Len(s) = n
  BY SMT DEF UpTo2

LEMMA Prefix ==
  ASSUME NEW S, NEW s \in Seq(S), NEW m \in Nat, m <= Len(s)
  PROVE  /\ SubSeq(s, 1, m) \in Seq(S) /\ Len(SubSeq(s, 1, m)) = m
         /\ \A k \in 1 .. m : SubSeq(s, 1, m)[k] = s[k]
  BY SMT

LEMMA WithoutLast ==
  ASSUME NEW S, NEW s \in Seq(S), Len(s) > 0
  PROVE  /\ SubSeq(s, 1, Len(s) - 1) \in Seq(S)
         /\ Len(SubSeq(s, 1, Len(s) - 1)) = Len(s) - 1
         /\ \A k \in 1 .. Len(s) - 1 : SubSeq(s, 1, Len(s) - 1)[k] = s[k]
  <1> DEFINE n == Len(s) - 1
  <1>1. n \in Nat /\ n <= Len(s)
    BY SMT
  <1> HIDE DEF n
  <1>2. /\ SubSeq(s, 1, n) \in Seq(S) /\ Len(SubSeq(s, 1, n)) = n
        /\ \A k \in 1 .. n : SubSeq(s, 1, n)[k] = s[k]
    BY <1>1, Prefix
  <1> QED
    BY <1>2 DEF n

-----------------------------------------------------------------------------
(* The callbacks.                                                          *)

GoErrors == {"None", "User", "Panic", "OutOfGas", "CannotSerialize"}

Answers == [ret : GoErrors, outs : UpTo2(Bytes), err : Bytes]

LEMMA Names ==
  /\ "nil" \in Bytes /\ "bytes" \in Bytes /\ \A m \in Messages : m \in Bytes
  /\ "None" \in GoErrors /\ "User" \in GoErrors /\ "CannotSerialize" \in GoErrors
  /\ "Panic" \in GoErrors /\ "OutOfGas" \in GoErrors
  BY DEF Bytes, Messages, GoErrors

LEMMA AnswerTyped ==
  \A ret \in GoErrors, outs \in UpTo2(Bytes), err \in Bytes : Answer(ret, outs, err) \in Answers
  BY DEF Answer, Answers

LEMMA PanicsTyped == \A n \in 0 .. 2 : recoverPanic(n) \subseteq Answers
  <1> SUFFICES ASSUME NEW n \in 0 .. 2, NEW e \in {"OutOfGas", "Panic"}
               PROVE  Answer(e, [k \in 1 .. n |-> "nil"], "nil") \in Answers
    BY DEF recoverPanic
  <1>1. e \in GoErrors
    BY DEF GoErrors
  <1>2. [k \in 1 .. n |-> "nil"] \in UpTo2(Bytes)
    BY Names, ShortSeqs
  <1> QED
    BY <1>1, <1>2, Names, AnswerTyped

\* Every callback gives answers of one type.
LEMMA AnswersTyped == \A s \in DOMAIN vtables : vtables[s] \subseteq Answers
  <1>1. /\ recoverPanic(0) \subseteq Answers
        /\ recoverPanic(1) \subseteq Answers
        /\ recoverPanic(2) \subseteq Answers
    BY PanicsTyped, SMT
  <1>2. cGet \subseteq Answers /\ cSet \subseteq Answers /\ cDelete \subseteq Answers
    BY <1>1, Names, ShortSeqs, AnswerTyped DEF cGet, cSet, cDelete
  <1>3. cScan \subseteq Answers
    BY <1>1, Names, ShortSeqs, AnswerTyped, ZenonT(30) DEF cScan
  <1>4. cNext \subseteq Answers
    <2>1. \A kv \in Bytes \X Bytes : kv = <<kv[1], kv[2]>> /\ kv[1] \in Bytes /\ kv[2] \in Bytes
      BY SMT
    <2>2. \A kv \in Bytes \X Bytes : kv \in UpTo2(Bytes)
      BY <2>1, ShortSeqs
    <2>3. <<"nil", "nil">> \in UpTo2(Bytes)
      BY Names, ShortSeqs
    <2> QED
      BY <1>1, <2>2, <2>3, Names, AnswerTyped, SMT DEF cNext
  <1>5. nextPart \subseteq Answers
    BY <1>1, Names, ShortSeqs, AnswerTyped, ZenonT(30) DEF nextPart
  <1>6. cHumanizeAddress \subseteq Answers
    BY <1>1, Names, ShortSeqs, AnswerTyped, ZenonT(30) DEF cHumanizeAddress
  <1>7. cCanonicalizeAddress \subseteq Answers
    BY <1>1, Names, ShortSeqs, AnswerTyped, ZenonT(30) DEF cCanonicalizeAddress
  <1>8. cValidateAddress \subseteq Answers
    BY <1>1, Names, ShortSeqs, AnswerTyped, ZenonT(30) DEF cValidateAddress
  <1>9. cQueryExternal \subseteq Answers
    BY <1>1, Names, ShortSeqs, AnswerTyped, ZenonT(30) DEF cQueryExternal
  <1> QED
    BY <1>2, <1>3, <1>4, <1>5, <1>6, <1>7, <1>8, <1>9, SMTT(30) DEF vtables

Sights == UpTo2(Bytes \cup {"trap", "invalid_response"})

\* What Rust makes of the outputs of a callback.
LEMMA ResultsTyped ==
  ASSUME NEW s \in DOMAIN vtables, NEW outs \in UpTo2(Bytes), NEW seen \in Results(s, outs)
  PROVE  /\ seen \in Sights
         /\ s \in {"read_db", "next_key", "next_value"} => seen = outs
         /\ s = "next" /\ seen # Trap => \/ seen = outs /\ outs[2] # "nil"
                                         \/ seen = <<"nil", "nil">> /\ outs[1] = "nil"
  <1>1. outs \in Sights
    <2>1. outs \in Seq(Bytes) /\ Len(outs) <= 2
      BY ShortSeq
    <2>2. outs \in Seq(Bytes \cup {"trap", "invalid_response"})
      BY <2>1, SMT
    <2> QED
      BY <2>1, <2>2, ShortSeq DEF Sights
  <1>2. Trap \in Sights /\ <<"nil", "nil">> \in Sights /\ <<"invalid_response">> \in Sights
    BY ShortSeqs, Names DEF Sights, Trap
  <1>3. CASE s \in {"read_db", "write_db", "remove_db", "scan_db", "next_key", "next_value",
                    "validate_address"}
    <2>1. seen = outs
      BY <1>3 DEF Results, GoStorage_get, GoStorage_set, GoStorage_remove, GoStorage_scan,
                  next_key_or_val, addr_validate
    <2> QED
      BY <1>1, <1>3, <2>1
  <1>4. CASE s = "next"
    <2>1. seen \in GoIter_next(outs)
      BY <1>4 DEF Results
    <2>2. \/ seen = <<"nil", "nil">> /\ outs[1] = "nil"
          \/ seen = outs /\ outs[2] # "nil"
          \/ seen = Trap
      BY <2>1 DEF GoIter_next
    <2> QED
      BY <1>1, <1>2, <1>4, <2>2
  <1>5. CASE s \in {"humanize_address", "canonicalize_address"}
    <2>1. seen \in {outs, Trap}
      BY <1>5 DEF Results, addr_humanize, addr_canonicalize
    <2> QED
      BY <1>1, <1>2, <1>5, <2>1
  <1>6. CASE s = "query_external"
    <2>1. seen \in {outs, <<"invalid_response">>}
      BY <1>6 DEF Results, query_raw
    <2> QED
      BY <1>1, <1>2, <1>6, <2>1
  <1> QED
    BY <1>3, <1>4, <1>5, <1>6 DEF vtables

-----------------------------------------------------------------------------
(* The entry points.                                                       *)

\* Every method of VM ends in the function of its entry point, with the arguments
\* in the order that function expects and the type of its answer.
DispatchOK(e) ==
  /\ RawFunctions[Dispatch(e).vm_fn].entry = e
  /\ Dispatch(e).args = RawFunctions[Dispatch(e).vm_fn].params
  /\ Dispatch(e).decodes = RawFunctions[Dispatch(e).vm_fn].answer

LEMMA DispatchTwo ==
  ASSUME NEW e, NEW x, NEW a, NEW b, NEW r, NEW c, NEW f,
         VMMethods[e] = VMMethod(x, <<a, b>>, r),
         ApiFunctions[x] = ApiFunction(c, <<1, 2>>),
         CFunctions[c] = CFunction(f, <<1, 2>>),
         RawFunctions[f] = RawFunction(e, <<a, b>>, r)
  PROVE  DispatchOK(e)
  <1>1. VMMethods[e].api = x /\ VMMethods[e].args = <<a, b>> /\ VMMethods[e].result = r
    BY SMT DEF VMMethod
  <1>2. ApiFunctions[x].c = c /\ ApiFunctions[x].passes = <<1, 2>>
    BY SMT DEF ApiFunction
  <1>3. CFunctions[c].vm_fn = f /\ CFunctions[c].passes = <<1, 2>>
    BY SMT DEF CFunction
  <1>4. /\ Dispatch(e).vm_fn = f /\ Dispatch(e).decodes = r
        /\ Dispatch(e).args = [k \in DOMAIN <<1, 2>> |-> <<a, b>>[<<1, 2>>[<<1, 2>>[k]]]]
    BY <1>1, <1>2, <1>3 DEF Dispatch
  <1>5. \A k \in 1 .. 2 : <<1, 2>>[k] = k
    BY SMT
  <1>6. DOMAIN <<1, 2>> = 1 .. 2 /\ [k \in 1 .. 2 |-> <<a, b>>[k]] = <<a, b>>
    BY SMT
  <1>7. \A k \in 1 .. 2 : <<a, b>>[<<1, 2>>[<<1, 2>>[k]]] = <<a, b>>[k]
    BY <1>5
  <1>8. Dispatch(e).args = <<a, b>>
    BY <1>4, <1>6, <1>7
  <1>9. /\ RawFunctions[f].entry = e /\ RawFunctions[f].params = <<a, b>>
        /\ RawFunctions[f].answer = r
    BY SMT DEF RawFunction
  <1> QED
    BY <1>4, <1>8, <1>9 DEF DispatchOK

LEMMA DispatchThree ==
  ASSUME NEW e, NEW x, NEW a, NEW b, NEW d, NEW r, NEW c, NEW f,
         VMMethods[e] = VMMethod(x, <<a, b, d>>, r),
         ApiFunctions[x] = ApiFunction(c, <<1, 2, 3>>),
         CFunctions[c] = CFunction(f, <<1, 2, 3>>),
         RawFunctions[f] = RawFunction(e, <<a, b, d>>, r)
  PROVE  DispatchOK(e)
  <1>1. VMMethods[e].api = x /\ VMMethods[e].args = <<a, b, d>> /\ VMMethods[e].result = r
    BY SMT DEF VMMethod
  <1>2. ApiFunctions[x].c = c /\ ApiFunctions[x].passes = <<1, 2, 3>>
    BY SMT DEF ApiFunction
  <1>3. CFunctions[c].vm_fn = f /\ CFunctions[c].passes = <<1, 2, 3>>
    BY SMT DEF CFunction
  <1>4. /\ Dispatch(e).vm_fn = f /\ Dispatch(e).decodes = r
        /\ Dispatch(e).args = [k \in DOMAIN <<1, 2, 3>> |-> <<a, b, d>>[<<1, 2, 3>>[<<1, 2, 3>>[k]]]]
    BY <1>1, <1>2, <1>3 DEF Dispatch
  <1>5. \A k \in 1 .. 3 : <<1, 2, 3>>[k] = k
    BY SMT
  <1>6. DOMAIN <<1, 2, 3>> = 1 .. 3 /\ [k \in 1 .. 3 |-> <<a, b, d>>[k]] = <<a, b, d>>
    BY SMT
  <1>7. \A k \in 1 .. 3 : <<a, b, d>>[<<1, 2, 3>>[<<1, 2, 3>>[k]]] = <<a, b, d>>[k]
    BY <1>5
  <1>8. Dispatch(e).args = <<a, b, d>>
    BY <1>4, <1>6, <1>7, SMT
  <1>9. /\ RawFunctions[f].entry = e /\ RawFunctions[f].params = <<a, b, d>>
        /\ RawFunctions[f].answer = r
    BY SMT DEF RawFunction
  <1> QED
    BY <1>4, <1>8, <1>9 DEF DispatchOK

LEMMA Dispatches == \A e \in Contracts : DispatchOK(e)
  <1>1. Contracts = {"Instantiate", "Execute", "Query", "Migrate", "MigrateWithInfo", "Sudo",
          "Reply", "IBCChannelOpen", "IBCChannelConnect", "IBCChannelClose", "IBCPacketReceive",
          "IBCPacketAck", "IBCPacketTimeout", "IBCSourceCallback", "IBCDestinationCallback",
          "IBC2PacketReceive", "IBC2PacketAck", "IBC2PacketTimeout", "IBC2PacketSend"}
    BY DEF Contracts, VMMethods
  <1>2. DispatchOK("Instantiate")
    BY DispatchThree, SMT
       DEF RawFunctions, VMMethods, VM_Instantiate, ApiFunctions, api_Instantiate, CFunctions,
           instantiate
  <1>3. DispatchOK("Execute")
    BY DispatchThree, SMT
       DEF RawFunctions, VMMethods, VM_Execute, ApiFunctions, api_Execute, CFunctions, execute
  <1>4. DispatchOK("Query")
    BY DispatchTwo, SMT
       DEF RawFunctions, VMMethods, VM_Query, ApiFunctions, api_Query, CFunctions, query
  <1>5. DispatchOK("Migrate")
    BY DispatchTwo, SMT
       DEF RawFunctions, VMMethods, VM_Migrate, ApiFunctions, api_Migrate, CFunctions, migrate
  <1>6. DispatchOK("MigrateWithInfo")
    BY DispatchThree, SMT
       DEF RawFunctions, VMMethods, VM_MigrateWithInfo, ApiFunctions, api_MigrateWithInfo,
           CFunctions, migrate_with_info
  <1>7. DispatchOK("Sudo")
    BY DispatchTwo, SMT
       DEF RawFunctions, VMMethods, VM_Sudo, ApiFunctions, api_Sudo, CFunctions, sudo
  <1>8. DispatchOK("Reply")
    BY DispatchTwo, SMT
       DEF RawFunctions, VMMethods, VM_Reply, ApiFunctions, api_Reply, CFunctions, reply
  <1>9. DispatchOK("IBCChannelOpen")
    BY DispatchTwo, SMT
       DEF RawFunctions, VMMethods, VM_IBCChannelOpen, ApiFunctions, api_IBCChannelOpen,
           CFunctions, ibc_channel_open
  <1>10. DispatchOK("IBCChannelConnect")
    BY DispatchTwo, SMT
       DEF RawFunctions, VMMethods, VM_IBCChannelConnect, ApiFunctions, api_IBCChannelConnect,
           CFunctions, ibc_channel_connect
  <1>11. DispatchOK("IBCChannelClose")
    BY DispatchTwo, SMT
       DEF RawFunctions, VMMethods, VM_IBCChannelClose, ApiFunctions, api_IBCChannelClose,
           CFunctions, ibc_channel_close
  <1>12. DispatchOK("IBCPacketReceive")
    BY DispatchTwo, SMT
       DEF RawFunctions, VMMethods, VM_IBCPacketReceive, ApiFunctions, api_IBCPacketReceive,
           CFunctions, ibc_packet_receive
  <1>13. DispatchOK("IBCPacketAck")
    BY DispatchTwo, SMT
       DEF RawFunctions, VMMethods, VM_IBCPacketAck, ApiFunctions, api_IBCPacketAck, CFunctions,
           ibc_packet_ack
  <1>14. DispatchOK("IBCPacketTimeout")
    BY DispatchTwo, SMT
       DEF RawFunctions, VMMethods, VM_IBCPacketTimeout, ApiFunctions, api_IBCPacketTimeout,
           CFunctions, ibc_packet_timeout
  <1>15. DispatchOK("IBCSourceCallback")
    BY DispatchTwo, SMT
       DEF RawFunctions, VMMethods, VM_IBCSourceCallback, ApiFunctions, api_IBCSourceCallback,
           CFunctions, ibc_source_callback
  <1>16. DispatchOK("IBCDestinationCallback")
    BY DispatchTwo, SMT
       DEF RawFunctions, VMMethods, VM_IBCDestinationCallback, ApiFunctions,
           api_IBCDestinationCallback, CFunctions, ibc_destination_callback
  <1>17. DispatchOK("IBC2PacketReceive")
    BY DispatchTwo, SMT
       DEF RawFunctions, VMMethods, VM_IBC2PacketReceive, ApiFunctions, api_IBC2PacketReceive,
           CFunctions, ibc2_packet_receive
  <1>18. DispatchOK("IBC2PacketAck")
    BY DispatchTwo, SMT
       DEF RawFunctions, VMMethods, VM_IBC2PacketAck, ApiFunctions, api_IBC2PacketAck, CFunctions,
           ibc2_packet_ack
  <1>19. DispatchOK("IBC2PacketTimeout")
    BY DispatchTwo, SMT
       DEF RawFunctions, VMMethods, VM_IBC2PacketTimeout, ApiFunctions, api_IBC2PacketTimeout,
           CFunctions, ibc2_packet_timeout
  <1>20. DispatchOK("IBC2PacketSend")
    BY DispatchTwo, SMT
       DEF RawFunctions, VMMethods, VM_IBC2PacketSend, ApiFunctions, api_IBC2PacketSend,
           CFunctions, ibc2_packet_send
  <1> QED
    BY SMT, <1>1, <1>2, <1>3, <1>4, <1>5, <1>6, <1>7, <1>8, <1>9, <1>10, <1>11, <1>12, <1>13, <1>14,
       <1>15, <1>16, <1>17, <1>18, <1>19, <1>20

-----------------------------------------------------------------------------
(* The memory.                                                             *)

\* The C function gives as many vectors as the Go function takes.
LEMMA TakesWhatIsGiven ==
  \A e \in Entries : /\ Returns(e).gives = Takes(e) /\ Takes(e) \in 0 .. 2
                     /\ Returns(e).onError \in {NoneVector, EmptyVector}
  <1>1. \A e \in Contracts : /\ Returns(e).gives = 1 /\ Takes(e) = 1
                             /\ Returns(e).onError = EmptyVector
    BY DEF Returns, Takes, CacheFunction
  <1>2. \A e \in CacheOperations :
          /\ CacheFunctions[CacheApis[e].c].gives = CacheApis[e].takes
          /\ CacheApis[e].takes \in 0 .. 2
          /\ CacheFunctions[CacheApis[e].c].onError \in {NoneVector, EmptyVector}
    BY SMT DEF CacheOperations, CacheApis, CacheFunctions, CacheApi, CacheFunction,
           api_StoreCode, api_StoreCodeUnchecked, api_RemoveCode, api_GetCode, api_Pin,
           api_Unpin, api_SyncPinnedCodes, api_AnalyzeCode, api_GetMetrics,
           api_GetPinnedMetrics, store_code, remove_wasm, load_wasm, pin, unpin,
           sync_pinned_codes, analyze_code, get_metrics, get_pinned_metrics
  <1>3. \A e \in CacheOperations :
          e \notin Contracts => /\ Returns(e) = CacheFunctions[CacheApis[e].c]
                               /\ Takes(e) = CacheApis[e].takes
    BY DEF Returns, Takes
  <1>4. 1 \in 0 .. 2
    BY SMT
  <1>5. \A e \in Entries : e \in Contracts \/ e \in CacheOperations
    BY EntriesAssumption DEF EntriesAssumption
  <1> QED
    BY <1>1, <1>2, <1>3, <1>4, <1>5, SMT

\* A vector stands for the bytes it was made of.
LEMMA VectorHolds ==
  ASSUME NEW data \in Bytes, NEW k \in Nat, k > 0
  PROVE  /\ consume(newUnmanagedVector(data, k)) = data
         /\ newUnmanagedVector(data, k).ptr \in {0, k}
         /\ newUnmanagedVector(data, k).is_none \in BOOLEAN
         /\ newUnmanagedVector(data, k) \in [is_none : BOOLEAN, ptr : {0, k}]
  <1> k # 0
    BY SMT
  <1>1. CASE data = "nil"
    <2>1. newUnmanagedVector(data, k) = [is_none |-> TRUE, ptr |-> 0]
      BY <1>1 DEF newUnmanagedVector, NoneVector
    <2>2. /\ newUnmanagedVector(data, k).is_none = TRUE
          /\ newUnmanagedVector(data, k).ptr = 0
          /\ newUnmanagedVector(data, k) \in [is_none : BOOLEAN, ptr : {0, k}]
      BY <2>1, SMT
    <2>3. consume(newUnmanagedVector(data, k)) = "nil"
      BY <2>2 DEF consume
    <2> QED
      BY <1>1, <2>2, <2>3
  <1>2. CASE data = "empty"
    <2>1. newUnmanagedVector(data, k) = [is_none |-> FALSE, ptr |-> 0]
      BY <1>2 DEF newUnmanagedVector, EmptyVector
    <2>2. /\ newUnmanagedVector(data, k).is_none = FALSE
          /\ newUnmanagedVector(data, k).ptr = 0
          /\ newUnmanagedVector(data, k) \in [is_none : BOOLEAN, ptr : {0, k}]
      BY <2>1, SMT
    <2>3. consume(newUnmanagedVector(data, k)) = "empty"
      BY <2>2 DEF consume
    <2> QED
      BY <1>2, <2>2, <2>3
  <1>3. CASE data = "bytes"
    <2>1. newUnmanagedVector(data, k) = [is_none |-> FALSE, ptr |-> k]
      BY <1>3 DEF newUnmanagedVector
    <2>2. /\ newUnmanagedVector(data, k).is_none = FALSE
          /\ newUnmanagedVector(data, k).ptr = k
          /\ newUnmanagedVector(data, k) \in [is_none : BOOLEAN, ptr : {0, k}]
      BY <2>1, SMT
    <2>3. consume(newUnmanagedVector(data, k)) = "bytes"
      BY <2>2 DEF consume
    <2> QED
      BY <1>3, <2>2, <2>3
  <1> QED
    BY <1>1, <1>2, <1>3 DEF Bytes

LEMMA EmptyVectors ==
  /\ NoneVector.ptr = 0 /\ EmptyVector.ptr = 0
  /\ NoneVector \in Vectors /\ EmptyVector \in Vectors
  BY EntriesAssumption, SMT DEF EntriesAssumption, NoneVector, EmptyVector, Vectors

\* The first addresses: no call in progress has memory when a call gets some.
LEMMA FirstAddresses ==
  ASSUME DOMAIN heap = {}
  PROVE  \A k \in Nat : Address(k) = k
  <1>1. DOMAIN heap \cup {0} = {0}
    OBVIOUS
  <1>2. Max({0}) = 0
    BY SMT DEF Max
  <1> QED
    BY <1>1, <1>2, SMT DEF Address

LEMMA AllocateAll ==
  ASSUME DOMAIN heap = {}, NEW vectors, NEW n
  PROVE  /\ DOMAIN Allocate(vectors, n) = Addresses(vectors)
         /\ \A p \in Addresses(vectors) : Allocate(vectors, n)[p] = n
  BY DEF Allocate

LEMMA FreeAll ==
  ASSUME NEW vectors, DOMAIN heap = Addresses(vectors)
  PROVE  DOMAIN Free(vectors) = {}
  BY DEF Free

LEMMA NothingOwned ==
  ASSUME NEW c, c.outs = <<>>, c.res = <<>>, c.err.ptr = 0, c.errmsg.ptr = 0
  PROVE  Owned(c) = {}
  <1>1. Range(<<>>) = {}
    BY SMT DEF Range
  <1> QED
    BY <1>1 DEF Owned, Addresses

-----------------------------------------------------------------------------
(* The stack.                                                              *)

LEMMA Innermost ==
  ASSUME StackInv, depth > 0
  PROVE  /\ depth \in Nat /\ depth = Len(stack) /\ MaxDepth >= 1
         /\ top \in CallType /\ CallOK(top)
  BY EntriesAssumption, SMT DEF EntriesAssumption, StackInv, depth, top

\* A call has memory only while it hands over an answer or a result.
LEMMA QuietCall ==
  ASSUME NEW c, CallOK(c), c.pc \notin {"answered", "back"}
  PROVE  Owned(c) = {}
  <1>1. c.outs = <<>> /\ c.err = NoneVector /\ c.res = <<>> /\ c.errmsg = EmptyVector
    BY DEF CallOK
  <1> QED
    BY <1>1, EmptyVectors, NothingOwned

LEMMA HeapIsEmpty ==
  ASSUME StackInv, HeapInv, depth = 0 \/ top.pc \notin {"answered", "back"}
  PROVE  DOMAIN heap = {}
  <1>1. CASE depth = 0
    BY <1>1 DEF HeapInv, depth
  <1>2. CASE depth # 0
    <2>1. depth > 0
      BY <1>2, SMT DEF StackInv, depth
    <2>2. DOMAIN heap = Owned(top)
      BY <2>1 DEF HeapInv, depth
    <2>3. CallOK(top)
      BY <2>1, Innermost
    <2> QED
      BY <1>2, <2>2, <2>3, QuietCall
  <1> QED
    BY <1>1, <1>2

\* The innermost call changes.
LEMMA StackUpdated ==
  ASSUME StackInv, depth > 0, NEW d \in CallType, CallOK(d), Becomes(d)
  PROVE  StackInv' /\ depth' = depth /\ top' = d
  <1>1. stack' = [stack EXCEPT ![Len(stack)] = d] /\ Len(stack) \in Nat /\ Len(stack) > 0
    BY SMT DEF Becomes, StackInv, depth
  <1>2. stack' \in Seq(CallType) /\ Len(stack') = Len(stack)
    BY <1>1, SMT DEF StackInv
  <1>3. /\ stack'[Len(stack)] = d
        /\ \A k \in 1 .. Len(stack) - 1 : stack'[k] = stack[k]
    BY <1>1, SMT DEF StackInv
  <1>4. \A n \in Nat : \A k \in 1 .. n : k = n \/ k \in 1 .. n - 1
    BY SMT
  <1>5. \A k \in 1 .. Len(stack') : CallOK(stack'[k])
    BY <1>1, <1>2, <1>3, <1>4 DEF StackInv
  <1>6. \A k \in 1 .. Len(stack') - 1 :
          stack'[k].pc = "callback" /\ stack'[k].answer.slot = "query_external"
    BY <1>2, <1>3 DEF StackInv
  <1>7. depth' = depth /\ top' = d
    BY <1>2, <1>3 DEF depth, top
  <1> QED
    BY <1>2, <1>5, <1>6, <1>7 DEF StackInv

LEMMA HeapUpdated ==
  ASSUME NEW d, depth' > 0, top' = d, DOMAIN heap' = Owned(d),
         \A p \in DOMAIN heap' : heap'[p] = d.serial
  PROVE  HeapInv'
  BY SMT DEF HeapInv, depth, top

\* A step of the innermost call in which no memory is handed over.
LEMMA QuietStep ==
  ASSUME IInv, depth > 0, top.pc \notin {"answered", "back"},
         NEW d \in CallType, CallOK(d), d.pc \notin {"answered", "back"},
         Becomes(d), UNCHANGED <<errno, heap, calls, last>>
  PROVE  IInv'
  <1>1. StackInv' /\ depth' = depth /\ top' = d
    BY StackUpdated DEF IInv
  <1>2. DOMAIN heap = {} /\ Owned(d) = {}
    BY HeapIsEmpty, QuietCall DEF IInv
  <1>3. HeapInv'
    BY <1>1, <1>2, HeapUpdated
  <1>4. ErrnoInv'
    BY <1>1 DEF IInv, ErrnoInv, At
  <1>5. OutcomeIsOwn' /\ FailureReportsGas' /\ calls' \in 0 .. MaxCalls
    BY DEF IInv, OutcomeIsOwn, FailureReportsGas
  <1> QED
    BY <1>1, <1>3, <1>4, <1>5 DEF IInv

-----------------------------------------------------------------------------
(* The steps that hand over no memory.                                     *)

LEMMA Stutter == IInv /\ UNCHANGED vars => IInv'
  BY DEF IInv, StackInv, HeapInv, ErrnoInv, OutcomeIsOwn, FailureReportsGas, depth, top, At, vars

LEMMA get_instanceStep == IInv /\ get_instance => IInv'
  <1> SUFFICES ASSUME IInv, get_instance PROVE IInv'
    OBVIOUS
  <1> DEFINE d == [top EXCEPT !.pc = "wasm"]
  <1>1. depth > 0 /\ top.pc = "called" /\ top.entry \in Contracts /\ top \in CallType /\ CallOK(top)
    BY Innermost DEF get_instance, At, IInv
  <1>2. d \in CallType /\ d.pc = "wasm"
    BY <1>1 DEF CallType, Locations
  <1>3. CallOK(d)
    BY <1>1, <1>2, SMT DEF CallOK, Arrived, NoAnswer, Callback
  <1> QED
    BY <1>1, <1>2, <1>3, QuietStep DEF get_instance

AnswerRecords == [
  slot : Slots \cup {"none"}, ret : {"None", "User", "Panic", "OutOfGas", "CannotSerialize"},
  given : UpTo2(Bytes), seen : UpTo2(Bytes \cup {"trap", "invalid_response"})]

LEMMA CallbackTyped ==
  ASSUME NEW s \in Slots \cup {"none"}, NEW ret \in GoErrors,
         NEW given \in UpTo2(Bytes), NEW seen \in Sights
  PROVE  Callback(s, ret, given, seen) \in AnswerRecords
  BY DEF Callback, AnswerRecords, GoErrors, Sights

LEMMA NoAnswerTyped ==
  /\ NoAnswer \in AnswerRecords
  /\ \A s \in Slots : Callback(s, "None", <<>>, <<>>) \in AnswerRecords
  <1>1. <<>> \in UpTo2(Bytes) /\ <<>> \in Sights
    BY ShortSeqs DEF Sights
  <1> QED
    BY <1>1, Names, CallbackTyped DEF NoAnswer

LEMMA rejectedStep == \A r \in RustErrors : IInv /\ rejected(r) => IInv'
  <1> SUFFICES ASSUME NEW r \in RustErrors, IInv, rejected(r) PROVE IInv'
    OBVIOUS
  <1> DEFINE d == [top EXCEPT !.pc = "done", !.result = r]
  <1>1. /\ depth > 0 /\ top.pc = "called" /\ top \in CallType /\ CallOK(top)
        /\ r \in {"UnsetArg", "CacheErr"}
    BY Innermost DEF rejected, At, IInv
  <1>2. d \in CallType /\ d.pc = "done" /\ d.result = r
    BY <1>1 DEF CallType, Locations
  <1>3. CallOK(d)
    BY <1>1, <1>2, SMT DEF CallOK
  <1> QED
    BY <1>1, <1>2, <1>3, QuietStep DEF rejected

LEMMA cacheOperationStep ==
  \A r \in RustErrors \cup {"Ok"} : IInv /\ cacheOperation(r) => IInv'
  <1> SUFFICES ASSUME NEW r \in RustErrors \cup {"Ok"}, IInv, cacheOperation(r) PROVE IInv'
    OBVIOUS
  <1> DEFINE d == [top EXCEPT !.pc = "done", !.result = r]
  <1>1. /\ depth > 0 /\ top.pc = "called" /\ top \in CallType /\ CallOK(top)
        /\ r \in {"Ok", "UnsetArg", "CacheErr"}
    BY Innermost DEF cacheOperation, At, IInv
  <1>2. d \in CallType /\ d.pc = "done" /\ d.result = r
    BY <1>1 DEF CallType, Locations
  <1>3. CallOK(d)
    BY <1>1, <1>2, SMT DEF CallOK
  <1> QED
    BY <1>1, <1>2, <1>3, QuietStep DEF cacheOperation

LEMMA panickedStep == IInv /\ panicked => IInv'
  <1> SUFFICES ASSUME IInv, panicked PROVE IInv'
    OBVIOUS
  <1> DEFINE d == [top EXCEPT !.pc = "done", !.result = "Panic", !.answer = NoAnswer]
  <1>1. /\ depth > 0 /\ top.pc \in {"called", "wasm", "trap"}
        /\ top \in CallType /\ CallOK(top)
    BY Innermost DEF panicked, IInv
  <1>2. d \in CallType /\ d.pc = "done" /\ d.result = "Panic"
    BY <1>1, NoAnswerTyped DEF CallType, Locations, RustErrors, AnswerRecords
  <1>3. CallOK(d)
    BY <1>1, <1>2, SMT DEF CallOK, RustErrors
  <1> QED
    BY <1>1, <1>2, <1>3, QuietStep DEF panicked

LEMMA callbackStep == \A s \in Slots : IInv /\ callback(s) => IInv'
  <1> SUFFICES ASSUME NEW s \in Slots, IInv, callback(s) PROVE IInv'
    OBVIOUS
  <1> DEFINE a == Callback(s, "None", <<>>, <<>>)
             d == [top EXCEPT !.pc = "callback", !.ops = @ + 1, !.answer = a]
  <1>1. depth > 0 /\ top.pc = "wasm" /\ top.ops < MaxOps /\ top \in CallType /\ CallOK(top)
    BY Innermost DEF callback, At, IInv
  <1>2. a \in AnswerRecords /\ a.slot = s
    BY NoAnswerTyped DEF Callback
  <1>3. Becomes(d) /\ UNCHANGED <<errno, heap, calls, last>>
    BY DEF callback
  <1> HIDE DEF a
  <1>4. d \in CallType /\ d.pc = "callback" /\ d.answer = a
    <2>1. top.ops + 1 \in 0 .. MaxOps
      BY <1>1, EntriesAssumption, SMT DEF CallType, EntriesAssumption
    <2> QED
      BY <1>1, <1>2, <2>1 DEF CallType, Locations, AnswerRecords
  <1>5. CallOK(d)
    BY <1>1, <1>2, <1>4, SMT DEF CallOK
  <1> QED
    BY <1>1, <1>3, <1>4, <1>5, QuietStep

LEMMA vmReturnsStep == \A r \in RustErrors \cup {"Ok"} : IInv /\ vmReturns(r) => IInv'
  <1> SUFFICES ASSUME NEW r \in RustErrors \cup {"Ok"}, IInv, vmReturns(r) PROVE IInv'
    OBVIOUS
  <1> DEFINE d == [top EXCEPT !.pc = "done", !.result = r, !.gasReport = reportedGas(r),
                              !.answer = NoAnswer]
  <1>1. /\ depth > 0 /\ top.pc \in {"wasm", "trap"} /\ top \in CallType /\ CallOK(top)
        /\ r \in {"Ok", "OutOfGas", "VmErr"}
    BY Innermost DEF vmReturns, At, IInv
  <1>2. d \in CallType /\ d.pc = "done" /\ d.result = r /\ d.gasReport = "vm"
    BY <1>1, NoAnswerTyped DEF CallType, Locations, RustErrors, AnswerRecords, reportedGas
  <1>3. CallOK(d)
    BY <1>1, <1>2, SMT DEF CallOK, RustErrors
  <1> QED
    BY <1>1, <1>2, <1>3, QuietStep DEF vmReturns

LEMMA libcSetsErrnoStep == \A no \in Errnos : IInv /\ libcSetsErrno(no) => IInv'
  BY DEF libcSetsErrno, IInv, StackInv, HeapInv, ErrnoInv, OutcomeIsOwn, FailureReportsGas,
         depth, top, At

LEMMA MarshalFailsStep == \A e \in Entries : IInv /\ MarshalFails(e) => IInv'
  <1> SUFFICES ASSUME NEW e \in Entries, IInv, MarshalFails(e) PROVE IInv'
    OBVIOUS
  <1>1. StackInv' /\ HeapInv' /\ ErrnoInv'
    BY DEF MarshalFails, IInv, StackInv, HeapInv, ErrnoInv, depth, top, At
  <1>2. calls' \in 0 .. MaxCalls
    BY EntriesAssumption, SMT DEF MarshalFails, MayCall, IInv, EntriesAssumption
  <1>3. last' = [serial |-> calls + 1, result |-> "MarshalError", err |-> "marshal",
                 msg |-> 0, data |-> 0, gas |-> "zero"]
    BY DEF MarshalFails, NothingReturned
  <1>4. OutcomeIsOwn' /\ FailureReportsGas'
    BY <1>3 DEF OutcomeIsOwn, FailureReportsGas
  <1> QED
    BY <1>1, <1>2, <1>4 DEF IInv

LEMMA NewCallTyped ==
  ASSUME NEW e \in Entries, NEW n \in 1 .. MaxCalls
  PROVE  /\ NewCall(e, n) \in CallType /\ CallOK(NewCall(e, n)) /\ NewCall(e, n).pc = "called"
  <1>1. 0 \in 0 .. MaxOps
    BY EntriesAssumption, SMT DEF EntriesAssumption
  <1>2. <<>> \in UpTo2(Vectors)
    BY ShortSeqs
  <1>3. NewCall(e, n) \in CallType
    BY <1>1, <1>2, EmptyVectors, NoAnswerTyped
       DEF NewCall, CallType, Locations, AnswerRecords, uninitializedUnmanagedVector
  <1>4. CallOK(NewCall(e, n))
    BY DEF NewCall, CallOK, uninitializedUnmanagedVector
  <1> QED
    BY <1>3, <1>4 DEF NewCall

LEMMA CallCStep == \A e \in Entries : IInv /\ CallC(e) => IInv'
  <1> SUFFICES ASSUME NEW e \in Entries, IInv, CallC(e) PROVE IInv'
    OBVIOUS
  <1> DEFINE c == NewCall(e, calls + 1)
  <1>1. /\ calls + 1 \in 1 .. MaxCalls /\ calls' \in 0 .. MaxCalls
        /\ Len(stack) \in Nat /\ Len(stack) < MaxDepth
    BY EntriesAssumption, SMT DEF CallC, MayCall, IInv, StackInv, depth, EntriesAssumption
  <1>2. c \in CallType /\ CallOK(c) /\ c.pc = "called"
    BY <1>1, NewCallTyped
  <1>3. /\ stack' = Append(stack, c) /\ errno' = 0 /\ heap' = heap /\ last' = last
        /\ stack \in Seq(CallType)
    BY DEF CallC, IInv, StackInv
  <1> HIDE DEF c
  <1>4. /\ Len(stack') = Len(stack) + 1 /\ stack' \in Seq(CallType)
        /\ stack'[Len(stack) + 1] = c /\ \A k \in 1 .. Len(stack) : stack'[k] = stack[k]
    BY <1>2, <1>3, SMT
  <1>5. \A n \in Nat : /\ \A k \in 1 .. n + 1 : k = n + 1 \/ k \in 1 .. n
                       /\ \A k \in 1 .. n : k = n \/ k \in 1 .. n - 1
                       /\ (n + 1) - 1 = n
    BY SMT
  <1>6. \A k \in 1 .. Len(stack) :
          stack[k].pc = "callback" /\ stack[k].answer.slot = "query_external"
    <2>1. Len(stack) = 0 \/ (top.pc = "callback" /\ top.answer.slot = "query_external")
      BY DEF CallC, MayCall, At, depth
    <2> QED
      BY <1>1, <1>5, <2>1, SMT DEF IInv, StackInv, top, depth
  <1>7. StackInv'
    <2>1. \A k \in 1 .. Len(stack') : CallOK(stack'[k])
      BY <1>1, <1>2, <1>4, <1>5 DEF IInv, StackInv
    <2>2. \A k \in 1 .. Len(stack') - 1 :
            stack'[k].pc = "callback" /\ stack'[k].answer.slot = "query_external"
      BY <1>1, <1>4, <1>5, <1>6
    <2>3. Len(stack') <= MaxDepth
      BY <1>1, <1>4, EntriesAssumption, SMT DEF EntriesAssumption
    <2> QED
      BY <1>4, <2>1, <2>2, <2>3 DEF StackInv
  <1>8. depth' > 0 /\ top' = c
    BY <1>1, <1>4, SMT DEF depth, top
  <1>9. DOMAIN heap = {} /\ Owned(c) = {}
    <2>1. depth = 0 \/ top.pc = "callback"
      BY DEF CallC, MayCall, At
    <2> QED
      BY <1>2, <2>1, HeapIsEmpty, QuietCall DEF IInv
  <1>10. HeapInv'
    BY <1>3, <1>8, <1>9, HeapUpdated
  <1>11. ErrnoInv'
    BY <1>2, <1>3, <1>8, SMT DEF ErrnoInv, At, Errnos
  <1>12. OutcomeIsOwn' /\ FailureReportsGas'
    BY <1>3 DEF IInv, OutcomeIsOwn, FailureReportsGas
  <1> QED
    BY <1>1, <1>7, <1>10, <1>11, <1>12 DEF IInv

-----------------------------------------------------------------------------
(* The steps that hand over memory.                                        *)

LEMMA OwnedOuts ==
  ASSUME NEW c, c.res = <<>>, c.errmsg.ptr = 0
  PROVE  Owned(c) = Addresses(Range(c.outs) \cup {c.err})
  <1>1. Range(<<>>) = {}
    BY SMT DEF Range
  <1> QED
    BY <1>1 DEF Owned, Addresses

LEMMA OwnedResults ==
  ASSUME NEW c, c.outs = <<>>, c.err.ptr = 0
  PROVE  Owned(c) = Addresses(Range(c.res) \cup {c.errmsg})
  <1>1. Range(<<>>) = {}
    BY SMT DEF Range
  <1> QED
    BY <1>1 DEF Owned, Addresses

\* Vectors made one after the other are at addresses of their own.
LEMMA VectorMade ==
  ASSUME DOMAIN heap = {}, MaxDepth >= 1, NEW k \in 1 .. 3, NEW b \in Bytes
  PROVE  /\ newUnmanagedVector(b, Address(k)) \in Vectors
         /\ newUnmanagedVector(b, Address(k)).ptr \in {0, k}
         /\ consume(newUnmanagedVector(b, Address(k))) = b
  <1>1. k \in Nat /\ k > 0 /\ Address(k) = k
    BY FirstAddresses, SMT
  <1>2. 0 \in 0 .. 4 * MaxDepth /\ k \in 0 .. 4 * MaxDepth
    BY EntriesAssumption, SMT DEF EntriesAssumption
  <1>3. /\ newUnmanagedVector(b, k).ptr \in {0, k}
        /\ consume(newUnmanagedVector(b, k)) = b
        /\ newUnmanagedVector(b, k) \in [is_none : BOOLEAN, ptr : {0, k}]
    BY <1>1, VectorHolds
  <1> QED
    BY <1>1, <1>2, <1>3 DEF Vectors

LEMMA answerStep == \A a \in UNION Range(vtables) : IInv /\ answer(a) => IInv'
  <1> SUFFICES ASSUME NEW a, IInv, answer(a) PROVE IInv'
    OBVIOUS
  <1> DEFINE outs == [k \in DOMAIN a.outs |-> newUnmanagedVector(a.outs[k], Address(k))]
             err  == newUnmanagedVector(a.err, Address(Len(a.outs) + 1))
             cb   == Callback(top.answer.slot, a.ret, a.outs, <<>>)
             d    == [top EXCEPT !.pc = "answered", !.outs = outs, !.err = err, !.answer = cb]
  <1>1. /\ Becomes(d) /\ heap' = Allocate(Range(outs) \cup {err}, top.serial)
        /\ UNCHANGED <<errno, calls, last>>
    BY DEF answer
  <1>2. /\ depth > 0 /\ top.pc = "callback" /\ top \in CallType /\ CallOK(top)
        /\ a \in vtables[top.answer.slot] /\ MaxDepth >= 1
    BY Innermost DEF answer, At, IInv
  <1>3. /\ top.answer.slot \in Slots /\ top.entry \in Contracts /\ top.gasReport = "zero"
        /\ top.res = <<>> /\ top.errmsg = EmptyVector
    BY <1>2 DEF CallOK
  <1>4. a \in Answers
    BY <1>2, <1>3, EntriesAssumption, AnswersTyped DEF EntriesAssumption
  <1>5. /\ a.ret \in GoErrors /\ a.outs \in UpTo2(Bytes) /\ a.err \in Bytes
    BY <1>4 DEF Answers
  <1>6. /\ a.outs \in Seq(Bytes) /\ Len(a.outs) \in 0 .. 2 /\ DOMAIN a.outs = 1 .. Len(a.outs)
        /\ \A k \in 1 .. Len(a.outs) : a.outs[k] \in Bytes
    BY <1>5, ShortSeqElements
  <1>7. DOMAIN heap = {}
    BY <1>2, HeapIsEmpty DEF IInv
  <1>8. /\ outs \in UpTo2(Vectors) /\ Len(outs) = Len(a.outs)
        /\ \A k \in 1 .. Len(a.outs) : consume(outs[k]) = a.outs[k] /\ outs[k].ptr \in {0, k}
    <2> DEFINE v(k) == newUnmanagedVector(a.outs[k], Address(k))
    <2>1. \A k \in 1 .. Len(a.outs) : k \in 1 .. 3
      BY <1>6, SMT
    <2>2. \A k \in 1 .. Len(a.outs) :
            v(k) \in Vectors /\ consume(v(k)) = a.outs[k] /\ v(k).ptr \in {0, k}
      BY <1>2, <1>6, <1>7, <2>1, VectorMade
    <2> HIDE DEF v
    <2>3. outs = [k \in 1 .. Len(a.outs) |-> v(k)]
      BY <1>6 DEF v
    <2>4. outs \in [1 .. Len(a.outs) -> Vectors] /\ \A k \in 1 .. Len(a.outs) : outs[k] = v(k)
      BY <2>2, <2>3
    <2> HIDE DEF outs
    <2>5. outs \in UpTo2(Vectors) /\ Len(outs) = Len(a.outs)
      BY <1>6, <2>4, ShortFunctions
    <2> QED
      BY <2>2, <2>4, <2>5
  <1>9. err \in Vectors /\ err.ptr \in {0, Len(a.outs) + 1}
    <2>1. Len(a.outs) + 1 \in 1 .. 3
      BY <1>6, SMT
    <2> QED
      BY <1>2, <1>5, <1>7, <2>1, VectorMade
  <1>10. cb \in AnswerRecords /\ cb.slot = top.answer.slot /\ cb.given = a.outs
    <2>1. <<>> \in Sights
      BY ShortSeqs DEF Sights
    <2>2. cb \in AnswerRecords
      BY <1>3, <1>5, <2>1, CallbackTyped
    <2> QED
      BY <2>2 DEF Callback
  <1> HIDE DEF outs, err, cb
  <1>11. /\ d \in CallType /\ d.pc = "answered" /\ d.outs = outs /\ d.err = err /\ d.answer = cb
         /\ d.serial = top.serial /\ d.entry = top.entry /\ d.gasReport = top.gasReport
         /\ d.res = top.res /\ d.errmsg = top.errmsg
    BY <1>2, <1>8, <1>9, <1>10 DEF CallType, Locations, AnswerRecords
  <1> HIDE DEF d
  <1>12. CallOK(d)
    <2>1. AnswerHeld(d)
      BY <1>8, <1>9, <1>10, <1>11 DEF AnswerHeld
    <2> QED
      BY <1>3, <1>10, <1>11, <2>1 DEF CallOK
  <1>13. StackInv' /\ depth' = depth /\ top' = d
    BY <1>1, <1>2, <1>11, <1>12, StackUpdated DEF IInv
  <1>14. Owned(d) = Addresses(Range(outs) \cup {err})
    BY <1>3, <1>11, EmptyVectors, OwnedOuts
  <1>15. HeapInv'
    <2>1. DOMAIN heap' = Owned(d) /\ \A p \in DOMAIN heap' : heap'[p] = d.serial
      BY <1>1, <1>7, <1>11, <1>14, AllocateAll, SMT
    <2> QED
      BY <1>2, <1>13, <2>1, HeapUpdated
  <1>16. ErrnoInv'
    BY <1>1, <1>11, <1>13 DEF IInv, ErrnoInv, At
  <1>17. OutcomeIsOwn' /\ FailureReportsGas' /\ calls' \in 0 .. MaxCalls
    BY <1>1 DEF IInv, OutcomeIsOwn, FailureReportsGas
  <1> QED
    BY <1>13, <1>15, <1>16, <1>17 DEF IInv

\* What Rust reads from the vectors is what the Go function wrote.
LEMMA AnswerRead ==
  ASSUME NEW c \in CallType, AnswerHeld(c)
  PROVE  [k \in DOMAIN c.outs |-> consume(c.outs[k])] = c.answer.given
  <1>1. c.outs \in UpTo2(Vectors) /\ c.answer.given \in UpTo2(Bytes)
    BY DEF CallType
  <1>2. /\ DOMAIN c.outs = 1 .. Len(c.outs) /\ c.answer.given \in Seq(Bytes)
        /\ DOMAIN c.answer.given = 1 .. Len(c.answer.given)
    BY <1>1, ShortSeqElements
  <1>3. /\ Len(c.outs) = Len(c.answer.given)
        /\ \A k \in 1 .. Len(c.outs) : consume(c.outs[k]) = c.answer.given[k]
    BY DEF AnswerHeld
  <1>4. c.answer.given = [k \in 1 .. Len(c.answer.given) |-> c.answer.given[k]]
    BY <1>2, SMT
  <1> QED
    BY <1>2, <1>3, <1>4

LEMMA takeAnswerStep == \A seen, l : IInv /\ takeAnswer(seen, l) => IInv'
  <1> SUFFICES ASSUME NEW seen, NEW l, IInv, takeAnswer(seen, l) PROVE IInv'
    OBVIOUS
  <1> DEFINE outs == [k \in DOMAIN top.outs |-> consume(top.outs[k])]
             cb   == Callback(top.answer.slot, top.answer.ret, top.answer.given, seen)
             d    == [top EXCEPT !.pc = l, !.outs = <<>>, !.err = NoneVector, !.answer = cb]
  <1>1. /\ Becomes(d) /\ heap' = Free(consumed) /\ UNCHANGED <<errno, calls, last>>
        /\ IF into_result(top.answer.ret) = "ok"
             THEN seen \in Results(top.answer.slot, outs) ELSE seen = Trap
        /\ l \in {"wasm", "trap"} /\ (l = "wasm" => seen # Trap \/ top.answer.ret = "User")
    BY DEF takeAnswer
  <1>2. depth > 0 /\ top.pc = "answered" /\ top \in CallType /\ CallOK(top)
    BY Innermost DEF takeAnswer, At, IInv
  <1>3. /\ top.answer.slot \in Slots /\ top.entry \in Contracts /\ top.gasReport = "zero"
        /\ top.res = <<>> /\ top.errmsg = EmptyVector /\ AnswerHeld(top)
    BY <1>2 DEF CallOK
  <1>4. /\ top.answer.ret \in GoErrors /\ top.answer.given \in UpTo2(Bytes)
        /\ top.answer.slot \in DOMAIN vtables
    BY <1>2, <1>3, EntriesAssumption DEF CallType, GoErrors, EntriesAssumption
  <1>5. outs = top.answer.given
    BY <1>2, <1>3, AnswerRead
  <1> HIDE DEF outs
  <1>6. seen \in Sights /\ (seen = Trap \/ seen \in Results(top.answer.slot, top.answer.given))
    <2>1. Trap \in Sights
      BY ShortSeqs DEF Sights, Trap
    <2> QED
      BY <1>1, <1>4, <1>5, <2>1, ResultsTyped, SMT
  <1>7. /\ cb \in AnswerRecords /\ cb.slot = top.answer.slot /\ cb.ret = top.answer.ret
        /\ cb.given = top.answer.given /\ cb.seen = seen
    <2>1. cb \in AnswerRecords
      BY <1>3, <1>4, <1>6, CallbackTyped
    <2> QED
      BY <2>1 DEF Callback
  <1>8. l = "wasm" /\ cb.ret = "None" => Arrived(cb)
    <2> SUFFICES ASSUME l = "wasm", top.answer.ret = "None" PROVE Arrived(cb)
      BY <1>7
    <2>1. seen # Trap /\ seen \in Results(top.answer.slot, top.answer.given)
      BY <1>1, <1>6
    <2>2. /\ top.answer.slot \in {"read_db", "next_key", "next_value"} =>
               seen = top.answer.given
          /\ top.answer.slot = "next" =>
               \/ seen = top.answer.given /\ top.answer.given[2] # "nil"
               \/ seen = <<"nil", "nil">> /\ top.answer.given[1] = "nil"
      BY <1>4, <2>1, ResultsTyped, SMT
    <2> HIDE DEF cb
    <2> QED
      BY <1>7, <2>2 DEF Arrived
  <1> HIDE DEF cb
  <1>9. /\ d \in CallType /\ d.pc = l /\ d.outs = <<>> /\ d.err = NoneVector /\ d.answer = cb
        /\ d.serial = top.serial /\ d.entry = top.entry /\ d.gasReport = top.gasReport
        /\ d.res = top.res /\ d.errmsg = top.errmsg
    <2>1. <<>> \in UpTo2(Vectors) /\ NoneVector \in Vectors
      BY ShortSeqs, EmptyVectors
    <2> QED
      BY <1>1, <1>2, <1>7, <2>1 DEF CallType, Locations, AnswerRecords
  <1> HIDE DEF d
  <1>10. CallOK(d)
    BY <1>1, <1>3, <1>8, <1>9 DEF CallOK
  <1>11. StackInv' /\ depth' = depth /\ top' = d
    BY <1>1, <1>2, <1>9, <1>10, StackUpdated DEF IInv
  <1>12. HeapInv'
    <2>1. Owned(top) = Addresses(consumed)
      BY <1>3, EmptyVectors, OwnedOuts DEF consumed
    <2>2. DOMAIN heap = Owned(top)
      BY <1>2 DEF IInv, HeapInv, depth
    <2>3. DOMAIN heap' = {} /\ Owned(d) = {}
      BY <1>1, <1>9, <1>10, <2>1, <2>2, FreeAll, QuietCall
    <2> QED
      BY <1>2, <1>11, <2>3, HeapUpdated
  <1>13. ErrnoInv'
    BY <1>1, <1>9, <1>11 DEF IInv, ErrnoInv, At
  <1>14. OutcomeIsOwn' /\ FailureReportsGas' /\ calls' \in 0 .. MaxCalls
    BY <1>1 DEF IInv, OutcomeIsOwn, FailureReportsGas
  <1> QED
    BY <1>11, <1>12, <1>13, <1>14 DEF IInv

LEMMA returnCStep ==
  \A data \in {"empty", "bytes"} \X {"empty", "bytes"} : IInv /\ returnC(data) => IInv'
  <1>0. \A data \in {"empty", "bytes"} \X {"empty", "bytes"} :
          data[1] \in Bytes /\ data[2] \in Bytes
    BY DEF Bytes
  <1> SUFFICES ASSUME NEW data, data[1] \in Bytes, data[2] \in Bytes, IInv, returnC(data)
               PROVE  IInv'
    BY <1>0
  <1> DEFINE e      == Returns(top.entry)
             ok     == top.result = "Ok"
             res    == [k \in 1 .. e.gives |->
                          IF ok THEN newUnmanagedVector(data[k], Address(k)) ELSE e.onError]
             errmsg == IF ok THEN top.errmsg ELSE newUnmanagedVector("bytes", Address(1))
             d      == [top EXCEPT !.pc = "back", !.res = res, !.errmsg = errmsg]
             gives  == Takes(top.entry)
  <1>1. /\ Becomes(d) /\ heap' = Allocate(Range(res) \cup {errmsg}, top.serial)
        /\ errno' = handle_c_error(top.result) /\ UNCHANGED <<calls, last>>
    BY DEF returnC
  <1>2. depth > 0 /\ top.pc = "done" /\ top \in CallType /\ CallOK(top) /\ MaxDepth >= 1
    BY Innermost DEF returnC, At, IInv
  <1>3. /\ top.outs = <<>> /\ top.err = NoneVector /\ top.errmsg = EmptyVector
        /\ top.result \in RustErrors \cup {"Ok"}
        /\ top.result # "Ok" => (top.gasReport = "vm" <=> top.result \in {"OutOfGas", "VmErr"})
    BY <1>2 DEF CallOK
  <1>4. e.gives = gives /\ gives \in 0 .. 2 /\ e.onError \in {NoneVector, EmptyVector}
    BY <1>2, TakesWhatIsGiven DEF CallType
  <1>5. DOMAIN heap = {}
    BY <1>2, HeapIsEmpty DEF IInv
  <1> HIDE DEF e, gives
  <1>6. ok => /\ res \in UpTo2(Vectors) /\ Len(res) = gives /\ errmsg = EmptyVector
              /\ \A k \in 1 .. Len(res) : res[k].ptr \in {0, k}
    <2> SUFFICES ASSUME ok
                 PROVE  /\ res \in UpTo2(Vectors) /\ Len(res) = gives /\ errmsg = EmptyVector
                        /\ \A k \in 1 .. Len(res) : res[k].ptr \in {0, k}
      OBVIOUS
    <2> DEFINE v(k) == newUnmanagedVector(data[k], Address(k))
    <2>1. \A k \in 1 .. gives : k \in 1 .. 3 /\ data[k] \in Bytes
      BY <1>4, SMT
    <2>2. \A k \in 1 .. gives : v(k) \in Vectors /\ v(k).ptr \in {0, k}
      BY <1>2, <1>5, <2>1, VectorMade
    <2> HIDE DEF v
    <2>3. res = [k \in 1 .. gives |-> v(k)]
      BY <1>4 DEF v
    <2>4. res \in [1 .. gives -> Vectors] /\ \A k \in 1 .. gives : res[k] = v(k)
      BY <2>2, <2>3
    <2>5. errmsg = EmptyVector
      BY <1>3
    <2> HIDE DEF res, errmsg
    <2>6. res \in UpTo2(Vectors) /\ Len(res) = gives
      BY <1>4, <2>4, ShortFunctions
    <2> QED
      BY <2>2, <2>4, <2>5, <2>6
  <1>7. ~ok => /\ res \in UpTo2(Vectors) /\ Len(res) = gives
               /\ errmsg = [is_none |-> FALSE, ptr |-> 1]
               /\ \A k \in 1 .. Len(res) : res[k].ptr = 0
    <2> SUFFICES ASSUME ~ok
                 PROVE  /\ res \in UpTo2(Vectors) /\ Len(res) = gives
                        /\ errmsg = [is_none |-> FALSE, ptr |-> 1]
                        /\ \A k \in 1 .. Len(res) : res[k].ptr = 0
      OBVIOUS
    <2>1. res = [k \in 1 .. gives |-> e.onError] /\ e.onError \in Vectors /\ e.onError.ptr = 0
      BY <1>4, EmptyVectors
    <2>2. errmsg = [is_none |-> FALSE, ptr |-> 1]
      BY <1>5, FirstAddresses DEF newUnmanagedVector
    <2> HIDE DEF res
    <2>3. res \in UpTo2(Vectors)
      BY <1>4, <2>1, ShortSeqs
    <2>4. Len(res) = gives /\ \A k \in 1 .. gives : res[k].ptr = 0
      BY <1>4, <2>1, SMT
    <2> QED
      BY <2>2, <2>3, <2>4
  <1>8. errmsg \in Vectors
    <2>1. 1 \in 0 .. 4 * MaxDepth
      BY <1>2, EntriesAssumption, SMT DEF EntriesAssumption
    <2>2. [is_none |-> FALSE, ptr |-> 1] \in Vectors
      BY <2>1 DEF Vectors
    <2> HIDE DEF res, errmsg
    <2> QED
      BY <1>6, <1>7, <2>2, EmptyVectors
  <1> HIDE DEF res, errmsg
  <1>9. /\ d \in CallType /\ d.pc = "back" /\ d.res = res /\ d.errmsg = errmsg
        /\ d.outs = top.outs /\ d.err = top.err /\ d.serial = top.serial
        /\ d.entry = top.entry /\ d.result = top.result /\ d.gasReport = top.gasReport
    BY <1>2, <1>6, <1>7, <1>8 DEF CallType, Locations
  <1> HIDE DEF d
  <1>10. CallOK(d)
    <2>1. ResultHeld(d)
      BY <1>6, <1>7, <1>9 DEF ResultHeld, gives
    <2> QED
      BY <1>3, <1>9, <2>1 DEF CallOK
  <1>11. StackInv' /\ depth' = depth /\ top' = d
    BY <1>1, <1>2, <1>9, <1>10, StackUpdated DEF IInv
  <1>12. HeapInv'
    <2>1. Owned(d) = Addresses(Range(res) \cup {errmsg})
      BY <1>3, <1>9, EmptyVectors, OwnedResults
    <2>2. DOMAIN heap' = Owned(d) /\ \A p \in DOMAIN heap' : heap'[p] = d.serial
      BY <1>1, <1>5, <1>9, <2>1, AllocateAll, SMT
    <2> QED
      BY <1>2, <1>11, <2>2, HeapUpdated
  <1>13. ErrnoInv'
    <2>1. errno' \in Errnos
      BY <1>1, SMT DEF handle_c_error, set_error, clear_error, ErrnoValue, Errnos
    <2>2. errno' = handle_c_error(top'.result)
      BY <1>1, <1>9, <1>11
    <2> QED
      BY <2>1, <2>2 DEF ErrnoInv, At
  <1>14. OutcomeIsOwn' /\ FailureReportsGas' /\ calls' \in 0 .. MaxCalls
    BY <1>1 DEF IInv, OutcomeIsOwn, FailureReportsGas
  <1> QED
    BY <1>11, <1>12, <1>13, <1>14 DEF IInv

\* The innermost call is over and has given back its memory.
LEMMA StackPopped ==
  ASSUME IInv, depth > 0, stack' \in Seq(CallType), Len(stack') = Len(stack) - 1,
         \A k \in 1 .. Len(stack) - 1 : stack'[k] = stack[k],
         DOMAIN heap' = {}, UNCHANGED <<errno, calls>>, OutcomeIsOwn', FailureReportsGas'
  PROVE  IInv'
  <1>1. stack \in Seq(CallType) /\ Len(stack) \in Nat /\ Len(stack) > 0
    BY SMT DEF IInv, StackInv, depth
  <1>2. /\ stack' \in Seq(CallType) /\ Len(stack') = Len(stack) - 1
        /\ \A k \in 1 .. Len(stack') : stack'[k] = stack[k]
    OBVIOUS
  <1>3. \A n \in Nat : n > 0 => /\ \A k \in 1 .. n - 1 : k \in 1 .. n
                                /\ \A k \in 1 .. (n - 1) - 1 : k \in 1 .. n - 1
    BY SMT
  <1>4. \A k \in 1 .. Len(stack') :
          /\ CallOK(stack'[k])
          /\ stack'[k].pc = "callback" /\ stack'[k].answer.slot = "query_external"
    BY <1>1, <1>2, <1>3 DEF IInv, StackInv
  <1>5. Len(stack') <= MaxDepth
    BY <1>1, <1>2, EntriesAssumption, SMT DEF IInv, StackInv, EntriesAssumption
  <1>6. \A k \in 1 .. Len(stack') - 1 : k \in 1 .. Len(stack')
    BY <1>1, <1>2, <1>3
  <1>7. StackInv'
    BY <1>2, <1>4, <1>5, <1>6 DEF StackInv
  <1>8. depth' = 0 \/ (depth' > 0 /\ CallOK(top') /\ top'.pc = "callback")
    <2>1. Len(stack') = 0 \/ Len(stack') \in 1 .. Len(stack')
      BY <1>1, <1>2, SMT
    <2>2. \A k \in 1 .. Len(stack') : k > 0
      BY <1>1, <1>2, SMT
    <2> QED
      BY <1>4, <2>1, <2>2 DEF depth, top
  <1>9. HeapInv'
    <2>1. depth' > 0 => Owned(top') = {}
      BY <1>8, QuietCall, SMT
    <2> QED
      BY <2>1 DEF HeapInv, depth, top
  <1>10. ErrnoInv'
    BY <1>8, SMT DEF IInv, ErrnoInv, At
  <1> QED
    BY <1>7, <1>9, <1>10 DEF IInv

\* What is known when cgo looks at errno.
LEMMA Back ==
  ASSUME IInv, At("back")
  PROVE  /\ depth > 0 /\ top \in CallType /\ ResultHeld(top) /\ top.result \in RustErrors \cup {"Ok"}
         /\ top.outs = <<>> /\ top.err = NoneVector /\ errno = handle_c_error(top.result)
         /\ top.result # "Ok" => (top.gasReport = "vm" <=> top.result \in {"OutOfGas", "VmErr"})
         /\ DOMAIN heap = Addresses(Range(top.res) \cup {top.errmsg})
         /\ \A p \in DOMAIN heap : heap[p] = top.serial
  <1>1. depth > 0 /\ top.pc = "back"
    BY DEF At
  <1>2. top \in CallType /\ CallOK(top)
    BY <1>1, Innermost DEF IInv
  <1>3. /\ ResultHeld(top) /\ top.result \in RustErrors \cup {"Ok"}
        /\ top.outs = <<>> /\ top.err = NoneVector
        /\ top.result # "Ok" => (top.gasReport = "vm" <=> top.result \in {"OutOfGas", "VmErr"})
    BY <1>1, <1>2 DEF CallOK
  <1>4. DOMAIN heap = Owned(top) /\ \A p \in DOMAIN heap : heap[p] = top.serial
    BY <1>1 DEF IInv, HeapInv, depth
  <1>5. Owned(top) = Addresses(Range(top.res) \cup {top.errmsg})
    BY <1>3, EmptyVectors, OwnedResults
  <1> QED
    BY <1>1, <1>2, <1>3, <1>4, <1>5 DEF IInv, ErrnoInv

LEMMA ErrnoTells ==
  \A r \in RustErrors \cup {"Ok"} :
    /\ handle_c_error(r) = 0 <=> r = "Ok"
    /\ handle_c_error(r) = 2 <=> r = "OutOfGas"
  BY SMT DEF handle_c_error, set_error, clear_error, ErrnoValue, RustErrors

LEMMA returnErrorStep == IInv /\ returnError => IInv'
  <1> SUFFICES ASSUME IInv, returnError PROVE IInv'
    OBVIOUS
  <1>1. /\ At("back") /\ errno # 0 /\ heap' = Free({top.errmsg}) /\ UNCHANGED <<errno, calls>>
        /\ last' = [serial |-> top.serial, result |-> top.result,
             err |-> errorWithMessage(errno, copyAndDestroyUnmanagedVector(top.errmsg)),
             msg |-> Content(top.errmsg), data |-> 0, gas |-> top.gasReport]
    BY DEF returnError, ErrnoValue
  <1>2. /\ stack' \in Seq(CallType) /\ Len(stack') = Len(stack) - 1
        /\ \A k \in 1 .. Len(stack) - 1 : stack'[k] = stack[k]
    <2>1. stack \in Seq(CallType) /\ Len(stack) > 0
      BY <1>1 DEF IInv, StackInv, At, depth
    <2>2. stack' = SubSeq(stack, 1, Len(stack) - 1)
      BY DEF returnError, depth
    <2> QED
      BY <2>1, <2>2, WithoutLast
  <1>3. /\ depth > 0 /\ top \in CallType /\ ResultHeld(top) /\ top.result \in RustErrors
        /\ errno = 2 <=> top.result = "OutOfGas"
        /\ top.gasReport = "vm" <=> top.result \in {"OutOfGas", "VmErr"}
        /\ DOMAIN heap = Addresses(Range(top.res) \cup {top.errmsg})
        /\ \A p \in DOMAIN heap : heap[p] = top.serial
    BY <1>1, Back, ErrnoTells
  <1>4. /\ top.result # "Ok" /\ top.result # "none"
    BY <1>3 DEF RustErrors
  <1>5. /\ top.errmsg = [is_none |-> FALSE, ptr |-> 1]
        /\ \A k \in 1 .. Len(top.res) : top.res[k].ptr = 0
    BY <1>3, <1>4 DEF ResultHeld
  <1>6. DOMAIN top.res = 1 .. Len(top.res)
    <2>1. top.res \in UpTo2(Vectors)
      BY <1>3 DEF CallType
    <2> QED
      BY <2>1, ShortSeqElements
  <1>7. DOMAIN heap = Addresses({top.errmsg}) /\ 1 \in DOMAIN heap
    BY <1>3, <1>5, <1>6, SMT DEF Addresses, Range
  <1>8. Content(top.errmsg) = top.serial
    BY <1>3, <1>5, <1>7, SMT DEF Content
  <1>9. copyAndDestroyUnmanagedVector(top.errmsg) = "bytes"
    BY <1>5, SMT DEF copyAndDestroyUnmanagedVector
  <1>10. errorWithMessage(errno, "bytes") = IF errno = 2 THEN "OutOfGasError" ELSE "message"
    BY DEF errorWithMessage, ErrnoValue
  <1> DEFINE err == errorWithMessage(errno, copyAndDestroyUnmanagedVector(top.errmsg))
  <1>11. last' = [serial |-> top.serial, result |-> top.result, err |-> err,
                 msg |-> top.serial, data |-> 0, gas |-> top.gasReport]
    BY <1>1, <1>8
  <1>12. /\ err = "OutOfGasError" <=> top.result = "OutOfGas"
         /\ err \in {"OutOfGasError", "message"}
    BY <1>3, <1>9, <1>10
  <1> HIDE DEF err
  <1>13. OutcomeIsOwn' /\ FailureReportsGas'
    BY <1>3, <1>4, <1>11, <1>12 DEF OutcomeIsOwn, FailureReportsGas
  <1>14. DOMAIN heap' = {}
    BY <1>1, <1>7, FreeAll
  <1> QED
    BY <1>1, <1>2, <1>3, <1>13, <1>14, StackPopped

LEMMA returnOkStep == \A err \in {"nil", "deserialize"} : IInv /\ returnOk(err) => IInv'
  <1> SUFFICES ASSUME NEW err \in {"nil", "deserialize"}, IInv, returnOk(err) PROVE IInv'
    OBVIOUS
  <1> DEFINE taken == {top.res[k] : k \in 1 .. Takes(top.entry)}
  <1>1. /\ At("back") /\ errno = 0 /\ heap' = Free(taken) /\ UNCHANGED <<errno, calls>>
        /\ last' = [serial |-> top.serial, result |-> top.result, err |-> err, msg |-> 0,
             data |-> IF taken = {} THEN 0 ELSE Content(top.res[1]), gas |-> top.gasReport]
    BY DEF returnOk, ErrnoValue
  <1>2. /\ stack' \in Seq(CallType) /\ Len(stack') = Len(stack) - 1
        /\ \A k \in 1 .. Len(stack) - 1 : stack'[k] = stack[k]
    <2> HIDE DEF taken
    <2>1. stack \in Seq(CallType) /\ Len(stack) > 0
      BY <1>1 DEF IInv, StackInv, At, depth
    <2>2. stack' = SubSeq(stack, 1, Len(stack) - 1)
      BY DEF returnOk, depth
    <2> QED
      BY <2>1, <2>2, WithoutLast
  <1>3. /\ depth > 0 /\ top \in CallType /\ ResultHeld(top) /\ top.result = "Ok"
        /\ DOMAIN heap = Addresses(Range(top.res) \cup {top.errmsg})
        /\ \A p \in DOMAIN heap : heap[p] = top.serial
    BY <1>1, Back, ErrnoTells
  <1>4. /\ top.errmsg = EmptyVector /\ Len(top.res) = Takes(top.entry)
    BY <1>3 DEF ResultHeld
  <1>5. taken = Range(top.res)
    <2>1. top.res \in UpTo2(Vectors)
      BY <1>3 DEF CallType
    <2>2. DOMAIN top.res = 1 .. Len(top.res)
      BY <2>1, ShortSeqElements
    <2> QED
      BY <1>4, <2>2 DEF Range
  <1> HIDE DEF taken
  <1>6. DOMAIN heap = Addresses(taken)
    BY <1>3, <1>4, <1>5, EmptyVectors DEF Addresses
  <1>7. Content(top.res[1]) \in {0, top.serial}
    BY <1>3 DEF Content
  <1> DEFINE data == IF taken = {} THEN 0 ELSE Content(top.res[1])
  <1>8. data \in {0, top.serial}
    BY <1>7
  <1>9. last' = [serial |-> top.serial, result |-> "Ok", err |-> err, msg |-> 0,
                 data |-> data, gas |-> top.gasReport]
    BY <1>1, <1>3
  <1> HIDE DEF data
  <1>10. OutcomeIsOwn' /\ FailureReportsGas'
    BY <1>8, <1>9 DEF OutcomeIsOwn, FailureReportsGas
  <1>11. DOMAIN heap' = {}
    BY <1>1, <1>6, FreeAll
  <1> QED
    BY <1>1, <1>2, <1>3, <1>10, <1>11, StackPopped

-----------------------------------------------------------------------------
(* The invariant holds.                                                    *)

LEMMA Initially == Init => IInv
  <1> SUFFICES ASSUME Init PROVE IInv
    OBVIOUS
  <1>1. StackInv
    BY EntriesAssumption, SMT DEF Init, StackInv, EntriesAssumption
  <1>2. HeapInv /\ ErrnoInv /\ calls \in 0 .. MaxCalls
    BY EntriesAssumption, SMT DEF Init, HeapInv, ErrnoInv, At, depth, Errnos, EntriesAssumption
  <1>3. OutcomeIsOwn /\ FailureReportsGas
    BY DEF Init, NothingReturned, OutcomeIsOwn, FailureReportsGas
  <1> QED
    BY <1>1, <1>2, <1>3 DEF IInv

LEMMA StepKeeps == IInv /\ Step => IInv'
  <1>1. IInv /\ (\E r \in RustErrors \cup {"Ok"} : cacheOperation(r) \/ vmReturns(r)) => IInv'
    BY cacheOperationStep, vmReturnsStep
  <1>2. ASSUME IInv,
               At("answered") /\ \E l \in {"wasm", "trap"} :
                 \E seen \in Results(top.answer.slot, [k \in DOMAIN top.outs |-> consume(top.outs[k])])
                             \cup {Trap} : takeAnswer(seen, l)
        PROVE  IInv'
    BY <1>2, takeAnswerStep
  <1> QED
    BY <1>1, <1>2, get_instanceStep, rejectedStep, panickedStep, callbackStep, answerStep,
       returnCStep, returnErrorStep, returnOkStep, Zenon DEF Step

LEMMA Invariance == Spec => []IInv
  <1>1. IInv /\ [Next]_vars => IInv'
    BY Stutter, CallCStep, MarshalFailsStep, libcSetsErrnoStep, StepKeeps DEF Next
  <1> QED
    BY <1>1, Initially, PTL DEF Spec

-----------------------------------------------------------------------------
(* The vectors of a call.                                                  *)

LEMMA Joined ==
  ASSUME NEW S, NEW u \in Seq(S), NEW v \in Seq(S)
  PROVE  /\ DOMAIN (u \o v) = 1 .. Len(u) + Len(v)
         /\ \A i \in 1 .. Len(u) : (u \o v)[i] = u[i]
         /\ \A i \in Len(u) + 1 .. Len(u) + Len(v) : (u \o v)[i] = v[i - Len(u)]
  BY SMT

LEMMA Concatenated ==
  ASSUME NEW S, NEW a \in Seq(S), NEW b \in Seq(S), NEW x \in S, NEW y \in S
  PROVE  /\ DOMAIN (a \o b \o <<x, y>>) = 1 .. Len(a) + Len(b) + 2
         /\ \A i \in 1 .. Len(a) : (a \o b \o <<x, y>>)[i] = a[i]
         /\ \A i \in Len(a) + 1 .. Len(a) + Len(b) : (a \o b \o <<x, y>>)[i] = b[i - Len(a)]
         /\ (a \o b \o <<x, y>>)[Len(a) + Len(b) + 1] = x
         /\ (a \o b \o <<x, y>>)[Len(a) + Len(b) + 2] = y
  <1> DEFINE s == a \o b
             t == <<x, y>>
  <1>1. /\ s \in Seq(S) /\ Len(s) = Len(a) + Len(b)
        /\ \A i \in 1 .. Len(a) : s[i] = a[i]
        /\ \A i \in Len(a) + 1 .. Len(a) + Len(b) : s[i] = b[i - Len(a)]
    BY SMT
  <1>2. t \in Seq(S) /\ Len(t) = 2 /\ t[1] = x /\ t[2] = y
    BY SMT
  <1>3. a \o b \o <<x, y>> = s \o t
    OBVIOUS
  <1> HIDE DEF s, t
  <1>4. /\ DOMAIN (s \o t) = 1 .. Len(s) + Len(t)
        /\ \A i \in 1 .. Len(s) : (s \o t)[i] = s[i]
        /\ \A i \in Len(s) + 1 .. Len(s) + Len(t) : (s \o t)[i] = t[i - Len(s)]
    BY <1>1, <1>2, Joined, SMT DEF s, t
  <1>5. \A i \in 1 .. Len(a) : i \in 1 .. Len(a) + Len(b)
    BY SMT
  <1> QED
    BY <1>1, <1>2, <1>3, <1>4, <1>5, SMT

\* Where each vector is among those a call is responsible for.
LEMMA HeldElements ==
  ASSUME NEW c \in CallType
  PROVE  /\ Len(c.outs) \in Nat /\ DOMAIN c.outs = 1 .. Len(c.outs)
         /\ Len(c.res) \in Nat /\ DOMAIN c.res = 1 .. Len(c.res)
         /\ DOMAIN Held(c) = 1 .. Len(c.outs) + Len(c.res) + 2
         /\ \A i \in 1 .. Len(c.outs) : Held(c)[i] = c.outs[i]
         /\ \A i \in Len(c.outs) + 1 .. Len(c.outs) + Len(c.res) :
              Held(c)[i] = c.res[i - Len(c.outs)]
         /\ Held(c)[Len(c.outs) + Len(c.res) + 1] = c.err
         /\ Held(c)[Len(c.outs) + Len(c.res) + 2] = c.errmsg
  <1>1. c.outs \in UpTo2(Vectors) /\ c.res \in UpTo2(Vectors)
    BY DEF CallType
  <1>2. c.outs \in Seq(Vectors) /\ c.res \in Seq(Vectors)
    BY <1>1, ShortSeqElements
  <1>3. /\ Len(c.outs) \in Nat /\ DOMAIN c.outs = 1 .. Len(c.outs)
        /\ Len(c.res) \in Nat /\ DOMAIN c.res = 1 .. Len(c.res)
    BY <1>2, SMT
  <1>4. c.err \in Vectors /\ c.errmsg \in Vectors
    BY DEF CallType
  <1> DEFINE a == c.outs
             b == c.res
             x == c.err
             y == c.errmsg
             h == a \o b \o <<x, y>>
  <1>5. Held(c) = h
    BY DEF Held
  <1>6. a \in Seq(Vectors) /\ b \in Seq(Vectors) /\ x \in Vectors /\ y \in Vectors
    BY <1>2, <1>4
  <1> HIDE DEF a, b, x, y
  <1>7. /\ DOMAIN h = 1 .. Len(a) + Len(b) + 2
        /\ \A i \in 1 .. Len(a) : h[i] = a[i]
        /\ \A i \in Len(a) + 1 .. Len(a) + Len(b) : h[i] = b[i - Len(a)]
        /\ h[Len(a) + Len(b) + 1] = x /\ h[Len(a) + Len(b) + 2] = y
    BY <1>6, Concatenated, SMT
  <1> HIDE DEF h
  <1> QED
    BY <1>3, <1>5, <1>7 DEF a, b, x, y

LEMMA HeldIsOwned ==
  ASSUME NEW c \in CallType
  PROVE  Addresses(Range(Held(c))) = Owned(c)
  <1> DEFINE n == Len(c.outs)
             m == Len(c.res)
  <1>1. DOMAIN c.outs = 1 .. n /\ DOMAIN c.res = 1 .. m
    BY HeldElements
  <1>2. /\ n \in Nat /\ m \in Nat
        /\ DOMAIN Held(c) = 1 .. n + m + 2
        /\ \A i \in 1 .. n : Held(c)[i] = c.outs[i]
        /\ \A i \in n + 1 .. n + m : Held(c)[i] = c.res[i - n]
        /\ Held(c)[n + m + 1] = c.err /\ Held(c)[n + m + 2] = c.errmsg
    BY HeldElements
  <1> HIDE DEF n, m
  <1>3. \A v \in Range(Held(c)) : v \in Range(c.outs) \cup Range(c.res) \cup {c.err, c.errmsg}
    <2> SUFFICES ASSUME NEW i \in 1 .. n + m + 2
                 PROVE  Held(c)[i] \in Range(c.outs) \cup Range(c.res) \cup {c.err, c.errmsg}
      BY <1>2 DEF Range
    <2>1. \/ i \in 1 .. n
          \/ i \in n + 1 .. n + m /\ i - n \in 1 .. m
          \/ i = n + m + 1 \/ i = n + m + 2
      BY <1>2, SMT
    <2> QED
      BY <1>1, <1>2, <2>1 DEF Range
  <1>4. \A v \in Range(c.outs) : v \in Range(Held(c))
    BY <1>1, <1>2, SMT DEF Range
  <1>5. \A v \in Range(c.res) : v \in Range(Held(c))
    <2> SUFFICES ASSUME NEW k \in 1 .. m PROVE c.res[k] \in Range(Held(c))
      BY <1>1 DEF Range
    <2>1. /\ n + k \in n + 1 .. n + m /\ (n + k) - n = k /\ n + k \in 1 .. n + m + 2
      BY <1>2, SMT
    <2> QED
      BY <1>2, <2>1 DEF Range
  <1>6. c.err \in Range(Held(c)) /\ c.errmsg \in Range(Held(c))
    BY <1>2, SMT DEF Range
  <1>7. Range(Held(c)) = Range(c.outs) \cup Range(c.res) \cup {c.err, c.errmsg}
    BY <1>3, <1>4, <1>5, <1>6
  <1> QED
    BY <1>7 DEF Owned

\* No two vectors of a call have the same memory.
LEMMA HeldApart ==
  ASSUME NEW c \in CallType, CallOK(c), NEW i \in DOMAIN Held(c), NEW j \in DOMAIN Held(c),
         Held(c)[i].ptr # 0, Held(c)[j].ptr = Held(c)[i].ptr
  PROVE  j = i
  <1> DEFINE n == Len(c.outs)
             m == Len(c.res)
  <1>1. /\ n \in Nat /\ m \in Nat
        /\ DOMAIN Held(c) = 1 .. n + m + 2
        /\ \A k \in 1 .. n : Held(c)[k] = c.outs[k]
        /\ \A k \in n + 1 .. n + m : Held(c)[k] = c.res[k - n]
        /\ Held(c)[n + m + 1] = c.err /\ Held(c)[n + m + 2] = c.errmsg
    BY HeldElements
  <1>2. c.pc # "answered" => n = 0 /\ c.err.ptr = 0
    BY EmptyVectors DEF CallOK
  <1>3. c.pc # "back" => m = 0 /\ c.errmsg.ptr = 0
    BY EmptyVectors DEF CallOK
  <1>4. c.pc = "answered" =>
          (\A k \in 1 .. n : c.outs[k].ptr \in {0, k}) /\ c.err.ptr \in {0, n + 1}
    BY DEF CallOK, AnswerHeld
  <1>5. c.pc = "back" =>
          \/ (\A k \in 1 .. m : c.res[k].ptr \in {0, k}) /\ c.errmsg.ptr = 0
          \/ (\A k \in 1 .. m : c.res[k].ptr = 0)
    BY EmptyVectors DEF CallOK, ResultHeld
  <1> HIDE DEF n, m
  <1>6. CASE c.pc = "answered"
    BY <1>1, <1>3, <1>4, <1>6, SMT
  <1>7. CASE c.pc = "back"
    BY <1>1, <1>2, <1>5, <1>7, SMT
  <1>8. CASE c.pc \notin {"answered", "back"}
    BY <1>1, <1>2, <1>3, <1>8, SMT
  <1> QED
    BY <1>6, <1>7, <1>8

-----------------------------------------------------------------------------
(* The theorems.                                                           *)

\* The stack, seen from any call on it.
LEMMA OnStack ==
  ASSUME StackInv, NEW k \in DOMAIN stack
  PROVE  /\ k \in 1 .. depth /\ stack[k] \in CallType /\ CallOK(stack[k]) /\ depth > 0
         /\ k = depth \/ (k \in 1 .. depth - 1 /\ stack[k].pc = "callback")
  <1>1. stack \in Seq(CallType) /\ depth = Len(stack) /\ depth \in Nat /\ DOMAIN stack = 1 .. depth
    BY SMT DEF StackInv, depth
  <1>2. k \in 1 .. depth /\ depth > 0 /\ (k = depth \/ k \in 1 .. depth - 1)
    BY <1>1, SMT
  <1>3. stack[k] \in CallType
    BY <1>1, <1>2, SMT
  <1>4. CallOK(stack[k]) /\ (k \in 1 .. depth - 1 => stack[k].pc = "callback")
    BY <1>1, <1>2 DEF StackInv
  <1> QED
    BY <1>2, <1>3, <1>4

\* Every variable has its type, whatever sets of entry points and callbacks there
\* are, however deep calls nest and however many there are.
THEOREM TypeCorrect == Spec => []TypeOK
  <1> SUFFICES ASSUME IInv PROVE TypeOK
    BY Invariance, PTL
  <1>1. /\ depth <= MaxDepth /\ errno \in Errnos /\ calls \in 0 .. MaxCalls
        /\ \A k \in 1 .. depth - 1 :
             stack[k].pc = "callback" /\ stack[k].answer.slot = "query_external"
    BY DEF IInv, StackInv, ErrnoInv, depth
  <1>2. \A k \in DOMAIN stack : stack[k] \in CallType
    BY OnStack DEF IInv
  <1>3. At("back") => errno \in Range(ErrnoValue)
    <2>1. \A r : handle_c_error(r) \in {0, 1, 2}
      BY DEF handle_c_error, set_error, clear_error, ErrnoValue
    <2>2. /\ {"Success", "Other", "OutOfGas"} \subseteq DOMAIN ErrnoValue
          /\ ErrnoValue["Success"] = 0 /\ ErrnoValue["Other"] = 1 /\ ErrnoValue["OutOfGas"] = 2
      BY DEF ErrnoValue
    <2>3. 0 \in Range(ErrnoValue) /\ 1 \in Range(ErrnoValue) /\ 2 \in Range(ErrnoValue)
      BY <2>2 DEF Range
    <2> QED
      BY <2>1, <2>3 DEF IInv, ErrnoInv
  <1>4. DOMAIN heap \subseteq 1 .. 4 * MaxDepth /\ Range(heap) \subseteq 1 .. MaxCalls
    <2>1. CASE depth = 0
      BY <2>1 DEF IInv, HeapInv, depth, Range
    <2>2. CASE depth # 0
      <3>1. depth > 0
        BY <2>2, SMT DEF IInv, StackInv, depth
      <3>2. top \in CallType
        BY <3>1, Innermost DEF IInv
      <3>3. DOMAIN heap = Owned(top) /\ \A p \in DOMAIN heap : heap[p] = top.serial
        BY <3>1 DEF IInv, HeapInv, depth
      <3>4. Range(heap) \subseteq 1 .. MaxCalls
        BY <3>2, <3>3 DEF Range, CallType
      <3>5. top.outs \in UpTo2(Vectors) /\ top.res \in UpTo2(Vectors)
        BY <3>2 DEF CallType
      <3>6. \A v \in Range(top.outs) \cup Range(top.res) \cup {top.err, top.errmsg} : v \in Vectors
        <4>1. \A s \in UpTo2(Vectors) : \A v \in Range(s) : v \in Vectors
          <5> TAKE s \in UpTo2(Vectors)
          <5>1. DOMAIN s = 1 .. Len(s) /\ \A k \in 1 .. Len(s) : s[k] \in Vectors
            BY ShortSeqElements
          <5> QED
            BY <5>1 DEF Range
        <4>2. top.err \in Vectors /\ top.errmsg \in Vectors
          BY <3>2 DEF CallType
        <4> QED
          BY <3>5, <4>1, <4>2
      <3>7. \A v \in Vectors : v.ptr # 0 => v.ptr \in 1 .. 4 * MaxDepth
        BY EntriesAssumption, SMT DEF Vectors, EntriesAssumption
      <3> QED
        BY <3>3, <3>4, <3>6, <3>7 DEF Owned, Addresses
    <2> QED
      BY <2>1, <2>2
  <1> QED
    BY <1>1, <1>2, <1>3, <1>4 DEF TypeOK

\* Memory is handed over "exactly once" (libwasmvm/src/memory.rs): every vector
\* of a call in progress is allocated, is its own and is in one place, and
\* nothing else is allocated, on every error path and at every depth of nesting.
THEOREM OneOwnerHolds == Spec => []OneOwner
  <1> SUFFICES ASSUME IInv PROVE OneOwner
    BY Invariance, PTL
  <1>1. \A k \in DOMAIN stack : Addresses(Range(Held(stack[k]))) = Owned(stack[k])
    BY OnStack, HeldIsOwned DEF IInv
  <1>2. \A k \in DOMAIN stack : k # depth => Owned(stack[k]) = {}
    <2> SUFFICES ASSUME NEW k \in DOMAIN stack, k # depth PROVE Owned(stack[k]) = {}
      OBVIOUS
    <2>1. CallOK(stack[k]) /\ stack[k].pc = "callback"
      BY OnStack DEF IInv
    <2> QED
      BY <2>1, QuietCall
  <1>3. \/ depth = 0 /\ DOMAIN stack = {} /\ DOMAIN heap = {}
        \/ /\ depth \in DOMAIN stack /\ DOMAIN heap = Owned(stack[depth])
           /\ \A p \in DOMAIN heap : heap[p] = stack[depth].serial
    <2>1. depth = Len(stack) /\ depth \in Nat /\ DOMAIN stack = 1 .. depth
      BY SMT DEF IInv, StackInv, depth
    <2>2. CASE depth = 0
      <3>1. DOMAIN stack = 1 .. 0
        BY <2>1, <2>2
      <3>2. \A k \in 1 .. 0 : FALSE
        BY SMT
      <3> QED
        BY <2>1, <2>2, <3>1, <3>2 DEF IInv, HeapInv
    <2>3. CASE depth # 0
      <3>1. depth > 0 /\ depth \in DOMAIN stack
        BY <2>1, <2>3, SMT
      <3> QED
        BY <2>1, <3>1 DEF IInv, HeapInv, top
    <2> QED
      BY <2>2, <2>3
  <1>4. DOMAIN heap = UNION {Addresses(Range(Held(stack[k]))) : k \in DOMAIN stack}
    <2> DEFINE all == UNION {Addresses(Range(Held(stack[k]))) : k \in DOMAIN stack}
    <2>1. \A p : p \in all <=> \E k \in DOMAIN stack : p \in Owned(stack[k])
      BY <1>1
    <2>2. \A p : p \in DOMAIN heap <=> \E k \in DOMAIN stack : p \in Owned(stack[k])
      BY <1>2, <1>3
    <2> HIDE DEF all
    <2>3. DOMAIN heap = all
      BY <2>1, <2>2
    <2> QED
      BY <2>3 DEF all
  <1>5. ASSUME NEW k \in DOMAIN stack, NEW i \in DOMAIN Held(stack[k]), Held(stack[k])[i].ptr # 0
        PROVE  /\ heap[Held(stack[k])[i].ptr] = stack[k].serial
               /\ \A j \in DOMAIN Held(stack[k]) :
                    Held(stack[k])[j].ptr = Held(stack[k])[i].ptr => j = i
    <2>1. Held(stack[k])[i].ptr \in Owned(stack[k])
      BY <1>1, <1>5, SMT DEF Addresses, Range
    <2>2. heap[Held(stack[k])[i].ptr] = stack[k].serial
      BY <1>2, <1>3, <2>1
    <2>3. stack[k] \in CallType /\ CallOK(stack[k])
      BY OnStack DEF IInv
    <2> QED
      BY <1>5, <2>2, <2>3, HeldApart
  <1> QED
    BY <1>4, <1>5 DEF OneOwner

\* The Go caller gets the outcome of its own call, whatever failed inside nested
\* calls and whatever libc left in errno.
THEOREM OutcomeIsAlwaysOwn == Spec => []OutcomeIsOwn
  <1>1. IInv => OutcomeIsOwn
    BY DEF IInv
  <1> QED
    BY <1>1, Invariance, PTL

\* A failed call reports gas exactly if its contract ran to an end.
THEOREM FailuresReportGas == Spec => []FailureReportsGas
  <1>1. IInv => FailureReportsGas
    BY DEF IInv
  <1> QED
    BY <1>1, Invariance, PTL

\* What a contract sees of a read is what the store said, through the vectors
\* that Go writes and Rust consumes.
THEOREM AnswersAlwaysArrive == Spec => []AnswersArrive
  <1> SUFFICES ASSUME IInv PROVE AnswersArrive
    BY Invariance, PTL
  <1>1. \A k \in DOMAIN stack :
          stack[k].pc = "wasm" /\ stack[k].answer.ret = "None" => Arrived(stack[k].answer)
    <2> TAKE k \in DOMAIN stack
    <2>1. CallOK(stack[k])
      BY OnStack DEF IInv
    <2> QED
      BY <2>1 DEF CallOK
  <1> QED
    BY <1>1 DEF AnswersArrive, Arrived

\* The contract function that runs is the one of the VM method that was called,
\* with its arguments in order and its answer decoded into its type.
THEOREM AlwaysDispatchedRight == Spec => []DispatchedRight
  <1> SUFFICES ASSUME IInv PROVE DispatchedRight
    BY Invariance, PTL
  <1>1. \A k \in DOMAIN stack : stack[k].pc = "wasm" => stack[k].entry \in Contracts
    <2> TAKE k \in DOMAIN stack
    <2>1. CallOK(stack[k])
      BY OnStack DEF IInv
    <2> QED
      BY <2>1 DEF CallOK
  <1> QED
    BY <1>1, Dispatches DEF DispatchedRight, DispatchOK
=============================================================================
