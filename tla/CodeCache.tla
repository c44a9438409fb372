----------------------------- MODULE CodeCache -----------------------------
(***************************************************************************)
(* Storing, removing and pinning codes: the methods of VM that work on the *)
(* cache (lib_libwasmvm.go), their counterparts in internal/api/lib.go and *)
(* libwasmvm/src/cache.rs, and the cache itself, which belongs to          *)
(* cosmwasm_vm and is described by what these functions and their tests    *)
(* expect of it: wasm files on disk, pinned codes in memory.               *)
(*                                                                         *)
(* A code is a value with a length.  A checksum is a sequence of           *)
(* ChecksumLen bytes, each of which only occurs in that checksum.          *)
(***************************************************************************)
EXTENDS Naturals, Sequences, SequencesExt

CONSTANTS
  Codes,        \* the codes
  Valid,        \* those that pass the static validation
  CodeLen,      \* their lengths
  CostPerByte,  \* gas for a byte (420 000 in the code)
  GasLimits,    \* the limits applications set
  ChecksumLen,  \* 32 in the code
  MaxList,      \* bound: the checksums given to SyncPinnedCodes
  Nil           \* nil

ASSUME CodeCacheAssumption ==
  /\ Valid \subseteq Codes /\ CodeLen \in [Codes -> Nat]
  /\ CostPerByte \in Nat /\ GasLimits \subseteq Nat
  /\ ChecksumLen \in Nat \ {0} /\ MaxList \in Nat
  /\ Nil \notin Codes /\ Nil \notin Seq(Codes \X (1 .. ChecksumLen))

VARIABLES
  stored,    \* the codes with a file on disk
  pinned,    \* the checksums of the codes pinned in memory
  allowed,   \* the codes an application was entitled to store
  returned,  \* the codes it has been told are stored, and has not removed
  last       \* the operation that has just returned

vars == <<stored, pinned, allowed, returned, last>>

checksumOf(c) == [i \in 1 .. ChecksumLen |-> <<c, i>>]

\* The checksums applications pass: of codes, cut off by a byte, and nil.
Arguments ==
  {checksumOf(c) : c \in Codes} \cup {Front(checksumOf(c)) : c \in Codes} \cup {Nil}

Init ==
  /\ stored = {} /\ pinned = {} /\ allowed = {} /\ returned = {}
  /\ last = [op |-> "NewVM", ok |-> TRUE, list |-> << >>]

Returns(op, ok) == last' = [op |-> op, ok |-> ok, list |-> << >>]

-----------------------------------------------------------------------------
(* Slices on their way to Rust                                             *)

makeView(s) == IF s = Nil THEN [is_nil |-> TRUE, bytes |-> << >>]
               ELSE [is_nil |-> FALSE, bytes |-> s]

read(view) == IF view.is_nil THEN Nil ELSE view.bytes

\* read, ok_or_else and try_into: is there a checksum?
isChecksum(view) == read(view) # Nil /\ Len(read(view)) = ChecksumLen

codesWith(cs) == {c \in Codes : checksumOf(c) = cs}

-----------------------------------------------------------------------------
(* Storing                                                                 *)

\* Cache::store_code.  If it fails to write, the file may be there or not.
cache_store_code(op, c, checked, persist) ==
  \/ /\ checked => c \in Valid
     /\ stored' = IF persist THEN stored \cup {c} ELSE stored
     /\ returned' = IF op = "SimulateStoreCode" THEN returned ELSE returned \cup {c}
     /\ Returns(op, TRUE)
  \/ /\ stored' \in {stored} \cup (IF persist /\ (checked => c \in Valid)
                                   THEN {stored \cup {c}} ELSE {})
     /\ Returns(op, FALSE)
     /\ UNCHANGED returned

store_code(op, view, checked, persist) ==
  /\ IF read(view) = Nil
     THEN Returns(op, FALSE) /\ UNCHANGED <<stored, returned>>
     ELSE cache_store_code(op, read(view), checked, persist)
  /\ UNCHANGED pinned

fault_api_StoreCode(op, c, persist) == store_code(op, makeView(c), persist, TRUE)

api_StoreCode(op, c, persist) == store_code(op, makeView(c), TRUE, persist)

api_StoreCodeUnchecked(op, c) == store_code(op, makeView(c), FALSE, TRUE)

compileCost(c) == CostPerByte * (IF c = Nil THEN 0 ELSE CodeLen[c])

OutOfGas(op) == Returns(op, FALSE) /\ UNCHANGED <<stored, pinned, returned>>

fault_StoreCode(c, gasLimit) ==
  /\ allowed' = IF gasLimit >= compileCost(c) THEN allowed \cup ({c} \ {Nil}) ELSE allowed
  /\ IF gasLimit < compileCost(c)
     THEN OutOfGas("StoreCode")
     ELSE api_StoreCode("StoreCode", c, FALSE)

StoreCode(c, gasLimit) ==
  /\ allowed' = IF gasLimit >= compileCost(c) THEN allowed \cup ({c} \ {Nil}) ELSE allowed
  /\ IF gasLimit < compileCost(c)
     THEN OutOfGas("StoreCode")
     ELSE api_StoreCode("StoreCode", c, TRUE)

SimulateStoreCode(c, gasLimit) ==
  /\ IF gasLimit < compileCost(c)
     THEN OutOfGas("SimulateStoreCode")
     ELSE api_StoreCode("SimulateStoreCode", c, FALSE)
  /\ UNCHANGED allowed

StoreCodeUnchecked(c) ==
  /\ allowed' = allowed \cup ({c} \ {Nil})
  /\ api_StoreCodeUnchecked("StoreCodeUnchecked", c)

-----------------------------------------------------------------------------
(* Removing and reading                                                    *)

\* Cache::remove_wasm wants the file to exist.  What is pinned may stay so.
RemoveCode(cs) ==
  /\ LET found == IF isChecksum(makeView(cs)) THEN codesWith(cs) \cap stored ELSE {} IN
     /\ \/ found # {} /\ stored' = stored \ found /\ Returns("RemoveCode", TRUE)
        \/ stored' \in {stored, stored \ found} /\ Returns("RemoveCode", FALSE)
     /\ returned' = returned \ found
     /\ pinned' \in {pinned, pinned \ {checksumOf(c) : c \in found}}
  /\ UNCHANGED allowed

\* GetCode and AnalyzeCode read the file.
GetCode(cs) ==
  /\ \/ isChecksum(makeView(cs)) /\ codesWith(cs) \cap stored # {} /\ Returns("GetCode", TRUE)
     \/ Returns("GetCode", FALSE)
  /\ UNCHANGED <<stored, pinned, allowed, returned>>

-----------------------------------------------------------------------------
(* Pinning                                                                 *)

\* A code can be pinned if it is already, or if it has a file.
available(cs) == cs \in pinned \/ codesWith(cs) \cap stored # {}

Pin(cs) ==
  /\ \/ /\ isChecksum(makeView(cs)) /\ available(cs)
        /\ pinned' = pinned \cup {cs} /\ Returns("Pin", TRUE)
     \/ Returns("Pin", FALSE) /\ UNCHANGED pinned
  /\ UNCHANGED <<stored, allowed, returned>>

Unpin(cs) ==
  /\ \/ /\ isChecksum(makeView(cs))
        /\ pinned' = pinned \ {cs} /\ Returns("Unpin", TRUE)
     \/ Returns("Unpin", FALSE) /\ UNCHANGED pinned
  /\ UNCHANGED <<stored, allowed, returned>>

fault_buffer(list) == IF list = << >> THEN << >> ELSE Last(list)

\* The slice after each round of the loop in SyncPinnedCodes, which appends to
\* an empty slice that is not nil; appending nil changes nothing.
appended(list) ==
  LET bytes[n \in 0 .. Len(list)] ==
        IF n = 0 THEN << >>
        ELSE IF list[n] = Nil THEN bytes[n - 1] ELSE bytes[n - 1] \o list[n]
  IN bytes

buffer(list) == appended(list)[Len(list)]

\* chunks_exact: a rest that is too short is dropped.
chunks_exact(bytes) ==
  {SubSeq(bytes, (n - 1) * ChecksumLen + 1, n * ChecksumLen) : n \in 1 .. Len(bytes) \div ChecksumLen}

\* Cache::sync_pinned_codes.  If it fails, it has done a part of the work.
cache_sync_pinned_codes(checksums, list) ==
  \E ok \in BOOLEAN :
    /\ ok => \A cs \in checksums : available(cs)
    /\ IF ok
       THEN pinned' = checksums
       ELSE pinned' \in SUBSET (pinned \cup {cs \in checksums : available(cs)})
    /\ last' = [op |-> "SyncPinnedCodes", ok |-> ok, list |-> list]

SyncPinnedCodes(list) ==
  /\ LET bytes == read(makeView(buffer(list))) IN
     IF bytes = Nil
     THEN Returns("SyncPinnedCodes", FALSE) /\ UNCHANGED pinned
     ELSE cache_sync_pinned_codes(chunks_exact(bytes), list)
  /\ UNCHANGED <<stored, allowed, returned>>

\* The process ends, at any time, and a new VM uses the directory.
Restart ==
  /\ pinned' = {}
  /\ Returns("NewVM", TRUE)
  /\ UNCHANGED <<stored, allowed, returned>>

-----------------------------------------------------------------------------

Next ==
  \/ \E c \in Codes \cup {Nil}, gasLimit \in GasLimits :
       StoreCode(c, gasLimit) \/ SimulateStoreCode(c, gasLimit)
  \/ \E c \in Codes \cup {Nil} : StoreCodeUnchecked(c)
  \/ \E cs \in Arguments : RemoveCode(cs) \/ GetCode(cs) \/ Pin(cs) \/ Unpin(cs)
  \/ \E list \in SeqOf(Arguments, MaxList) : SyncPinnedCodes(list)
  \/ Restart

Spec == Init /\ [][Next]_vars

-----------------------------------------------------------------------------
(* Properties                                                              *)

\* No code gets onto the disk unless some StoreCode had the gas for it or it
\* was stored unchecked; in particular simulations, whatever the outcome, and
\* calls without enough gas leave nothing behind ("without actually writing
\* anything to disk", lib_libwasmvm.go:82).
OnlyPaidCodesStored == stored \subseteq allowed

\* StoreCode and StoreCodeUnchecked return a checksum only when the code has been
\* written (the flag persist of lib_libwasmvm.go:76), and the code is on disk until
\* it is removed: pinning, syncing, simulating and failing calls keep it.  That
\* Restart finds the files again is assumed of the file system.
StoredCodesStay == returned \subseteq stored

\* When SyncPinnedCodes succeeds, exactly the codes of its list are pinned, in
\* any order and with repetitions, none for an empty list, although the list
\* crosses the border as one slice that Rust cuts up again (cache.rs:222).  A
\* checksum that is cut off, whose bytes chunks_exact may drop or join with the
\* next ones, is no code of the list and makes no other one pinned or lost.  None
\* is too long: "The length of a checksum must always be ChecksumLen"
\* (types/checksum.go:10).
SyncPinsList ==
  last.op = "SyncPinnedCodes" /\ last.ok =>
    pinned = {checksumOf(c) : c \in Codes} \cap ToSet(last.list)

=============================================================================
