---------------------------- MODULE IteratorFrames ----------------------------
(***************************************************************************)
(* The store iterators of contract calls: internal/api/iterator.go, the    *)
(* callbacks cScan, cNext, cNextKey and cNextValue of                      *)
(* internal/api/callbacks.go, and the Rust side of the same protocol,      *)
(* GoStorage and GoIter of libwasmvm/src/storage.rs and iterator.rs.       *)
(*                                                                         *)
(* A goroutine that enters an entry point of internal/api/lib.go gets a    *)
(* call ID from startCall, runs the contract inside the C call, and ends   *)
(* with endCall.  The contract may query another contract, which enters    *)
(* the library again on the same goroutine: a goroutine has a stack of     *)
(* activations and only the topmost one takes steps.  Goroutines share     *)
(* the global map iteratorFrames and the counter latestCallID, each under  *)
(* a mutex that is never held across a call that blocks, so that a         *)
(* critical section is one step; the calls on an iterator happen outside   *)
(* the mutexes and are steps of their own.                                 *)
(***************************************************************************)
EXTENDS Naturals, Sequences, FiniteSets

CONSTANTS
  Goroutines,     \* the goroutines that call into the library
  MaxDepth,       \* bound: nesting of contract calls on one goroutine
  MaxCallID,      \* bound: calls started in a behaviour (uint64 in the code)
  FrameLenLimit,  \* frameLenLimit (32768 in the code)
  MaxInt32,       \* math.MaxInt32, the largest iterator ID that is looked up
  GasLimit,       \* storage and query operations the gas of one call pays for
  MaxIterators,   \* bound: iterators the stores open in a behaviour
  Items           \* entries in the domain of every iterator

ASSUME ConstantsAssumption ==
  /\ MaxDepth \in Nat \ {0}
  /\ MaxCallID \in Nat
  /\ FrameLenLimit \in Nat
  /\ MaxInt32 \in Nat
  /\ FrameLenLimit <= MaxInt32
  /\ GasLimit \in Nat
  /\ MaxIterators \in Nat
  /\ Items \in Nat

VARIABLES
  latestCallID,   \* the global counter of call IDs
  iteratorFrames, \* the global map of frames; <<>> stands for "no entry"
  depth,          \* per goroutine: number of activations on its stack
  pc,             \* per activation: where it is in the entry point
  callID,         \* per activation: the local variable callID / DBState.CallID
  storage,        \* per activation: GoStorage.iterators, entry n at index n + 1
  gas,            \* per activation: gas left
  held,           \* per activation: the iterator a running callback works on
  closing,        \* per activation: the removed frame endCall still has to close
  opened,         \* number of iterators opened by the stores so far
  status,         \* per iterator: not yet opened, open or closed
  opener,         \* per iterator: ID of the call that opened it
  pos             \* per iterator: entries read so far

globals == <<latestCallID, iteratorFrames>>
locals == <<depth, pc, callID, storage, gas, held, closing>>
iterators == <<opened, status, opener, pos>>
vars == <<globals, locals, iterators>>

CallIDs == 1 .. MaxCallID
Iterators == 1 .. MaxIterators
NoIterator == 0
NoCall == 0
Activations == Goroutines \X (1 .. MaxDepth)
Top(g) == <<g, depth[g]>>
Parent(g) == <<g, depth[g] - 1>>
Active(a) == a[2] <= depth[a[1]]

\* type IteratorReference, the only thing Rust knows about a Go iterator.
References == [call_id : CallIDs, iterator_id : 1 .. MaxInt32 + 1]

\* Locations: "run" is Wasm code, "store" and "next" are inside cScan and
\* cNext, "query" is inside cQueryExternal, "trap" is Wasm aborted by a failed
\* callback, "ending" is after the C call, before removeFrame has run, and
\* "closing" is the loop of endCall.
Locations == {"idle", "run", "store", "next", "query", "trap", "ending", "closing"}

-----------------------------------------------------------------------------
(* Pure parts.  An operator whose name starts with "fault_" is a seeded    *)
(* fault of the definition that follows it; no specification uses one.     *)

IsIteratorID(id) == 1 <= id /\ id <= MaxInt32

iteratorIdToIndex(id) == id - 1

IsFrameIndex(index) == 0 <= index /\ index <= MaxInt32

fault_indexToIteratorID(index) == index

indexToIteratorID(index) == index + 1

fault_newCallID == IF latestCallID = 0 THEN 1 ELSE latestCallID

newCallID == latestCallID + 1

fault_frameIsFull(cid) == FALSE

frameIsFull(cid) == Len(iteratorFrames[cid]) >= FrameLenLimit

fault_framesWithout(cid) == iteratorFrames

framesWithout(cid) == [iteratorFrames EXCEPT ![cid] = <<>>]

fault_retrieveIterator(cid, id) ==
  LET myFrame == iteratorFrames[cid]
  IN  IF myFrame = <<>> THEN NoIterator ELSE myFrame[Len(myFrame)]

\* The iterator behind a reference, or NoIterator (nil in Go).
retrieveIterator(cid, id) ==
  LET myFrame == iteratorFrames[cid]
      indexInFrame == iteratorIdToIndex(id)
  IN  IF ~IsIteratorID(id) \/ indexInFrame >= Len(myFrame)
      THEN NoIterator
      ELSE myFrame[indexInFrame + 1]

-----------------------------------------------------------------------------
Init ==
  /\ latestCallID = 0
  /\ iteratorFrames = [c \in CallIDs |-> <<>>]
  /\ depth = [g \in Goroutines |-> 0]
  /\ pc = [a \in Activations |-> "idle"]
  /\ callID = [a \in Activations |-> NoCall]
  /\ storage = [a \in Activations |-> <<>>]
  /\ gas = [a \in Activations |-> 0]
  /\ held = [a \in Activations |-> NoIterator]
  /\ closing = [a \in Activations |-> <<>>]
  /\ opened = 0
  /\ status = [i \in Iterators |-> "unused"]
  /\ opener = [i \in Iterators |-> NoCall]
  /\ pos = [i \in Iterators |-> 0]

\* The topmost activation of g is at location l.
At(g, l) == depth[g] > 0 /\ pc[Top(g)] = l

\* The contract of the topmost activation starts an operation its gas pays for.
Operation(g) == At(g, "run") /\ gas[Top(g)] > 0

\* startCall, and what the entry point does with its result before the first
\* instruction of the contract: buildDBState, buildDB, GoStorage::new.
startCall(g, a) ==
  /\ latestCallID < MaxCallID
  /\ latestCallID' = newCallID
  /\ callID' = [callID EXCEPT ![a] = newCallID]
  /\ depth' = [depth EXCEPT ![g] = @ + 1]
  /\ UNCHANGED <<iteratorFrames, storage, held, closing, iterators>>

\* An entry point called by the application.
Call(g) ==
  LET a == <<g, 1>> IN
  /\ depth[g] = 0
  /\ startCall(g, a)
  /\ pc' = [pc EXCEPT ![a] = "run"]
  /\ gas' = [gas EXCEPT ![a] = GasLimit]

\* The contract queries another contract: cQueryExternal runs the querier, and
\* the querier enters the library again on the same goroutine.
cQueryExternal(g) ==
  LET a == <<g, depth[g] + 1>> IN
  /\ Operation(g)
  /\ depth[g] < MaxDepth
  /\ startCall(g, a)
  /\ pc' = [pc EXCEPT ![Top(g)] = "query", ![a] = "run"]
  /\ gas' = [gas EXCEPT ![Top(g)] = @ - 1, ![a] = GasLimit]

\* GoStorage::scan and cScan, up to the iterator the store returns.
cScan(g) ==
  /\ Operation(g)
  /\ opened < MaxIterators
  /\ opened' = opened + 1
  /\ status' = [status EXCEPT ![opened + 1] = "open"]
  /\ opener' = [opener EXCEPT ![opened + 1] = callID[Top(g)]]
  /\ held' = [held EXCEPT ![Top(g)] = opened + 1]
  /\ gas' = [gas EXCEPT ![Top(g)] = @ - 1]
  /\ pc' = [pc EXCEPT ![Top(g)] = "store"]
  /\ UNCHANGED <<globals, depth, callID, storage, closing, pos>>

\* The rest of cScan and of GoStorage::scan: storeIterator numbers the iterator
\* by the length of the frame, Rust numbers it by the length of its own map.
storeIterator(g) ==
  LET a == Top(g)
      new_index == Len(iteratorFrames[callID[a]])
      ref == [call_id |-> callID[a], iterator_id |-> indexToIteratorID(new_index)]
  IN
  /\ At(g, "store")
  /\ ~frameIsFull(callID[a])
  /\ iteratorFrames' = [iteratorFrames EXCEPT ![callID[a]] = Append(@, held[a])]
  /\ storage' = IF IsFrameIndex(new_index)
                THEN [storage EXCEPT ![a] = Append(@, ref)]
                ELSE storage
  /\ held' = [held EXCEPT ![a] = NoIterator]
  /\ pc' = [pc EXCEPT ![a] = "run"]
  /\ UNCHANGED <<latestCallID, depth, callID, gas, closing, iterators>>

\* The same when the frame is full: cScan returns GoError_User and the iterator
\* is neither stored nor closed.  The VM hands the error to the contract, which
\* goes on or gives up: Return is enabled in "run".
scanRejected(g) ==
  LET a == Top(g) IN
  /\ At(g, "store")
  /\ frameIsFull(callID[a])
  /\ held' = [held EXCEPT ![a] = NoIterator]
  /\ pc' = [pc EXCEPT ![a] = "run"]
  /\ UNCHANGED <<globals, depth, callID, storage, gas, closing, iterators>>

\* GoStorage::next (next_key, next_value) for the id n of an existing GoIter,
\* and cNext (nextPart) up to the iterator it works on.  A reference that does
\* not resolve makes the callback panic, which aborts the contract.
cNext(g, n) ==
  LET a == Top(g)
      ref == storage[a][n + 1]
      iter == retrieveIterator(ref.call_id, ref.iterator_id)
  IN
  /\ Operation(g)
  /\ n < Len(storage[a])
  /\ gas' = [gas EXCEPT ![a] = @ - 1]
  /\ held' = [held EXCEPT ![a] = iter]
  /\ pc' = [pc EXCEPT ![a] = IF iter = NoIterator THEN "trap" ELSE "next"]
  /\ UNCHANGED <<globals, depth, callID, storage, closing, iterators>>

\* The rest of cNext: nothing at the end of the domain, else Key, Value, Next.
advance(g) ==
  LET a == Top(g) IN
  /\ At(g, "next")
  /\ pos' = IF pos[held[a]] < Items THEN [pos EXCEPT ![held[a]] = @ + 1] ELSE pos
  /\ held' = [held EXCEPT ![a] = NoIterator]
  /\ pc' = [pc EXCEPT ![a] = "run"]
  /\ UNCHANGED <<globals, depth, callID, storage, gas, closing, opened, status, opener>>

\* The iterator panics while it is read or moved (in the SDK: out of gas).
\* recoverPanic turns the panic into a GoError that aborts the contract.
advancePanics(g) ==
  LET a == Top(g) IN
  /\ At(g, "next")
  /\ pos[held[a]] < Items
  /\ held' = [held EXCEPT ![a] = NoIterator]
  /\ pc' = [pc EXCEPT ![a] = "trap"]
  /\ UNCHANGED <<globals, depth, callID, storage, gas, closing, iterators>>

\* An operation fails before it has an iterator: the store panics in
\* kv.Iterator, or the contract passes an id GoStorage does not know.
operationFails(g) ==
  /\ Operation(g)
  /\ gas' = [gas EXCEPT ![Top(g)] = @ - 1]
  /\ pc' = [pc EXCEPT ![Top(g)] = "trap"]
  /\ UNCHANGED <<globals, depth, callID, storage, held, closing, iterators>>

\* The C call returns, with a result, after a trap or after a Rust panic; the
\* instance and its GoStorage are dropped.
Return(g) ==
  /\ At(g, "run") \/ At(g, "trap")
  /\ storage' = [storage EXCEPT ![Top(g)] = <<>>]
  /\ pc' = [pc EXCEPT ![Top(g)] = "ending"]
  /\ UNCHANGED <<globals, depth, callID, gas, held, closing, iterators>>

\* endCall, first part.
removeFrame(g) ==
  LET a == Top(g) IN
  /\ At(g, "ending")
  /\ closing' = [closing EXCEPT ![a] = iteratorFrames[callID[a]]]
  /\ iteratorFrames' = framesWithout(callID[a])
  /\ pc' = [pc EXCEPT ![a] = "closing"]
  /\ UNCHANGED <<latestCallID, depth, callID, storage, gas, held, iterators>>

fault_remaining(frame) == <<>>

remaining(frame) == Tail(frame)

\* endCall, one round of its loop.
closeIterator(g) ==
  LET a == Top(g) IN
  /\ At(g, "closing")
  /\ closing[a] # <<>>
  /\ status' = [status EXCEPT ![Head(closing[a])] = "closed"]
  /\ closing' = [closing EXCEPT ![a] = remaining(@)]
  /\ UNCHANGED <<globals, depth, pc, callID, storage, gas, held, opened, opener, pos>>

fault_resumed(g) == [pc EXCEPT ![Top(g)] = "idle"]

resumed(g) ==
  IF depth[g] > 1
  THEN [pc EXCEPT ![Top(g)] = "idle", ![Parent(g)] = "run"]
  ELSE [pc EXCEPT ![Top(g)] = "idle"]

\* endCall is done: the entry point returns to the application, or to the
\* querier that cQueryExternal runs for the contract one level up.
endCall(g) ==
  LET a == Top(g) IN
  /\ At(g, "closing")
  /\ closing[a] = <<>>
  /\ depth' = [depth EXCEPT ![g] = @ - 1]
  /\ callID' = [callID EXCEPT ![a] = NoCall]
  /\ gas' = [gas EXCEPT ![a] = 0]
  /\ pc' = resumed(g)
  /\ UNCHANGED <<globals, storage, held, closing, iterators>>

\* What goroutine g does once it has entered the library.
Step(g) ==
  \/ cQueryExternal(g)
  \/ cScan(g)
  \/ storeIterator(g)
  \/ scanRejected(g)
  \/ \E n \in 0 .. MaxIterators - 1 : cNext(g, n)
  \/ advance(g)
  \/ advancePanics(g)
  \/ operationFails(g)
  \/ Return(g)
  \/ removeFrame(g)
  \/ closeIterator(g)
  \/ endCall(g)

Next == \E g \in Goroutines : Call(g) \/ Step(g)

Spec == Init /\ [][Next]_vars

\* The Go scheduler runs every goroutine that can run, and gas ends every
\* contract; whether the application makes another call is its own choice.
FairSpec == Spec /\ \A g \in Goroutines : WF_vars(Step(g))

-----------------------------------------------------------------------------
(* Properties.                                                             *)

InFrame(i) == \E c \in CallIDs : \E k \in DOMAIN iteratorFrames[c] : iteratorFrames[c][k] = i

InClosing(i) == \E a \in Activations : \E k \in DOMAIN closing[a] : closing[a][k] = i

IsHeld(i) == \E a \in Activations : held[a] = i

\* Every variable has its type, and no frame is longer than frameLenLimit
\* (storeIterator's check), so the memory a call can pin is bounded.
TypeOK ==
  /\ latestCallID \in 0 .. MaxCallID
  /\ iteratorFrames \in [CallIDs -> Seq(Iterators)]
  /\ \A c \in CallIDs : Len(iteratorFrames[c]) <= FrameLenLimit
  /\ depth \in [Goroutines -> 0 .. MaxDepth]
  /\ pc \in [Activations -> Locations]
  /\ callID \in [Activations -> 0 .. MaxCallID]
  /\ storage \in [Activations -> Seq(References)]
  /\ gas \in [Activations -> 0 .. GasLimit]
  /\ held \in [Activations -> 0 .. MaxIterators]
  /\ closing \in [Activations -> Seq(Iterators)]
  /\ opened \in 0 .. MaxIterators
  /\ status \in [Iterators -> {"unused", "open", "closed"}]
  /\ opener \in [Iterators -> 0 .. MaxCallID]
  /\ pos \in [Iterators -> 0 .. Items]

\* Every GoIter a running contract owns resolves, through the two separate
\* numberings of storage.rs and iterator.go, to an open iterator that this very
\* call opened, and two GoIters never share an iterator.  So cNext never runs
\* into its panic "Unable to retrieve iterator.", whatever other goroutines and
\* nested calls do with the shared map.
HandlesResolve ==
  \A a \in Activations : \A m, n \in DOMAIN storage[a] :
    LET iter(k) == retrieveIterator(storage[a][k].call_id, storage[a][k].iterator_id)
    IN  /\ iter(n) \in Iterators
        /\ status[iter(n)] = "open"
        /\ opener[iter(n)] = callID[a]
        /\ iter(m) = iter(n) => m = n

\* The iterator a callback of callbacks.go works on outside the mutex is open
\* and belongs to its own call: endCall of another call, which closes without
\* holding the mutex, never closes it under the callback's feet.
NoUseAfterClose ==
  \A a \in Activations : held[a] # NoIterator =>
    /\ status[held[a]] = "open"
    /\ opener[held[a]] = callID[a]

\* endCall closes an iterator once: everything it still has to close is open,
\* belongs to its call and is in its list once; no frame holds it any more.
ClosedOnce ==
  \A a \in Activations : \A k \in DOMAIN closing[a] :
    LET i == closing[a][k] IN
    /\ status[i] = "open"
    /\ opener[i] = callID[a]
    /\ ~InFrame(i)
    /\ \A l \in DOMAIN closing[a] : closing[a][l] = i => l = k

\* The global map only has frames of calls that are still inside the C call or
\* about to remove them, so it is empty whenever no call is in progress
\* (what TestQueueIteratorRaces asserts once its goroutines are done).
FramesReleased ==
  \A c \in CallIDs : iteratorFrames[c] # <<>> =>
    \E a \in Activations : Active(a) /\ callID[a] = c /\ pc[a] # "closing"

\* "Iterator must be closed by caller" (types/store.go): an open iterator is
\* always held by a callback, stored in a frame or about to be closed by endCall.
NoIteratorLeak ==
  \A i \in Iterators : status[i] = "open" => InFrame(i) \/ IsHeld(i) \/ InClosing(i)

\* Every iterator that reaches a frame is eventually closed by endCall.
StoredIteratorsClosed ==
  \A i \in Iterators : InFrame(i) ~> status[i] = "closed"

\* Every goroutine that entered the library gets out again: nested calls
\* return to the contract that queried, and no call waits for another one.
CallsEnd ==
  \A g \in Goroutines : depth[g] > 0 ~> depth[g] = 0
-----------------------------------------------------------------------------
(* The frames implement private cursors.                                   *)

\* How far the iterator behind a GoIter has been read.
position(ref) ==
  LET i == retrieveIterator(ref.call_id, ref.iterator_id)
  IN  IF i = NoIterator THEN Items ELSE pos[i]

\* What the contract of an activation sees of its iterators.
shown(a) == [n \in DOMAIN storage[a] |-> position(storage[a][n])]

seen == [a \in Activations |-> shown(a)]

Abstract == INSTANCE PrivateCursors WITH
  Callers <- Activations,
  MaxCursors <- FrameLenLimit,
  Entries <- Items,
  cursors <- seen

\* To a contract, the shared map with its call IDs and iterator IDs looks like a
\* private list of cursors: next moves exactly the iterator its own scan opened,
\* by one entry, and no step of another call, nested or concurrent, opens,
\* moves or drops one of its iterators.
CursorsArePrivate == Abstract!Spec
=============================================================================
