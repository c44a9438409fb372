------------------------- MODULE IteratorFramesProofs -------------------------
(***************************************************************************)
(* The iterator frames for every set of goroutines and every value of the  *)
(* bounds: the type invariant, the properties HandlesResolve,              *)
(* NoUseAfterClose, ClosedOnce, FramesReleased and NoIteratorLeak, and the *)
(* refinement CursorsArePrivate.                                           *)
(*                                                                         *)
(* None of them is inductive.  The invariant IInv adds what ties the       *)
(* pieces of state together: the IDs of active calls are distinct; the     *)
(* frame of a call holds distinct open iterators which that call opened;   *)
(* entry n of GoStorage refers to slot n of the frame of its own call; the *)
(* iterator cScan is about to store is in no frame yet; and a call that is *)
(* closing its iterators has no frame any more.                            *)
(*                                                                         *)
(* CursorInv adds what the refinement and the absence of leaks need: cNext *)
(* works on an iterator of the frame of its own call; an iterator not yet  *)
(* stored stands at its start; and gas has paid for every iterator of a    *)
(* frame.                                                                  *)
(***************************************************************************)
EXTENDS IteratorFrames, TLAPS

\* The steps are first-order: Zenon is the backend, and the leaves that reason
\* about numbers or sequences cite SMT.
USE Zenon

\* Locations inside the C call, where the contract's GoStorage exists.
Inside == {"run", "store", "next", "query", "trap"}

\* The stacks: exactly the activations above the depth are idle, and all but
\* the topmost one wait inside cQueryExternal.
StackInv ==
  \A a \in Activations :
    /\ Active(a) <=> pc[a] # "idle"
    /\ a[2] < depth[a[1]] => pc[a] = "query"
    /\ a[2] = depth[a[1]] => pc[a] # "query"

\* The IDs of active calls are distinct and were handed out by startCall.
IdInv ==
  \A a \in Activations : pc[a] # "idle" =>
    /\ callID[a] \in 1 .. latestCallID
    /\ \A b \in Activations : pc[b] # "idle" /\ callID[b] = callID[a] => b = a

\* Only a call that has not run removeFrame yet has a frame, and a frame holds
\* distinct open iterators of its own call.
FrameInv ==
  \A c \in CallIDs :
    /\ iteratorFrames[c] # <<>> =>
         \E a \in Activations : callID[a] = c /\ pc[a] \in Inside \cup {"ending"}
    /\ \A k \in 1 .. Len(iteratorFrames[c]) :
         /\ status[iteratorFrames[c][k]] = "open"
         /\ opener[iteratorFrames[c][k]] = c
         /\ \A l \in 1 .. Len(iteratorFrames[c]) :
              iteratorFrames[c][l] = iteratorFrames[c][k] => l = k

\* Rust's numbering and Go's numbering agree.
StorageInv ==
  \A a \in Activations :
    /\ pc[a] \in Inside => Len(storage[a]) = Len(iteratorFrames[callID[a]])
    /\ pc[a] \notin Inside => storage[a] = <<>>
    /\ \A n \in 1 .. Len(storage[a]) :
         storage[a][n].call_id = callID[a] /\ storage[a][n].iterator_id = n

\* The iterator of a running callback, and the list of endCall.
HeldInv ==
  \A a \in Activations :
    /\ pc[a] \in {"store", "next"} =>
         /\ held[a] \in Iterators
         /\ status[held[a]] = "open"
         /\ opener[held[a]] = callID[a]
    /\ pc[a] = "store" =>
         \A k \in 1 .. Len(iteratorFrames[callID[a]]) :
           iteratorFrames[callID[a]][k] # held[a]
    /\ pc[a] \notin {"store", "next"} => held[a] = NoIterator

ClosingInv ==
  \A a \in Activations :
    /\ pc[a] # "closing" => closing[a] = <<>>
    /\ \A k \in 1 .. Len(closing[a]) :
         /\ status[closing[a][k]] = "open"
         /\ opener[closing[a][k]] = callID[a]
         /\ \A l \in 1 .. Len(closing[a]) : closing[a][l] = closing[a][k] => l = k

\* Iterators are opened in order.
OpenedInv == \A i \in Iterators : i > opened => status[i] = "unused"

IInv ==
  TypeOK /\ StackInv /\ IdInv /\ FrameInv /\ StorageInv /\ HeldInv /\ ClosingInv /\ OpenedInv

-----------------------------------------------------------------------------
\* The topmost activation of a goroutine inside the library.
LEMMA TopFacts ==
  ASSUME TypeOK, NEW g \in Goroutines, depth[g] > 0
  PROVE  /\ Top(g) \in Activations
         /\ Top(g)[1] = g
         /\ Top(g)[2] = depth[g]
         /\ depth[g] \in 1 .. MaxDepth
  BY ConstantsAssumption, SMT DEF TypeOK, Top, Activations

LEMMA Initially == Init => IInv
  <1> SUFFICES ASSUME Init PROVE IInv
    OBVIOUS
  <1> USE ConstantsAssumption
  <1>1. TypeOK
    BY SMT DEF Init, TypeOK, CallIDs, Iterators, NoCall, NoIterator, Locations
  <1>2. StackInv
    BY SMT DEF Init, StackInv, Active, Activations
  <1>3. IdInv /\ FrameInv /\ StorageInv /\ HeldInv /\ ClosingInv /\ OpenedInv
    BY SMT DEF Init, IdInv, FrameInv, StorageInv, HeldInv, ClosingInv, OpenedInv, Inside
  <1> QED
    BY <1>1, <1>2, <1>3 DEF IInv

\* Activations are determined by their goroutine and their level.
LEMMA ActivationFacts ==
  /\ \A a \in Activations : a[1] \in Goroutines /\ a[2] \in 1 .. MaxDepth
  /\ \A a, b \in Activations : a[1] = b[1] /\ a[2] = b[2] => a = b
  BY SMT DEF Activations

\* A step of a callback that touches nothing but its own location, the iterator
\* it holds, the gas and the position of an iterator.
CallbackMove(a, l, i) ==
  /\ a[2] = depth[a[1]]
  /\ pc[a] \in {"run", "store", "next"}
  /\ l \in {"run", "next", "trap"}
  /\ pc' = [pc EXCEPT ![a] = l]
  /\ held' = [held EXCEPT ![a] = i]
  /\ l = "next" => i \in Iterators /\ status[i] = "open" /\ opener[i] = callID[a]
  /\ l # "next" => i = NoIterator
  /\ latestCallID' = latestCallID /\ iteratorFrames' = iteratorFrames
  /\ depth' = depth /\ callID' = callID /\ storage' = storage /\ closing' = closing
  /\ opened' = opened /\ status' = status /\ opener' = opener

LEMMA CallbackStep ==
  ASSUME IInv, TypeOK', NEW a \in Activations, NEW l, NEW i, CallbackMove(a, l, i)
  PROVE  IInv'
  <1> USE DEF CallbackMove
  <1>1. pc \in [Activations -> Locations] /\ held \in [Activations -> 0 .. MaxIterators]
    BY DEF IInv, TypeOK
  <1>2. StackInv'
    BY <1>1 DEF IInv, StackInv, Active
  <1>3. IdInv'
    BY <1>1 DEF IInv, IdInv
  <1>4. FrameInv'
    BY <1>1, SMT DEF IInv, FrameInv, Inside
  <1>5. StorageInv'
    <2>1. \A b \in Activations : pc'[b] \in Inside <=> pc[b] \in Inside
      BY <1>1 DEF Inside
    <2>2. storage' = storage /\ iteratorFrames' = iteratorFrames /\ callID' = callID
      OBVIOUS
    <2> HIDE DEF CallbackMove
    <2> QED
      BY <2>1, <2>2 DEF IInv, StorageInv
  <1>6. HeldInv'
    BY <1>1 DEF IInv, HeldInv
  <1>7. ClosingInv'
    BY <1>1, SMT DEF IInv, ClosingInv
  <1>8. OpenedInv'
    BY DEF IInv, OpenedInv
  <1> QED
    BY <1>2, <1>3, <1>4, <1>5, <1>6, <1>7, <1>8 DEF IInv

LEMMA OperationFailsStep ==
  ASSUME IInv, NEW g \in Goroutines, operationFails(g)
  PROVE  IInv' /\ CallbackMove(Top(g), "trap", NoIterator)
  <1>1. PICK a \in Activations : a = Top(g) /\ a[1] = g /\ a[2] = depth[g]
    BY TopFacts DEF IInv, operationFails, Operation, At
  <1>2. pc[a] = "run" /\ gas[a] > 0 /\ gas' = [gas EXCEPT ![a] = @ - 1]
    BY <1>1 DEF operationFails, Operation, At
  <1>3. held \in [Activations -> 0 .. MaxIterators] /\ gas \in [Activations -> 0 .. GasLimit]
    BY DEF IInv, TypeOK
  <1>4. held' = [held EXCEPT ![a] = NoIterator]
    BY <1>2, <1>3 DEF IInv, HeldInv, operationFails
  <1>5. pc' = [pc EXCEPT ![a] = "trap"] /\ pc' \in [Activations -> Locations]
    BY <1>1 DEF IInv, TypeOK, operationFails, Locations
  <1>6. gas' \in [Activations -> 0 .. GasLimit]
    BY <1>2, <1>3, ConstantsAssumption, SMT
  <1>7. TypeOK'
    BY <1>5, <1>6 DEF IInv, TypeOK, operationFails, globals, iterators
  <1>9. CallbackMove(a, "trap", NoIterator)
    BY <1>1, <1>2, <1>4, <1>5 DEF CallbackMove, operationFails, globals, iterators
  <1> QED
    BY <1>1, <1>7, <1>9, CallbackStep

LEMMA ScanRejectedStep ==
  ASSUME IInv, NEW g \in Goroutines, scanRejected(g)
  PROVE  IInv' /\ CallbackMove(Top(g), "run", NoIterator)
  <1>1. PICK a \in Activations : a = Top(g) /\ a[1] = g /\ a[2] = depth[g]
    BY TopFacts DEF IInv, scanRejected, At
  <1>2. /\ pc[a] = "store"
        /\ pc' = [pc EXCEPT ![a] = "run"]
        /\ held' = [held EXCEPT ![a] = NoIterator]
    BY <1>1 DEF scanRejected, At
  <1>3. /\ pc' \in [Activations -> Locations]
        /\ held' \in [Activations -> 0 .. MaxIterators]
    BY <1>2, ConstantsAssumption, SMT DEF IInv, TypeOK, Locations, NoIterator
  <1>4. TypeOK'
    BY <1>3 DEF IInv, TypeOK, scanRejected, globals, iterators
  <1>9. CallbackMove(a, "run", NoIterator)
    BY <1>1, <1>2 DEF CallbackMove, scanRejected, globals, iterators
  <1> QED
    BY <1>1, <1>4, <1>9, CallbackStep

LEMMA AdvancePanicsStep ==
  ASSUME IInv, NEW g \in Goroutines, advancePanics(g)
  PROVE  IInv' /\ CallbackMove(Top(g), "trap", NoIterator)
  <1>1. PICK a \in Activations : a = Top(g) /\ a[1] = g /\ a[2] = depth[g]
    BY TopFacts DEF IInv, advancePanics, At
  <1>2. /\ pc[a] = "next"
        /\ pc' = [pc EXCEPT ![a] = "trap"]
        /\ held' = [held EXCEPT ![a] = NoIterator]
    BY <1>1 DEF advancePanics, At
  <1>3. /\ pc' \in [Activations -> Locations]
        /\ held' \in [Activations -> 0 .. MaxIterators]
    BY <1>2, ConstantsAssumption, SMT DEF IInv, TypeOK, Locations, NoIterator
  <1>4. TypeOK'
    BY <1>3 DEF IInv, TypeOK, advancePanics, globals, iterators
  <1>9. CallbackMove(a, "trap", NoIterator)
    BY <1>1, <1>2 DEF CallbackMove, advancePanics, globals, iterators
  <1> QED
    BY <1>1, <1>4, <1>9, CallbackStep

LEMMA AdvanceStep ==
  ASSUME IInv, NEW g \in Goroutines, advance(g)
  PROVE  IInv' /\ CallbackMove(Top(g), "run", NoIterator)
  <1>1. PICK a \in Activations : a = Top(g) /\ a[1] = g /\ a[2] = depth[g]
    BY TopFacts DEF IInv, advance, At
  <1>2. /\ pc[a] = "next"
        /\ pc' = [pc EXCEPT ![a] = "run"]
        /\ held' = [held EXCEPT ![a] = NoIterator]
        /\ pos' = IF pos[held[a]] < Items THEN [pos EXCEPT ![held[a]] = @ + 1] ELSE pos
    BY <1>1 DEF advance, At
  <1>3. /\ pc' \in [Activations -> Locations]
        /\ held' \in [Activations -> 0 .. MaxIterators]
    <2>1. pc \in [Activations -> Locations] /\ held \in [Activations -> 0 .. MaxIterators]
      BY DEF IInv, TypeOK
    <2>2. "run" \in Locations /\ NoIterator \in 0 .. MaxIterators
      BY ConstantsAssumption, SMT DEF Locations, NoIterator
    <2> QED
      BY <1>2, <2>1, <2>2
  <1>4. pos' \in [Iterators -> 0 .. Items]
    <2>1. held[a] \in Iterators /\ pos \in [Iterators -> 0 .. Items]
      BY <1>2 DEF IInv, TypeOK, HeldInv
    <2> QED
      BY <2>1, <1>2, ConstantsAssumption, SMT
  <1>5. TypeOK'
    BY <1>3, <1>4 DEF IInv, TypeOK, advance, globals
  <1>9. CallbackMove(a, "run", NoIterator)
    BY <1>1, <1>2 DEF CallbackMove, advance, globals
  <1> QED
    BY <1>1, <1>5, <1>9, CallbackStep

LEMMA ReturnStep ==
  ASSUME IInv, NEW g \in Goroutines, Return(g)
  PROVE  IInv'
  <1>0. PICK a \in Activations :
          a = Top(g) /\ a[1] = g /\ a[2] = depth[g] /\ depth[g] \in 1 .. MaxDepth
    BY TopFacts DEF IInv, Return, At
  <1>a. /\ pc[a] \in {"run", "trap"}
        /\ storage' = [storage EXCEPT ![a] = <<>>]
        /\ pc' = [pc EXCEPT ![a] = "ending"]
    BY <1>0 DEF Return, At
  <1>b. /\ latestCallID' = latestCallID /\ iteratorFrames' = iteratorFrames
        /\ depth' = depth /\ callID' = callID /\ gas' = gas
        /\ held' = held /\ closing' = closing /\ opened' = opened
        /\ status' = status /\ opener' = opener /\ pos' = pos
    BY DEF Return, globals, iterators
  <1>c. pc \in [Activations -> Locations] /\ storage \in [Activations -> Seq(References)]
    BY DEF IInv, TypeOK
  <1>d. pc' \in [Activations -> Locations] /\ storage' \in [Activations -> Seq(References)]
    BY <1>0, <1>a, <1>c, SMT DEF Locations
  <1>1. TypeOK'
    BY <1>b, <1>d DEF IInv, TypeOK
  <1>2. StackInv'
    BY <1>0, <1>a, <1>b, <1>c DEF IInv, StackInv, Active
  <1>3. IdInv'
    BY <1>0, <1>a, <1>b, <1>c DEF IInv, IdInv
  <1>4. FrameInv'
    <2>1. \A b \in Activations :
            pc[b] \in Inside \cup {"ending"} => pc'[b] \in Inside \cup {"ending"}
      BY <1>0, <1>a, <1>c DEF Inside
    <2> QED
      BY <2>1, <1>b, SMT DEF IInv, FrameInv
  <1>5. StorageInv'
    <2>1. Len(storage'[a]) = 0 /\ storage'[a] = <<>> /\ pc'[a] \notin Inside
      BY <1>0, <1>a, <1>c DEF Inside
    <2>2. \A b \in Activations : b # a => storage'[b] = storage[b] /\ pc'[b] = pc[b]
      BY <1>a, <1>c
    <2> QED
      BY <2>1, <2>2, <1>b, SMT DEF IInv, StorageInv
  <1>6. HeldInv'
    BY <1>0, <1>a, <1>b, <1>c DEF IInv, HeldInv
  <1>7. ClosingInv'
    BY <1>0, <1>a, <1>b, <1>c, SMT DEF IInv, ClosingInv
  <1>8. OpenedInv'
    BY <1>b DEF IInv, OpenedInv
  <1> QED
    BY <1>1, <1>2, <1>3, <1>4, <1>5, <1>6, <1>7, <1>8 DEF IInv

\* An active call has an ID, and the frame under that ID is a short sequence.
LEMMA OwnFrame ==
  ASSUME IInv, NEW a \in Activations, pc[a] # "idle"
  PROVE  /\ callID[a] \in CallIDs
         /\ iteratorFrames[callID[a]] \in Seq(Iterators)
         /\ Len(iteratorFrames[callID[a]]) \in Nat
         /\ Len(iteratorFrames[callID[a]]) <= FrameLenLimit
  <1>1. callID[a] \in CallIDs
    BY ConstantsAssumption, SMT DEF IInv, IdInv, TypeOK, CallIDs
  <1>2. iteratorFrames \in [CallIDs -> Seq(Iterators)]
    BY DEF IInv, TypeOK
  <1>3. Len(iteratorFrames[callID[a]]) <= FrameLenLimit
    BY <1>1 DEF IInv, TypeOK
  <1> QED
    BY <1>1, <1>2, <1>3, SMT

\* Entry k of GoStorage leads to slot k of the call's own frame.
LEMMA Resolves ==
  ASSUME IInv, NEW a \in Activations, NEW k \in 1 .. Len(storage[a])
  PROVE  /\ callID[a] \in CallIDs
         /\ k \in 1 .. Len(iteratorFrames[callID[a]])
         /\ iteratorFrames[callID[a]][k] \in Iterators
         /\ retrieveIterator(storage[a][k].call_id, storage[a][k].iterator_id)
              = iteratorFrames[callID[a]][k]
  <1>1. storage[a] # <<>>
    BY SMT
  <1>2. pc[a] \in Inside
    BY <1>1 DEF IInv, StorageInv
  <1>3. /\ Len(storage[a]) = Len(iteratorFrames[callID[a]])
        /\ storage[a][k].call_id = callID[a] /\ storage[a][k].iterator_id = k
    BY <1>2 DEF IInv, StorageInv
  <1>4. pc[a] # "idle"
    BY <1>2 DEF Inside
  <1>5. /\ callID[a] \in CallIDs
        /\ iteratorFrames[callID[a]] \in Seq(Iterators)
        /\ Len(iteratorFrames[callID[a]]) \in Nat
        /\ Len(iteratorFrames[callID[a]]) <= FrameLenLimit
    BY <1>4, OwnFrame
  <1>6. k \in 1 .. Len(iteratorFrames[callID[a]]) /\ k <= MaxInt32
    BY <1>3, <1>5, ConstantsAssumption, SMT
  <1>7. iteratorFrames[callID[a]][k] \in Iterators
    BY <1>5, <1>6, SMT
  <1>8. retrieveIterator(callID[a], k) = iteratorFrames[callID[a]][k]
    BY <1>5, <1>6, ConstantsAssumption, SMT DEF retrieveIterator, IsIteratorID, iteratorIdToIndex
  <1> QED
    BY <1>3, <1>5, <1>6, <1>7, <1>8

LEMMA NextStep ==
  ASSUME IInv, NEW g \in Goroutines, NEW n \in 0 .. MaxIterators - 1, cNext(g, n)
  PROVE  /\ IInv'
         /\ n + 1 \in 1 .. Len(iteratorFrames[callID[Top(g)]])
         /\ CallbackMove(Top(g), "next", iteratorFrames[callID[Top(g)]][n + 1])
  <1>1. PICK a \in Activations : a = Top(g) /\ a[1] = g /\ a[2] = depth[g]
    BY TopFacts DEF IInv, cNext, Operation, At
  <1> DEFINE iter == retrieveIterator(storage[a][n + 1].call_id, storage[a][n + 1].iterator_id)
  <1>2. /\ pc[a] = "run" /\ gas[a] > 0 /\ n < Len(storage[a])
        /\ gas' = [gas EXCEPT ![a] = @ - 1]
        /\ held' = [held EXCEPT ![a] = iter]
        /\ pc' = [pc EXCEPT ![a] = IF iter = NoIterator THEN "trap" ELSE "next"]
    BY <1>1 DEF cNext, Operation, At
  <1>3. n + 1 \in 1 .. Len(storage[a])
    <2>1. storage[a] \in Seq(References)
      BY DEF IInv, TypeOK
    <2> QED
      BY <2>1, <1>2, ConstantsAssumption, SMT
  <1>4. /\ callID[a] \in CallIDs
        /\ n + 1 \in 1 .. Len(iteratorFrames[callID[a]])
        /\ iter = iteratorFrames[callID[a]][n + 1]
        /\ iter \in Iterators
    BY <1>3, Resolves
  <1>5. status[iter] = "open" /\ opener[iter] = callID[a]
    BY <1>4, SMT DEF IInv, FrameInv
  <1> HIDE DEF iter
  <1>6. /\ pc' = [pc EXCEPT ![a] = "next"]
        /\ pc' \in [Activations -> Locations]
        /\ held' \in [Activations -> 0 .. MaxIterators]
    <2>1. /\ pc \in [Activations -> Locations]
          /\ held \in [Activations -> 0 .. MaxIterators]
      BY DEF IInv, TypeOK
    <2>2. iter # NoIterator /\ iter \in 0 .. MaxIterators
      BY <1>4, ConstantsAssumption, SMT DEF NoIterator, Iterators
    <2>3. pc' = [pc EXCEPT ![a] = "next"]
      BY <2>2, <1>2
    <2> QED
      BY <2>1, <2>2, <2>3, <1>2 DEF Locations
  <1>7. gas' \in [Activations -> 0 .. GasLimit]
    BY <1>2, ConstantsAssumption, SMTT(30) DEF IInv, TypeOK
  <1>8. TypeOK'
    BY <1>6, <1>7 DEF IInv, TypeOK, cNext, globals, iterators
  <1>9. CallbackMove(a, "next", iter)
    BY <1>1, <1>2, <1>4, <1>5, <1>6 DEF CallbackMove, cNext, globals, iterators
  <1> QED
    BY <1>1, <1>4, <1>8, <1>9, CallbackStep

LEMMA ScanStep ==
  ASSUME IInv, NEW g \in Goroutines, cScan(g)
  PROVE  IInv'
  <1>0. PICK a \in Activations : a = Top(g) /\ a[1] = g /\ a[2] = depth[g]
    BY TopFacts DEF IInv, cScan, Operation, At
  <1> DEFINE i == opened + 1
  <1>a. /\ pc[a] = "run" /\ gas[a] > 0 /\ opened < MaxIterators
        /\ opened' = i
        /\ status' = [status EXCEPT ![i] = "open"]
        /\ opener' = [opener EXCEPT ![i] = callID[a]]
        /\ held' = [held EXCEPT ![a] = i]
        /\ gas' = [gas EXCEPT ![a] = @ - 1]
        /\ pc' = [pc EXCEPT ![a] = "store"]
    BY <1>0 DEF cScan, Operation, At
  <1>b. /\ latestCallID' = latestCallID /\ iteratorFrames' = iteratorFrames
        /\ depth' = depth /\ callID' = callID /\ storage' = storage
        /\ closing' = closing /\ pos' = pos
    BY DEF cScan, globals
  <1>c. /\ pc \in [Activations -> Locations]
        /\ held \in [Activations -> 0 .. MaxIterators]
        /\ gas \in [Activations -> 0 .. GasLimit]
        /\ callID \in [Activations -> 0 .. MaxCallID]
        /\ opened \in 0 .. MaxIterators
        /\ status \in [Iterators -> {"unused", "open", "closed"}]
        /\ opener \in [Iterators -> 0 .. MaxCallID]
    BY DEF IInv, TypeOK
  <1>h. closing \in [Activations -> Seq(Iterators)]
    BY DEF IInv, TypeOK
  <1>d. i \in Iterators /\ i \in 0 .. MaxIterators /\ status[i] = "unused"
    BY <1>a, <1>c, ConstantsAssumption, SMT DEF IInv, OpenedInv, Iterators
  <1>e. \A j : status[j] = "open" => j # i
    BY <1>d
  <1>f. \A j \in Iterators : status[j] = "open" => status'[j] = "open" /\ opener'[j] = opener[j]
    BY <1>a, <1>c, <1>e
  <1>g. status'[i] = "open" /\ opener'[i] = callID[a]
    BY <1>a, <1>c, <1>d
  <1>1. TypeOK'
    <2>1. /\ pc' \in [Activations -> Locations]
          /\ held' \in [Activations -> 0 .. MaxIterators]
          /\ gas' \in [Activations -> 0 .. GasLimit]
      BY <1>a, <1>c, <1>d, ConstantsAssumption, SMT DEF Locations
    <2>2. /\ opened' \in 0 .. MaxIterators
          /\ status' \in [Iterators -> {"unused", "open", "closed"}]
          /\ opener' \in [Iterators -> 0 .. MaxCallID]
      BY <1>a, <1>c, <1>d
    <2> QED
      BY <2>1, <2>2, <1>b DEF IInv, TypeOK
  <1> HIDE DEF i
  <1>2. StackInv'
    BY <1>0, <1>a, <1>b, <1>c DEF IInv, StackInv, Active
  <1>3. IdInv'
    BY <1>a, <1>b, <1>c DEF IInv, IdInv
  <1>4. FrameInv'
    <2>1. \A b \in Activations :
            pc[b] \in Inside \cup {"ending"} => pc'[b] \in Inside \cup {"ending"}
      BY <1>a, <1>c DEF Inside
    <2>2. \A c \in CallIDs : \A k \in 1 .. Len(iteratorFrames[c]) :
            iteratorFrames[c][k] \in Iterators
      BY SMT DEF IInv, TypeOK
    <2> QED
      BY <2>1, <2>2, <1>b, <1>f, SMT DEF IInv, FrameInv
  <1>5. StorageInv'
    BY <1>a, <1>b, <1>c, SMT DEF IInv, StorageInv, Inside
  <1>6. HeldInv'
    <2>1. callID[a] \in CallIDs /\ iteratorFrames[callID[a]] \in Seq(Iterators)
      BY <1>a, OwnFrame
    <2>2. \A k \in 1 .. Len(iteratorFrames[callID[a]]) : iteratorFrames[callID[a]][k] # i
      BY <2>1, <1>e, SMT DEF IInv, FrameInv
    <2>3. \A b \in Activations : b # a => pc'[b] = pc[b] /\ held'[b] = held[b]
      BY <1>a, <1>c
    <2>4. pc'[a] = "store" /\ held'[a] = i
      BY <1>a, <1>c
    <2> SUFFICES ASSUME NEW b \in Activations
                 PROVE  /\ pc'[b] \in {"store", "next"} =>
                             /\ held'[b] \in Iterators
                             /\ status'[held'[b]] = "open"
                             /\ opener'[held'[b]] = callID'[b]
                        /\ pc'[b] = "store" =>
                             \A k \in 1 .. Len(iteratorFrames'[callID'[b]]) :
                               iteratorFrames'[callID'[b]][k] # held'[b]
                        /\ pc'[b] \notin {"store", "next"} => held'[b] = NoIterator
      BY DEF HeldInv
    <2>5. CASE b = a
      BY <2>2, <2>4, <2>5, <1>b, <1>d, <1>g
    <2>6. CASE b # a
      BY <2>3, <2>6, <1>b, <1>f, SMT DEF IInv, HeldInv
    <2> QED
      BY <2>5, <2>6
  <1>7. ClosingInv'
    <2>1. \A b \in Activations : \A k \in 1 .. Len(closing[b]) : closing[b][k] \in Iterators
      BY <1>h, SMT
    <2>2. \A b \in Activations : pc'[b] # "closing" => pc[b] # "closing"
      BY <1>a, <1>c
    <2> QED
      BY <2>1, <2>2, <1>b, <1>f, SMT DEF IInv, ClosingInv
  <1>8. OpenedInv'
    BY <1>a, <1>c, ConstantsAssumption, SMT DEF IInv, OpenedInv, i, Iterators
  <1> QED
    BY <1>1, <1>2, <1>3, <1>4, <1>5, <1>6, <1>7, <1>8 DEF IInv

\* storeIterator appends the held iterator to the frame of its own call, and a
\* reference to that slot to GoStorage.
Stored(a, c, len, ref) ==
  /\ a[2] = depth[a[1]]
  /\ c = callID[a] /\ len = Len(iteratorFrames[c])
  /\ ref.call_id = c /\ ref.iterator_id = len + 1
  /\ pc[a] = "store" /\ len < FrameLenLimit
  /\ held[a] \in Iterators /\ status[held[a]] = "open" /\ opener[held[a]] = c
  /\ \A k \in 1 .. len : iteratorFrames[c][k] # held[a]
  /\ Len(storage[a]) = len
  /\ latestCallID' = latestCallID /\ depth' = depth /\ callID' = callID
  /\ gas' = gas /\ closing' = closing
  /\ opened' = opened /\ status' = status /\ opener' = opener /\ pos' = pos
  /\ iteratorFrames' \in [CallIDs -> Seq(Iterators)]
  /\ Len(iteratorFrames'[c]) = len + 1
  /\ \A k \in 1 .. len : iteratorFrames'[c][k] = iteratorFrames[c][k]
  /\ iteratorFrames'[c][len + 1] = held[a]
  /\ \A e \in CallIDs : e # c => iteratorFrames'[e] = iteratorFrames[e]
  /\ storage' \in [Activations -> Seq(References)]
  /\ Len(storage'[a]) = len + 1
  /\ \A k \in 1 .. len : storage'[a][k] = storage[a][k]
  /\ storage'[a][len + 1] = ref
  /\ \A b \in Activations : b # a => storage'[b] = storage[b]
  /\ pc' \in [Activations -> Locations] /\ held' \in [Activations -> 0 .. MaxIterators]
  /\ \A b \in Activations : b # a => pc'[b] = pc[b] /\ held'[b] = held[b]
  /\ pc'[a] = "run" /\ held'[a] = NoIterator

LEMMA StoreFacts ==
  ASSUME IInv, NEW g \in Goroutines, storeIterator(g)
  PROVE  \E a \in Activations, c \in CallIDs, len \in Nat, ref \in References :
           a = Top(g) /\ Stored(a, c, len, ref)
  <1>0. PICK a \in Activations : a = Top(g) /\ a[1] = g /\ a[2] = depth[g]
    BY TopFacts DEF IInv, storeIterator, At
  <1> DEFINE c == callID[a]
             len == Len(iteratorFrames[c])
             ref == [call_id |-> c, iterator_id |-> len + 1]
  <1>a. /\ pc[a] = "store"
        /\ ~(len >= FrameLenLimit)
        /\ iteratorFrames' = [iteratorFrames EXCEPT ![c] = Append(@, held[a])]
        /\ storage' = IF IsFrameIndex(len) THEN [storage EXCEPT ![a] = Append(@, ref)] ELSE storage
        /\ held' = [held EXCEPT ![a] = NoIterator]
        /\ pc' = [pc EXCEPT ![a] = "run"]
    BY <1>0 DEF storeIterator, At, frameIsFull, indexToIteratorID
  <1>b. /\ latestCallID' = latestCallID /\ depth' = depth /\ callID' = callID
        /\ gas' = gas /\ closing' = closing
        /\ opened' = opened /\ status' = status /\ opener' = opener /\ pos' = pos
    BY DEF storeIterator, iterators
  <1>c. /\ pc \in [Activations -> Locations]
        /\ held \in [Activations -> 0 .. MaxIterators]
        /\ storage \in [Activations -> Seq(References)]
        /\ iteratorFrames \in [CallIDs -> Seq(Iterators)]
    BY DEF IInv, TypeOK
  <1>d. c \in CallIDs /\ len \in Nat /\ len < FrameLenLimit /\ IsFrameIndex(len)
    <2>1. c \in CallIDs /\ len \in Nat
      BY <1>a, OwnFrame
    <2> QED
      BY <2>1, <1>a, ConstantsAssumption, SMT DEF IsFrameIndex
  <1>e. /\ held[a] \in Iterators /\ status[held[a]] = "open" /\ opener[held[a]] = c
        /\ \A k \in 1 .. len : iteratorFrames[c][k] # held[a]
    BY <1>a DEF IInv, HeldInv
  <1>f. ref \in References
    BY <1>d, ConstantsAssumption, SMT DEF References
  <1>g. storage' = [storage EXCEPT ![a] = Append(@, ref)]
    BY <1>a, <1>d
  <1>h. Len(storage[a]) = len
    BY <1>a DEF IInv, StorageInv, Inside
  <1> HIDE DEF c, ref
  <1>i. /\ iteratorFrames'[c] = Append(iteratorFrames[c], held[a])
        /\ iteratorFrames'[c] \in Seq(Iterators)
        /\ Len(iteratorFrames'[c]) = len + 1
        /\ \A k \in 1 .. len : iteratorFrames'[c][k] = iteratorFrames[c][k]
        /\ iteratorFrames'[c][len + 1] = held[a]
        /\ \A e \in CallIDs : e # c => iteratorFrames'[e] = iteratorFrames[e]
    <2> DEFINE f == iteratorFrames[c]
    <2>1. f \in Seq(Iterators) /\ held[a] \in Iterators
      BY <1>c, <1>d, <1>e
    <2>2. /\ iteratorFrames'[c] = Append(f, held[a])
          /\ \A e \in CallIDs : e # c => iteratorFrames'[e] = iteratorFrames[e]
      BY <1>a, <1>c, <1>d
    <2> HIDE DEF f
    <2>3. /\ Append(f, held[a]) \in Seq(Iterators)
          /\ Len(Append(f, held[a])) = Len(f) + 1
          /\ \A k \in 1 .. Len(f) : Append(f, held[a])[k] = f[k]
          /\ Append(f, held[a])[Len(f) + 1] = held[a]
      BY <2>1, SMT
    <2> QED
      BY <2>2, <2>3 DEF f
  <1>j. /\ storage'[a] \in Seq(References)
        /\ Len(storage'[a]) = len + 1
        /\ \A k \in 1 .. len : storage'[a][k] = storage[a][k]
        /\ storage'[a][len + 1] = ref
        /\ \A b \in Activations : b # a => storage'[b] = storage[b]
    <2> DEFINE t == storage[a]
    <2>1. t \in Seq(References) /\ ref \in References /\ Len(t) = len
      BY <1>c, <1>f, <1>h
    <2>2. /\ storage'[a] = Append(t, ref)
          /\ \A b \in Activations : b # a => storage'[b] = storage[b]
      BY <1>c, <1>g
    <2> HIDE DEF t, len
    <2>3. /\ Append(t, ref) \in Seq(References)
          /\ Len(Append(t, ref)) = Len(t) + 1
          /\ \A k \in 1 .. Len(t) : Append(t, ref)[k] = t[k]
          /\ Append(t, ref)[Len(t) + 1] = ref
      BY <2>1, SMT
    <2> QED
      BY <2>1, <2>2, <2>3 DEF t
  <1> HIDE DEF len
  <1>k. /\ \A b \in Activations : b # a => pc'[b] = pc[b] /\ held'[b] = held[b]
        /\ pc'[a] = "run" /\ held'[a] = NoIterator
    BY <1>a, <1>c
  <1>l. /\ pc' \in [Activations -> Locations]
        /\ held' \in [Activations -> 0 .. MaxIterators]
    BY <1>a, <1>c, ConstantsAssumption, SMT DEF Locations, NoIterator
  <1>m. storage' \in [Activations -> Seq(References)]
    BY <1>c, <1>g, <1>j
  <1>n. iteratorFrames' \in [CallIDs -> Seq(Iterators)]
    BY <1>a, <1>c, <1>i
  <1>o. ref.call_id = c /\ ref.iterator_id = len + 1
    BY DEF ref
  <1>p. Stored(a, c, len, ref)
    BY <1>0, <1>a, <1>b, <1>d, <1>e, <1>h, <1>i, <1>j, <1>k, <1>l, <1>m, <1>n, <1>o
    DEF Stored, c, len
  <1> QED
    BY <1>0, <1>d, <1>f, <1>p

LEMMA StoreStep ==
  ASSUME IInv, NEW g \in Goroutines, storeIterator(g)
  PROVE  IInv'
  <1>0. PICK a \in Activations, c \in CallIDs, len \in Nat, ref \in References :
          Stored(a, c, len, ref)
    BY StoreFacts
  <1>a. /\ a[2] = depth[a[1]] /\ c = callID[a] /\ len = Len(iteratorFrames[c])
        /\ pc[a] = "store" /\ len < FrameLenLimit
    BY <1>0 DEF Stored
  <1>b. /\ latestCallID' = latestCallID /\ depth' = depth /\ callID' = callID
        /\ gas' = gas /\ closing' = closing
        /\ opened' = opened /\ status' = status /\ opener' = opener /\ pos' = pos
    BY <1>0 DEF Stored
  <1>c. pc \in [Activations -> Locations]
    BY DEF IInv, TypeOK
  <1>e. /\ held[a] \in Iterators /\ status[held[a]] = "open" /\ opener[held[a]] = c
        /\ \A k \in 1 .. len : iteratorFrames[c][k] # held[a]
    BY <1>0 DEF Stored
  <1>h. Len(storage[a]) = len
    BY <1>0 DEF Stored
  <1>i. /\ iteratorFrames' \in [CallIDs -> Seq(Iterators)]
        /\ Len(iteratorFrames'[c]) = len + 1
        /\ \A k \in 1 .. len : iteratorFrames'[c][k] = iteratorFrames[c][k]
        /\ iteratorFrames'[c][len + 1] = held[a]
        /\ \A e \in CallIDs : e # c => iteratorFrames'[e] = iteratorFrames[e]
    BY <1>0 DEF Stored
  <1>j. /\ storage' \in [Activations -> Seq(References)]
        /\ Len(storage'[a]) = len + 1
        /\ \A k \in 1 .. len : storage'[a][k] = storage[a][k]
        /\ storage'[a][len + 1] = ref
        /\ \A b \in Activations : b # a => storage'[b] = storage[b]
    BY <1>0 DEF Stored
  <1>k. /\ \A b \in Activations : b # a => pc'[b] = pc[b] /\ held'[b] = held[b]
        /\ pc'[a] = "run" /\ held'[a] = NoIterator
        /\ pc' \in [Activations -> Locations] /\ held' \in [Activations -> 0 .. MaxIterators]
    BY <1>0 DEF Stored
  <1>l. \A b \in Activations : b # a /\ pc[b] # "idle" => callID[b] # c
    BY <1>a DEF IInv, IdInv
  <1>1. TypeOK'
    <2>4. \A e \in CallIDs : Len(iteratorFrames'[e]) <= FrameLenLimit
      <3>1. \A e \in CallIDs : Len(iteratorFrames[e]) <= FrameLenLimit
        BY DEF IInv, TypeOK
      <3>2. len + 1 <= FrameLenLimit
        BY <1>a, ConstantsAssumption, SMT
      <3> QED
        BY <3>1, <3>2, <1>i
    <2> QED
      BY <2>4, <1>b, <1>i, <1>j, <1>k DEF IInv, TypeOK
  <1>2. StackInv'
    BY <1>a, <1>b, <1>c, <1>k DEF IInv, StackInv, Active
  <1>3. IdInv'
    BY <1>a, <1>b, <1>c, <1>k, SMT DEF IInv, IdInv
  <1>4. FrameInv'
    <2> SUFFICES ASSUME NEW e \in CallIDs
                 PROVE  /\ iteratorFrames'[e] # <<>> =>
                             \E b \in Activations :
                               callID'[b] = e /\ pc'[b] \in Inside \cup {"ending"}
                        /\ \A k \in 1 .. Len(iteratorFrames'[e]) :
                             /\ status'[iteratorFrames'[e][k]] = "open"
                             /\ opener'[iteratorFrames'[e][k]] = e
                             /\ \A l \in 1 .. Len(iteratorFrames'[e]) :
                                  iteratorFrames'[e][l] = iteratorFrames'[e][k] => l = k
      BY DEF FrameInv
    <2>0. /\ iteratorFrames[e] # <<>> =>
               \E b \in Activations : callID[b] = e /\ pc[b] \in Inside \cup {"ending"}
          /\ \A k \in 1 .. Len(iteratorFrames[e]) :
               /\ status[iteratorFrames[e][k]] = "open"
               /\ opener[iteratorFrames[e][k]] = e
               /\ \A l \in 1 .. Len(iteratorFrames[e]) :
                    iteratorFrames[e][l] = iteratorFrames[e][k] => l = k
      BY DEF IInv, FrameInv
    <2>1. CASE e = c
      <3>1. callID'[a] = c /\ pc'[a] \in Inside
        BY <1>a, <1>b, <1>k DEF Inside
      <3> DEFINE f == iteratorFrames[e]
                 u == iteratorFrames'[e]
      <3>2. /\ Len(u) = len + 1 /\ u[len + 1] = held[a] /\ \A k \in 1 .. len : u[k] = f[k]
            /\ status'[held[a]] = "open" /\ opener'[held[a]] = e
            /\ \A k \in 1 .. len : f[k] # held[a]
        BY <2>1, <1>b, <1>e, <1>i
      <3>3. \A k \in 1 .. len : /\ status'[f[k]] = "open" /\ opener'[f[k]] = e
                                /\ \A l \in 1 .. len : f[l] = f[k] => l = k
        BY <2>0, <2>1, <1>a, <1>b, SMT
      <3>4. \A k \in 1 .. len + 1 : k \in 1 .. len \/ k = len + 1
        BY SMT
      <3> HIDE DEF f, u
      <3>5. \A k \in 1 .. Len(u) : /\ status'[u[k]] = "open" /\ opener'[u[k]] = e
                                   /\ \A l \in 1 .. Len(u) : u[l] = u[k] => l = k
        BY <3>2, <3>3, <3>4, SMT
      <3> QED
        BY <2>1, <3>1, <3>5 DEF u
    <2>2. CASE e # c
      <3>1. \A b \in Activations :
              pc[b] \in Inside \cup {"ending"} => pc'[b] \in Inside \cup {"ending"}
        BY <1>k DEF Inside
      <3> QED
        BY <2>0, <2>2, <3>1, <1>b, <1>i, SMT
    <2> QED
      BY <2>1, <2>2
  <1>5. StorageInv'
    <2> SUFFICES ASSUME NEW b \in Activations
                 PROVE  /\ pc'[b] \in Inside => Len(storage'[b]) = Len(iteratorFrames'[callID'[b]])
                        /\ pc'[b] \notin Inside => storage'[b] = <<>>
                        /\ \A n \in 1 .. Len(storage'[b]) :
                             /\ storage'[b][n].call_id = callID'[b]
                             /\ storage'[b][n].iterator_id = n
      BY DEF StorageInv
    <2>1. CASE b = a
      <3>1. pc'[a] \in Inside /\ callID'[a] = c
        BY <1>a, <1>b, <1>k DEF Inside
      <3>2. \A k \in 1 .. len + 1 : k \in 1 .. len \/ k = len + 1
        BY SMT
      <3>3. ref.call_id = c /\ ref.iterator_id = len + 1
        BY <1>0 DEF Stored
      <3>4. \A k \in 1 .. len : storage[a][k].call_id = c /\ storage[a][k].iterator_id = k
        BY <1>a, <1>h, SMT DEF IInv, StorageInv
      <3>5. \A k \in 1 .. len + 1 : storage'[a][k].call_id = c /\ storage'[a][k].iterator_id = k
        BY <3>2, <3>3, <3>4, <1>j
      <3> QED
        BY <2>1, <3>1, <3>5, <1>i, <1>j
    <2>2. CASE b # a
      <3>1. pc[b] \in Inside => callID[b] \in CallIDs /\ callID[b] # c
        BY <2>2, <1>l, OwnFrame DEF Inside
      <3>2. /\ pc'[b] = pc[b] /\ storage'[b] = storage[b] /\ callID'[b] = callID[b]
            /\ pc[b] \in Inside => iteratorFrames'[callID[b]] = iteratorFrames[callID[b]]
        BY <2>2, <3>1, <1>b, <1>i, <1>j, <1>k
      <3>3. StorageInv
        BY DEF IInv
      <3>4. /\ pc[b] \in Inside => Len(storage[b]) = Len(iteratorFrames[callID[b]])
            /\ pc[b] \notin Inside => storage[b] = <<>>
            /\ \A n \in 1 .. Len(storage[b]) :
                 storage[b][n].call_id = callID[b] /\ storage[b][n].iterator_id = n
        BY <3>3 DEF StorageInv
      <3> QED
        BY <3>2, <3>4
    <2> QED
      BY <2>1, <2>2
  <1>6. HeldInv'
    <2> SUFFICES ASSUME NEW b \in Activations
                 PROVE  /\ pc'[b] \in {"store", "next"} =>
                             /\ held'[b] \in Iterators
                             /\ status'[held'[b]] = "open"
                             /\ opener'[held'[b]] = callID'[b]
                        /\ pc'[b] = "store" =>
                             \A k \in 1 .. Len(iteratorFrames'[callID'[b]]) :
                               iteratorFrames'[callID'[b]][k] # held'[b]
                        /\ pc'[b] \notin {"store", "next"} => held'[b] = NoIterator
      BY DEF HeldInv
    <2>1. CASE b = a
      BY <2>1, <1>k
    <2>2. CASE b # a
      <3>1. pc[b] = "store" => callID[b] \in CallIDs /\ callID[b] # c
        BY <2>2, <1>l, OwnFrame
      <3>2. /\ pc'[b] = pc[b] /\ held'[b] = held[b] /\ callID'[b] = callID[b]
            /\ status' = status /\ opener' = opener
            /\ pc[b] = "store" => iteratorFrames'[callID[b]] = iteratorFrames[callID[b]]
        BY <2>2, <3>1, <1>b, <1>i, <1>k
      <3>3. HeldInv
        BY DEF IInv
      <3>4. /\ pc[b] \in {"store", "next"} =>
                 /\ held[b] \in Iterators
                 /\ status[held[b]] = "open"
                 /\ opener[held[b]] = callID[b]
            /\ pc[b] = "store" =>
                 \A k \in 1 .. Len(iteratorFrames[callID[b]]) :
                   iteratorFrames[callID[b]][k] # held[b]
            /\ pc[b] \notin {"store", "next"} => held[b] = NoIterator
        BY <3>3 DEF HeldInv
      <3> QED
        BY <3>2, <3>4
    <2> QED
      BY <2>1, <2>2
  <1>7. ClosingInv'
    BY <1>a, <1>b, <1>k, SMT DEF IInv, ClosingInv
  <1>8. OpenedInv'
    BY <1>b DEF IInv, OpenedInv
  <1> QED
    BY <1>1, <1>2, <1>3, <1>4, <1>5, <1>6, <1>7, <1>8 DEF IInv

LEMMA RemoveFrameStep ==
  ASSUME IInv, NEW g \in Goroutines, removeFrame(g)
  PROVE  IInv'
  <1>0. PICK a \in Activations : a = Top(g) /\ a[1] = g /\ a[2] = depth[g]
    BY TopFacts DEF IInv, removeFrame, At
  <1> DEFINE c == callID[a]
  <1>a. /\ pc[a] = "ending"
        /\ closing' = [closing EXCEPT ![a] = iteratorFrames[c]]
        /\ iteratorFrames' = [iteratorFrames EXCEPT ![c] = <<>>]
        /\ pc' = [pc EXCEPT ![a] = "closing"]
    BY <1>0 DEF removeFrame, At, framesWithout
  <1>b. /\ latestCallID' = latestCallID /\ depth' = depth /\ callID' = callID
        /\ storage' = storage /\ gas' = gas /\ held' = held
        /\ opened' = opened /\ status' = status /\ opener' = opener /\ pos' = pos
    BY DEF removeFrame, iterators
  <1>c. /\ pc \in [Activations -> Locations]
        /\ closing \in [Activations -> Seq(Iterators)]
        /\ iteratorFrames \in [CallIDs -> Seq(Iterators)]
    BY DEF IInv, TypeOK
  <1>d. c \in CallIDs
    BY <1>a, OwnFrame
  <1>e. \A b \in Activations : b # a /\ pc[b] # "idle" => callID[b] # c
    BY <1>a DEF IInv, IdInv
  <1>f. /\ pc'[a] = "closing" /\ closing'[a] = iteratorFrames[c]
        /\ \A b \in Activations : b # a => pc'[b] = pc[b] /\ closing'[b] = closing[b]
    BY <1>a, <1>c
  <1>g. /\ iteratorFrames'[c] = <<>> /\ Len(iteratorFrames'[c]) = 0
        /\ \A e \in CallIDs : e # c => iteratorFrames'[e] = iteratorFrames[e]
    BY <1>a, <1>c, <1>d
  <1>1. TypeOK'
    <2>1. pc' \in [Activations -> Locations]
      BY <1>a, <1>c DEF Locations
    <2>2. closing' \in [Activations -> Seq(Iterators)]
      BY <1>a, <1>c, <1>d
    <2>3. iteratorFrames' \in [CallIDs -> Seq(Iterators)]
      <3> DEFINE none == <<>>
      <3>1. none \in Seq(Iterators)
        BY SMT
      <3> HIDE DEF none
      <3>2. iteratorFrames' = [iteratorFrames EXCEPT ![c] = none]
        BY <1>a DEF none
      <3> QED
        BY <3>1, <3>2, <1>c
    <2>4. \A e \in CallIDs : Len(iteratorFrames'[e]) <= FrameLenLimit
      <3>1. \A e \in CallIDs : Len(iteratorFrames[e]) <= FrameLenLimit
        BY DEF IInv, TypeOK
      <3> QED
        BY <3>1, <1>g, ConstantsAssumption, SMT
    <2> QED
      BY <2>1, <2>2, <2>3, <2>4, <1>b DEF IInv, TypeOK
  <1> HIDE DEF c
  <1>2. StackInv'
    BY <1>0, <1>a, <1>b, <1>f, ZenonT(90) DEF IInv, StackInv, Active
  <1>3. IdInv'
    BY <1>a, <1>b, <1>f, ZenonT(90) DEF IInv, IdInv
  <1>4. FrameInv'
    <2>1. \A e \in CallIDs : e # c =>
            \A b \in Activations : callID[b] = e => b # a
      BY DEF c
    <2>2. \A k \in 1 .. Len(iteratorFrames'[c]) : FALSE
      BY <1>g, SMT
    <2> QED
      BY <2>1, <2>2, <1>b, <1>f, <1>g, SMT DEF IInv, FrameInv
  <1>5. StorageInv'
    <2>1. \A b \in Activations : b # a /\ pc[b] \in Inside =>
            callID[b] \in CallIDs /\ callID[b] # c
      BY <1>e, OwnFrame DEF Inside
    <2>2. pc[a] \notin Inside /\ pc'[a] \notin Inside
      BY <1>a, <1>f DEF Inside
    <2> QED
      BY <2>1, <2>2, <1>b, <1>f, <1>g, SMT DEF IInv, StorageInv
  <1>6. HeldInv'
    <2>1. \A b \in Activations : b # a /\ pc[b] = "store" =>
            callID[b] \in CallIDs /\ callID[b] # c
      BY <1>e, OwnFrame
    <2> QED
      BY <2>1, <1>a, <1>b, <1>f, <1>g, SMTT(30) DEF IInv, HeldInv
  <1>7. ClosingInv'
    <2>1. \A k \in 1 .. Len(iteratorFrames[c]) :
            /\ status[iteratorFrames[c][k]] = "open"
            /\ opener[iteratorFrames[c][k]] = c
            /\ \A l \in 1 .. Len(iteratorFrames[c]) :
                 iteratorFrames[c][l] = iteratorFrames[c][k] => l = k
      BY <1>d DEF IInv, FrameInv
    <2> QED
      BY <2>1, <1>b, <1>f, SMTT(30) DEF IInv, ClosingInv, c
  <1>8. OpenedInv'
    BY <1>b DEF IInv, OpenedInv
  <1> QED
    BY <1>1, <1>2, <1>3, <1>4, <1>5, <1>6, <1>7, <1>8 DEF IInv

\* A call in the loop of endCall has no frame, and what it still has to close is
\* neither stored nor held nor in the list of another call.
LEMMA ClosingIsPrivate ==
  ASSUME IInv, NEW a \in Activations, NEW k \in 1 .. Len(closing[a])
  PROVE  /\ pc[a] = "closing"
         /\ iteratorFrames[callID[a]] = <<>>
         /\ \A c \in CallIDs : \A l \in 1 .. Len(iteratorFrames[c]) :
              iteratorFrames[c][l] # closing[a][k]
         /\ \A b \in Activations : pc[b] \in {"store", "next"} => held[b] # closing[a][k]
         /\ \A b \in Activations : \A l \in 1 .. Len(closing[b]) :
              closing[b][l] = closing[a][k] => b = a
  <1>1. \A b \in Activations : \A l \in 1 .. Len(closing[b]) :
          pc[b] = "closing" /\ opener[closing[b][l]] = callID[b]
    <2> SUFFICES ASSUME NEW b \in Activations, NEW l \in 1 .. Len(closing[b])
                 PROVE  pc[b] = "closing" /\ opener[closing[b][l]] = callID[b]
      OBVIOUS
    <2>1. closing[b] # <<>>
      BY SMTT(30)
    <2> QED
      BY <2>1 DEF IInv, ClosingInv
  <1>2. pc[a] = "closing" /\ opener[closing[a][k]] = callID[a]
    BY <1>1
  <1>3. \A b \in Activations : pc[b] # "idle" /\ callID[b] = callID[a] => b = a
    BY <1>2 DEF IInv, IdInv
  <1>4. callID[a] \in CallIDs
    BY <1>2, OwnFrame
  <1>5. iteratorFrames[callID[a]] = <<>>
    <2> SUFFICES ASSUME iteratorFrames[callID[a]] # <<>> PROVE FALSE
      OBVIOUS
    <2>1. PICK b \in Activations : callID[b] = callID[a] /\ pc[b] \in Inside \cup {"ending"}
      BY <1>4 DEF IInv, FrameInv
    <2> QED
      BY <2>1, <1>2, <1>3 DEF Inside
  <1>6. \A c \in CallIDs : \A l \in 1 .. Len(iteratorFrames[c]) :
          iteratorFrames[c][l] # closing[a][k]
    <2>1. \A l \in 1 .. Len(iteratorFrames[callID[a]]) : FALSE
      BY <1>5, SMT
    <2> QED
      BY <2>1, <1>2, SMT DEF IInv, FrameInv
  <1>7. \A b \in Activations : pc[b] \in {"store", "next"} => held[b] # closing[a][k]
    BY <1>2, <1>3, SMT DEF IInv, HeldInv
  <1>8. \A b \in Activations : \A l \in 1 .. Len(closing[b]) :
          closing[b][l] = closing[a][k] => b = a
    BY <1>1, <1>2, <1>3
  <1> QED
    BY <1>2, <1>5, <1>6, <1>7, <1>8

LEMMA CloseIteratorStep ==
  ASSUME IInv, NEW g \in Goroutines, closeIterator(g)
  PROVE  IInv'
  <1>0. PICK a \in Activations : a = Top(g) /\ a[1] = g /\ a[2] = depth[g]
    BY TopFacts DEF IInv, closeIterator, At
  <1> DEFINE j == closing[a][1]
  <1>a. /\ pc[a] = "closing" /\ closing[a] # <<>>
        /\ status' = [status EXCEPT ![Head(closing[a])] = "closed"]
        /\ closing' = [closing EXCEPT ![a] = Tail(@)]
    BY <1>0 DEF closeIterator, At, remaining
  <1>b. /\ latestCallID' = latestCallID /\ iteratorFrames' = iteratorFrames
        /\ depth' = depth /\ pc' = pc /\ callID' = callID /\ storage' = storage
        /\ gas' = gas /\ held' = held
        /\ opened' = opened /\ opener' = opener /\ pos' = pos
    BY DEF closeIterator, globals
  <1>c. /\ closing \in [Activations -> Seq(Iterators)]
        /\ status \in [Iterators -> {"unused", "open", "closed"}]
    BY DEF IInv, TypeOK
  <1>d. /\ 1 \in 1 .. Len(closing[a]) /\ Len(closing[a]) \in Nat
        /\ j \in Iterators /\ Head(closing[a]) = j
    BY <1>a, <1>c, SMT
  <1>e. /\ closing'[a] = Tail(closing[a])
        /\ \A b \in Activations : b # a => closing'[b] = closing[b]
    BY <1>a, <1>c
  <1>f. /\ Tail(closing[a]) \in Seq(Iterators)
        /\ Len(Tail(closing[a])) = Len(closing[a]) - 1
        /\ \A k \in 1 .. Len(closing[a]) - 1 : Tail(closing[a])[k] = closing[a][k + 1]
    <2> DEFINE t == closing[a]
    <2>1. t \in Seq(Iterators) /\ t # <<>>
      BY <1>a, <1>c
    <2> HIDE DEF t
    <2>2. /\ Tail(t) \in Seq(Iterators)
          /\ Len(Tail(t)) = Len(t) - 1
          /\ \A k \in 1 .. Len(t) - 1 : Tail(t)[k] = t[k + 1]
      BY <2>1, SMT
    <2> QED
      BY <2>2 DEF t
  <1>g. \A i \in Iterators : i # j => status'[i] = status[i]
    BY <1>a, <1>c, <1>d
  <1>h. /\ \A c \in CallIDs : \A l \in 1 .. Len(iteratorFrames[c]) : iteratorFrames[c][l] # j
        /\ \A b \in Activations : pc[b] \in {"store", "next"} => held[b] # j
        /\ \A b \in Activations : \A l \in 1 .. Len(closing[b]) : closing[b][l] = j => b = a
    BY <1>d, ClosingIsPrivate, SMT
  <1>i. status[j] = "open"
    BY <1>d DEF IInv, ClosingInv
  <1>1. TypeOK'
    <2>1. /\ closing' \in [Activations -> Seq(Iterators)]
          /\ status' \in [Iterators -> {"unused", "open", "closed"}]
      BY <1>a, <1>c, <1>d, <1>f
    <2> QED
      BY <2>1, <1>b DEF IInv, TypeOK
  <1> HIDE DEF j
  <1>2. StackInv'
    BY <1>b DEF IInv, StackInv, Active
  <1>3. IdInv'
    BY <1>b DEF IInv, IdInv
  <1>4. FrameInv'
    <2>1. \A c \in CallIDs : \A k \in 1 .. Len(iteratorFrames[c]) :
            iteratorFrames[c][k] \in Iterators
      BY SMT DEF IInv, TypeOK
    <2>2. \A c \in CallIDs : \A k \in 1 .. Len(iteratorFrames[c]) :
            status'[iteratorFrames[c][k]] = status[iteratorFrames[c][k]]
      BY <2>1, <1>g, <1>h
    <2> QED
      BY <2>2, <1>b, SMT DEF IInv, FrameInv
  <1>5. StorageInv'
    BY <1>b DEF IInv, StorageInv
  <1>6. HeldInv'
    BY <1>b, <1>g, <1>h, SMT DEF IInv, HeldInv
  <1>7. ClosingInv'
    <2> SUFFICES ASSUME NEW b \in Activations
                 PROVE  /\ pc'[b] # "closing" => closing'[b] = <<>>
                        /\ \A k \in 1 .. Len(closing'[b]) :
                             /\ status'[closing'[b][k]] = "open"
                             /\ opener'[closing'[b][k]] = callID'[b]
                             /\ \A l \in 1 .. Len(closing'[b]) :
                                  closing'[b][l] = closing'[b][k] => l = k
      BY DEF ClosingInv
    <2>1. CASE b = a
      <3>1. \A k \in 1 .. Len(closing[a]) :
              /\ closing[a][k] \in Iterators
              /\ status[closing[a][k]] = "open"
              /\ opener[closing[a][k]] = callID[a]
              /\ \A l \in 1 .. Len(closing[a]) : closing[a][l] = closing[a][k] => l = k
        BY <1>c, SMTT(30) DEF IInv, ClosingInv
      <3>2. \A k \in 1 .. Len(closing[a]) - 1 : k + 1 \in 1 .. Len(closing[a]) /\ k + 1 # 1
        BY <1>d, SMT
      <3>3. \A k \in 1 .. Len(closing[a]) - 1 : closing[a][k + 1] # j
        BY <1>d, <3>1, <3>2 DEF j
      <3>4. \A k \in 1 .. Len(closing[a]) - 1 :
              /\ status'[closing[a][k + 1]] = "open"
              /\ opener[closing[a][k + 1]] = callID[a]
              /\ \A l \in 1 .. Len(closing[a]) - 1 :
                   closing[a][l + 1] = closing[a][k + 1] => l = k
        BY <3>1, <3>2, <3>3, <1>d, <1>g, SMTT(30)
      <3>5. Len(closing'[a]) = Len(closing[a]) - 1
        BY <1>e, <1>f
      <3>6. \A k \in 1 .. Len(closing[a]) - 1 : closing'[a][k] = closing[a][k + 1]
        BY <1>e, <1>f
      <3>7. \A k \in 1 .. Len(closing'[a]) :
              /\ status'[closing'[a][k]] = "open"
              /\ opener'[closing'[a][k]] = callID'[a]
              /\ \A l \in 1 .. Len(closing'[a]) : closing'[a][l] = closing'[a][k] => l = k
        <4> DEFINE S == 1 .. Len(closing[a]) - 1
                   u == closing'[a]
        <4>1. 1 .. Len(u) = S
          BY <3>5
        <4>2. \A k \in S : /\ u[k] = closing[a][k + 1]
                          /\ status'[closing[a][k + 1]] = "open"
                          /\ opener'[closing[a][k + 1]] = callID'[a]
                          /\ \A l \in S : closing[a][l + 1] = closing[a][k + 1] => l = k
          BY <3>4, <3>6, <1>b
        <4> HIDE DEF S, u
        <4>3. \A k \in S : /\ status'[u[k]] = "open"
                          /\ opener'[u[k]] = callID'[a]
                          /\ \A l \in S : u[l] = u[k] => l = k
          BY <4>2, SMT
        <4> QED
          BY <4>1, <4>3 DEF u
      <3> QED
        <4>1. pc'[a] = "closing"
          BY <1>a, <1>b
        <4> QED
          BY <2>1, <3>7, <4>1
    <2>2. CASE b # a
      <3>1. \A k \in 1 .. Len(closing[b]) : closing[b][k] \in Iterators /\ closing[b][k] # j
        BY <2>2, <1>c, <1>h, SMT
      <3>2. ClosingInv
        BY DEF IInv
      <3>3. closing'[b] = closing[b]
        BY <2>2, <1>e
      <3>4. \A k \in 1 .. Len(closing[b]) : status'[closing[b][k]] = status[closing[b][k]]
        BY <3>1, <1>g
      <3> QED
        <4>1. /\ pc[b] # "closing" => closing[b] = <<>>
              /\ \A k \in 1 .. Len(closing[b]) :
                   /\ status[closing[b][k]] = "open"
                   /\ opener[closing[b][k]] = callID[b]
                   /\ \A l \in 1 .. Len(closing[b]) : closing[b][l] = closing[b][k] => l = k
          BY <3>2 DEF ClosingInv
        <4>2. pc' = pc /\ opener' = opener /\ callID' = callID
          BY <1>b
        <4>3. /\ pc[b] # "closing" => closing[b] = <<>>
              /\ \A k \in 1 .. Len(closing[b]) :
                   /\ status'[closing[b][k]] = "open"
                   /\ opener[closing[b][k]] = callID[b]
                   /\ \A l \in 1 .. Len(closing[b]) : closing[b][l] = closing[b][k] => l = k
          BY <4>1, <3>4
        <4> QED
          BY <4>2, <4>3, <3>3
    <2> QED
      BY <2>1, <2>2
  <1>8. OpenedInv'
    BY <1>b, <1>g, <1>i DEF IInv, OpenedInv
  <1> QED
    BY <1>1, <1>2, <1>3, <1>4, <1>5, <1>6, <1>7, <1>8 DEF IInv

LEMMA EndCallStep ==
  ASSUME IInv, NEW g \in Goroutines, endCall(g)
  PROVE  /\ IInv'
         /\ pc'[Top(g)] = "idle"
         /\ \A b \in Activations : b # Top(g) =>
              /\ callID'[b] = callID[b]
              /\ pc'[b] = pc[b] \/ (pc[b] = "query" /\ pc'[b] = "run")
  <1>0. PICK a \in Activations :
          a = Top(g) /\ a[1] = g /\ a[2] = depth[g] /\ depth[g] \in 1 .. MaxDepth
    BY TopFacts DEF IInv, endCall, At
  <1>a. /\ pc[a] = "closing" /\ closing[a] = <<>>
        /\ depth' = [depth EXCEPT ![g] = @ - 1]
        /\ callID' = [callID EXCEPT ![a] = NoCall]
        /\ gas' = [gas EXCEPT ![a] = 0]
        /\ pc' = resumed(g)
    BY <1>0 DEF endCall, At
  <1>b. /\ latestCallID' = latestCallID /\ iteratorFrames' = iteratorFrames
        /\ storage' = storage /\ held' = held /\ closing' = closing
        /\ opened' = opened /\ status' = status /\ opener' = opener /\ pos' = pos
    BY DEF endCall, globals, iterators
  <1>c. /\ pc \in [Activations -> Locations]
        /\ depth \in [Goroutines -> 0 .. MaxDepth]
        /\ callID \in [Activations -> 0 .. MaxCallID]
        /\ gas \in [Activations -> 0 .. GasLimit]
    BY DEF IInv, TypeOK
  \* The location of every activation after the step.
  <1>d. /\ pc'[a] = "idle"
        /\ \A b \in Activations : b[1] = g /\ b[2] = depth[g] - 1 => pc'[b] = "run"
        /\ \A b \in Activations : b # a /\ ~(b[1] = g /\ b[2] = depth[g] - 1) => pc'[b] = pc[b]
        /\ pc' \in [Activations -> Locations]
    <2>1. CASE depth[g] > 1
      <3>1. PICK p \in Activations : p = Parent(g) /\ p[1] = g /\ p[2] = depth[g] - 1
        <4>1. depth[g] - 1 \in 1 .. MaxDepth
          BY <2>1, <1>0, ConstantsAssumption, SMT
        <4>2. Parent(g) \in Activations /\ Parent(g)[1] = g /\ Parent(g)[2] = depth[g] - 1
          BY <4>1 DEF Parent, Activations
        <4> QED
          BY <4>2
      <3>2. p # a
        BY <3>1, <1>0, SMT
      <3>3. pc' = [pc EXCEPT ![a] = "idle", ![p] = "run"]
        BY <2>1, <3>1, <1>0, <1>a DEF resumed
      <3>4. \A b \in Activations : b[1] = g /\ b[2] = depth[g] - 1 <=> b = p
        BY <3>1, ActivationFacts
      <3> QED
        BY <3>2, <3>3, <3>4, <1>c DEF Locations
    <2>2. CASE ~(depth[g] > 1)
      <3>1. pc' = [pc EXCEPT ![a] = "idle"]
        BY <2>2, <1>0, <1>a DEF resumed
      <3>2. \A b \in Activations : b[2] # depth[g] - 1
        BY <2>2, <1>0, ActivationFacts, ConstantsAssumption, SMT
      <3> QED
        BY <3>1, <3>2, <1>c DEF Locations
    <2> QED
      BY <2>1, <2>2
  \* The parent was waiting in cQueryExternal.
  <1>e. \A b \in Activations : b[1] = g /\ b[2] = depth[g] - 1 => pc[b] = "query" /\ b # a
    BY <1>0, <1>c, ActivationFacts, SMT DEF IInv, StackInv
  <1>f. \A b \in Activations : b # a =>
          pc'[b] = pc[b] \/ (pc[b] = "query" /\ pc'[b] = "run")
    BY <1>d, <1>e
  <1>g. callID'[a] = NoCall /\ \A b \in Activations : b # a => callID'[b] = callID[b]
    BY <1>a, <1>c
  <1>1. TypeOK'
    <2>1. /\ depth' \in [Goroutines -> 0 .. MaxDepth]
          /\ callID' \in [Activations -> 0 .. MaxCallID]
          /\ gas' \in [Activations -> 0 .. GasLimit]
      BY <1>0, <1>a, <1>c, ConstantsAssumption, SMTT(90) DEF NoCall
    <2> QED
      BY <2>1, <1>b, <1>d DEF IInv, TypeOK
  <1>2. StackInv'
    <2>1. depth'[g] = depth[g] - 1 /\ \A h \in Goroutines : h # g => depth'[h] = depth[h]
      BY <1>a, <1>c
    <2> SUFFICES ASSUME NEW b \in Activations
                 PROVE  /\ b[2] <= depth'[b[1]] <=> pc'[b] # "idle"
                        /\ b[2] < depth'[b[1]] => pc'[b] = "query"
                        /\ b[2] = depth'[b[1]] => pc'[b] # "query"
      BY DEF StackInv, Active
    <2>2. /\ b[2] <= depth[b[1]] <=> pc[b] # "idle"
          /\ b[2] < depth[b[1]] => pc[b] = "query"
          /\ b[2] = depth[b[1]] => pc[b] # "query"
          /\ b[1] \in Goroutines /\ b[2] \in 1 .. MaxDepth
      BY ActivationFacts DEF IInv, StackInv, Active
    <2>3. CASE b[1] # g
      BY <2>1, <2>2, <2>3, <1>0, <1>d
    <2>4. CASE b[1] = g
      <3>1. b[2] = depth[g] => b = a
        BY <2>4, <1>0, ActivationFacts
      <3> QED
        BY <2>1, <2>2, <2>4, <3>1, <1>0, <1>d, ConstantsAssumption, SMTT(30)
    <2> QED
      BY <2>3, <2>4
  <1>3. IdInv'
    BY <1>b, <1>d, <1>f, <1>g, SMT DEF IInv, IdInv
  <1>4. FrameInv'
    <2>1. \A b \in Activations : pc[b] \in Inside \cup {"ending"} =>
            callID'[b] = callID[b] /\ pc'[b] \in Inside \cup {"ending"}
      BY <1>a, <1>f, <1>g DEF Inside
    <2> QED
      BY <2>1, <1>b, SMT DEF IInv, FrameInv
  <1>5. StorageInv'
    <2>1. \A b \in Activations : b # a => (pc'[b] \in Inside <=> pc[b] \in Inside)
      BY <1>f DEF Inside
    <2>2. storage[a] = <<>> /\ Len(storage[a]) = 0 /\ pc'[a] \notin Inside
      BY <1>a, <1>d, SMTT(30) DEF IInv, StorageInv, Inside
    <2> QED
      BY <2>1, <2>2, <1>b, <1>g, SMTT(30) DEF IInv, StorageInv
  <1>6. HeldInv'
    <2>1. pc'[a] \notin {"store", "next"} /\ held[a] = NoIterator
      BY <1>a, <1>d DEF IInv, HeldInv
    <2>2. \A b \in Activations : b # a =>
            /\ pc'[b] = "store" <=> pc[b] = "store"
            /\ pc'[b] = "next" <=> pc[b] = "next"
      BY <1>f
    <2>3. \A b \in Activations : b # a =>
            /\ pc'[b] \in {"store", "next"} =>
                 /\ held[b] \in Iterators /\ status[held[b]] = "open"
                 /\ opener[held[b]] = callID'[b]
            /\ pc'[b] = "store" =>
                 \A k \in 1 .. Len(iteratorFrames[callID'[b]]) :
                   iteratorFrames[callID'[b]][k] # held[b]
            /\ pc'[b] \notin {"store", "next"} => held[b] = NoIterator
      BY <2>2, <1>g, SMT DEF IInv, HeldInv
    <2> QED
      BY <2>1, <2>3, <1>b, <1>d, ZenonT(30) DEF HeldInv
  <1>7. ClosingInv'
    <2>1. \A k \in 1 .. Len(closing[a]) : FALSE
      BY <1>a, SMT
    <2> QED
      BY <2>1, <1>a, <1>b, <1>f, <1>g, SMTT(30) DEF IInv, ClosingInv
  <1>8. OpenedInv'
    BY <1>b DEF IInv, OpenedInv
  <1>9. IInv'
    BY <1>1, <1>2, <1>3, <1>4, <1>5, <1>6, <1>7, <1>8 DEF IInv
  <1> QED
    BY <1>0, <1>9, <1>d, <1>f, <1>g

\* A new activation a on top of g's stack: the caller below it, if there is one,
\* moves from "run" to "query", nothing else moves.
Pushed(g, a) ==
  /\ a[1] = g /\ a[2] = depth[g] + 1
  /\ startCall(g, a)
  /\ pc' \in [Activations -> Locations]
  /\ gas' \in [Activations -> 0 .. GasLimit]
  /\ gas'[a] = GasLimit /\ \A b \in Activations : b # a => gas'[b] <= gas[b]
  /\ pc'[a] = "run"
  /\ \A b \in Activations : b[1] = g /\ b[2] = depth[g] => pc[b] = "run" /\ pc'[b] = "query"
  /\ \A b \in Activations : b # a /\ ~(b[1] = g /\ b[2] = depth[g]) => pc'[b] = pc[b]

LEMMA PushStep ==
  ASSUME IInv, NEW g \in Goroutines, NEW a \in Activations, Pushed(g, a)
  PROVE  IInv'
  <1> DEFINE new == latestCallID + 1
  <1>a. /\ latestCallID < MaxCallID
        /\ latestCallID' = new
        /\ callID' = [callID EXCEPT ![a] = new]
        /\ depth' = [depth EXCEPT ![g] = @ + 1]
        /\ iteratorFrames' = iteratorFrames /\ storage' = storage
        /\ held' = held /\ closing' = closing
        /\ opened' = opened /\ status' = status /\ opener' = opener /\ pos' = pos
    BY DEF Pushed, startCall, newCallID, iterators
  <1>b. /\ a[1] = g /\ a[2] = depth[g] + 1
        /\ pc' \in [Activations -> Locations]
        /\ pc'[a] = "run"
        /\ \A b \in Activations : b[1] = g /\ b[2] = depth[g] => pc[b] = "run" /\ pc'[b] = "query"
        /\ \A b \in Activations : b # a /\ ~(b[1] = g /\ b[2] = depth[g]) => pc'[b] = pc[b]
    BY DEF Pushed
  <1>c. /\ depth \in [Goroutines -> 0 .. MaxDepth]
        /\ callID \in [Activations -> 0 .. MaxCallID]
        /\ latestCallID \in 0 .. MaxCallID
    BY DEF IInv, TypeOK
  <1>d. new \in CallIDs /\ new \in 0 .. MaxCallID
    BY <1>a, <1>c, ConstantsAssumption, SMT DEF CallIDs
  <1>e. pc[a] = "idle"
    <2>1. ~Active(a)
      BY <1>b, <1>c, ConstantsAssumption, SMTT(30) DEF Active
    <2> QED
      BY <2>1 DEF IInv, StackInv
  <1>f. \A b \in Activations : b # a =>
          pc'[b] = pc[b] \/ (pc[b] = "run" /\ pc'[b] = "query")
    BY <1>b
  <1>g. callID'[a] = new /\ \A b \in Activations : b # a => callID'[b] = callID[b]
    BY <1>a, <1>c
  <1>h. \A b \in Activations : pc[b] # "idle" => callID[b] \in 1 .. latestCallID /\ callID[b] # new
    BY <1>c, SMT DEF IInv, IdInv
  \* The map has no entry under the new ID.
  <1>i. iteratorFrames[new] = <<>>
    <2> SUFFICES ASSUME iteratorFrames[new] # <<>> PROVE FALSE
      OBVIOUS
    <2>1. PICK b \in Activations : callID[b] = new /\ pc[b] \in Inside \cup {"ending"}
      BY <1>d DEF IInv, FrameInv
    <2> QED
      BY <2>1, <1>h DEF Inside
  <1>1. TypeOK'
    <2>1. depth' \in [Goroutines -> 0 .. MaxDepth]
      <3>1. depth[g] + 1 \in 0 .. MaxDepth
        BY <1>b, ActivationFacts, ConstantsAssumption, SMTT(30)
      <3> QED
        BY <3>1, <1>a, <1>c
    <2>2. callID' \in [Activations -> 0 .. MaxCallID] /\ latestCallID' \in 0 .. MaxCallID
      BY <1>a, <1>c, <1>d
    <2>3. pc' \in [Activations -> Locations] /\ gas' \in [Activations -> 0 .. GasLimit]
      BY DEF Pushed
    <2> QED
      BY <2>1, <2>2, <2>3, <1>a DEF IInv, TypeOK
  <1>2. StackInv'
    <2>1. depth'[g] = depth[g] + 1 /\ \A h \in Goroutines : h # g => depth'[h] = depth[h]
      BY <1>a, <1>c
    <2> SUFFICES ASSUME NEW b \in Activations
                 PROVE  /\ b[2] <= depth'[b[1]] <=> pc'[b] # "idle"
                        /\ b[2] < depth'[b[1]] => pc'[b] = "query"
                        /\ b[2] = depth'[b[1]] => pc'[b] # "query"
      BY DEF StackInv, Active
    <2>2. /\ b[2] <= depth[b[1]] <=> pc[b] # "idle"
          /\ b[2] < depth[b[1]] => pc[b] = "query"
          /\ b[2] = depth[b[1]] => pc[b] # "query"
          /\ b[1] \in Goroutines /\ b[2] \in 1 .. MaxDepth
      BY ActivationFacts DEF IInv, StackInv, Active
    <2>3. CASE b[1] # g
      BY <2>1, <2>2, <2>3, <1>b
    <2>4. CASE b[1] = g
      <3>1. b[2] = depth[g] + 1 <=> b = a
        BY <2>4, <1>b, ActivationFacts, SMT
      <3> QED
        BY <2>1, <2>2, <2>4, <3>1, <1>b, <1>c, ConstantsAssumption, SMTT(30)
    <2> QED
      BY <2>3, <2>4
  <1>3. IdInv'
    <2>1. \A b \in Activations : b # a /\ pc'[b] # "idle" =>
            callID'[b] \in 1 .. new /\ callID'[b] # new
      BY <1>c, <1>f, <1>g, <1>h, SMTT(30)
    <2>2. \A b, e \in Activations :
            b # a /\ e # a /\ pc'[b] # "idle" /\ pc'[e] # "idle" /\ callID'[b] = callID'[e] => e = b
      BY <1>f, <1>g, SMT DEF IInv, IdInv
    <2>3. new \in 1 .. new
      BY <1>c, SMT
    <2> QED
      BY <2>1, <2>2, <2>3, <1>a, <1>g, SMT DEF IdInv
  <1>4. FrameInv'
    <2>1. \A b \in Activations : pc[b] \in Inside \cup {"ending"} =>
            callID'[b] = callID[b] /\ pc'[b] \in Inside \cup {"ending"}
      BY <1>e, <1>f, <1>g DEF Inside
    <2> QED
      BY <2>1, <1>a, SMT DEF IInv, FrameInv
  <1>5. StorageInv'
    <2>1. \A b \in Activations : b # a => (pc'[b] \in Inside <=> pc[b] \in Inside)
      BY <1>f DEF Inside
    <2>2. /\ storage[a] = <<>> /\ Len(storage[a]) = 0 /\ Len(iteratorFrames[new]) = 0
          /\ pc'[a] \in Inside
      BY <1>b, <1>e, <1>i, SMTT(30) DEF IInv, StorageInv, Inside
    <2> HIDE DEF new
    <2> QED
      BY <2>1, <2>2, <1>a, <1>g, SMTT(30) DEF IInv, StorageInv
  <1>6. HeldInv'
    <2>1. pc'[a] \notin {"store", "next"} /\ held[a] = NoIterator
      BY <1>b, <1>e DEF IInv, HeldInv
    <2>2. \A b \in Activations : b # a =>
            /\ pc'[b] = "store" <=> pc[b] = "store"
            /\ pc'[b] = "next" <=> pc[b] = "next"
      BY <1>f
    <2>3. \A b \in Activations : b # a =>
            /\ pc'[b] \in {"store", "next"} =>
                 /\ held[b] \in Iterators /\ status[held[b]] = "open"
                 /\ opener[held[b]] = callID'[b]
            /\ pc'[b] = "store" =>
                 \A k \in 1 .. Len(iteratorFrames[callID'[b]]) :
                   iteratorFrames[callID'[b]][k] # held[b]
            /\ pc'[b] \notin {"store", "next"} => held[b] = NoIterator
      <3>1. HeldInv
        BY DEF IInv
      <3> SUFFICES ASSUME NEW b \in Activations, b # a
                   PROVE  /\ pc'[b] \in {"store", "next"} =>
                               /\ held[b] \in Iterators /\ status[held[b]] = "open"
                               /\ opener[held[b]] = callID'[b]
                          /\ pc'[b] = "store" =>
                               \A k \in 1 .. Len(iteratorFrames[callID'[b]]) :
                                 iteratorFrames[callID'[b]][k] # held[b]
                          /\ pc'[b] \notin {"store", "next"} => held[b] = NoIterator
        OBVIOUS
      <3>2. callID'[b] = callID[b]
        BY <1>g
      <3>3. /\ pc'[b] \in {"store", "next"} <=> pc[b] \in {"store", "next"}
            /\ pc'[b] = "store" <=> pc[b] = "store"
        BY <2>2
      <3> QED
        <4>1. /\ pc[b] \in {"store", "next"} =>
                   /\ held[b] \in Iterators /\ status[held[b]] = "open"
                   /\ opener[held[b]] = callID[b]
              /\ pc[b] = "store" =>
                   \A k \in 1 .. Len(iteratorFrames[callID[b]]) :
                     iteratorFrames[callID[b]][k] # held[b]
              /\ pc[b] \notin {"store", "next"} => held[b] = NoIterator
          BY <3>1 DEF HeldInv
        <4> QED
          BY <3>2, <3>3, <4>1
    <2> QED
      <3>1. /\ held' = held /\ status' = status /\ opener' = opener
            /\ iteratorFrames' = iteratorFrames
        BY <1>a
      <3> QED
        BY <2>1, <2>3, <3>1, ZenonT(30) DEF HeldInv
  <1>7. ClosingInv'
    <2>0. ClosingInv
      BY DEF IInv
    <2>1. closing[a] = <<>>
      <3>1. pc[a] # "closing"
        BY <1>e
      <3> QED
        BY <2>0, <3>1 DEF ClosingInv
    <2>2. \A k \in 1 .. Len(closing[a]) : FALSE
      BY <2>1, SMTT(30)
    <2> HIDE DEF new
    <2> SUFFICES ASSUME NEW b \in Activations
                 PROVE  /\ pc'[b] # "closing" => closing'[b] = <<>>
                        /\ \A k \in 1 .. Len(closing'[b]) :
                             /\ status'[closing'[b][k]] = "open"
                             /\ opener'[closing'[b][k]] = callID'[b]
                             /\ \A l \in 1 .. Len(closing'[b]) :
                                  closing'[b][l] = closing'[b][k] => l = k
      BY DEF ClosingInv
    <2>3. closing' = closing /\ status' = status /\ opener' = opener
      BY <1>a
    <2>4. CASE b = a
      BY <2>1, <2>2, <2>3, <2>4
    <2>5. CASE b # a
      <3>1. callID'[b] = callID[b] /\ (pc'[b] = "closing" <=> pc[b] = "closing")
        BY <2>5, <1>f, <1>g
      <3> QED
        BY <2>0, <2>3, <3>1, ZenonT(30) DEF ClosingInv
    <2> QED
      BY <2>4, <2>5
  <1>8. OpenedInv'
    BY <1>a DEF IInv, OpenedInv
  <1> QED
    BY <1>1, <1>2, <1>3, <1>4, <1>5, <1>6, <1>7, <1>8 DEF IInv

LEMMA CallStep ==
  ASSUME IInv, NEW g \in Goroutines, Call(g)
  PROVE  IInv' /\ \E a \in Activations : Pushed(g, a)
  <1>1. PICK a \in Activations : a = <<g, 1>> /\ a[1] = g /\ a[2] = 1
    <2>1. 1 \in 1 .. MaxDepth
      BY ConstantsAssumption, SMT
    <2>2. <<g, 1>> \in Activations
      BY <2>1 DEF Activations
    <2> QED
      BY <2>2
  <1>2. /\ depth[g] = 0
        /\ startCall(g, a)
        /\ pc' = [pc EXCEPT ![a] = "run"]
        /\ gas' = [gas EXCEPT ![a] = GasLimit]
    BY <1>1 DEF Call
  <1>3. pc \in [Activations -> Locations] /\ gas \in [Activations -> 0 .. GasLimit]
    BY DEF IInv, TypeOK
  <1>4. \A b \in Activations : b[2] # 0
    BY ActivationFacts, ConstantsAssumption, SMT
  <1>5. gas' \in [Activations -> 0 .. GasLimit] /\ pc' \in [Activations -> Locations]
    BY <1>2, <1>3, ConstantsAssumption, SMT DEF Locations
  <1>6. pc'[a] = "run" /\ \A b \in Activations : b # a => pc'[b] = pc[b]
    BY <1>2, <1>3
  <1>8. gas'[a] = GasLimit /\ \A b \in Activations : b # a => gas'[b] <= gas[b]
    BY <1>2, <1>3, ConstantsAssumption, SMT
  <1>7. Pushed(g, a)
    BY <1>1, <1>2, <1>4, <1>5, <1>6, <1>8, SMT DEF Pushed
  <1> QED
    BY <1>7, PushStep

LEMMA QueryStep ==
  ASSUME IInv, NEW g \in Goroutines, cQueryExternal(g)
  PROVE  IInv' /\ \E a \in Activations : Pushed(g, a)
  <1>1. PICK t \in Activations :
          t = Top(g) /\ t[1] = g /\ t[2] = depth[g] /\ depth[g] \in 1 .. MaxDepth
    BY TopFacts DEF IInv, cQueryExternal, Operation, At
  <1>2. depth[g] < MaxDepth /\ depth[g] + 1 \in 1 .. MaxDepth
    BY <1>1, ConstantsAssumption, SMT DEF cQueryExternal
  <1>3. PICK a \in Activations : a = <<g, depth[g] + 1>> /\ a[1] = g /\ a[2] = depth[g] + 1
    <2>1. <<g, depth[g] + 1>> \in Activations
      BY <1>2 DEF Activations
    <2> QED
      BY <2>1
  <1>4. /\ startCall(g, a) /\ pc[t] = "run" /\ gas[t] > 0
        /\ pc' = [pc EXCEPT ![t] = "query", ![a] = "run"]
        /\ gas' = [gas EXCEPT ![t] = @ - 1, ![a] = GasLimit]
    BY <1>1, <1>3 DEF cQueryExternal, Operation, At
  <1>5. pc \in [Activations -> Locations] /\ gas \in [Activations -> 0 .. GasLimit]
    BY DEF IInv, TypeOK
  <1>6. \A b \in Activations : b[1] = g /\ b[2] = depth[g] <=> b = t
    BY <1>1, ActivationFacts
  <1>7. t # a
    BY <1>1, <1>3, SMT
  <1>8. /\ gas' \in [Activations -> 0 .. GasLimit]
        /\ gas'[a] = GasLimit /\ \A b \in Activations : b # a => gas'[b] <= gas[b]
    BY <1>4, <1>5, <1>7, ConstantsAssumption, SMT
  <1>9. Pushed(g, a)
    BY <1>3, <1>4, <1>5, <1>6, <1>7, <1>8 DEF Pushed, Locations
  <1> QED
    BY <1>9, PushStep

LEMMA Inductive == IInv /\ [Next]_vars => IInv'
  <1> SUFFICES ASSUME IInv, [Next]_vars PROVE IInv'
    OBVIOUS
  <1>1. ASSUME NEW g \in Goroutines, Call(g) \/ Step(g) PROVE IInv'
    <2>1. CASE Call(g)
      BY <2>1, CallStep
    <2>2. CASE cQueryExternal(g)
      BY <2>2, QueryStep
    <2>3. CASE cScan(g)
      BY <2>3, ScanStep
    <2>4. CASE storeIterator(g)
      BY <2>4, StoreStep
    <2>5. CASE scanRejected(g)
      BY <2>5, ScanRejectedStep
    <2>6. CASE \E n \in 0 .. MaxIterators - 1 : cNext(g, n)
      BY <2>6, NextStep
    <2>7. CASE advance(g)
      BY <2>7, AdvanceStep
    <2>8. CASE advancePanics(g)
      BY <2>8, AdvancePanicsStep
    <2>9. CASE operationFails(g)
      BY <2>9, OperationFailsStep
    <2>10. CASE Return(g)
      BY <2>10, ReturnStep
    <2>11. CASE removeFrame(g)
      BY <2>11, RemoveFrameStep
    <2>12. CASE closeIterator(g)
      BY <2>12, CloseIteratorStep
    <2>13. CASE endCall(g)
      BY <2>13, EndCallStep
    <2> QED
      BY <1>1, <2>1, <2>2, <2>3, <2>4, <2>5, <2>6, <2>7, <2>8, <2>9, <2>10, <2>11, <2>12, <2>13
      DEF Step
  <1>2. CASE UNCHANGED vars
    <2>1. /\ latestCallID' = latestCallID /\ iteratorFrames' = iteratorFrames
          /\ depth' = depth /\ pc' = pc /\ callID' = callID /\ storage' = storage
          /\ gas' = gas /\ held' = held /\ closing' = closing
          /\ opened' = opened /\ status' = status /\ opener' = opener /\ pos' = pos
      BY <1>2 DEF vars, globals, locals, iterators
    <2>2. TypeOK'
      BY <2>1 DEF IInv, TypeOK
    <2>3. StackInv' /\ IdInv'
      BY <2>1 DEF IInv, StackInv, IdInv, Active
    <2>4. FrameInv'
      <3>1. FrameInv
        BY DEF IInv
      <3>2. /\ iteratorFrames' = iteratorFrames /\ callID' = callID /\ pc' = pc
            /\ status' = status /\ opener' = opener
        BY <2>1
      <3> SUFFICES ASSUME NEW c \in CallIDs
                   PROVE  /\ iteratorFrames'[c] # <<>> =>
                               \E a \in Activations :
                                 callID'[a] = c /\ pc'[a] \in Inside \cup {"ending"}
                          /\ \A k \in 1 .. Len(iteratorFrames'[c]) :
                               /\ status'[iteratorFrames'[c][k]] = "open"
                               /\ opener'[iteratorFrames'[c][k]] = c
                               /\ \A l \in 1 .. Len(iteratorFrames'[c]) :
                                    iteratorFrames'[c][l] = iteratorFrames'[c][k] => l = k
        BY DEF FrameInv
      <3>3. /\ iteratorFrames[c] # <<>> =>
                 \E a \in Activations :
                   callID[a] = c /\ pc[a] \in Inside \cup {"ending"}
            /\ \A k \in 1 .. Len(iteratorFrames[c]) :
                 /\ status[iteratorFrames[c][k]] = "open"
                 /\ opener[iteratorFrames[c][k]] = c
                 /\ \A l \in 1 .. Len(iteratorFrames[c]) :
                      iteratorFrames[c][l] = iteratorFrames[c][k] => l = k
        BY <3>1 DEF FrameInv
      <3> QED
        BY <3>2, <3>3
    <2>5. StorageInv' /\ HeldInv'
      BY <2>1, SMT DEF IInv, StorageInv, HeldInv
    <2>6. ClosingInv'
      <3>1. ClosingInv
        BY DEF IInv
      <3>2. /\ closing' = closing /\ callID' = callID /\ pc' = pc
            /\ status' = status /\ opener' = opener
        BY <2>1
      <3> SUFFICES ASSUME NEW b \in Activations
                   PROVE  /\ pc'[b] # "closing" => closing'[b] = <<>>
                          /\ \A k \in 1 .. Len(closing'[b]) :
                               /\ status'[closing'[b][k]] = "open"
                               /\ opener'[closing'[b][k]] = callID'[b]
                               /\ \A l \in 1 .. Len(closing'[b]) :
                                    closing'[b][l] = closing'[b][k] => l = k
        BY DEF ClosingInv
      <3>3. /\ pc[b] # "closing" => closing[b] = <<>>
            /\ \A k \in 1 .. Len(closing[b]) :
                 /\ status[closing[b][k]] = "open"
                 /\ opener[closing[b][k]] = callID[b]
                 /\ \A l \in 1 .. Len(closing[b]) : closing[b][l] = closing[b][k] => l = k
        BY <3>1 DEF ClosingInv
      <3> QED
        BY <3>2, <3>3
    <2>7. OpenedInv'
      BY <2>1 DEF IInv, OpenedInv
    <2> QED
      BY <2>2, <2>3, <2>4, <2>5, <2>6, <2>7 DEF IInv
  <1> QED
    BY <1>1, <1>2 DEF Next

-----------------------------------------------------------------------------
\* The invariant behind all theorems below: it holds in every state of every
\* interleaving of goroutines and nested calls.
THEOREM Invariance == Spec => []IInv
  BY Initially, Inductive, PTL DEF Spec

\* Every variable keeps its type, and storeIterator's check keeps every frame
\* within frameLenLimit.
THEOREM TypeCorrect == Spec => []TypeOK
  <1>1. IInv => TypeOK
    BY DEF IInv
  <1> QED
    BY <1>1, Invariance, PTL

\* cNext and nextPart always find the iterator behind a reference GoStorage
\* holds: it is open, opened by the same call, and no other reference leads to it.
THEOREM HandlesAlwaysResolve == Spec => []HandlesResolve
  <1>1. ASSUME IInv PROVE HandlesResolve
    <2> SUFFICES ASSUME NEW a \in Activations, NEW m \in DOMAIN storage[a], NEW n \in DOMAIN storage[a]
                 PROVE  LET iter(k) == retrieveIterator(storage[a][k].call_id, storage[a][k].iterator_id)
                        IN  /\ iter(n) \in Iterators
                            /\ status[iter(n)] = "open"
                            /\ opener[iter(n)] = callID[a]
                            /\ iter(m) = iter(n) => m = n
      BY DEF HandlesResolve
    <2>1. m \in 1 .. Len(storage[a]) /\ n \in 1 .. Len(storage[a])
      <3>1. storage[a] \in Seq(References)
        BY <1>1 DEF IInv, TypeOK
      <3> QED
        BY <3>1, SMTT(30)
    <2> DEFINE f == iteratorFrames[callID[a]]
    <2>2. /\ callID[a] \in CallIDs /\ n \in 1 .. Len(f) /\ f[n] \in Iterators
          /\ retrieveIterator(storage[a][n].call_id, storage[a][n].iterator_id) = f[n]
      BY <1>1, <2>1, Resolves
    <2>3. /\ m \in 1 .. Len(f)
          /\ retrieveIterator(storage[a][m].call_id, storage[a][m].iterator_id) = f[m]
      BY <1>1, <2>1, Resolves
    <2>4. status[f[n]] = "open" /\ opener[f[n]] = callID[a] /\ (f[m] = f[n] => m = n)
      BY <1>1, <2>2, <2>3, SMTT(30) DEF IInv, FrameInv
    <2> QED
      BY <2>2, <2>3, <2>4
  <1> QED
    BY <1>1, Invariance, PTL

\* The iterator a callback works on outside the mutex stays open and its own,
\* although endCall of other calls closes iterators without the mutex.
THEOREM NeverUsedAfterClose == Spec => []NoUseAfterClose
  <1>1. IInv => NoUseAfterClose
    BY DEF IInv, HeldInv, NoUseAfterClose
  <1> QED
    BY <1>1, Invariance, PTL

\* endCall closes no iterator twice and none that a frame still holds.
THEOREM AlwaysClosedOnce == Spec => []ClosedOnce
  <1>1. ASSUME IInv PROVE ClosedOnce
    <2> SUFFICES ASSUME NEW a \in Activations, NEW k \in DOMAIN closing[a]
                 PROVE  /\ status[closing[a][k]] = "open"
                        /\ opener[closing[a][k]] = callID[a]
                        /\ ~InFrame(closing[a][k])
                        /\ \A l \in DOMAIN closing[a] : closing[a][l] = closing[a][k] => l = k
      BY DEF ClosedOnce
    <2>1. DOMAIN closing[a] = 1 .. Len(closing[a])
      <3>1. closing[a] \in Seq(Iterators)
        BY <1>1 DEF IInv, TypeOK
      <3> QED
        BY <3>1, SMTT(30)
    <2>2. \A c \in CallIDs : DOMAIN iteratorFrames[c] = 1 .. Len(iteratorFrames[c])
      <3>1. \A c \in CallIDs : iteratorFrames[c] \in Seq(Iterators)
        BY <1>1 DEF IInv, TypeOK
      <3> QED
        BY <3>1, SMT
    <2>3. \A c \in CallIDs : \A l \in 1 .. Len(iteratorFrames[c]) :
            iteratorFrames[c][l] # closing[a][k]
      BY <1>1, <2>1, ClosingIsPrivate
    <2>4. ~InFrame(closing[a][k])
      BY <2>2, <2>3 DEF InFrame
    <2> QED
      BY <1>1, <2>1, <2>4, SMT DEF IInv, ClosingInv
  <1> QED
    BY <1>1, Invariance, PTL

\* The global map never keeps a frame of a call that is over: removeFrame runs
\* on every way out of an entry point.
THEOREM FramesAlwaysReleased == Spec => []FramesReleased
  <1>1. ASSUME IInv PROVE FramesReleased
    <2> SUFFICES ASSUME NEW c \in CallIDs, iteratorFrames[c] # <<>>
                 PROVE  \E a \in Activations : Active(a) /\ callID[a] = c /\ pc[a] # "closing"
      BY DEF FramesReleased
    <2>1. PICK a \in Activations : callID[a] = c /\ pc[a] \in Inside \cup {"ending"}
      BY <1>1 DEF IInv, FrameInv
    <2>2. pc[a] # "idle" /\ pc[a] # "closing"
      BY <2>1 DEF Inside
    <2>3. Active(a)
      BY <1>1, <2>2 DEF IInv, StackInv
    <2> QED
      BY <2>1, <2>2, <2>3
  <1> QED
    BY <1>1, Invariance, PTL

-----------------------------------------------------------------------------
(* A second invariant, for the leak of iterators and for the refinement.   *)

\* cNext works on an iterator of its own frame.
NextInv ==
  \A a \in Activations : pc[a] = "next" =>
    \E k \in 1 .. Len(iteratorFrames[callID[a]]) : iteratorFrames[callID[a]][k] = held[a]

\* Nobody has read an iterator that is not stored yet.
FreshInv ==
  /\ \A i \in Iterators : i > opened => pos[i] = 0
  /\ \A a \in Activations : pc[a] = "store" => pos[held[a]] = 0

\* Every scan has been paid for.
Scans(a) == Len(iteratorFrames[callID[a]]) + (IF pc[a] = "store" THEN 1 ELSE 0)

PaidInv == \A a \in Activations : pc[a] \in Inside => Scans(a) + gas[a] <= GasLimit

CursorInv == IInv /\ NextInv /\ FreshInv /\ PaidInv

\* A step of activation a leaves every other call alone: its caller goes to and
\* comes back from cQueryExternal, for which it pays.
OthersKeep(a) ==
  \A b \in Activations : b # a =>
    /\ storage'[b] = storage[b] /\ held'[b] = held[b] /\ closing'[b] = closing[b]
    /\ pc[b] # "idle" =>
         /\ callID'[b] = callID[b]
         /\ iteratorFrames'[callID[b]] = iteratorFrames[callID[b]]
         /\ gas'[b] \in Nat /\ gas'[b] <= gas[b]
    /\ pc'[b] = pc[b] \/ (pc[b] \in {"run", "query"} /\ pc'[b] \in {"run", "query"})

LEMMA ScansType ==
  ASSUME IInv, NEW a \in Activations, pc[a] # "idle"
  PROVE  Scans(a) \in Nat
  <1>1. Len(iteratorFrames[callID[a]]) \in Nat
    BY OwnFrame
  <1> DEFINE n == Len(iteratorFrames[callID[a]])
  <1>2. n \in Nat
    BY <1>1
  <1> HIDE DEF n
  <1>3. Scans(a) = n + (IF pc[a] = "store" THEN 1 ELSE 0)
    BY DEF Scans, n
  <1> QED
    BY <1>2, <1>3, SMT

LEMMA OthersNext ==
  ASSUME CursorInv, NEW a \in Activations, OthersKeep(a),
         pc'[a] = "next" =>
           \E k \in 1 .. Len(iteratorFrames'[callID'[a]]) :
             iteratorFrames'[callID'[a]][k] = held'[a]
  PROVE  NextInv'
  <1> SUFFICES ASSUME NEW b \in Activations, b # a, pc'[b] = "next"
               PROVE  \E k \in 1 .. Len(iteratorFrames'[callID'[b]]) :
                        iteratorFrames'[callID'[b]][k] = held'[b]
    BY DEF NextInv
  <1>1. pc[b] = "next"
    BY DEF OthersKeep
  <1>2. callID'[b] = callID[b] /\ held'[b] = held[b]
        /\ iteratorFrames'[callID[b]] = iteratorFrames[callID[b]]
    BY <1>1 DEF OthersKeep
  <1> QED
    BY <1>1, <1>2, SMT DEF CursorInv, NextInv

LEMMA OthersPaid ==
  ASSUME CursorInv, IInv', NEW a \in Activations, OthersKeep(a),
         pc'[a] \in Inside => Scans(a)' + gas'[a] <= GasLimit
  PROVE  PaidInv'
  <1> SUFFICES ASSUME NEW b \in Activations, b # a, pc'[b] \in Inside
               PROVE  Scans(b)' + gas'[b] <= GasLimit
    BY DEF PaidInv
  <1>1. pc[b] \in Inside /\ pc[b] # "idle" /\ (pc'[b] = "store" <=> pc[b] = "store")
    BY DEF OthersKeep, Inside
  <1>2. Scans(b)' = Scans(b)
    BY <1>1 DEF OthersKeep, Scans
  <1>3. gas'[b] \in Nat /\ gas'[b] <= gas[b]
    BY <1>1 DEF OthersKeep
  <1>4. Scans(b) + gas[b] <= GasLimit
    BY <1>1 DEF CursorInv, PaidInv
  <1>5. Scans(b) \in Nat
    BY <1>1, ScansType DEF CursorInv
  <1>6. gas[b] \in Nat
    BY ConstantsAssumption, SMT DEF CursorInv, IInv, TypeOK
  <1> QED
    BY <1>2, <1>3, <1>4, <1>5, <1>6, ConstantsAssumption, SMT

LEMMA OthersFresh ==
  ASSUME CursorInv, NEW a \in Activations, OthersKeep(a), pos' = pos, opened' = opened,
         pc'[a] # "store"
  PROVE  FreshInv'
  <1>1. \A b \in Activations : pc'[b] = "store" => pc[b] = "store" /\ held'[b] = held[b]
    BY DEF OthersKeep
  <1> QED
    BY <1>1 DEF CursorInv, FreshInv

\* A step inside one activation a: every other one keeps everything.
LEMMA AloneKeeps ==
  ASSUME IInv, NEW a \in Activations, callID' = callID, NEW c \in CallIDs, c = callID[a],
         pc[a] # "idle",
         \A e \in CallIDs : e # c => iteratorFrames'[e] = iteratorFrames[e],
         \A b \in Activations : b # a =>
           /\ pc'[b] = pc[b] /\ storage'[b] = storage[b] /\ held'[b] = held[b]
           /\ closing'[b] = closing[b] /\ gas'[b] = gas[b]
  PROVE  OthersKeep(a)
  <1> SUFFICES ASSUME NEW b \in Activations, b # a, pc[b] # "idle"
               PROVE  /\ iteratorFrames'[callID[b]] = iteratorFrames[callID[b]]
                      /\ gas'[b] \in Nat /\ gas'[b] <= gas[b]
    BY DEF OthersKeep
  <1>1. callID[b] \in CallIDs
    BY OwnFrame
  <1>2. callID[b] # callID[a]
    BY DEF IInv, IdInv
  <1>3. gas[b] \in Nat
    BY ConstantsAssumption, SMT DEF IInv, TypeOK
  <1> QED
    BY <1>1, <1>2, <1>3, SMT

\* What the two pairs of callback steps have in common.
LEMMA CallbackKeeps ==
  ASSUME CursorInv, NEW a \in Activations, NEW l, NEW i, CallbackMove(a, l, i),
         gas' = gas \/ gas' = [gas EXCEPT ![a] = @ - 1]
  PROVE  OthersKeep(a) /\ callID[a] \in CallIDs
  <1>1. /\ pc \in [Activations -> Locations] /\ held \in [Activations -> 0 .. MaxIterators]
        /\ gas \in [Activations -> 0 .. GasLimit]
    BY DEF CursorInv, IInv, TypeOK
  <1>2. pc[a] # "idle" /\ callID' = callID /\ iteratorFrames' = iteratorFrames
    BY DEF CallbackMove
  <1>3. callID[a] \in CallIDs
    BY <1>2, OwnFrame DEF CursorInv
  <1>4. \A b \in Activations : b # a =>
           /\ pc'[b] = pc[b] /\ storage'[b] = storage[b] /\ held'[b] = held[b]
           /\ closing'[b] = closing[b] /\ gas'[b] = gas[b]
    BY <1>1 DEF CallbackMove
  <1>5. \A e \in CallIDs : e # callID[a] => iteratorFrames'[e] = iteratorFrames[e]
    BY <1>2
  <1> QED
    BY <1>2, <1>3, <1>4, <1>5, AloneKeeps DEF CursorInv

\* A step that pays for itself, and one that costs nothing.
LEMMA SpendsGas ==
  ASSUME CursorInv, IInv', NEW a \in Activations, OthersKeep(a), pc[a] \in Inside \ {"store"},
         gas[a] > 0, gas' = [gas EXCEPT ![a] = @ - 1],
         callID' = callID, iteratorFrames' = iteratorFrames
  PROVE  PaidInv'
  <1>1. gas \in [Activations -> 0 .. GasLimit]
    BY DEF CursorInv, IInv, TypeOK
  <1>2. gas'[a] = gas[a] - 1 /\ gas[a] \in Nat
    BY <1>1, ConstantsAssumption, SMT
  <1> DEFINE n == Len(iteratorFrames[callID[a]])
  <1>3. n \in Nat
    BY OwnFrame DEF CursorInv, Inside
  <1>4. n + 0 + gas[a] <= GasLimit
    BY DEF CursorInv, PaidInv, Scans
  <1>5. Scans(a)' = n + (IF pc'[a] = "store" THEN 1 ELSE 0)
    BY DEF Scans
  <1> HIDE DEF n
  <1>6. Scans(a)' + gas'[a] <= GasLimit
    BY <1>2, <1>3, <1>4, <1>5, ConstantsAssumption, SMT
  <1> QED
    BY <1>6, OthersPaid

LEMMA SpendsNothing ==
  ASSUME CursorInv, IInv', NEW a \in Activations, OthersKeep(a), pc[a] \in Inside,
         pc'[a] # "store", gas' = gas, callID' = callID, iteratorFrames' = iteratorFrames
  PROVE  PaidInv'
  <1>1. gas[a] \in Nat
    BY ConstantsAssumption, SMT DEF CursorInv, IInv, TypeOK
  <1> DEFINE n == Len(iteratorFrames[callID[a]])
  <1>3. n \in Nat
    BY OwnFrame DEF CursorInv, Inside
  <1>4. n + (IF pc[a] = "store" THEN 1 ELSE 0) + gas[a] <= GasLimit
    BY DEF CursorInv, PaidInv, Scans
  <1>5. Scans(a)' = n + 0
    BY DEF Scans
  <1> HIDE DEF n
  <1>6. Scans(a)' + gas'[a] <= GasLimit
    BY <1>1, <1>3, <1>4, <1>5, ConstantsAssumption, SMT
  <1> QED
    BY <1>6, OthersPaid

LEMMA OperationFailsKeeps ==
  ASSUME CursorInv, NEW g \in Goroutines, operationFails(g)
  PROVE  CursorInv' /\ OthersKeep(Top(g))
  <1>1. PICK a \in Activations : a = Top(g)
    BY TopFacts DEF CursorInv, IInv, operationFails, Operation, At
  <1>2. IInv' /\ CallbackMove(a, "trap", NoIterator)
    BY <1>1, OperationFailsStep DEF CursorInv
  <1>3. gas[a] > 0 /\ gas' = [gas EXCEPT ![a] = @ - 1] /\ pos' = pos
    BY <1>1 DEF operationFails, Operation, iterators
  <1>4. /\ pc[a] \in Inside \ {"store"} /\ pc'[a] = "trap"
        /\ callID' = callID /\ iteratorFrames' = iteratorFrames /\ opened' = opened
    BY <1>1, <1>2 DEF CallbackMove, operationFails, Operation, At, Inside, CursorInv, IInv, TypeOK
  <1>5. OthersKeep(a)
    BY <1>2, <1>3, CallbackKeeps
  <1>6. NextInv'
    BY <1>4, <1>5, OthersNext
  <1>7. PaidInv'
    BY <1>2, <1>3, <1>4, <1>5, SpendsGas
  <1>8. FreshInv'
    BY <1>3, <1>4, <1>5, OthersFresh
  <1> QED
    BY <1>1, <1>5, <1>2, <1>6, <1>7, <1>8 DEF CursorInv

LEMMA ScanRejectedKeeps ==
  ASSUME CursorInv, NEW g \in Goroutines, scanRejected(g)
  PROVE  CursorInv' /\ OthersKeep(Top(g))
  <1>1. PICK a \in Activations : a = Top(g)
    BY TopFacts DEF CursorInv, IInv, scanRejected, At
  <1>2. IInv' /\ CallbackMove(a, "run", NoIterator)
    BY <1>1, ScanRejectedStep DEF CursorInv
  <1>3. gas' = gas /\ pos' = pos
    BY DEF scanRejected, iterators
  <1>4. /\ pc[a] = "store" /\ pc[a] \in Inside /\ pc'[a] = "run"
        /\ callID' = callID /\ iteratorFrames' = iteratorFrames /\ opened' = opened
    BY <1>1, <1>2 DEF CallbackMove, scanRejected, At, Inside, CursorInv, IInv, TypeOK
  <1>5. OthersKeep(a)
    BY <1>2, <1>3, CallbackKeeps
  <1>6. NextInv'
    BY <1>4, <1>5, OthersNext
  <1>7. PaidInv'
    BY <1>2, <1>3, <1>4, <1>5, SpendsNothing
  <1>8. FreshInv'
    BY <1>3, <1>4, <1>5, OthersFresh
  <1> QED
    BY <1>1, <1>5, <1>2, <1>6, <1>7, <1>8 DEF CursorInv

LEMMA AdvancePanicsKeeps ==
  ASSUME CursorInv, NEW g \in Goroutines, advancePanics(g)
  PROVE  CursorInv' /\ OthersKeep(Top(g))
  <1>1. PICK a \in Activations : a = Top(g)
    BY TopFacts DEF CursorInv, IInv, advancePanics, At
  <1>2. IInv' /\ CallbackMove(a, "trap", NoIterator)
    BY <1>1, AdvancePanicsStep DEF CursorInv
  <1>3. gas' = gas /\ pos' = pos
    BY DEF advancePanics, iterators
  <1>4. /\ pc[a] = "next" /\ pc[a] \in Inside /\ pc'[a] = "trap"
        /\ callID' = callID /\ iteratorFrames' = iteratorFrames /\ opened' = opened
    BY <1>1, <1>2 DEF CallbackMove, advancePanics, At, Inside, CursorInv, IInv, TypeOK
  <1>5. OthersKeep(a)
    BY <1>2, <1>3, CallbackKeeps
  <1>6. NextInv'
    BY <1>4, <1>5, OthersNext
  <1>7. PaidInv'
    BY <1>2, <1>3, <1>4, <1>5, SpendsNothing
  <1>8. FreshInv'
    BY <1>3, <1>4, <1>5, OthersFresh
  <1> QED
    BY <1>1, <1>5, <1>2, <1>6, <1>7, <1>8 DEF CursorInv

LEMMA AdvanceKeeps ==
  ASSUME CursorInv, NEW g \in Goroutines, advance(g)
  PROVE  CursorInv' /\ OthersKeep(Top(g))
  <1>1. PICK a \in Activations : a = Top(g)
    BY TopFacts DEF CursorInv, IInv, advance, At
  <1>2. IInv' /\ CallbackMove(a, "run", NoIterator)
    BY <1>1, AdvanceStep DEF CursorInv
  <1>3. /\ gas' = gas
        /\ pos' = IF pos[held[a]] < Items THEN [pos EXCEPT ![held[a]] = @ + 1] ELSE pos
    BY <1>1 DEF advance
  <1>4. /\ pc[a] = "next" /\ pc[a] \in Inside /\ pc'[a] = "run"
        /\ callID' = callID /\ iteratorFrames' = iteratorFrames /\ opened' = opened
    BY <1>1, <1>2 DEF CallbackMove, advance, At, Inside, CursorInv, IInv, TypeOK
  <1>5. OthersKeep(a)
    BY <1>2, <1>3, CallbackKeeps
  <1>6. NextInv'
    BY <1>4, <1>5, OthersNext
  <1>7. PaidInv'
    BY <1>2, <1>3, <1>4, <1>5, SpendsNothing
  <1>8. FreshInv'
    <2>1. /\ held[a] \in Iterators /\ status[held[a]] = "open" /\ opener[held[a]] = callID[a]
          /\ pos \in [Iterators -> 0 .. Items]
      BY <1>4 DEF CursorInv, IInv, HeldInv, TypeOK
    <2>2. \A i \in Iterators : i # held[a] => pos'[i] = pos[i]
      BY <2>1, <1>3
    <2>3. \A i \in Iterators : i > opened => i # held[a]
      BY <2>1 DEF CursorInv, IInv, OpenedInv
    <2>4. \A b \in Activations : pc'[b] = "store" =>
            pc[b] = "store" /\ held'[b] = held[b] /\ held[b] \in Iterators /\ held[b] # held[a]
      <3> SUFFICES ASSUME NEW b \in Activations, pc'[b] = "store"
                   PROVE  /\ pc[b] = "store" /\ held'[b] = held[b]
                          /\ held[b] \in Iterators /\ held[b] # held[a]
        OBVIOUS
      <3>1. b # a
        BY <1>4
      <3>2. pc[b] = "store" /\ held'[b] = held[b]
        BY <3>1, <1>5 DEF OthersKeep
      <3>3. held[b] \in Iterators /\ opener[held[b]] = callID[b]
        BY <3>2 DEF CursorInv, IInv, HeldInv
      <3>4. callID[b] # callID[a]
        BY <3>1, <3>2, <1>4 DEF CursorInv, IInv, IdInv
      <3> QED
        BY <2>1, <3>2, <3>3, <3>4
    <2> QED
      BY <2>2, <2>3, <2>4, <1>4, SMT DEF CursorInv, FreshInv
  <1> QED
    BY <1>1, <1>5, <1>2, <1>6, <1>7, <1>8 DEF CursorInv

LEMMA NextKeeps ==
  ASSUME CursorInv, NEW g \in Goroutines, NEW n \in 0 .. MaxIterators - 1, cNext(g, n)
  PROVE  CursorInv' /\ OthersKeep(Top(g))
  <1>1. PICK a \in Activations : a = Top(g)
    BY TopFacts DEF CursorInv, IInv, cNext, Operation, At
  <1> DEFINE f == iteratorFrames[callID[a]]
  <1>2. IInv' /\ n + 1 \in 1 .. Len(f) /\ CallbackMove(a, "next", f[n + 1])
    BY <1>1, NextStep DEF CursorInv
  <1>3. gas[a] > 0 /\ gas' = [gas EXCEPT ![a] = @ - 1] /\ pos' = pos
    BY <1>1 DEF cNext, Operation, iterators
  <1>4. /\ pc[a] \in Inside \ {"store"} /\ pc'[a] = "next" /\ held'[a] = f[n + 1]
        /\ callID' = callID /\ iteratorFrames' = iteratorFrames /\ opened' = opened
    <2>1. pc[a] \in Inside \ {"store"}
      BY <1>1 DEF cNext, Operation, At, Inside
    <2>2. /\ pc \in [Activations -> Locations]
          /\ held \in [Activations -> 0 .. MaxIterators]
      BY DEF CursorInv, IInv, TypeOK
    <2> HIDE DEF f
    <2> QED
      BY <2>1, <2>2, <1>2 DEF CallbackMove
  <1>5. OthersKeep(a)
    BY <1>2, <1>3, CallbackKeeps
  <1>6. NextInv'
    BY <1>2, <1>4, <1>5, OthersNext
  <1>7. PaidInv'
    BY <1>2, <1>3, <1>4, <1>5, SpendsGas
  <1>8. FreshInv'
    BY <1>3, <1>4, <1>5, OthersFresh
  <1> QED
    BY <1>1, <1>5, <1>2, <1>6, <1>7, <1>8 DEF CursorInv

LEMMA ScanKeeps ==
  ASSUME CursorInv, NEW g \in Goroutines, cScan(g)
  PROVE  CursorInv' /\ OthersKeep(Top(g))
  <1>1. PICK a \in Activations : a = Top(g)
    BY TopFacts DEF CursorInv, IInv, cScan, Operation, At
  <1>2. IInv'
    BY ScanStep DEF CursorInv
  <1>3. /\ pc[a] = "run" /\ gas[a] > 0 /\ gas' = [gas EXCEPT ![a] = @ - 1] /\ pos' = pos
        /\ opened' = opened + 1 /\ opened < MaxIterators
        /\ held' = [held EXCEPT ![a] = opened + 1]
        /\ pc' = [pc EXCEPT ![a] = "store"]
        /\ iteratorFrames' = iteratorFrames /\ callID' = callID
        /\ storage' = storage /\ closing' = closing
    BY <1>1 DEF cScan, Operation, At, globals
  <1>4. /\ pc \in [Activations -> Locations]
        /\ held \in [Activations -> 0 .. MaxIterators]
        /\ gas \in [Activations -> 0 .. GasLimit]
        /\ opened \in 0 .. MaxIterators
    BY DEF CursorInv, IInv, TypeOK
  <1>5. /\ pc'[a] = "store" /\ held'[a] = opened + 1
        /\ \A b \in Activations : b # a =>
             pc'[b] = pc[b] /\ held'[b] = held[b] /\ gas'[b] = gas[b]
    BY <1>3, <1>4
  <1>6. OthersKeep(a)
    <2>1. callID[a] \in CallIDs /\ pc[a] # "idle"
      BY <1>3, OwnFrame DEF CursorInv
    <2> QED
      BY <2>1, <1>3, <1>5, AloneKeeps DEF CursorInv
  <1>7. NextInv'
    BY <1>5, <1>6, OthersNext
  <1>8. PaidInv'
    BY <1>2, <1>3, <1>6, SpendsGas DEF Inside
  <1>9. FreshInv'
    <2>1. opened + 1 \in Iterators /\ \A i \in Iterators : i > opened + 1 => i > opened
      BY <1>3, <1>4, ConstantsAssumption, SMT DEF Iterators
    <2>2. pos[opened + 1] = 0
      BY <2>1, <1>4, SMT DEF CursorInv, FreshInv
    <2>3. \A b \in Activations : b # a /\ pc[b] = "store" => pos[held[b]] = 0
      BY DEF CursorInv, FreshInv
    <2> QED
      BY <2>1, <2>2, <2>3, <1>3, <1>5, SMT DEF CursorInv, FreshInv
  <1> QED
    BY <1>1, <1>6, <1>2, <1>7, <1>8, <1>9 DEF CursorInv

LEMMA StoreKeeps ==
  ASSUME CursorInv, NEW g \in Goroutines, storeIterator(g)
  PROVE  CursorInv' /\ OthersKeep(Top(g))
  <1>1. PICK a \in Activations, c \in CallIDs, len \in Nat, ref \in References :
          a = Top(g) /\ Stored(a, c, len, ref)
    BY StoreFacts DEF CursorInv
  <1>2. IInv'
    BY StoreStep DEF CursorInv
  <1>3. /\ c = callID[a] /\ len = Len(iteratorFrames[c]) /\ Len(iteratorFrames'[c]) = len + 1
        /\ pc[a] = "store" /\ pc'[a] = "run"
        /\ callID' = callID /\ gas' = gas /\ pos' = pos /\ opened' = opened /\ closing' = closing
    BY <1>1 DEF Stored
  <1>4. OthersKeep(a)
    <2>1. /\ \A e \in CallIDs : e # c => iteratorFrames'[e] = iteratorFrames[e]
          /\ \A b \in Activations : b # a =>
               /\ pc'[b] = pc[b] /\ storage'[b] = storage[b] /\ held'[b] = held[b]
               /\ closing'[b] = closing[b] /\ gas'[b] = gas[b]
      BY <1>1 DEF Stored
    <2>2. pc[a] # "idle"
      BY <1>3
    <2> QED
      BY <2>1, <2>2, <1>3, AloneKeeps DEF CursorInv
  <1>5. NextInv'
    BY <1>3, <1>4, OthersNext
  <1>6. PaidInv'
    <2>1. Scans(a) + gas[a] <= GasLimit
      BY <1>3 DEF CursorInv, PaidInv, Inside
    <2>2. Scans(a) = len + 1
      BY <1>3 DEF Scans
    <2>3. Scans(a)' = len + 1 + 0
      BY <1>3 DEF Scans
    <2>4. Scans(a)' + gas'[a] <= GasLimit
      BY <2>1, <2>2, <2>3, <1>3, SMT
    <2> QED
      BY <2>4, <1>2, <1>4, OthersPaid
  <1>7. FreshInv'
    BY <1>3, <1>4, OthersFresh
  <1> QED
    BY <1>1, <1>4, <1>2, <1>5, <1>6, <1>7 DEF CursorInv

LEMMA ReturnKeeps ==
  ASSUME CursorInv, NEW g \in Goroutines, Return(g)
  PROVE  CursorInv' /\ OthersKeep(Top(g))
  <1>1. PICK a \in Activations : a = Top(g)
    BY TopFacts DEF CursorInv, IInv, Return, At
  <1>2. IInv'
    BY ReturnStep DEF CursorInv
  <1>3. /\ pc[a] \in {"run", "trap"}
        /\ storage' = [storage EXCEPT ![a] = <<>>]
        /\ pc' = [pc EXCEPT ![a] = "ending"]
        /\ iteratorFrames' = iteratorFrames /\ callID' = callID /\ gas' = gas
        /\ held' = held /\ closing' = closing /\ opened' = opened /\ pos' = pos
    BY <1>1 DEF Return, At, globals, iterators
  <1>4. /\ pc \in [Activations -> Locations]
        /\ storage \in [Activations -> Seq(References)]
    BY DEF CursorInv, IInv, TypeOK
  <1>5. /\ pc'[a] = "ending"
        /\ \A b \in Activations : b # a => pc'[b] = pc[b] /\ storage'[b] = storage[b]
    BY <1>3, <1>4
  <1>6. OthersKeep(a)
    <2>1. callID[a] \in CallIDs /\ pc[a] # "idle"
      BY <1>3, OwnFrame DEF CursorInv
    <2> QED
      BY <2>1, <1>3, <1>5, AloneKeeps DEF CursorInv
  <1>7. NextInv'
    BY <1>5, <1>6, OthersNext
  <1>8. PaidInv'
    BY <1>2, <1>5, <1>6, OthersPaid DEF Inside
  <1>9. FreshInv'
    BY <1>3, <1>5, <1>6, OthersFresh
  <1> QED
    BY <1>1, <1>6, <1>2, <1>7, <1>8, <1>9 DEF CursorInv

LEMMA RemoveFrameKeeps ==
  ASSUME CursorInv, NEW g \in Goroutines, removeFrame(g)
  PROVE  CursorInv' /\ OthersKeep(Top(g))
  <1>1. PICK a \in Activations : a = Top(g)
    BY TopFacts DEF CursorInv, IInv, removeFrame, At
  <1>2. IInv'
    BY RemoveFrameStep DEF CursorInv
  <1>3. /\ pc[a] = "ending"
        /\ closing' = [closing EXCEPT ![a] = iteratorFrames[callID[a]]]
        /\ iteratorFrames' = [iteratorFrames EXCEPT ![callID[a]] = <<>>]
        /\ pc' = [pc EXCEPT ![a] = "closing"]
        /\ callID' = callID /\ storage' = storage /\ gas' = gas
        /\ held' = held /\ opened' = opened /\ pos' = pos
    BY <1>1 DEF removeFrame, At, framesWithout, iterators
  <1>4. /\ pc \in [Activations -> Locations]
        /\ closing \in [Activations -> Seq(Iterators)]
        /\ iteratorFrames \in [CallIDs -> Seq(Iterators)]
    BY DEF CursorInv, IInv, TypeOK
  <1>5. /\ pc'[a] = "closing"
        /\ \A b \in Activations : b # a => pc'[b] = pc[b] /\ closing'[b] = closing[b]
        /\ \A e \in CallIDs : e # callID[a] => iteratorFrames'[e] = iteratorFrames[e]
    BY <1>3, <1>4
  <1>6. OthersKeep(a)
    <2>1. callID[a] \in CallIDs /\ pc[a] # "idle"
      BY <1>3, OwnFrame DEF CursorInv
    <2> QED
      BY <2>1, <1>3, <1>5, AloneKeeps DEF CursorInv
  <1>7. NextInv'
    BY <1>5, <1>6, OthersNext
  <1>8. PaidInv'
    BY <1>2, <1>5, <1>6, OthersPaid DEF Inside
  <1>9. FreshInv'
    BY <1>3, <1>5, <1>6, OthersFresh
  <1> QED
    BY <1>1, <1>6, <1>2, <1>7, <1>8, <1>9 DEF CursorInv

LEMMA CloseIteratorKeeps ==
  ASSUME CursorInv, NEW g \in Goroutines, closeIterator(g)
  PROVE  CursorInv' /\ OthersKeep(Top(g))
  <1>1. PICK a \in Activations : a = Top(g)
    BY TopFacts DEF CursorInv, IInv, closeIterator, At
  <1>2. IInv'
    BY CloseIteratorStep DEF CursorInv
  <1>3. /\ pc[a] = "closing" /\ closing' = [closing EXCEPT ![a] = Tail(@)]
        /\ iteratorFrames' = iteratorFrames /\ pc' = pc /\ callID' = callID
        /\ storage' = storage /\ gas' = gas /\ held' = held
        /\ opened' = opened /\ pos' = pos
    BY <1>1 DEF closeIterator, At, remaining, globals
  <1>4. \A b \in Activations : b # a => closing'[b] = closing[b]
    BY <1>3 DEF CursorInv, IInv, TypeOK
  <1>6. OthersKeep(a)
    <2>1. callID[a] \in CallIDs /\ pc[a] # "idle"
      BY <1>3, OwnFrame DEF CursorInv
    <2> QED
      BY <2>1, <1>3, <1>4, AloneKeeps DEF CursorInv
  <1>7. NextInv'
    BY <1>3, <1>6, OthersNext
  <1>8. PaidInv'
    BY <1>2, <1>3, <1>6, OthersPaid DEF Inside
  <1>9. FreshInv'
    BY <1>3, <1>6, OthersFresh
  <1> QED
    BY <1>1, <1>6, <1>2, <1>7, <1>8, <1>9 DEF CursorInv

LEMMA EndCallKeeps ==
  ASSUME CursorInv, NEW g \in Goroutines, endCall(g)
  PROVE  CursorInv' /\ OthersKeep(Top(g))
  <1>1. PICK a \in Activations : a = Top(g)
    BY TopFacts DEF CursorInv, IInv, endCall, At
  <1>2. /\ IInv' /\ pc'[a] = "idle"
        /\ \A b \in Activations : b # a =>
             /\ callID'[b] = callID[b]
             /\ pc'[b] = pc[b] \/ (pc[b] = "query" /\ pc'[b] = "run")
    BY <1>1, EndCallStep DEF CursorInv
  <1>3. /\ gas' = [gas EXCEPT ![a] = 0]
        /\ iteratorFrames' = iteratorFrames /\ storage' = storage /\ held' = held
        /\ closing' = closing /\ opened' = opened /\ pos' = pos
    BY <1>1 DEF endCall, globals, iterators
  <1>4. \A b \in Activations : b # a => gas'[b] \in Nat /\ gas'[b] <= gas[b]
    <2>1. gas \in [Activations -> 0 .. GasLimit]
      BY DEF CursorInv, IInv, TypeOK
    <2> QED
      BY <2>1, <1>3, ConstantsAssumption, SMT
  <1>6. OthersKeep(a)
    BY <1>2, <1>3, <1>4 DEF OthersKeep
  <1>7. NextInv'
    BY <1>2, <1>6, OthersNext
  <1>8. PaidInv'
    BY <1>2, <1>6, OthersPaid DEF Inside
  <1>9. FreshInv'
    BY <1>2, <1>3, <1>6, OthersFresh
  <1> QED
    BY <1>1, <1>6, <1>2, <1>7, <1>8, <1>9 DEF CursorInv

LEMMA PushKeeps ==
  ASSUME CursorInv, IInv', NEW g \in Goroutines, NEW a \in Activations, Pushed(g, a)
  PROVE  CursorInv' /\ pc[a] = "idle" /\ OthersKeep(a)
  <1>1. /\ latestCallID < MaxCallID
        /\ latestCallID' = latestCallID + 1
        /\ callID' = [callID EXCEPT ![a] = latestCallID + 1]
        /\ iteratorFrames' = iteratorFrames /\ storage' = storage
        /\ held' = held /\ closing' = closing /\ opened' = opened /\ pos' = pos
    BY DEF Pushed, startCall, newCallID, iterators
  <1>2. /\ a[1] = g /\ a[2] = depth[g] + 1 /\ pc'[a] = "run"
        /\ gas'[a] = GasLimit /\ \A b \in Activations : b # a => gas'[b] <= gas[b]
        /\ gas' \in [Activations -> 0 .. GasLimit]
    BY DEF Pushed
  <1>3. /\ depth \in [Goroutines -> 0 .. MaxDepth]
        /\ callID \in [Activations -> 0 .. MaxCallID]
        /\ latestCallID \in 0 .. MaxCallID
    BY DEF CursorInv, IInv, TypeOK
  <1>4. pc[a] = "idle"
    <2>1. ~Active(a)
      BY <1>2, <1>3, ConstantsAssumption, SMT DEF Active
    <2> QED
      BY <2>1 DEF CursorInv, IInv, StackInv
  <1>5. callID'[a] = latestCallID + 1 /\ \A b \in Activations : b # a => callID'[b] = callID[b]
    BY <1>1, <1>3
  <1>6. \A b \in Activations : b # a =>
          pc'[b] = pc[b] \/ (pc[b] = "run" /\ pc'[b] = "query")
    BY DEF Pushed
  <1>7. \A b \in Activations : gas'[b] \in Nat
    BY <1>2, ConstantsAssumption, SMT
  <1>8. OthersKeep(a)
    BY <1>1, <1>2, <1>5, <1>6, <1>7 DEF OthersKeep
  <1>9. iteratorFrames'[callID'[a]] = <<>>
    <2> DEFINE new == latestCallID + 1
    <2> SUFFICES ASSUME iteratorFrames[new] # <<>> PROVE FALSE
      BY <1>1, <1>5
    <2>1. new \in CallIDs
      BY <1>1, <1>3, ConstantsAssumption, SMT DEF CallIDs
    <2>2. PICK b \in Activations : callID[b] = new /\ pc[b] \in Inside \cup {"ending"}
      BY <2>1 DEF CursorInv, IInv, FrameInv
    <2>3. callID[b] \in 1 .. latestCallID
      BY <2>2 DEF CursorInv, IInv, IdInv, Inside
    <2> QED
      BY <2>2, <2>3, <1>3, SMT
  <1>10. NextInv'
    BY <1>2, <1>8, OthersNext
  <1>11. PaidInv'
    <2>1. Scans(a)' = 0
      BY <1>2, <1>9, SMT DEF Scans
    <2>2. Scans(a)' + gas'[a] <= GasLimit
      BY <2>1, <1>2, ConstantsAssumption, SMT
    <2> QED
      BY <2>2, <1>8, OthersPaid
  <1>12. FreshInv'
    BY <1>1, <1>2, <1>8, OthersFresh, SMT
  <1> QED
    BY <1>4, <1>8, <1>10, <1>11, <1>12 DEF CursorInv

LEMMA CursorsInductive ==
  ASSUME CursorInv, [Next]_vars
  PROVE  CursorInv'
  <1>1. ASSUME NEW g \in Goroutines, Call(g) \/ Step(g) PROVE CursorInv'
    <2>1. CASE Call(g)
      BY <2>1, CallStep, PushKeeps DEF CursorInv
    <2>2. CASE cQueryExternal(g)
      BY <2>2, QueryStep, PushKeeps DEF CursorInv
    <2>3. CASE cScan(g)
      BY <2>3, ScanKeeps
    <2>4. CASE storeIterator(g)
      BY <2>4, StoreKeeps
    <2>5. CASE scanRejected(g)
      BY <2>5, ScanRejectedKeeps
    <2>6. CASE \E n \in 0 .. MaxIterators - 1 : cNext(g, n)
      BY <2>6, NextKeeps, SMT
    <2>7. CASE advance(g)
      BY <2>7, AdvanceKeeps
    <2>8. CASE advancePanics(g)
      BY <2>8, AdvancePanicsKeeps
    <2>9. CASE operationFails(g)
      BY <2>9, OperationFailsKeeps
    <2>10. CASE Return(g)
      BY <2>10, ReturnKeeps
    <2>11. CASE removeFrame(g)
      BY <2>11, RemoveFrameKeeps
    <2>12. CASE closeIterator(g)
      BY <2>12, CloseIteratorKeeps
    <2>13. CASE endCall(g)
      BY <2>13, EndCallKeeps
    <2> QED
      BY <1>1, <2>1, <2>2, <2>3, <2>4, <2>5, <2>6, <2>7, <2>8, <2>9, <2>10, <2>11, <2>12, <2>13
      DEF Step
  <1>2. CASE UNCHANGED vars
    <2>1. IInv'
      BY <1>2, Inductive DEF CursorInv
    <2>2. /\ iteratorFrames' = iteratorFrames /\ pc' = pc /\ callID' = callID
          /\ gas' = gas /\ held' = held /\ opened' = opened /\ pos' = pos
      BY <1>2 DEF vars, globals, locals, iterators
    <2>3. NextInv' /\ FreshInv'
      BY <2>2 DEF CursorInv, NextInv, FreshInv
    <2>4. PaidInv'
      BY <2>2 DEF CursorInv, PaidInv, Scans
    <2> QED
      BY <2>1, <2>3, <2>4 DEF CursorInv
  <1> QED
    BY <1>1, <1>2 DEF Next

LEMMA CursorsInitially == Init => CursorInv
  <1> SUFFICES ASSUME Init PROVE CursorInv
    OBVIOUS
  <1>1. IInv
    BY Initially
  <1>2. NextInv /\ PaidInv /\ FreshInv
    BY DEF Init, NextInv, PaidInv, FreshInv, Inside
  <1> QED
    BY <1>1, <1>2 DEF CursorInv

\* The invariant behind the last two theorems: cNext works on an iterator of its
\* own frame, cScan stores an unread one, and gas has paid for every scan.
THEOREM CursorInvariance == Spec => []CursorInv
  BY CursorsInitially, CursorsInductive, PTL DEF Spec

-----------------------------------------------------------------------------
(* No iterator is lost.                                                    *)

LEMMA NoIteratorIsNone == NoIterator \notin Iterators
  BY ConstantsAssumption, SMT DEF NoIterator, Iterators

\* Steps that keep the frames, the lists of endCall and the open iterators: the
\* iterator a callback lets go of is still in the frame of its call.
LEMMA LetGo ==
  ASSUME NoIteratorLeak, NEW a \in Activations,
         iteratorFrames' = iteratorFrames, closing' = closing, status' = status,
         \A b \in Activations : b # a => held'[b] = held[b],
         held[a] = NoIterator \/ InFrame(held[a])
  PROVE  NoIteratorLeak'
  <1> SUFFICES ASSUME NEW i \in Iterators, status'[i] = "open"
               PROVE  InFrame(i)' \/ IsHeld(i)' \/ InClosing(i)'
    BY DEF NoIteratorLeak
  <1>1. (InFrame(i) => InFrame(i)') /\ (InClosing(i) => InClosing(i)')
    BY DEF InFrame, InClosing
  <1>2. InFrame(i) \/ IsHeld(i) \/ InClosing(i)
    BY DEF NoIteratorLeak
  <1>3. ASSUME IsHeld(i) PROVE InFrame(i)' \/ IsHeld(i)'
    <2>1. PICK b \in Activations : held[b] = i
      BY <1>3 DEF IsHeld
    <2>2. CASE b = a
      BY <2>1, <2>2, <1>1, NoIteratorIsNone
    <2>3. CASE b # a
      BY <2>1, <2>3 DEF IsHeld
    <2> QED
      BY <2>2, <2>3
  <1> QED
    BY <1>1, <1>2, <1>3

\* A callback outside cScan and cNext holds nothing, cNext an iterator of its frame.
LEMMA HoldsNothing ==
  ASSUME CursorInv, NEW a \in Activations, pc[a] # "store"
  PROVE  held[a] = NoIterator \/ InFrame(held[a])
  <1>1. CASE pc[a] = "next"
    <2>1. callID[a] \in CallIDs /\ iteratorFrames[callID[a]] \in Seq(Iterators)
      BY <1>1, OwnFrame DEF CursorInv
    <2>2. PICK k \in 1 .. Len(iteratorFrames[callID[a]]) : iteratorFrames[callID[a]][k] = held[a]
      BY <1>1 DEF CursorInv, NextInv
    <2>3. k \in DOMAIN iteratorFrames[callID[a]]
      BY <2>1, SMT
    <2> QED
      BY <2>1, <2>2, <2>3 DEF InFrame
  <1>2. CASE pc[a] # "next"
    BY <1>2 DEF CursorInv, IInv, HeldInv
  <1> QED
    BY <1>1, <1>2

LEMMA ScanLeak ==
  ASSUME CursorInv, NoIteratorLeak, NEW g \in Goroutines, cScan(g)
  PROVE  NoIteratorLeak'
  <1>1. PICK a \in Activations : a = Top(g)
    BY TopFacts DEF CursorInv, IInv, cScan, Operation, At
  <1>2. /\ pc[a] = "run" /\ opened < MaxIterators
        /\ status' = [status EXCEPT ![opened + 1] = "open"]
        /\ held' = [held EXCEPT ![a] = opened + 1]
        /\ iteratorFrames' = iteratorFrames /\ closing' = closing
    BY <1>1 DEF cScan, Operation, At, globals
  <1>3. /\ held \in [Activations -> 0 .. MaxIterators]
        /\ status \in [Iterators -> {"unused", "open", "closed"}]
        /\ opened \in 0 .. MaxIterators
    BY DEF CursorInv, IInv, TypeOK
  <1>4. /\ held'[a] = opened + 1
        /\ \A b \in Activations : b # a => held'[b] = held[b]
        /\ \A i \in Iterators : i # opened + 1 => status'[i] = status[i]
    BY <1>2, <1>3
  <1>5. held[a] = NoIterator
    BY <1>2 DEF CursorInv, IInv, HeldInv
  <1> SUFFICES ASSUME NEW i \in Iterators, status'[i] = "open"
               PROVE  InFrame(i)' \/ IsHeld(i)' \/ InClosing(i)'
    BY DEF NoIteratorLeak
  <1>6. CASE i = opened + 1
    BY <1>4, <1>6 DEF IsHeld
  <1>7. CASE i # opened + 1
    <2>1. InFrame(i) \/ IsHeld(i) \/ InClosing(i)
      BY <1>4, <1>7 DEF NoIteratorLeak
    <2>2. (InFrame(i) => InFrame(i)') /\ (InClosing(i) => InClosing(i)')
      BY <1>2 DEF InFrame, InClosing
    <2>3. IsHeld(i) => IsHeld(i)'
      BY <1>4, <1>5, NoIteratorIsNone DEF IsHeld
    <2> QED
      BY <2>1, <2>2, <2>3
  <1> QED
    BY <1>6, <1>7

LEMMA StoreLeak ==
  ASSUME CursorInv, NoIteratorLeak, NEW g \in Goroutines, storeIterator(g)
  PROVE  NoIteratorLeak'
  <1>1. PICK a \in Activations, c \in CallIDs, len \in Nat, ref \in References :
          Stored(a, c, len, ref)
    BY StoreFacts DEF CursorInv
  <1>2. /\ status' = status /\ closing' = closing
        /\ len = Len(iteratorFrames[c]) /\ Len(iteratorFrames'[c]) = len + 1
        /\ \A k \in 1 .. len : iteratorFrames'[c][k] = iteratorFrames[c][k]
        /\ iteratorFrames'[c][len + 1] = held[a]
        /\ \A e \in CallIDs : e # c => iteratorFrames'[e] = iteratorFrames[e]
        /\ \A b \in Activations : b # a => held'[b] = held[b]
    BY <1>1 DEF Stored
  <1>3. DOMAIN iteratorFrames[c] = 1 .. len /\ DOMAIN iteratorFrames'[c] = 1 .. len + 1
    <2>1. iteratorFrames[c] \in Seq(Iterators)
      BY DEF CursorInv, IInv, TypeOK
    <2>2. iteratorFrames' \in [CallIDs -> Seq(Iterators)]
      BY <1>1 DEF Stored
    <2>3. iteratorFrames'[c] \in Seq(Iterators)
      BY <2>2
    <2> QED
      BY <2>1, <2>3, <1>2, SMT
  <1>4. len + 1 \in 1 .. len + 1 /\ \A k \in 1 .. len : k \in 1 .. len + 1
    BY SMT
  <1> SUFFICES ASSUME NEW i \in Iterators, status'[i] = "open"
               PROVE  InFrame(i)' \/ IsHeld(i)' \/ InClosing(i)'
    BY DEF NoIteratorLeak
  <1>5. InFrame(i) \/ IsHeld(i) \/ InClosing(i)
    BY <1>2 DEF NoIteratorLeak
  <1>6. InClosing(i) => InClosing(i)'
    BY <1>2 DEF InClosing
  <1>7. ASSUME InFrame(i) PROVE InFrame(i)'
    <2>1. PICK e \in CallIDs : \E k \in DOMAIN iteratorFrames[e] : iteratorFrames[e][k] = i
      BY <1>7 DEF InFrame
    <2>2. CASE e = c
      BY <2>1, <2>2, <1>2, <1>3, <1>4, SMT DEF InFrame
    <2>3. CASE e # c
      BY <2>1, <2>3, <1>2, SMT DEF InFrame
    <2> QED
      BY <2>2, <2>3
  <1>8. ASSUME IsHeld(i) PROVE InFrame(i)' \/ IsHeld(i)'
    <2>1. PICK b \in Activations : held[b] = i
      BY <1>8 DEF IsHeld
    <2>2. CASE b = a
      BY <2>1, <2>2, <1>2, <1>3, <1>4, SMT DEF InFrame
    <2>3. CASE b # a
      BY <2>1, <2>3, <1>2 DEF IsHeld
    <2> QED
      BY <2>2, <2>3
  <1> QED
    BY <1>5, <1>6, <1>7, <1>8

LEMMA RemoveFrameLeak ==
  ASSUME CursorInv, NoIteratorLeak, NEW g \in Goroutines, removeFrame(g)
  PROVE  NoIteratorLeak'
  <1>1. PICK a \in Activations : a = Top(g)
    BY TopFacts DEF CursorInv, IInv, removeFrame, At
  <1> DEFINE c == callID[a]
  <1>2. /\ pc[a] = "ending"
        /\ closing' = [closing EXCEPT ![a] = iteratorFrames[c]]
        /\ iteratorFrames' = [iteratorFrames EXCEPT ![c] = <<>>]
        /\ status' = status /\ held' = held
    BY <1>1 DEF removeFrame, At, framesWithout, iterators
  <1>3. /\ closing \in [Activations -> Seq(Iterators)]
        /\ iteratorFrames \in [CallIDs -> Seq(Iterators)]
    BY DEF CursorInv, IInv, TypeOK
  <1>4. closing[a] = <<>>
    BY <1>2 DEF CursorInv, IInv, ClosingInv
  <1>5. \A k \in DOMAIN closing[a] : FALSE
    BY <1>4, SMT
  <1>6. /\ closing'[a] = iteratorFrames[c]
        /\ \A b \in Activations : b # a => closing'[b] = closing[b]
        /\ \A e \in CallIDs : e # c => iteratorFrames'[e] = iteratorFrames[e]
    BY <1>2, <1>3
  <1> HIDE DEF c
  <1> SUFFICES ASSUME NEW i \in Iterators, status'[i] = "open"
               PROVE  InFrame(i)' \/ IsHeld(i)' \/ InClosing(i)'
    BY DEF NoIteratorLeak
  <1>7. InFrame(i) \/ IsHeld(i) \/ InClosing(i)
    BY <1>2 DEF NoIteratorLeak
  <1>8. IsHeld(i) => IsHeld(i)'
    BY <1>2 DEF IsHeld
  <1>9. ASSUME InFrame(i) PROVE InFrame(i)' \/ InClosing(i)'
    <2>1. PICK e \in CallIDs : \E k \in DOMAIN iteratorFrames[e] : iteratorFrames[e][k] = i
      BY <1>9 DEF InFrame
    <2>2. CASE e = c
      BY <2>1, <2>2, <1>6, SMT DEF InClosing
    <2>3. CASE e # c
      BY <2>1, <2>3, <1>6 DEF InFrame
    <2> QED
      BY <2>2, <2>3
  <1>10. InClosing(i) => InClosing(i)'
    BY <1>5, <1>6 DEF InClosing
  <1> QED
    BY <1>7, <1>8, <1>9, <1>10

LEMMA CloseIteratorLeak ==
  ASSUME CursorInv, NoIteratorLeak, NEW g \in Goroutines, closeIterator(g)
  PROVE  NoIteratorLeak'
  <1>1. PICK a \in Activations : a = Top(g)
    BY TopFacts DEF CursorInv, IInv, closeIterator, At
  <1> DEFINE t == closing[a]
  <1>2. /\ t # <<>>
        /\ status' = [status EXCEPT ![Head(t)] = "closed"]
        /\ closing' = [closing EXCEPT ![a] = Tail(t)]
        /\ iteratorFrames' = iteratorFrames /\ held' = held
    BY <1>1 DEF closeIterator, At, remaining, globals
  <1>3. /\ closing \in [Activations -> Seq(Iterators)]
        /\ status \in [Iterators -> {"unused", "open", "closed"}]
    BY DEF CursorInv, IInv, TypeOK
  <1>4. t \in Seq(Iterators)
    BY <1>3
  <1>5. closing'[a] = Tail(t) /\ \A b \in Activations : b # a => closing'[b] = closing[b]
    BY <1>2, <1>3
  <1>a. Head(t) = t[1] /\ t[1] \in Iterators
    <2> HIDE DEF t
    <2> QED
      BY <1>2, <1>4, SMT
  <1>6. status'[t[1]] = "closed" /\ \A i \in Iterators : i # t[1] => status'[i] = status[i]
    BY <1>2, <1>3, <1>a
  <1> HIDE DEF t
  <1>7. \A k \in DOMAIN t : k = 1 \/ (k - 1 \in DOMAIN Tail(t) /\ Tail(t)[k - 1] = t[k])
    BY <1>2, <1>4, SMT
  <1> SUFFICES ASSUME NEW i \in Iterators, status'[i] = "open"
               PROVE  InFrame(i)' \/ IsHeld(i)' \/ InClosing(i)'
    BY DEF NoIteratorLeak
  <1>8. i # t[1] /\ status[i] = "open"
    BY <1>6
  <1>9. InFrame(i) \/ IsHeld(i) \/ InClosing(i)
    BY <1>8 DEF NoIteratorLeak
  <1>10. (IsHeld(i) => IsHeld(i)') /\ (InFrame(i) => InFrame(i)')
    BY <1>2 DEF IsHeld, InFrame
  <1>11. ASSUME InClosing(i) PROVE InClosing(i)'
    <2>1. PICK b \in Activations : \E k \in DOMAIN closing[b] : closing[b][k] = i
      BY <1>11 DEF InClosing
    <2>2. CASE b = a
      <3>1. PICK k \in DOMAIN t : t[k] = i
        BY <2>1, <2>2 DEF t
      <3>2. k - 1 \in DOMAIN closing'[a] /\ closing'[a][k - 1] = i
        BY <3>1, <1>5, <1>7, <1>8
      <3> QED
        BY <3>2 DEF InClosing
    <2>3. CASE b # a
      BY <2>1, <2>3, <1>5 DEF InClosing
    <2> QED
      BY <2>2, <2>3
  <1> QED
    BY <1>9, <1>10, <1>11

\* A call that has paid for a scan has room in its frame for it, if the gas of a
\* call cannot pay for more scans than a frame has slots.
LEMMA NeverRejected ==
  ASSUME GasLimit <= FrameLenLimit, CursorInv, NEW g \in Goroutines
  PROVE  ~scanRejected(g)
  <1> SUFFICES ASSUME scanRejected(g) PROVE FALSE
    OBVIOUS
  <1>1. PICK a \in Activations : a = Top(g)
    BY TopFacts DEF CursorInv, IInv, scanRejected, At
  <1> DEFINE n == Len(iteratorFrames[callID[a]])
  <1>2. pc[a] = "store" /\ n >= FrameLenLimit
    BY <1>1 DEF scanRejected, At, frameIsFull
  <1>3. n \in Nat /\ gas[a] \in Nat
    <2>1. n \in Nat
      BY <1>2, OwnFrame DEF CursorInv
    <2>2. GasLimit \in Nat /\ gas[a] \in 0 .. GasLimit
      BY ConstantsAssumption DEF CursorInv, IInv, TypeOK
    <2> QED
      BY <2>1, <2>2, SMT
  <1>4. n + 1 + gas[a] <= GasLimit
    BY <1>2 DEF CursorInv, PaidInv, Scans, Inside
  <1> HIDE DEF n
  <1> QED
    BY <1>2, <1>3, <1>4, ConstantsAssumption, SMT

LEMMA LeakInductive ==
  ASSUME GasLimit <= FrameLenLimit, CursorInv, NoIteratorLeak, [Next]_vars
  PROVE  NoIteratorLeak'
  <1>1. ASSUME NEW g \in Goroutines, Call(g) \/ Step(g) PROVE NoIteratorLeak'
    <2>1. ASSUME NEW a \in Activations, Pushed(g, a) PROVE NoIteratorLeak'
      <3>1. /\ iteratorFrames' = iteratorFrames /\ closing' = closing /\ status' = status
            /\ held' = held
        BY <2>1 DEF Pushed, startCall, iterators
      <3> QED
        BY <3>1 DEF NoIteratorLeak, InFrame, IsHeld, InClosing
    <2>2. ASSUME NEW a \in Activations, a = Top(g), pc[a] # "store",
                 NEW l, NEW i, CallbackMove(a, l, i)
          PROVE  NoIteratorLeak'
      <3>1. /\ iteratorFrames' = iteratorFrames /\ closing' = closing /\ status' = status
            /\ held' = [held EXCEPT ![a] = i]
        BY <2>2 DEF CallbackMove
      <3>2. \A b \in Activations : b # a => held'[b] = held[b]
        BY <3>1 DEF CursorInv, IInv, TypeOK
      <3> QED
        BY <2>2, <3>1, <3>2, HoldsNothing, LetGo
    <2>3. CASE Call(g)
      BY <2>1, <2>3, CallStep DEF CursorInv
    <2>4. CASE cQueryExternal(g)
      BY <2>1, <2>4, QueryStep DEF CursorInv
    <2>5. CASE cScan(g)
      BY <2>5, ScanLeak
    <2>6. CASE storeIterator(g)
      BY <2>6, StoreLeak
    <2>7. CASE scanRejected(g)
      BY <2>7, NeverRejected
    <2>8. CASE \E n \in 0 .. MaxIterators - 1 : cNext(g, n)
      <3>1. PICK n \in 0 .. MaxIterators - 1 : cNext(g, n)
        BY <2>8
      <3>2. PICK a \in Activations : a = Top(g) /\ pc[a] # "store"
        BY <3>1, TopFacts DEF CursorInv, IInv, cNext, Operation, At
      <3> QED
        BY <2>2, <3>1, <3>2, NextStep DEF CursorInv
    <2>9. CASE advance(g)
      <3>1. PICK a \in Activations : a = Top(g) /\ pc[a] # "store"
        BY <2>9, TopFacts DEF CursorInv, IInv, advance, At
      <3> QED
        BY <2>2, <2>9, <3>1, AdvanceStep DEF CursorInv
    <2>10. CASE advancePanics(g)
      <3>1. PICK a \in Activations : a = Top(g) /\ pc[a] # "store"
        BY <2>10, TopFacts DEF CursorInv, IInv, advancePanics, At
      <3> QED
        BY <2>2, <2>10, <3>1, AdvancePanicsStep DEF CursorInv
    <2>11. CASE operationFails(g)
      <3>1. PICK a \in Activations : a = Top(g) /\ pc[a] # "store"
        BY <2>11, TopFacts DEF CursorInv, IInv, operationFails, Operation, At
      <3> QED
        BY <2>2, <2>11, <3>1, OperationFailsStep DEF CursorInv
    <2>12. CASE Return(g) \/ endCall(g)
      <3>1. /\ iteratorFrames' = iteratorFrames /\ closing' = closing /\ status' = status
            /\ held' = held
        BY <2>12 DEF Return, endCall, globals, iterators
      <3> QED
        BY <3>1 DEF NoIteratorLeak, InFrame, IsHeld, InClosing
    <2>13. CASE removeFrame(g)
      BY <2>13, RemoveFrameLeak
    <2>14. CASE closeIterator(g)
      BY <2>14, CloseIteratorLeak
    <2> QED
      BY <1>1, <2>3, <2>4, <2>5, <2>6, <2>7, <2>8, <2>9, <2>10, <2>11, <2>12, <2>13, <2>14
      DEF Step
  <1>2. CASE UNCHANGED vars
    <2>1. /\ iteratorFrames' = iteratorFrames /\ closing' = closing /\ status' = status
          /\ held' = held
      BY <1>2 DEF vars, globals, locals, iterators
    <2> QED
      BY <2>1 DEF NoIteratorLeak, InFrame, IsHeld, InClosing
  <1> QED
    BY <1>1, <1>2 DEF Next

\* As long as the gas of a call pays for no more scans than frameLenLimit, no
\* open iterator is lost: it is held by a running callback, stored in a frame or
\* about to be closed by endCall.  Without that bound storeIterator refuses the
\* iterator of a full frame and cScan drops it open.
THEOREM NeverLeaks ==
  ASSUME GasLimit <= FrameLenLimit
  PROVE  Spec => []NoIteratorLeak
  <1>1. Init => NoIteratorLeak
    BY DEF Init, NoIteratorLeak
  <1>2. CursorInv /\ NoIteratorLeak /\ [Next]_vars => NoIteratorLeak'
    BY LeakInductive
  <1> QED
    BY <1>1, <1>2, CursorInvariance, PTL DEF Spec

-----------------------------------------------------------------------------
(* The frames implement PrivateCursors.                                    *)

LEMMA ShownIs ==
  ASSUME IInv, NEW a \in Activations
  PROVE  /\ DOMAIN storage[a] = 1 .. Len(storage[a]) /\ Len(storage[a]) \in Nat
         /\ \A n \in 1 .. Len(storage[a]) :
              /\ n \in 1 .. Len(iteratorFrames[callID[a]])
              /\ iteratorFrames[callID[a]][n] \in Iterators
              /\ shown(a)[n] = pos[iteratorFrames[callID[a]][n]]
  <1>1. storage[a] \in Seq(References)
    BY DEF IInv, TypeOK
  <1>2. DOMAIN storage[a] = 1 .. Len(storage[a]) /\ Len(storage[a]) \in Nat
    BY <1>1, SMT
  <1>3. ASSUME NEW n \in 1 .. Len(storage[a])
        PROVE  /\ n \in 1 .. Len(iteratorFrames[callID[a]])
               /\ iteratorFrames[callID[a]][n] \in Iterators
               /\ shown(a)[n] = pos[iteratorFrames[callID[a]][n]]
    <2> DEFINE i == iteratorFrames[callID[a]][n]
    <2>1. /\ n \in 1 .. Len(iteratorFrames[callID[a]]) /\ i \in Iterators
          /\ retrieveIterator(storage[a][n].call_id, storage[a][n].iterator_id) = i
      BY Resolves
    <2>2. i # NoIterator
      BY <2>1, NoIteratorIsNone
    <2> HIDE DEF i
    <2>3. position(storage[a][n]) = pos[i]
      BY <2>1, <2>2 DEF position
    <2>4. shown(a)[n] = position(storage[a][n])
      BY <1>2 DEF shown
    <2> QED
      BY <2>1, <2>3, <2>4 DEF i
  <1> QED
    BY <1>2, <1>3

ShownInv ==
  \A a \in Activations : \A n \in 1 .. Len(storage[a]) :
    shown(a)[n] = pos[iteratorFrames[callID[a]][n]]

LEMMA ShownAlways == IInv => ShownInv
  BY ShownIs DEF ShownInv

\* What a contract sees changes only with its GoStorage, its frame and the
\* positions of the iterators in that frame.
LEMMA ShownSame ==
  ASSUME IInv, IInv', NEW a \in Activations, storage'[a] = storage[a],
         storage[a] # <<>> =>
           /\ callID'[a] = callID[a]
           /\ iteratorFrames'[callID[a]] = iteratorFrames[callID[a]],
         \A n \in 1 .. Len(storage[a]) :
           pos'[iteratorFrames[callID[a]][n]] = pos[iteratorFrames[callID[a]][n]]
  PROVE  shown(a)' = shown(a)
  <1>1. /\ DOMAIN storage[a] = 1 .. Len(storage[a])
        /\ \A n \in 1 .. Len(storage[a]) : shown(a)[n] = pos[iteratorFrames[callID[a]][n]]
    BY ShownIs
  <1>2. \A n \in 1 .. Len(storage'[a]) : (shown(a)')[n] = pos'[iteratorFrames'[callID'[a]][n]]
    <2>1. IInv' => ShownInv'
      BY ShownAlways, PTL
    <2> QED
      BY <2>1 DEF ShownInv
  <1>3. \A n \in 1 .. Len(storage[a]) : storage[a] # <<>>
    BY SMT
  <1>4. \A n \in 1 .. Len(storage[a]) : (shown(a)')[n] = shown(a)[n]
    <2> SUFFICES ASSUME NEW n \in 1 .. Len(storage[a]) PROVE (shown(a)')[n] = shown(a)[n]
      OBVIOUS
    <2>1. (shown(a)')[n] = pos'[iteratorFrames'[callID'[a]][n]]
      BY <1>2
    <2>2. iteratorFrames'[callID'[a]] = iteratorFrames[callID[a]]
      BY <1>3
    <2> QED
      BY <2>1, <2>2, <1>1
  <1>5. DOMAIN shown(a) = DOMAIN storage[a] /\ DOMAIN (shown(a)') = DOMAIN storage[a]
    BY DEF shown
  <1>6. /\ shown(a) = [n \in DOMAIN shown(a) |-> shown(a)[n]]
        /\ shown(a)' = [n \in DOMAIN (shown(a)') |-> (shown(a)')[n]]
    BY DEF shown
  <1> QED
    BY <1>1, <1>4, <1>5, <1>6

\* A step of a after which every other call sees the same cursors.
LEMMA OthersSee ==
  ASSUME IInv, IInv', NEW a \in Activations, OthersKeep(a),
         \A b \in Activations : \A n \in 1 .. Len(storage[b]) : b # a =>
           pos'[iteratorFrames[callID[b]][n]] = pos[iteratorFrames[callID[b]][n]]
  PROVE  \A b \in Activations : b # a => shown(b)' = shown(b)
  <1> SUFFICES ASSUME NEW b \in Activations, b # a
               PROVE  shown(b)' = shown(b)
    OBVIOUS
  <1>1. storage'[b] = storage[b]
    BY DEF OthersKeep
  <1>2. ASSUME storage[b] # <<>>
        PROVE  /\ callID'[b] = callID[b]
               /\ iteratorFrames'[callID[b]] = iteratorFrames[callID[b]]
    <2>1. pc[b] \in Inside
      BY <1>2 DEF IInv, StorageInv
    <2> QED
      BY <2>1 DEF OthersKeep, Inside
  <1> QED
    BY <1>1, <1>2, ShownSame

\* The four kinds of steps of PrivateCursors, by what each call sees.
LEMMA SeesNothing ==
  ASSUME \A a \in Activations : shown(a)' = shown(a)
  PROVE  seen' = seen
  BY DEF seen

LEMMA SeesScan ==
  ASSUME NEW a \in Activations, \A b \in Activations : b # a => shown(b)' = shown(b),
         Len(shown(a)) < FrameLenLimit, shown(a)' = Append(shown(a), 0)
  PROVE  Abstract!Next
  <1>1. seen[a] = shown(a)
    BY DEF seen
  <1>2. seen' = [seen EXCEPT ![a] = Append(seen[a], 0)]
    BY <1>1 DEF seen
  <1>3. Abstract!Scan(a)
    BY <1>1, <1>2 DEF Abstract!Scan
  <1> QED
    BY <1>3 DEF Abstract!Next

LEMMA SeesRead ==
  ASSUME NEW a \in Activations, \A b \in Activations : b # a => shown(b)' = shown(b),
         NEW n \in DOMAIN shown(a), shown(a)[n] < Items,
         shown(a)' = [shown(a) EXCEPT ![n] = shown(a)[n] + 1]
  PROVE  Abstract!Next
  <1>1. seen[a] = shown(a)
    BY DEF seen
  <1>2. seen' = [seen EXCEPT ![a] = [seen[a] EXCEPT ![n] = seen[a][n] + 1]]
    BY <1>1 DEF seen
  <1>3. Abstract!Read(a, n)
    BY <1>1, <1>2 DEF Abstract!Read
  <1> QED
    BY <1>1, <1>3 DEF Abstract!Next

LEMMA SeesDrop ==
  ASSUME NEW a \in Activations, \A b \in Activations : b # a => shown(b)' = shown(b),
         shown(a)' = <<>>
  PROVE  Abstract!Next
  <1>1. seen' = [seen EXCEPT ![a] = <<>>]
    BY DEF seen
  <1>2. Abstract!Drop(a)
    BY <1>1 DEF Abstract!Drop
  <1> QED
    BY <1>2 DEF Abstract!Next

\* Steps that keep the GoStorage and the frame of their own call, and all positions.
LEMMA QuietStep ==
  ASSUME IInv, IInv', NEW a \in Activations, OthersKeep(a), pos' = pos,
         storage'[a] = storage[a],
         storage[a] # <<>> =>
           /\ callID'[a] = callID[a]
           /\ iteratorFrames'[callID[a]] = iteratorFrames[callID[a]]
  PROVE  seen' = seen
  <1>1. \A b \in Activations : b # a => shown(b)' = shown(b)
    BY OthersSee
  <1>2. shown(a)' = shown(a)
    BY ShownSame
  <1> QED
    BY <1>1, <1>2, SeesNothing

\* A call whose GoStorage is gone or does not exist yet.
LEMMA NoStorage ==
  ASSUME IInv, NEW a \in Activations, pc[a] \notin Inside
  PROVE  storage[a] = <<>>
  BY DEF IInv, StorageInv

LEMMA ReturnDrops ==
  ASSUME CursorInv, CursorInv', NEW g \in Goroutines, Return(g), OthersKeep(Top(g))
  PROVE  Abstract!Next
  <1>1. PICK a \in Activations : a = Top(g)
    BY TopFacts DEF CursorInv, IInv, Return, At
  <1>2. storage' = [storage EXCEPT ![a] = <<>>] /\ pos' = pos
    BY <1>1 DEF Return, iterators
  <1>3. storage'[a] = <<>>
    BY <1>2 DEF CursorInv, IInv, TypeOK
  <1>4. \A b \in Activations : b # a => shown(b)' = shown(b)
    BY <1>1, <1>2, OthersSee DEF CursorInv
  <1>5. shown(a)' = <<>>
    <2> DEFINE t == shown(a)'
    <2>1. DOMAIN t = DOMAIN storage'[a] /\ t = [n \in DOMAIN t |-> t[n]]
      BY DEF shown
    <2>2. DOMAIN storage'[a] = {}
      BY <1>3, SMT
    <2> HIDE DEF t
    <2>3. t = <<>>
      BY <2>1, <2>2, SMT
    <2> QED
      BY <2>3 DEF t
  <1> QED
    BY <1>4, <1>5, SeesDrop

LEMMA StoreScans ==
  ASSUME CursorInv, CursorInv', NEW g \in Goroutines, storeIterator(g), OthersKeep(Top(g))
  PROVE  Abstract!Next
  <1>1. PICK a \in Activations, c \in CallIDs, len \in Nat, ref \in References :
          a = Top(g) /\ Stored(a, c, len, ref)
    BY StoreFacts DEF CursorInv
  <1>2. /\ c = callID[a] /\ callID' = callID /\ pos' = pos /\ pc[a] = "store"
        /\ len < FrameLenLimit /\ Len(storage[a]) = len /\ Len(storage'[a]) = len + 1
        /\ \A k \in 1 .. len : iteratorFrames'[c][k] = iteratorFrames[c][k]
        /\ iteratorFrames'[c][len + 1] = held[a]
    BY <1>1 DEF Stored
  <1>3. \A b \in Activations : b # a => shown(b)' = shown(b)
    BY <1>1, <1>2, OthersSee DEF CursorInv
  <1>4. /\ DOMAIN shown(a) = 1 .. len
        /\ \A k \in 1 .. len : shown(a)[k] = pos[iteratorFrames[c][k]]
    <2>1. DOMAIN shown(a) = DOMAIN storage[a]
      BY DEF shown
    <2> QED
      BY <2>1, <1>2, ShownIs DEF CursorInv
  <1>5. /\ DOMAIN (shown(a)') = 1 .. len + 1
        /\ \A k \in 1 .. len + 1 : (shown(a)')[k] = pos[iteratorFrames'[c][k]]
    <2>1. DOMAIN (shown(a)') = DOMAIN storage'[a]
      BY DEF shown
    <2>2. storage'[a] \in Seq(References)
      BY DEF CursorInv, IInv, TypeOK
    <2>3. DOMAIN storage'[a] = 1 .. len + 1
      BY <2>2, <1>2, SMT
    <2>4. ShownInv'
      BY ShownAlways, PTL DEF CursorInv
    <2> QED
      BY <2>1, <2>3, <2>4, <1>2, SMT DEF ShownInv
  <1>6. pos[held[a]] = 0
    BY <1>2 DEF CursorInv, FreshInv
  <1>7. len + 1 \in 1 .. len + 1 /\ \A k \in 1 .. len : k \in 1 .. len + 1
    BY SMT
  <1>8. /\ \A k \in 1 .. len : (shown(a)')[k] = shown(a)[k]
        /\ (shown(a)')[len + 1] = 0
    <2>1. \A k \in 1 .. len : (shown(a)')[k] = pos[iteratorFrames[c][k]]
      BY <1>2, <1>5, <1>7, SMT
    <2>2. (shown(a)')[len + 1] = pos[held[a]]
      BY <1>2, <1>5, <1>7, SMT
    <2> QED
      BY <2>1, <2>2, <1>4, <1>6
  <1>9. /\ shown(a) = [n \in DOMAIN shown(a) |-> shown(a)[n]]
        /\ shown(a)' = [n \in DOMAIN (shown(a)') |-> (shown(a)')[n]]
    BY DEF shown
  <1> DEFINE s == shown(a)
             t == shown(a)'
  <1>10. /\ DOMAIN s = 1 .. len /\ s = [n \in DOMAIN s |-> s[n]]
         /\ DOMAIN t = 1 .. len + 1 /\ t = [n \in DOMAIN t |-> t[n]]
         /\ \A k \in 1 .. len : t[k] = s[k]
         /\ t[len + 1] = 0
    BY <1>4, <1>5, <1>8, <1>9
  <1> HIDE DEF s, t
  <1>11. Len(s) = len /\ t = Append(s, 0)
    BY <1>10, SMT
  <1> QED
    BY <1>2, <1>3, <1>11, SeesScan DEF s, t

LEMMA AdvanceReads ==
  ASSUME CursorInv, CursorInv', NEW g \in Goroutines, advance(g), OthersKeep(Top(g))
  PROVE  Abstract!Next \/ seen' = seen
  <1>1. PICK a \in Activations : a = Top(g)
    BY TopFacts DEF CursorInv, IInv, advance, At
  <1> DEFINE i == held[a]
             f == iteratorFrames[callID[a]]
  <1>2. /\ pc[a] = "next"
        /\ pos' = IF pos[i] < Items THEN [pos EXCEPT ![i] = @ + 1] ELSE pos
        /\ storage' = storage /\ callID' = callID /\ iteratorFrames' = iteratorFrames
    BY <1>1 DEF advance, At, globals
  <1>3. CASE ~(pos[i] < Items)
    <2>1. pos' = pos
      BY <1>2, <1>3
    <2> QED
      BY <2>1, <1>1, <1>2, QuietStep DEF CursorInv
  <1>4. CASE pos[i] < Items
    <2>1. pos \in [Iterators -> 0 .. Items] /\ i \in Iterators
      BY <1>2 DEF CursorInv, IInv, TypeOK, HeldInv
    <2>2. pos'[i] = pos[i] + 1 /\ \A j \in Iterators : j # i => pos'[j] = pos[j]
      BY <2>1, <1>2, <1>4
    <2>3. PICK n \in 1 .. Len(f) : f[n] = i
      BY <1>2 DEF CursorInv, NextInv
    <2>4. callID[a] \in CallIDs /\ Len(storage[a]) = Len(f)
      BY <1>2, OwnFrame DEF CursorInv, IInv, StorageInv, Inside
    \* The frames of other calls do not hold this iterator.
    <2>5. \A b \in Activations : b # a => shown(b)' = shown(b)
      <3>1. ASSUME NEW b \in Activations, NEW k \in 1 .. Len(storage[b]), b # a
            PROVE  pos'[iteratorFrames[callID[b]][k]] = pos[iteratorFrames[callID[b]][k]]
        <4>1. /\ callID[b] \in CallIDs /\ k \in 1 .. Len(iteratorFrames[callID[b]])
              /\ iteratorFrames[callID[b]][k] \in Iterators
          BY Resolves DEF CursorInv
        <4>2. opener[iteratorFrames[callID[b]][k]] = callID[b]
          <5>1. FrameInv
            BY DEF CursorInv, IInv
          <5> QED
            BY <4>1, <5>1, SMT DEF FrameInv
        <4>3. opener[i] = callID[a]
          BY <1>2 DEF CursorInv, IInv, HeldInv
        <4>4. pc[b] # "idle"
          <5>1. storage[b] # <<>>
            BY SMT
          <5>2. pc[b] \in Inside
            BY <5>1, NoStorage DEF CursorInv
          <5> QED
            BY <5>2 DEF Inside
        <4>5. callID[b] # callID[a]
          BY <3>1, <4>4, <1>2 DEF CursorInv, IInv, IdInv
        <4> QED
          BY <4>1, <4>2, <4>3, <4>5, <2>2
      <3> QED
        BY <3>1, <1>1, OthersSee DEF CursorInv
    <2>6. /\ DOMAIN shown(a) = 1 .. Len(f)
          /\ \A k \in 1 .. Len(f) : f[k] \in Iterators /\ shown(a)[k] = pos[f[k]]
      <3>1. DOMAIN shown(a) = DOMAIN storage[a]
        BY DEF shown
      <3> QED
        BY <3>1, <2>4, ShownIs DEF CursorInv
    <2>7. /\ DOMAIN (shown(a)') = 1 .. Len(f)
          /\ \A k \in 1 .. Len(f) : (shown(a)')[k] = pos'[f[k]]
      <3>1. DOMAIN (shown(a)') = DOMAIN storage'[a] /\ DOMAIN shown(a) = DOMAIN storage[a]
        BY DEF shown
      <3>2. ShownInv'
        BY ShownAlways, PTL DEF CursorInv
      <3>3. \A k \in 1 .. Len(storage'[a]) : (shown(a)')[k] = pos'[iteratorFrames'[callID'[a]][k]]
        BY <3>2, SMT DEF ShownInv
      <3> QED
        BY <3>1, <3>3, <2>4, <2>6, <1>2
    <2>8. \A k \in 1 .. Len(f) : f[k] = i => k = n
      BY <2>3, <2>4, SMT DEF CursorInv, IInv, FrameInv
    <2>9. /\ shown(a) = [k \in DOMAIN shown(a) |-> shown(a)[k]]
          /\ shown(a)' = [k \in DOMAIN (shown(a)') |-> (shown(a)')[k]]
      BY DEF shown
    <2> DEFINE s == shown(a)
               t == shown(a)'
               D == 1 .. Len(f)
    <2>10. /\ n \in D /\ DOMAIN s = D /\ s = [k \in DOMAIN s |-> s[k]]
           /\ DOMAIN t = D /\ t = [k \in DOMAIN t |-> t[k]]
      BY <2>3, <2>6, <2>7, <2>9
    <2>11. s[n] = pos[i] /\ t[n] = s[n] + 1 /\ \A k \in D : k # n => t[k] = s[k]
      <3>1. s[n] = pos[i] /\ t[n] = pos[i] + 1
        BY <2>2, <2>3, <2>6, <2>7
      <3>2. \A k \in D : k # n => t[k] = s[k]
        <4> SUFFICES ASSUME NEW k \in D, k # n PROVE t[k] = s[k]
          OBVIOUS
        <4>1. f[k] \in Iterators /\ f[k] # i /\ s[k] = pos[f[k]] /\ t[k] = pos'[f[k]]
          BY <2>6, <2>7, <2>8
        <4> QED
          BY <4>1, <2>2
      <3> QED
        BY <3>1, <3>2
    <2> HIDE DEF s, t, D, i
    <2>12. t = [s EXCEPT ![n] = s[n] + 1]
      BY <2>10, <2>11
    <2>13. n \in DOMAIN s /\ s[n] < Items
      BY <2>10, <2>11, <1>4
    <2> QED
      BY <2>5, <2>12, <2>13, SeesRead DEF s, t
  <1> QED
    BY <1>3, <1>4

LEMMA EveryStep ==
  ASSUME CursorInv, [Next]_vars
  PROVE  Abstract!Next \/ seen' = seen
  <1>0. CursorInv' /\ IInv /\ IInv'
    <2>1. CursorInv'
      BY CursorsInductive
    <2> QED
      BY <2>1 DEF CursorInv
  <1>1. ASSUME NEW g \in Goroutines, Call(g) \/ Step(g) PROVE Abstract!Next \/ seen' = seen
    <2>1. ASSUME NEW a \in Activations, Pushed(g, a) PROVE seen' = seen
      <3>1. pc[a] = "idle" /\ OthersKeep(a)
        BY <2>1, <1>0, PushKeeps
      <3>2. pos' = pos /\ storage' = storage
        BY <2>1 DEF Pushed, startCall, iterators
      <3>3. storage[a] = <<>>
        BY <3>1, <1>0, NoStorage DEF Inside
      <3> QED
        BY <3>1, <3>2, <3>3, <1>0, QuietStep
    <2>2. ASSUME depth[g] > 0, OthersKeep(Top(g)), UNCHANGED <<storage, callID, iteratorFrames, pos>>
          PROVE  seen' = seen
      <3>1. Top(g) \in Activations
        BY <2>2, TopFacts DEF CursorInv, IInv
      <3>2. pos' = pos /\ storage' = storage /\ callID' = callID /\ iteratorFrames' = iteratorFrames
        BY <2>2
      <3> QED
        BY <2>2, <3>1, <3>2, <1>0, QuietStep
    <2>3. ASSUME depth[g] > 0, OthersKeep(Top(g)), UNCHANGED <<storage, pos>>,
                 pc[Top(g)] \in {"ending", "closing"}
          PROVE  seen' = seen
      <3>1. Top(g) \in Activations
        BY <2>3, TopFacts DEF CursorInv, IInv
      <3>2. storage[Top(g)] = <<>>
        BY <2>3, <3>1, <1>0, NoStorage DEF Inside
      <3>3. pos' = pos /\ storage' = storage
        BY <2>3
      <3> QED
        BY <2>3, <3>1, <3>2, <3>3, <1>0, QuietStep
    <2>4. CASE Call(g)
      BY <2>1, <2>4, <1>0, CallStep
    <2>5. CASE cQueryExternal(g)
      BY <2>1, <2>5, <1>0, QueryStep
    <2>6. CASE cScan(g)
      BY <2>2, <2>6, ScanKeeps DEF cScan, Operation, At, globals
    <2>7. CASE storeIterator(g)
      BY <2>7, <1>0, StoreKeeps, StoreScans
    <2>8. CASE scanRejected(g)
      BY <2>2, <2>8, ScanRejectedKeeps DEF scanRejected, At, globals, iterators
    <2>9. CASE \E n \in 0 .. MaxIterators - 1 : cNext(g, n)
      BY <2>2, <2>9, NextKeeps DEF cNext, Operation, At, globals, iterators
    <2>10. CASE advance(g)
      BY <2>10, <1>0, AdvanceKeeps, AdvanceReads
    <2>11. CASE advancePanics(g)
      BY <2>2, <2>11, AdvancePanicsKeeps DEF advancePanics, At, globals, iterators
    <2>12. CASE operationFails(g)
      BY <2>2, <2>12, OperationFailsKeeps DEF operationFails, Operation, At, globals, iterators
    <2>13. CASE Return(g)
      BY <2>13, <1>0, ReturnKeeps, ReturnDrops
    <2>14. CASE removeFrame(g)
      BY <2>3, <2>14, RemoveFrameKeeps DEF removeFrame, At, iterators
    <2>15. CASE closeIterator(g)
      BY <2>2, <2>15, CloseIteratorKeeps DEF closeIterator, At, globals
    <2>16. CASE endCall(g)
      BY <2>3, <2>16, EndCallKeeps DEF endCall, At, globals, iterators
    <2> QED
      BY <1>1, <2>4, <2>5, <2>6, <2>7, <2>8, <2>9, <2>10, <2>11, <2>12, <2>13, <2>14, <2>15, <2>16, SMT
      DEF Step
  <1>2. CASE UNCHANGED vars
    <2>1. storage' = storage /\ iteratorFrames' = iteratorFrames /\ pos' = pos
      BY <1>2 DEF vars, globals, locals, iterators
    <2> QED
      BY <2>1, SMT DEF seen, shown, position, retrieveIterator
  <1> QED
    BY <1>1, <1>2 DEF Next

\* The shared map of frames implements private cursors: scan gives a contract a
\* new iterator at its start, next moves exactly the iterator the contract asked
\* for, and no step of another call, nested or concurrent, opens, moves or drops
\* one of its iterators.
THEOREM CursorsStayPrivate == Spec => CursorsArePrivate
  <1>1. Init => Abstract!Init
    <2> SUFFICES ASSUME Init PROVE seen = [a \in Activations |-> <<>>]
      BY DEF Abstract!Init
    <2>1. \A a \in Activations : shown(a) = <<>>
      BY SMT DEF Init, shown
    <2> QED
      BY <2>1 DEF seen
  <1>2. CursorInv /\ [Next]_vars => [Abstract!Next]_seen
    BY EveryStep
  <1> QED
    BY <1>1, <1>2, CursorInvariance, PTL DEF Spec, CursorsArePrivate, Abstract!Spec
=============================================================================
