---------------------------- MODULE MemDBProofs -----------------------------
(***************************************************************************)
(* MemDB implements SnapshotStore, for any number of clients, iterators,   *)
(* keys and values and any size of the channels.                           *)
(*                                                                         *)
(* IInv, the inductive invariant, ties the goroutine of an iterator to the *)
(* lock and to its client: it walks only with the read lock, an operation  *)
(* works on an iterator of its own client, and what was received, what is  *)
(* in the channel and what is still to be visited follow each other in the *)
(* order of the iterator.                                                  *)
(*                                                                         *)
(* The lemma of a step says both that the step keeps IInv and which step   *)
(* of SnapshotStore it is.  The last part shows that a deadlock lasts.     *)
(***************************************************************************)
EXTENDS MemDB, FiniteSetTheorems, TLAPS

\* The steps are first-order: Zenon is the backend, and the leaves that reason
\* about numbers or sequences cite SMT.
USE Zenon

\* Where a client uses the iterator op[c].iter.
Using == {"open", "prime", "next", "drain"}

\* An operation of client c has the arguments it needs.
UseOK(c) ==
  /\ pc[c] = "get" => op[c].name = "Get"
  /\ pc[c] \in {"get", "lock", "write"} => op[c].key \in Keys
  /\ pc[c] \in {"lock", "write"} /\ op[c].name = "Set" => op[c].value \in Values
  /\ pc[c] \in Using => op[c].iter \in Iters /\ owner[op[c].iter] = c
  /\ pc[c] = "prime" => item[op[c].iter] = Nil
  /\ pc[c] = "next" => item[op[c].iter] # Nil
  /\ pc[c] = "drain" => done[op[c].iter]

\* A walk has the read lock; an iterator that is not made yet or not any more
\* has nothing; only Close cancels.
IterOK(i) ==
  /\ phase[i] # "none" => i \in readers
  /\ ~made(i) =>
       phase[i] # "walking" /\ ch[i] = << >> /\ item[i] = Nil /\ at[i] = Nil /\ ~done[i]
  /\ done[i] => owner[i] # Nil /\ pc[owner[i]] = "drain" /\ op[owner[i]].iter = i

\* Key k has been visited by the walk of iterator i.
Visited(i, k) == at[i] # Nil /\ (k = at[i] \/ Before(args[i].reverse, k, at[i]))

\* Items arrive in the order in which they are visited.
OrderOK(i) ==
  /\ item[i] # Nil => Visited(i, item[i][1])
  /\ \A n \in 1 .. Len(ch[i]) :
       /\ Visited(i, ch[i][n][1])
       /\ item[i] # Nil => Before(args[i].reverse, item[i][1], ch[i][n][1])
       /\ \A m \in 1 .. Len(ch[i]) : n < m => Before(args[i].reverse, ch[i][n][1], ch[i][m][1])

UseInv == \A c \in Clients : UseOK(c)
IterInv == \A i \in Iters : IterOK(i)
OrderInv == \A i \in Iters : OrderOK(i)

IInv == TypeOK /\ UseInv /\ IterInv /\ OrderInv

-----------------------------------------------------------------------------

\* What TypeOK says of the shape of the state, without the types of the data.
LEMMA Shapes ==
  ASSUME TypeOK
  PROVE  /\ pc \in [Clients -> Labels] /\ op \in [Clients -> Ops]
         /\ DOMAIN phase = Iters /\ DOMAIN owner = Iters /\ DOMAIN args = Iters
         /\ DOMAIN at = Iters /\ DOMAIN ch = Iters /\ DOMAIN item = Iters /\ DOMAIN done = Iters
BY DEF TypeOK

\* The order of an iterator does not depend on anything else.
LEMMA SameOrder ==
  ASSUME NEW i, OrderOK(i), args'[i] = args[i], at'[i] = at[i], ch'[i] = ch[i],
         item'[i] = item[i]
  PROVE  OrderOK(i)'
  BY DEF OrderOK, Visited

LEMMA Initially == Init => IInv
<1> SUFFICES ASSUME Init PROVE IInv
  OBVIOUS
<1>1. TypeOK
  BY MemDBAssumption, SMT DEF Init, TypeOK, NoOp, Operation, NoArgs, Ops, Labels, Phases
<1>2. UseInv
  BY DEF Init, UseInv, UseOK, Using
<1>3. IterInv
  BY DEF Init, IterInv, IterOK, made
<1>4. OrderInv
  BY SMT DEF Init, OrderInv, OrderOK
<1> QED
  BY <1>1, <1>2, <1>3, <1>4 DEF IInv

-----------------------------------------------------------------------------
(* Refinement: what the steps of MemDB are in SnapshotStore                *)

LEMMA AbstractInit == Init => Store!Init
<1> SUFFICES ASSUME Init PROVE Store!Init
  OBVIOUS
<1>1. \A c \in Clients : found(c) = Store!Nothing
  BY DEF Init, found, Store!Nothing, Store!Found
<1>2. \A i \in Iters : cursor(i) = Store!NoCursor
  BY DEF Init, cursor, made, Store!NoCursor, Store!Cursor
<1> QED
  BY <1>1, <1>2 DEF Init, Store!Init

LEMMA AbstractStutter ==
  ASSUME UNCHANGED btree, \A c \in Clients : found(c)' = found(c),
         \A i \in Iters : cursor(i)' = cursor(i)
  PROVE  UNCHANGED Store!vars
BY DEF Store!vars

LEMMA AbstractRead ==
  ASSUME NEW c \in Clients, NEW k \in Keys, UNCHANGED btree,
         found(c)' = Store!Found(k, IF k \in DOMAIN btree THEN btree[k] ELSE Nil),
         \A d \in Clients : d # c => found(d)' = found(d),
         \A i \in Iters : cursor(i)' = cursor(i)
  PROVE  Store!Next
<1>1. Store!Read(c, k)
  BY DEF Store!Read
<1> QED
  BY <1>1 DEF Store!Next

LEMMA AbstractWrite ==
  ASSUME NEW k \in Keys, NEW v \in Values,
         btree' = [x \in DOMAIN btree \cup {k} |-> IF x = k THEN v ELSE btree[x]],
         \A c \in Clients : found(c)' = found(c), \A i \in Iters : cursor(i)' = cursor(i)
  PROVE  Store!Next
<1>1. Store!Write(k, v)
  BY DEF Store!Write
<1> QED
  BY <1>1 DEF Store!Next

LEMMA AbstractRemove ==
  ASSUME NEW k \in Keys, btree' = [x \in DOMAIN btree \ {k} |-> btree[x]],
         \A c \in Clients : found(c)' = found(c), \A i \in Iters : cursor(i)' = cursor(i)
  PROVE  Store!Next
<1>1. Store!Remove(k)
  BY DEF Store!Remove
<1> QED
  BY <1>1 DEF Store!Next

LEMMA AbstractForget ==
  ASSUME NEW c \in Clients, UNCHANGED btree, found(c)' = Store!Nothing,
         \A d \in Clients : d # c => found(d)' = found(d),
         \A i \in Iters : cursor(i)' = cursor(i)
  PROVE  Store!Next
<1>1. Store!Forget(c)
  BY DEF Store!Forget
<1> QED
  BY <1>1 DEF Store!Next

LEMMA AbstractOpen ==
  ASSUME NEW i \in Iters, NEW start \in Keys \cup {Nil}, NEW end \in Keys \cup {Nil},
         NEW reverse \in BOOLEAN, UNCHANGED btree, \A c \in Clients : found(c)' = found(c),
         cursor(i) = Store!NoCursor,
         cursor(i)' = Store!Cursor(Store!ItemsBetween(btree, start, end), start, end, reverse),
         \A j \in Iters : j # i => cursor(j)' = cursor(j)
  PROVE  Store!Next
<1>1. Store!Open(i, start, end, reverse)
  BY DEF Store!Open
<1> QED
  BY <1>1 DEF Store!Next

LEMMA AbstractAdvance ==
  ASSUME NEW i \in Iters, NEW m \in cursor(i).ahead,
         UNCHANGED btree, \A c \in Clients : found(c)' = found(c),
         Store!IsFirst(m, cursor(i)),
         cursor(i)' = Store!Cursor(cursor(i).ahead \ {m}, cursor(i).start, cursor(i).end,
                                   cursor(i).reverse),
         \A j \in Iters : j # i => cursor(j)' = cursor(j)
  PROVE  Store!Next
<1>1. Store!Advance(i)
  BY DEF Store!Advance
<1> QED
  BY <1>1 DEF Store!Next

LEMMA AbstractClose ==
  ASSUME NEW i \in Iters, UNCHANGED btree, \A c \in Clients : found(c)' = found(c),
         cursor(i)' = Store!NoCursor, \A j \in Iters : j # i => cursor(j)' = cursor(j)
  PROVE  Store!Next
<1>1. Store!Close(i)
  BY DEF Store!Close
<1> QED
  BY <1>1 DEF Store!Next


\* A client that does nothing has found what it had found.
LEMMA SameFound ==
  ASSUME NEW c \in Clients, pc'[c] = pc[c], op'[c] = op[c]
  PROVE  found(c)' = found(c)
BY DEF found

\* A client has found something only at the end of a Get.
LEMMA NothingFound ==
  ASSUME NEW c \in Clients, pc[c] # "return" \/ op[c].name # "Get"
  PROVE  found(c) = Store!Nothing
BY DEF found, Store!Nothing, Store!Found

LEMMA NothingFoundNext ==
  ASSUME NEW c \in Clients, pc'[c] # "return" \/ op'[c].name # "Get"
  PROVE  found(c)' = Store!Nothing
BY DEF found, Store!Nothing, Store!Found

\* An iterator that no step concerns has the same cursor: the tree is the same
\* while the goroutine walks.
LEMMA SameCursor ==
  ASSUME NEW j \in Iters, made(j)' <=> made(j),
         phase'[j] = phase[j], args'[j] = args[j], at'[j] = at[j], ch'[j] = ch[j],
         item'[j] = item[j], done'[j] = done[j], phase[j] = "walking" => UNCHANGED btree
  PROVE  cursor(j)' = cursor(j)
<1>1. toSend(j)' = toSend(j)
  <2>1. CASE phase[j] = "walking"
    BY <2>1 DEF toSend, ahead, aborts, skipEqual, abortLessThan
  <2>2. CASE phase[j] # "walking"
    BY <2>2 DEF toSend
  <2> QED
    BY <2>1, <2>2
<1>2. toCome(j)' = toCome(j)
  BY <1>1 DEF toCome
<1> QED
  BY <1>2 DEF cursor

-----------------------------------------------------------------------------
(* Steps of clients that do not work on an iterator                        *)

\* A step of client c alone that leaves the iterators as they are.
Quiet(c) ==
  /\ pc[c] \notin Using /\ pc'[c] \notin Using
  /\ \A d \in Clients : d # c => pc'[d] = pc[d] /\ op'[d] = op[d]
  /\ pc'[c] = "get" => op'[c].name = "Get"
  /\ pc'[c] \in {"get", "lock", "write"} => op'[c].key \in Keys
  /\ pc'[c] \in {"lock", "write"} /\ op'[c].name = "Set" => op'[c].value \in Values
  /\ UNCHANGED iterators
  /\ \A i \in Iters : i \in readers => i \in readers'

\* It keeps what the invariant says of the iterators and of the other clients.
LEMMA QuietStep ==
  ASSUME IInv, NEW c \in Clients, Quiet(c)
  PROVE  UseInv' /\ IterInv' /\ OrderInv'
<1> USE DEF IInv, iterators, Quiet
<1>1. owner \in [Iters -> Clients \cup {Nil}]
  BY DEF TypeOK
<1>2. OrderInv'
  BY SMT DEF OrderInv, OrderOK, Visited
<1>3. ASSUME NEW i \in Iters PROVE IterOK(i)'
  <2>1. made(i) <=> made(i)'
    BY <1>1, MemDBAssumption DEF made, Using
  <2>2. IterOK(i)
    BY DEF IterInv
  <2>3. phase'[i] # "none" => i \in readers'
    BY <2>2 DEF IterOK
  <2>4. ~made(i)' => phase'[i] # "walking" /\ ch'[i] = << >> /\ item'[i] = Nil
                       /\ at'[i] = Nil /\ ~done'[i]
    BY <2>1, <2>2 DEF IterOK
  <2>5. done'[i] => owner'[i] # Nil /\ pc'[owner'[i]] = "drain" /\ op'[owner'[i]].iter = i
    BY <1>1, <2>2 DEF IterOK, Using
  <2> QED
    BY <2>3, <2>4, <2>5 DEF IterOK
<1>4. ASSUME NEW d \in Clients PROVE UseOK(d)'
  <2>1. CASE d = c
    BY <2>1 DEF UseOK, Using
  <2>2. CASE d # c
    BY <2>2, SMT DEF UseInv, UseOK
  <2> QED
    BY <2>1, <2>2
<1> QED
  BY <1>2, <1>3, <1>4 DEF IterInv, UseInv

LEMMA QuietCursors ==
  ASSUME IInv, NEW c \in Clients, Quiet(c),
         \A j \in Iters : phase[j] = "walking" => UNCHANGED btree
  PROVE  \A j \in Iters : cursor(j)' = cursor(j)
<1> SUFFICES ASSUME NEW j \in Iters PROVE cursor(j)' = cursor(j)
  OBVIOUS
<1>1. owner[j] \in Clients \cup {Nil}
  BY DEF IInv, TypeOK
<1>2. made(j)' <=> made(j)
  BY <1>1, MemDBAssumption DEF Quiet, made, Using, iterators
<1> QED
  BY <1>2, SameCursor DEF Quiet, iterators

\* A quiet step that finds nothing and leaves the tree alone.
LEMMA QuietStutter ==
  ASSUME IInv, NEW c \in Clients, Quiet(c), UNCHANGED btree,
         pc[c] # "return", pc'[c] # "return" \/ op'[c].name # "Get"
  PROVE  UNCHANGED Store!vars
<1>1. \A d \in Clients : found(d)' = found(d)
  BY SameFound, NothingFound, NothingFoundNext DEF Quiet
<1> QED
  BY <1>1, QuietCursors, AbstractStutter

LEMMA FailsStep ==
  ASSUME IInv, NEW c \in Clients, pc[c] = "idle",
         NEW err \in {"errKeyEmpty", "errValueNil"}, Fails(c, err)
  PROVE  IInv' /\ UNCHANGED Store!vars
<1> USE DEF IInv, Fails, Starts
<1>1. TypeOK'
  BY MemDBAssumption DEF TypeOK, Labels, Ops, Operation, NoOp, lock, iterators
<1>2. Quiet(c) /\ op'[c].name # "Get"
  BY Shapes DEF Quiet, Using, Operation, NoOp, lock
<1> QED
  BY <1>1, <1>2, QuietStep, QuietStutter

\* RLock adds nobody but the one who calls it, and takes the lock from nobody.
LEMMA RLockFacts ==
  ASSUME TypeOK, NEW t \in Clients \cup Iters, RLock(t)
  PROVE  /\ readers \subseteq readers' /\ readers' \subseteq Clients \cup Iters
         /\ queued' \subseteq Clients \cup Iters /\ writer' \in Clients \cup {Nil}
BY DEF TypeOK, RLock

LEMMA GetStep ==
  ASSUME IInv, NEW c \in Clients, NEW k \in Keys \cup {Empty}, Get(c, k)
  PROVE  IInv' /\ UNCHANGED Store!vars
<1>1. CASE k = Empty
  BY <1>1, FailsStep DEF Get
<1>2. CASE k # Empty
  <2> USE DEF IInv
  <2>1. /\ pc[c] = "idle" /\ k \in Keys
        /\ pc' = [pc EXCEPT ![c] = "get"]
        /\ op' = [op EXCEPT ![c] = Operation("Get", k, Nil, Nil)]
        /\ RLock(c) /\ UNCHANGED <<btree, iterators>>
    BY <1>2 DEF Get, Starts
  <2>2. TypeOK'
    BY <2>1, RLockFacts, MemDBAssumption DEF TypeOK, Labels, Ops, Operation, NoOp, iterators
  <2>3. Quiet(c) /\ pc'[c] = "get"
    BY <2>1, RLockFacts, Shapes DEF Quiet, Using, Operation, NoOp, lock
  <2> QED
    BY <2>1, <2>2, <2>3, QuietStep, QuietStutter
<1> QED
  BY <1>1, <1>2

LEMMA SetStep ==
  ASSUME IInv, NEW c \in Clients, NEW k \in Keys \cup {Empty},
         NEW v \in Values \cup {Nil}, Set(c, k, v)
  PROVE  IInv' /\ UNCHANGED Store!vars
<1>1. CASE k = Empty \/ v = Nil
  BY <1>1, FailsStep DEF Set
<1>2. CASE k # Empty /\ v # Nil
  <2> USE DEF IInv
  <2>1. /\ pc[c] = "idle" /\ k \in Keys /\ v \in Values
        /\ pc' = [pc EXCEPT ![c] = "lock"]
        /\ op' = [op EXCEPT ![c] = Operation("Set", k, v, Nil)]
        /\ UNCHANGED <<btree, lock, iterators>>
    BY <1>2 DEF Set, Starts
  <2>2. TypeOK'
    BY <2>1 DEF TypeOK, Labels, Ops, Operation, NoOp, lock, iterators
  <2>3. Quiet(c) /\ pc'[c] = "lock"
    BY <2>1, Shapes DEF Quiet, Using, Operation, NoOp, lock
  <2> QED
    BY <2>1, <2>2, <2>3, QuietStep, QuietStutter
<1> QED
  BY <1>1, <1>2

LEMMA DeleteStep ==
  ASSUME IInv, NEW c \in Clients, NEW k \in Keys \cup {Empty}, Delete(c, k)
  PROVE  IInv' /\ UNCHANGED Store!vars
<1>1. CASE k = Empty
  BY <1>1, FailsStep DEF Delete
<1>2. CASE k # Empty
  <2> USE DEF IInv
  <2>1. /\ pc[c] = "idle" /\ k \in Keys
        /\ pc' = [pc EXCEPT ![c] = "lock"]
        /\ op' = [op EXCEPT ![c] = Operation("Delete", k, Nil, Nil)]
        /\ UNCHANGED <<btree, lock, iterators>>
    BY <1>2 DEF Delete, Starts
  <2>2. TypeOK'
    BY <2>1, MemDBAssumption DEF TypeOK, Labels, Ops, Operation, NoOp, lock, iterators
  <2>3. Quiet(c) /\ pc'[c] = "lock"
    BY <2>1, Shapes DEF Quiet, Using, Operation, NoOp, lock
  <2> QED
    BY <2>1, <2>2, <2>3, QuietStep, QuietStutter
<1> QED
  BY <1>1, <1>2

LEMMA ReadStep ==
  ASSUME IInv, NEW c \in Clients, read(c)
  PROVE  IInv' /\ Store!Next
<1> USE DEF IInv
<1> DEFINE v == IF op[c].key \in DOMAIN btree THEN btree[op[c].key] ELSE Nil
           o == Operation("Get", op[c].key, v, Nil)
<1>1. /\ pc[c] = "get" /\ pc' = [pc EXCEPT ![c] = "return"] /\ op' = [op EXCEPT ![c] = o]
      /\ UNCHANGED <<btree, lock, iterators>>
  BY DEF read, Starts
<1>2. op[c] \in Ops /\ o \in Ops
  BY DEF TypeOK, Ops, Operation
<1>3. TypeOK'
  BY <1>1, <1>2 DEF TypeOK, Labels, lock, iterators
<1>4. Quiet(c)
  BY <1>1, Shapes DEF Quiet, Using, Operation, NoOp, lock
<1>5. Store!Next
  <2>1. op[c].key \in Keys
    BY <1>1 DEF UseInv, UseOK
  <2>2. found(c)' = Store!Found(op[c].key, v)
    BY <1>1 DEF TypeOK, found, Operation, Store!Found
  <2>3. \A d \in Clients : d # c => found(d)' = found(d)
    BY <1>4, SameFound DEF Quiet
  <2> QED
    BY <1>1, <1>4, <2>1, <2>2, <2>3, QuietCursors, AbstractRead
<1> QED
  BY <1>3, <1>4, <1>5, QuietStep

LEMMA LockStep ==
  ASSUME IInv, NEW c \in Clients, Lock(c)
  PROVE  IInv' /\ UNCHANGED Store!vars
<1> USE DEF IInv
<1>1. /\ pc[c] = "lock" /\ writer' = c /\ pc' = [pc EXCEPT ![c] = "write"]
      /\ UNCHANGED <<btree, readers, queued, op, iterators>>
  BY DEF Lock
<1>2. TypeOK'
  BY <1>1 DEF TypeOK, Labels, iterators
<1>3. Quiet(c) /\ pc'[c] = "write"
  BY <1>1, Shapes DEF Quiet, Using, UseInv, UseOK, Operation, NoOp, lock
<1> QED
  BY <1>1, <1>2, <1>3, QuietStep, QuietStutter

LEMMA WriteStep ==
  ASSUME IInv, NEW c \in Clients, write(c)
  PROVE  IInv' /\ Store!Next
<1> USE DEF IInv
<1>1. /\ pc[c] = "write" /\ pc' = [pc EXCEPT ![c] = "return"]
      /\ op' = [op EXCEPT ![c] = NoOp]
      /\ UNCHANGED <<lock, iterators>>
  BY DEF write, Starts
<1>2. op[c].key \in Keys /\ (op[c].name = "Set" => op[c].value \in Values)
  BY <1>1 DEF UseInv, UseOK
<1>3. DOMAIN btree' \subseteq Keys /\ \A k \in DOMAIN btree' : btree'[k] \in Values
  BY <1>2 DEF write, TypeOK
<1>4. TypeOK'
  BY <1>1, <1>3, MemDBAssumption DEF TypeOK, Labels, Ops, Operation, NoOp, lock, iterators
<1>5. Quiet(c)
  BY <1>1, Shapes DEF Quiet, Using, Operation, NoOp, lock
<1>6. Store!Next
  <2>1. \A d \in Clients : found(d)' = found(d)
    <3>1. op'[c].name # "Get"
      BY <1>1, Shapes DEF Operation, NoOp
    <3> QED
      BY <1>1, <1>5, <3>1, SameFound, NothingFound, NothingFoundNext DEF Quiet
  <2>2. \A i \in Iters : phase[i] # "walking"
    BY DEF write, noReaders, IterInv, IterOK
  <2>3. \A i \in Iters : cursor(i)' = cursor(i)
    BY <1>5, <2>2, QuietCursors
  <2>4. CASE op[c].name = "Set"
    <3>1. btree' = [x \in DOMAIN btree \cup {op[c].key} |->
                      IF x = op[c].key THEN op[c].value ELSE btree[x]]
      BY <2>4 DEF write
    <3> QED
      BY <1>2, <2>1, <2>3, <2>4, <3>1, AbstractWrite
  <2>5. CASE op[c].name # "Set"
    <3>1. btree' = [x \in DOMAIN btree \ {op[c].key} |-> btree[x]]
      BY <2>5 DEF write
    <3> QED
      BY <1>2, <2>1, <2>3, <3>1, AbstractRemove
  <2> QED
    BY <2>4, <2>5
<1> QED
  BY <1>4, <1>5, <1>6, QuietStep

LEMMA ReturnStep ==
  ASSUME IInv, NEW c \in Clients, Return(c)
  PROVE  IInv' /\ Store!Next
<1> USE DEF IInv
<1>1. /\ pc[c] = "return" /\ pc' = [pc EXCEPT ![c] = "idle"]
      /\ op' = [op EXCEPT ![c] = NoOp]
      /\ UNCHANGED btree /\ UNCHANGED iterators
  BY DEF Return, Starts
<1>2. /\ readers' \subseteq Clients \cup Iters /\ queued' \subseteq Clients \cup Iters
      /\ writer' \in Clients \cup {Nil}
      /\ \A i \in Iters : i \in readers => i \in readers'
  BY MemDBAssumption, SMT DEF Return, RUnlock, Unlock, TypeOK
<1>3. TypeOK'
  BY <1>1, <1>2, MemDBAssumption DEF TypeOK, Labels, Ops, Operation, NoOp, iterators
<1>4. Quiet(c)
  BY <1>1, <1>2, Shapes DEF Quiet, Using, Operation, NoOp, lock
<1>5. Store!Next
  <2>1. pc'[c] = "idle" /\ \A d \in Clients : d # c => found(d)' = found(d)
    BY <1>1, <1>4, SameFound DEF Quiet, TypeOK
  <2> QED
    BY <1>1, <1>4, <2>1, NothingFoundNext, QuietCursors, AbstractForget
<1> QED
  BY <1>3, <1>4, <1>5, QuietStep

-----------------------------------------------------------------------------
(* Steps of clients on an iterator                                         *)

\* A step that leaves all iterators but i alone.
OnlyIter(i) ==
  \A j \in Iters : j # i =>
    /\ phase'[j] = phase[j] /\ owner'[j] = owner[j] /\ args'[j] = args[j] /\ at'[j] = at[j]
    /\ ch'[j] = ch[j] /\ item'[j] = item[j] /\ done'[j] = done[j]
    /\ j \in readers => j \in readers'

\* A step of client c on iterator i, which is its own or nobody's.
OnIterator(c, i) ==
  /\ pc[c] \in Using => op[c].iter = i
  /\ pc'[c] \in Using => op'[c].iter = i
  /\ \A d \in Clients : d # c => pc'[d] = pc[d] /\ op'[d] = op[d]
  /\ owner[i] \in {c, Nil}
  /\ OnlyIter(i)

LEMMA OnIteratorStep ==
  ASSUME IInv, NEW c \in Clients, NEW i \in Iters, OnIterator(c, i),
         UseOK(c)', IterOK(i)', OrderOK(i)'
  PROVE  UseInv' /\ IterInv' /\ OrderInv'
<1>1. /\ owner \in [Iters -> Clients \cup {Nil}] /\ owner[i] \in {c, Nil}
      /\ \A d \in Clients : d # c => pc'[d] = pc[d] /\ op'[d] = op[d]
      /\ pc[c] \in Using => op[c].iter = i
      /\ pc'[c] \in Using => op'[c].iter = i
  BY DEF IInv, TypeOK, OnIterator
<1>2. ASSUME NEW d \in Clients PROVE UseOK(d)'
  <2> SUFFICES ASSUME d # c PROVE UseOK(d)'
    OBVIOUS
  <2>1. UseOK(d) /\ pc'[d] = pc[d] /\ op'[d] = op[d]
    BY <1>1 DEF IInv, UseInv
  <2>2. pc[d] \in Using => op[d].iter \in Iters /\ op[d].iter # i
    BY <1>1, <2>1, MemDBAssumption, SMT DEF UseOK
  <2>3. pc[d] \in Using => /\ owner'[op[d].iter] = owner[op[d].iter]
                           /\ item'[op[d].iter] = item[op[d].iter]
                           /\ done'[op[d].iter] = done[op[d].iter]
    BY <2>2 DEF OnIterator, OnlyIter
  <2> QED
    BY <2>1, <2>3 DEF UseOK, Using
<1>3. ASSUME NEW j \in Iters PROVE IterOK(j)'
  <2> SUFFICES ASSUME j # i PROVE IterOK(j)'
    OBVIOUS
  <2>1. IterOK(j)
    BY DEF IInv, IterInv
  <2>2. /\ phase'[j] = phase[j] /\ owner'[j] = owner[j] /\ at'[j] = at[j] /\ ch'[j] = ch[j]
        /\ item'[j] = item[j] /\ done'[j] = done[j] /\ (j \in readers => j \in readers')
    BY DEF OnIterator, OnlyIter
  <2>3. made(j) <=> made(j)'
    BY <1>1, <2>2, MemDBAssumption, SMT DEF made, Using
  <2>4. phase'[j] # "none" => j \in readers'
    BY <2>1, <2>2 DEF IterOK
  <2>5. ~made(j)' => phase'[j] # "walking" /\ ch'[j] = << >> /\ item'[j] = Nil
                       /\ at'[j] = Nil /\ ~done'[j]
    BY <2>1, <2>2, <2>3 DEF IterOK
  <2>6. done'[j] => owner'[j] # Nil /\ pc'[owner'[j]] = "drain" /\ op'[owner'[j]].iter = j
    BY <1>1, <2>1, <2>2, SMT DEF IterOK, Using
  <2> QED
    BY <2>4, <2>5, <2>6 DEF IterOK
<1>4. ASSUME NEW j \in Iters PROVE OrderOK(j)'
  <2>1. CASE j # i
    <3>1. args'[j] = args[j] /\ at'[j] = at[j] /\ ch'[j] = ch[j] /\ item'[j] = item[j]
      BY <2>1 DEF OnIterator, OnlyIter
    <3>2. OrderOK(j)
      BY DEF IInv, OrderInv
    <3> QED
      BY <3>1, <3>2, SameOrder
  <2> QED
    BY <2>1
<1> QED
  BY <1>2, <1>3, <1>4 DEF UseInv, IterInv, OrderInv

LEMMA OtherCursors ==
  ASSUME IInv, NEW c \in Clients, NEW i \in Iters, OnIterator(c, i), UNCHANGED btree
  PROVE  \A j \in Iters : j # i => cursor(j)' = cursor(j)
<1> SUFFICES ASSUME NEW j \in Iters, j # i PROVE cursor(j)' = cursor(j)
  OBVIOUS
<1>1. /\ phase'[j] = phase[j] /\ owner'[j] = owner[j] /\ args'[j] = args[j] /\ at'[j] = at[j]
      /\ ch'[j] = ch[j] /\ item'[j] = item[j] /\ done'[j] = done[j]
  BY DEF OnIterator, OnlyIter
<1>2. made(j)' <=> made(j)
  <2>1. owner[j] \in Clients \cup {Nil} /\ owner[i] \in {c, Nil}
    BY DEF IInv, TypeOK, OnIterator
  <2> QED
    BY <1>1, <2>1, MemDBAssumption, SMT DEF OnIterator, made, Using
<1> QED
  BY <1>1, <1>2, SameCursor

\* An iterator that is not made yet, or is closed, has no cursor.
LEMMA NoCursorYet ==
  ASSUME NEW i \in Iters, ~made(i) \/ done[i]
  PROVE  cursor(i) = Store!NoCursor
BY DEF cursor, Store!NoCursor, Store!Cursor

LEMMA NoCursorNext ==
  ASSUME NEW i \in Iters, ~made(i)' \/ done'[i]
  PROVE  cursor(i)' = Store!NoCursor
BY DEF cursor, Store!NoCursor, Store!Cursor

\* Operations on iterators find nothing.
LEMMA OnIteratorFound ==
  ASSUME NEW c \in Clients, NEW i \in Iters, OnIterator(c, i),
         pc[c] # "return", pc'[c] # "return"
  PROVE  \A d \in Clients : found(d)' = found(d)
BY SameFound, NothingFound, NothingFoundNext DEF OnIterator

\* A step on an iterator that is not made or closed, before and after it.
LEMMA NoCursorStutter ==
  ASSUME IInv, NEW c \in Clients, NEW i \in Iters, OnIterator(c, i), UNCHANGED btree,
         pc[c] # "return", pc'[c] # "return",
         ~made(i) \/ done[i], ~made(i)' \/ done'[i]
  PROVE  UNCHANGED Store!vars
<1>1. \A j \in Iters : cursor(j)' = cursor(j)
  BY NoCursorYet, NoCursorNext, OtherCursors
<1> QED
  BY <1>1, OnIteratorFound, AbstractStutter

\* The goroutine of iterator i makes a step.
Walks(i) ==
  /\ UNCHANGED <<pc, op, owner, args, item, done>>
  /\ OnlyIter(i)

LEMMA WalksStep ==
  ASSUME IInv, NEW i \in Iters, Walks(i), IterOK(i)', OrderOK(i)'
  PROVE  UseInv' /\ IterInv' /\ OrderInv'
<1>1. UseInv'
  <2>1. ASSUME NEW d \in Clients PROVE UseOK(d)'
    <3>1. UseOK(d)
      BY DEF IInv, UseInv
    <3> QED
      BY <3>1 DEF UseOK, Walks
  <2> QED
    BY <2>1 DEF UseInv
<1>2. ASSUME NEW j \in Iters, j # i PROVE IterOK(j)' /\ OrderOK(j)'
  <2>1. /\ phase'[j] = phase[j] /\ args'[j] = args[j] /\ at'[j] = at[j] /\ ch'[j] = ch[j]
        /\ item'[j] = item[j] /\ (j \in readers => j \in readers')
    BY <1>2 DEF Walks, OnlyIter
  <2>2. IterOK(j) /\ OrderOK(j)
    BY <1>2 DEF IInv, IterInv, OrderInv
  <2>3. IterOK(j)'
    BY <2>1, <2>2 DEF IterOK, Walks, made
  <2> QED
    BY <2>1, <2>2, <2>3, SameOrder
<1> QED
  BY <1>1, <1>2 DEF IterInv, OrderInv


LEMMA CursorsOfOthersWalk ==
  ASSUME IInv, NEW i \in Iters, Walks(i), UNCHANGED btree
  PROVE  \A j \in Iters : j # i => cursor(j)' = cursor(j)
<1> SUFFICES ASSUME NEW j \in Iters, j # i PROVE cursor(j)' = cursor(j)
  OBVIOUS
<1>1. made(j)' <=> made(j)
  BY DEF Walks, made
<1> QED
  BY <1>1, SameCursor DEF Walks, OnlyIter


LEMMA IteratorStep ==
  ASSUME IInv, NEW c \in Clients, NEW i \in Iters, NEW start \in Bounds, NEW end \in Bounds,
         NEW reverse \in BOOLEAN, Iterator(c, i, start, end, reverse)
  PROVE  IInv' /\ UNCHANGED Store!vars
<1>1. CASE Empty \in {start, end}
  BY <1>1, FailsStep DEF Iterator
<1>2. CASE Empty \notin {start, end}
  <2> USE DEF IInv
  <2>1. /\ pc[c] = "idle" /\ owner[i] = Nil /\ phase[i] = "none"
        /\ pc' = [pc EXCEPT ![c] = "open"]
        /\ op' = [op EXCEPT ![c] = Operation("Iterator", Nil, Nil, i)]
        /\ RLock(i)
        /\ owner' = [owner EXCEPT ![i] = c]
        /\ args' = [args EXCEPT ![i] = [start |-> start, end |-> end, reverse |-> reverse]]
        /\ UNCHANGED <<btree, phase, at, ch, item, done>>
    BY <1>2 DEF Iterator, Starts
  <2>2. start \in Keys \cup {Nil} /\ end \in Keys \cup {Nil}
    BY <1>2, MemDBAssumption
  <2>3. TypeOK'
    BY <2>1, <2>2, RLockFacts, MemDBAssumption DEF TypeOK, Labels, Ops, Operation
  <2>4. /\ pc'[c] = "open" /\ op'[c].iter = i /\ owner'[i] = c
        /\ \A d \in Clients : d # c => pc'[d] = pc[d] /\ op'[d] = op[d]
    BY <2>1, Shapes DEF Operation
  <2>5. ch[i] = << >> /\ item[i] = Nil /\ at[i] = Nil /\ ~done[i]
    BY <2>1 DEF IterInv, IterOK, made
  <2>6. OnIterator(c, i)
    BY <2>1, <2>4, RLockFacts, Shapes DEF OnIterator, OnlyIter, Using
  <2>7. UseOK(c)'
    BY <2>4 DEF UseOK, Using
  <2>8. IterOK(i)'
    BY <2>1, <2>4, <2>5 DEF IterOK, made
  <2>9. OrderOK(i)'
    BY <2>1, <2>5, SMT DEF OrderOK
  <2>10. UNCHANGED Store!vars
    <3>1. ~made(i) /\ ~made(i)'
      BY <2>1, <2>4 DEF made
    <3> QED
      BY <2>1, <2>4, <2>6, <3>1, NoCursorStutter
  <2> QED
    BY <2>3, <2>10, <2>6, <2>7, <2>8, <2>9, OnIteratorStep
<1> QED
  BY <1>1, <1>2

\* The iterator that client c works on.
LEMMA UsesIterator ==
  ASSUME IInv, NEW c \in Clients, pc[c] \in Using
  PROVE  \E i \in Iters : i = op[c].iter /\ owner[i] = c
BY DEF IInv, UseInv, UseOK

LEMMA NewMemDBIteratorStep ==
  ASSUME IInv, NEW c \in Clients, newMemDBIterator(c)
  PROVE  IInv' /\ Store!Next
<1> USE DEF IInv
<1>1. PICK i \in Iters : i = op[c].iter /\ owner[i] = c
  BY UsesIterator DEF newMemDBIterator, Using
<1>2. /\ pc[c] = "open" /\ i \in readers
      /\ phase' = [phase EXCEPT ![i] = "walking"]
      /\ pc' = [pc EXCEPT ![c] = "prime"]
      /\ UNCHANGED <<btree, lock, op, owner, args, at, ch, item, done>>
  BY <1>1 DEF newMemDBIterator
<1>3. ch[i] = << >> /\ item[i] = Nil /\ at[i] = Nil /\ ~done[i]
  BY <1>1, <1>2 DEF IterInv, IterOK, made
<1>4. TypeOK'
  BY <1>2 DEF TypeOK, Labels, Phases, lock
<1>5. /\ pc'[c] = "prime" /\ op'[c].iter = i /\ owner'[i] = c
      /\ \A d \in Clients : d # c => pc'[d] = pc[d] /\ op'[d] = op[d]
  BY <1>1, <1>2, Shapes
<1>6. OnIterator(c, i)
  BY <1>1, <1>2, <1>5, Shapes DEF OnIterator, OnlyIter, lock
<1>7. UseOK(c)'
  BY <1>2, <1>3, <1>5 DEF UseOK, Using
<1>8. IterOK(i)'
  BY <1>2, <1>3, <1>5, MemDBAssumption DEF IterOK, made, lock
<1>9. OrderOK(i)'
  BY <1>2, <1>3, SMT DEF OrderOK
<1>10. Store!Next
  <2> DEFINE a == args[i]
  <2>1. /\ a.start \in Keys \cup {Nil} /\ a.end \in Keys \cup {Nil} /\ a.reverse \in BOOLEAN
    BY DEF TypeOK
  <2>2. cursor(i) = Store!NoCursor
    BY <1>1, <1>2, NoCursorYet DEF made
  <2>3. toSend(i)' = Store!ItemsBetween(btree, a.start, a.end)
    <3>1. phase'[i] = "walking" /\ at'[i] = Nil /\ args'[i] = a
      BY <1>2, <1>3 DEF TypeOK
    <3>2. ASSUME NEW k \in DOMAIN btree
          PROVE  (visits(a, k) /\ k # skipEqual(a)
                    /\ ~(k # skipEqual(a) /\ abortLessThan(a) # Nil /\ k < abortLessThan(a)))
                 <=> ((a.start = Nil \/ a.start <= k) /\ (a.end = Nil \/ k < a.end))
      <4>1. k \in Int /\ k # Nil /\ (a.start # Nil => a.start \in Int)
            /\ (a.end # Nil => a.end \in Int)
        <5>1. k \in Keys
          BY DEF TypeOK
        <5> QED
          BY <2>1, <5>1, MemDBAssumption
      <4> QED
        BY <2>1, <4>1, SMT DEF visits, skipEqual, abortLessThan
    <3> QED
      BY <1>2, <3>1, <3>2 DEF toSend, ahead, aborts, Store!ItemsBetween
  <2>4. toCome(i)' = Store!ItemsBetween(btree, a.start, a.end)
    BY <1>2, <1>3, <2>3, SMT DEF toCome
  <2>5. made(i)' /\ ~done'[i] /\ args'[i] = a
    BY <1>2, <1>3, <1>5, MemDBAssumption DEF made
  <2>6. cursor(i)' = Store!Cursor(Store!ItemsBetween(btree, a.start, a.end),
                                  a.start, a.end, a.reverse)
    BY <2>4, <2>5 DEF cursor, Store!Cursor
  <2> HIDE DEF a
  <2>7. \A d \in Clients : found(d)' = found(d)
    BY <1>2, <1>5, <1>6, OnIteratorFound
  <2>8. \A j \in Iters : j # i => cursor(j)' = cursor(j)
    BY <1>2, <1>6, OtherCursors
  <2> QED
    BY <1>2, <2>1, <2>2, <2>6, <2>7, <2>8, AbstractOpen
<1> QED
  BY <1>4, <1>10, <1>6, <1>7, <1>8, <1>9, OnIteratorStep

LEMMA NextStep ==
  ASSUME IInv, NEW c \in Clients, NEW i \in Iters, Next_(c, i)
  PROVE  IInv' /\ UNCHANGED Store!vars
<1> USE DEF IInv
<1>1. /\ pc[c] = "idle" /\ owner[i] = c /\ item[i] # Nil
      /\ pc' = [pc EXCEPT ![c] = "next"]
      /\ op' = [op EXCEPT ![c] = Operation("Next", Nil, Nil, i)]
      /\ UNCHANGED <<btree, lock, iterators>>
  BY DEF Next_, Starts
<1>2. TypeOK'
  BY <1>1 DEF TypeOK, Labels, Ops, Operation, lock, iterators
<1>3. /\ pc'[c] = "next" /\ op'[c].iter = i /\ owner'[i] = c
      /\ \A d \in Clients : d # c => pc'[d] = pc[d] /\ op'[d] = op[d]
  BY <1>1, Shapes DEF Operation, iterators
<1>4. made(i) /\ ~done[i]
  BY <1>1, MemDBAssumption DEF made, IterInv, IterOK
<1>5. OnIterator(c, i)
  BY <1>1, <1>3 DEF OnIterator, OnlyIter, Using, lock, iterators
<1>6. UseOK(c)'
  BY <1>1, <1>3 DEF UseOK, Using, iterators
<1>7. IterOK(i)'
  BY <1>1, <1>3, <1>4 DEF IterInv, IterOK, made, lock, iterators
<1>8. OrderOK(i)'
  BY <1>1, SameOrder DEF OrderInv, iterators
<1>9. UNCHANGED Store!vars
  <2>1. made(i)'
    BY <1>3, MemDBAssumption DEF made
  <2>2. cursor(i)' = cursor(i)
    BY <1>1, <1>4, <2>1, SameCursor DEF iterators
  <2>3. \A j \in Iters : cursor(j)' = cursor(j)
    BY <1>1, <1>5, <2>2, OtherCursors
  <2> QED
    BY <1>1, <1>3, <1>5, <2>3, OnIteratorFound, AbstractStutter
<1> QED
  BY <1>2, <1>9, <1>5, <1>6, <1>7, <1>8, OnIteratorStep


LEMMA TailFacts ==
  ASSUME NEW S, NEW s \in Seq(S), s # << >>
  PROVE  /\ Len(s) \in Nat /\ Len(s) > 0 /\ Head(s) = s[1] /\ Head(s) \in S
         /\ Tail(s) \in Seq(S) /\ Len(Tail(s)) = Len(s) - 1
         /\ \A n \in 1 .. Len(s) - 1 : Tail(s)[n] = s[n + 1]
BY SMT

LEMMA CloseStep ==
  ASSUME IInv, NEW c \in Clients, NEW i \in Iters, Close(c, i)
  PROVE  IInv' /\ Store!Next
<1> USE DEF IInv
<1>1. /\ pc[c] = "idle" /\ owner[i] = c
      /\ pc' = [pc EXCEPT ![c] = "drain"]
      /\ op' = [op EXCEPT ![c] = Operation("Close", Nil, Nil, i)]
      /\ done' = [done EXCEPT ![i] = TRUE]
      /\ UNCHANGED <<btree, lock, phase, owner, args, at, ch, item>>
  BY DEF Close, Starts
<1>2. TypeOK'
  BY <1>1 DEF TypeOK, Labels, Ops, Operation, lock
<1>3. /\ pc'[c] = "drain" /\ op'[c].iter = i /\ owner'[i] = c /\ done'[i]
      /\ \A d \in Clients : d # c => pc'[d] = pc[d] /\ op'[d] = op[d]
  BY <1>1, Shapes DEF Operation
<1>4. OnIterator(c, i)
  BY <1>1, <1>3, Shapes DEF OnIterator, OnlyIter, Using, lock
<1>5. UseOK(c)'
  BY <1>3 DEF UseOK, Using
<1>6. IterOK(i)'
  BY <1>1, <1>3, MemDBAssumption, SMT DEF IterInv, IterOK, made, lock
<1>7. OrderOK(i)'
  <2>1. OrderOK(i) /\ args' = args /\ at' = at /\ ch' = ch /\ item' = item
    BY <1>1 DEF OrderInv
  <2> QED
    BY <2>1, SameOrder
<1>8. Store!Next
  BY <1>1, <1>3, <1>4, NoCursorNext, OtherCursors, OnIteratorFound, AbstractClose
<1> QED
  BY <1>2, <1>8, <1>4, <1>5, <1>6, <1>7, OnIteratorStep

LEMMA DrainStep ==
  ASSUME IInv, NEW c \in Clients, drain(c)
  PROVE  IInv' /\ UNCHANGED Store!vars
<1> USE DEF IInv
<1>1. PICK i \in Iters : i = op[c].iter /\ owner[i] = c
  BY UsesIterator DEF drain, Using
<1>2. /\ pc[c] = "drain" /\ ch[i] # << >>
      /\ ch' = [ch EXCEPT ![i] = Tail(ch[i])]
      /\ UNCHANGED <<btree, lock, pc, op, phase, owner, args, at, item, done>>
  BY <1>1 DEF drain
<1>3. /\ ch[i] \in Seq(Keys \X Values) /\ Len(ch[i]) <= chBufferSize /\ chBufferSize \in Nat
      /\ ch'[i] = Tail(ch[i])
  BY <1>2, MemDBAssumption, SMT DEF TypeOK
<1>4. /\ Len(ch[i]) \in Nat /\ Len(ch'[i]) = Len(ch[i]) - 1 /\ ch'[i] \in Seq(Keys \X Values)
      /\ \A n \in 1 .. Len(ch[i]) - 1 : ch'[i][n] = ch[i][n + 1]
  BY <1>2, <1>3, TailFacts
<1>5. TypeOK'
  BY <1>2, <1>3, <1>4, SMTT(30) DEF TypeOK, lock
<1>6. OnIterator(c, i)
  BY <1>1, <1>2, Shapes DEF OnIterator, OnlyIter, lock
<1>7. UseOK(c)'
  BY <1>2 DEF UseInv, UseOK
<1>8. IterOK(i)'
  <2>1. IterOK(i)
    BY DEF IterInv
  <2>2. made(i)
    BY <1>2, <2>1 DEF IterOK
  <2>3. /\ phase' = phase /\ readers' = readers /\ done' = done /\ owner' = owner
        /\ pc' = pc /\ op' = op
    BY <1>2 DEF lock
  <2>4. made(i)'
    BY <2>2, <2>3 DEF made
  <2> QED
    BY <2>1, <2>3, <2>4 DEF IterOK
<1>9. OrderOK(i)'
  <2>1. OrderOK(i) /\ args'[i] = args[i] /\ at'[i] = at[i] /\ item'[i] = item[i]
    BY <1>2 DEF OrderInv
  <2>2. item[i] # Nil => Visited(i, item[i][1])'
    BY <2>1 DEF OrderOK, Visited
  <2>3. ASSUME NEW n \in 1 .. Len(ch'[i])
        PROVE  /\ Visited(i, ch[i][n][1])'
               /\ item[i] # Nil => Before(args[i].reverse, item[i][1], ch'[i][n][1])
               /\ \A m \in 1 .. Len(ch'[i]) :
                    n < m => Before(args[i].reverse, ch'[i][n][1], ch'[i][m][1])
    <3>1. n + 1 \in 1 .. Len(ch[i])
      BY <1>4, SMT
    <3>2. Visited(i, ch[i][n][1])'
      BY <1>4, <2>1, <3>1 DEF OrderOK, Visited
    <3>3. item[i] # Nil => Before(args[i].reverse, item[i][1], ch'[i][n][1])
      BY <1>4, <2>1, <3>1 DEF OrderOK
    <3>4. ASSUME NEW m \in 1 .. Len(ch'[i]), n < m
          PROVE  Before(args[i].reverse, ch'[i][n][1], ch'[i][m][1])
      <4>1. m + 1 \in 1 .. Len(ch[i]) /\ n + 1 < m + 1
        BY <1>4, <3>4, SMT
      <4> QED
        BY <1>4, <2>1, <3>1, <4>1 DEF OrderOK
    <3> QED
      BY <3>2, <3>3, <3>4
  <2> QED
    BY <2>1, <2>2, <2>3 DEF OrderOK
<1>10. UNCHANGED Store!vars
  <2>1. done[i] /\ done'[i]
    BY <1>1, <1>2 DEF UseInv, UseOK
  <2> QED
    BY <1>2, <1>6, <2>1, NoCursorStutter
<1> QED
  BY <1>5, <1>10, <1>6, <1>7, <1>8, <1>9, OnIteratorStep

LEMMA DrainedStep ==
  ASSUME IInv, NEW c \in Clients, drained(c)
  PROVE  IInv' /\ UNCHANGED Store!vars
<1> USE DEF IInv
<1>1. PICK i \in Iters : i = op[c].iter /\ owner[i] = c
  BY UsesIterator DEF drained, Using
<1>2. /\ pc[c] = "drain" /\ ch[i] = << >> /\ phase[i] # "walking"
      /\ item' = [item EXCEPT ![i] = Nil] /\ owner' = [owner EXCEPT ![i] = Nil]
      /\ args' = [args EXCEPT ![i] = NoArgs] /\ at' = [at EXCEPT ![i] = Nil]
      /\ done' = [done EXCEPT ![i] = FALSE]
      /\ pc' = [pc EXCEPT ![c] = "idle"] /\ op' = [op EXCEPT ![c] = NoOp]
      /\ UNCHANGED <<btree, lock, phase, ch>>
  BY <1>1 DEF drained, Starts
<1>3. TypeOK'
  BY <1>2, MemDBAssumption DEF TypeOK, Labels, Ops, Operation, NoOp, NoArgs, lock
<1>4. /\ item'[i] = Nil /\ owner'[i] = Nil /\ at'[i] = Nil /\ ~done'[i] /\ pc'[c] = "idle"
      /\ \A d \in Clients : d # c => pc'[d] = pc[d] /\ op'[d] = op[d]
  BY <1>2, Shapes
<1>5. OnIterator(c, i)
  BY <1>1, <1>2, <1>4, Shapes DEF OnIterator, OnlyIter, Using, lock
<1>6. UseOK(c)'
  BY <1>4 DEF UseOK, Using
<1>7. IterOK(i)'
  BY <1>2, <1>4 DEF IterInv, IterOK, lock
<1>8. OrderOK(i)'
  BY <1>2, <1>4, SMT DEF OrderOK
<1>9. UNCHANGED Store!vars
  <2>1. done[i] /\ ~made(i)'
    BY <1>1, <1>2, <1>4 DEF UseInv, UseOK, made
  <2> QED
    BY <1>2, <1>4, <1>5, <2>1, NoCursorStutter
<1> QED
  BY <1>3, <1>9, <1>5, <1>6, <1>7, <1>8, OnIteratorStep

-----------------------------------------------------------------------------
(* The receive of a client, in newMemDBIterator and in Next: what arrives  *)
(* is the first of the items that are still to come.                       *)

\* What is still to be visited comes after what has been visited.
LEMMA AheadIsLater ==
  ASSUME IInv, NEW i \in Iters, NEW k \in ahead(i), NEW x \in Keys, Visited(i, x)
  PROVE  x \in Int /\ k \in Int /\ Before(args[i].reverse, x, k)
<1>1. args[i].reverse \in BOOLEAN /\ at[i] \in Keys \cup {Nil} /\ k \in Keys
  BY DEF IInv, TypeOK, ahead
<1>2. k \in Int /\ x \in Int /\ (at[i] # Nil => at[i] \in Int)
  BY <1>1, MemDBAssumption
<1>3. at[i] # Nil /\ Before(args[i].reverse, at[i], k)
  BY DEF ahead, Visited
<1> QED
  BY <1>1, <1>2, <1>3, SMT DEF Visited, Before

LEMMA HeadAndTail ==
  ASSUME NEW S, NEW s \in Seq(S), s # << >>
  PROVE  {s[n] : n \in 1 .. Len(s)} =
           {Head(s)} \cup {Tail(s)[n] : n \in 1 .. Len(Tail(s))}
<1>1. ASSUME NEW n \in 1 .. Len(s)
      PROVE  s[n] \in {Head(s)} \cup {Tail(s)[m] : m \in 1 .. Len(Tail(s))}
  <2>1. CASE n = 1
    BY <2>1, TailFacts
  <2>2. CASE n # 1
    <3>1. n - 1 \in 1 .. Len(Tail(s)) /\ Tail(s)[n - 1] = s[n]
      BY <2>2, TailFacts, SMT
    <3> QED
      BY <3>1
  <2> QED
    BY <2>1, <2>2
<1>2. ASSUME NEW n \in 1 .. Len(Tail(s)) PROVE Tail(s)[n] \in {s[m] : m \in 1 .. Len(s)}
  <2>1. n + 1 \in 1 .. Len(s) /\ Tail(s)[n] = s[n + 1]
    BY TailFacts, SMT
  <2> QED
    BY <2>1
<1>3. Head(s) \in {s[m] : m \in 1 .. Len(s)}
  <2>1. 1 \in 1 .. Len(s) /\ Head(s) = s[1]
    BY TailFacts, SMT
  <2> QED
    BY <2>1
<1> QED
  BY <1>1, <1>2, <1>3

\* The item at which an iterator stands comes before all others to come.
LEMMA StandsFirst ==
  ASSUME IInv, NEW i \in Iters, item[i] # Nil
  PROVE  /\ item[i][1] \in Int
         /\ \A m \in {ch[i][n] : n \in 1 .. Len(ch[i])} \cup toSend(i) :
              m[1] \in Int /\ Before(args[i].reverse, item[i][1], m[1])
<1> USE DEF IInv
<1>1. OrderOK(i) /\ item[i] \in Keys \X Values /\ ch[i] \in Seq(Keys \X Values)
  BY DEF OrderInv, TypeOK
<1>2. item[i][1] \in Keys /\ item[i][1] \in Int /\ Visited(i, item[i][1])
  BY <1>1, MemDBAssumption DEF OrderOK
<1>3. ASSUME NEW n \in 1 .. Len(ch[i])
      PROVE  ch[i][n][1] \in Int /\ Before(args[i].reverse, item[i][1], ch[i][n][1])
  <2>1. ch[i][n] \in Keys \X Values
    BY <1>1, SMT
  <2> QED
    BY <1>1, <2>1, MemDBAssumption DEF OrderOK
<1>4. ASSUME NEW m \in toSend(i)
      PROVE  m[1] \in Int /\ Before(args[i].reverse, item[i][1], m[1])
  <2>1. PICK k \in ahead(i) : m = <<k, btree[k]>>
    BY DEF toSend
  <2> QED
    BY <1>2, <2>1, AheadIsLater
<1> QED
  BY <1>2, <1>3, <1>4

LEMMA ReceiveStep ==
  ASSUME IInv, NEW c \in Clients, receive(c)
  PROVE  IInv' /\ [Store!Next]_(Store!vars)
<1> USE DEF IInv
<1>1. PICK i \in Iters : i = op[c].iter /\ owner[i] = c
  BY UsesIterator DEF receive, Using
<1>2. /\ pc[c] \in {"prime", "next"}
      /\ item' = [item EXCEPT ![i] = IF ch[i] = << >> THEN Nil ELSE Head(ch[i])]
      /\ ch' = [ch EXCEPT ![i] = IF ch[i] = << >> THEN ch[i] ELSE Tail(ch[i])]
      /\ pc' = [pc EXCEPT ![c] = "idle"] /\ op' = [op EXCEPT ![c] = NoOp]
      /\ UNCHANGED <<btree, lock, phase, owner, args, at, done>>
  BY <1>1 DEF receive, Starts
<1>3. /\ ch[i] \in Seq(Keys \X Values) /\ Len(ch[i]) <= chBufferSize
      /\ chBufferSize \in Nat
  BY MemDBAssumption DEF TypeOK
<1>4. /\ item'[i] = IF ch[i] = << >> THEN Nil ELSE Head(ch[i])
      /\ ch'[i] = IF ch[i] = << >> THEN ch[i] ELSE Tail(ch[i])
      /\ pc'[c] = "idle"
      /\ \A d \in Clients : d # c => pc'[d] = pc[d] /\ op'[d] = op[d]
  BY <1>2 DEF TypeOK
<1>5. /\ ch'[i] \in Seq(Keys \X Values) /\ Len(ch'[i]) <= chBufferSize
      /\ item'[i] \in (Keys \X Values) \cup {Nil}
  <2>1. CASE ch[i] = << >>
    BY <1>3, <1>4, <2>1
  <2>2. CASE ch[i] # << >>
    BY <1>3, <1>4, <2>2, TailFacts, SMT
  <2> QED
    BY <2>1, <2>2
<1>6. TypeOK'
  <2>1. op' \in [Clients -> Ops] /\ pc' \in [Clients -> Labels]
    BY <1>2, MemDBAssumption DEF TypeOK, Labels, Ops, Operation, NoOp
  <2>2. /\ ch' \in [Iters -> Seq(Keys \X Values)] /\ \A j \in Iters : Len(ch'[j]) <= chBufferSize
        /\ item' \in [Iters -> (Keys \X Values) \cup {Nil}]
    BY <1>2, <1>5 DEF TypeOK
  <2> QED
    BY <1>2, <2>1, <2>2 DEF TypeOK, lock
<1>7. OnIterator(c, i)
  BY <1>1, <1>2, <1>4 DEF OnIterator, OnlyIter, TypeOK, Using, lock
<1>8. UseOK(c)'
  BY <1>4 DEF UseOK, Using
<1>9. ~done[i]
  BY <1>1, <1>2 DEF IterInv, IterOK
<1>10. IterOK(i)'
  BY <1>1, <1>2, <1>4, <1>9, MemDBAssumption DEF IterInv, IterOK, made, lock
<1>11. OrderOK(i)'
  <2>1. OrderOK(i) /\ args'[i] = args[i] /\ at'[i] = at[i]
    BY <1>2 DEF OrderInv
  <2>2. CASE ch[i] = << >>
    BY <1>4, <2>1, <2>2, SMT DEF OrderOK
  <2>3. CASE ch[i] # << >>
    <3>1. /\ Len(ch[i]) \in Nat /\ Len(ch[i]) > 0 /\ item'[i] = ch[i][1]
          /\ Len(ch'[i]) = Len(ch[i]) - 1
          /\ \A n \in 1 .. Len(ch[i]) - 1 : ch'[i][n] = ch[i][n + 1]
      BY <1>3, <1>4, <2>3, TailFacts, SMT
    <3>2. Visited(i, item[i][1])'
      BY <2>1, <3>1, SMT DEF OrderOK, Visited
    <3>3. ASSUME NEW n \in 1 .. Len(ch'[i])
          PROVE  /\ Visited(i, ch[i][n][1])'
                 /\ Before(args'[i].reverse, item'[i][1], ch'[i][n][1])
                 /\ \A m \in 1 .. Len(ch'[i]) :
                      n < m => Before(args'[i].reverse, ch'[i][n][1], ch'[i][m][1])
      <4>1. n + 1 \in 1 .. Len(ch[i]) /\ 1 < n + 1 /\ 1 \in 1 .. Len(ch[i])
        BY <3>1, SMT
      <4>2. Visited(i, ch[i][n][1])'
        BY <2>1, <3>1, <4>1 DEF OrderOK, Visited
      <4>3. Before(args'[i].reverse, item'[i][1], ch'[i][n][1])
        BY <2>1, <3>1, <4>1 DEF OrderOK
      <4>4. ASSUME NEW m \in 1 .. Len(ch'[i]), n < m
            PROVE  Before(args'[i].reverse, ch'[i][n][1], ch'[i][m][1])
        <5>1. m + 1 \in 1 .. Len(ch[i]) /\ n + 1 < m + 1
          BY <3>1, <4>4, SMT
        <5> QED
          BY <2>1, <3>1, <4>1, <5>1 DEF OrderOK
      <4> QED
        BY <4>2, <4>3, <4>4
    <3> QED
      BY <3>2, <3>3 DEF OrderOK
  <2> QED
    BY <2>2, <2>3
<1>12. toSend(i)' = toSend(i)
  BY <1>2 DEF toSend, ahead, aborts, skipEqual, abortLessThan
<1>13. toCome(i)' = {ch[i][n] : n \in 1 .. Len(ch[i])} \cup toSend(i)
  <2>1. {ch[i][n] : n \in 1 .. Len(ch[i])} =
          ({item'[i]} \ {Nil}) \cup {ch'[i][n] : n \in 1 .. Len(ch'[i])}
    <3>1. CASE ch[i] = << >>
      BY <1>4, <3>1
    <3>2. CASE ch[i] # << >>
      <4>1. item'[i] = Head(ch[i]) /\ ch'[i] = Tail(ch[i]) /\ item'[i] # Nil
        BY <1>3, <1>4, <3>2, TailFacts, MemDBAssumption, SMT
      <4>2. {ch[i][n] : n \in 1 .. Len(ch[i])} =
              {Head(ch[i])} \cup {Tail(ch[i])[n] : n \in 1 .. Len(Tail(ch[i]))}
        BY <1>3, <3>2, HeadAndTail
      <4>3. {item'[i]} \ {Nil} = {Head(ch[i])}
        BY <4>1
      <4> QED
        BY <4>1, <4>2, <4>3
    <3> QED
      BY <3>1, <3>2
  <2> QED
    BY <1>12, <2>1 DEF toCome
<1>14. /\ cursor(i) = Store!Cursor(toCome(i), args[i].start, args[i].end, args[i].reverse)
       /\ cursor(i)' = Store!Cursor(toCome(i)', args[i].start, args[i].end, args[i].reverse)
  <2>1. made(i) /\ made(i)' /\ ~done'[i] /\ args'[i] = args[i]
    BY <1>1, <1>2, <1>4, <1>9, MemDBAssumption DEF made
  <2> QED
    BY <1>9, <2>1 DEF cursor, Store!Cursor
<1>15. /\ \A d \in Clients : found(d)' = found(d)
       /\ \A j \in Iters : j # i => cursor(j)' = cursor(j)
  BY <1>2, <1>4, <1>7, OnIteratorFound, OtherCursors
<1>16. CASE pc[c] = "prime"
  <2>1. item[i] = Nil
    BY <1>1, <1>16 DEF UseInv, UseOK
  <2>2. toCome(i)' = toCome(i)
    BY <1>13, <2>1 DEF toCome
  <2>3. UNCHANGED Store!vars
    BY <1>2, <1>14, <1>15, <2>2, AbstractStutter
  <2> QED
    BY <1>6, <1>7, <1>8, <1>10, <1>11, <2>3, OnIteratorStep
<1>17. CASE pc[c] = "next"
  <2>1. item[i] # Nil
    BY <1>1, <1>17 DEF UseInv, UseOK
  <2>2. item[i] \in toCome(i)
    BY <2>1 DEF toCome
  <2>3. \A m \in toCome(i) : m = item[i] \/ (m \in toCome(i)' /\ m # item[i])
    BY <1>13, <2>1, StandsFirst DEF toCome, Before
  <2>4. toCome(i)' = toCome(i) \ {item[i]}
    BY <1>13, <2>1, <2>3, StandsFirst, SMT DEF toCome, Before
  <2>5. Store!IsFirst(item[i], cursor(i))
    BY <1>13, <1>14, <2>1, <2>2, StandsFirst, SMT DEF toCome, Before, Store!IsFirst, Store!Cursor
  <2>6. /\ item[i] \in cursor(i).ahead
        /\ cursor(i)' = Store!Cursor(cursor(i).ahead \ {item[i]}, cursor(i).start,
                                     cursor(i).end, cursor(i).reverse)
    BY <1>14, <2>2, <2>4, SMT DEF Store!Cursor
  <2>7. Store!Next
    BY <1>2, <1>15, <2>5, <2>6, AbstractAdvance
  <2> QED
    BY <1>6, <1>7, <1>8, <1>10, <1>11, <2>7, OnIteratorStep
<1> QED
  BY <1>2, <1>16, <1>17

-----------------------------------------------------------------------------
(* Steps of the goroutines                                                 *)

LEMMA AppendFacts ==
  ASSUME NEW S, NEW s \in Seq(S), NEW e \in S
  PROVE  Append(s, e) \in Seq(S) /\ Len(Append(s, e)) = Len(s) + 1
BY SMT

LEMMA AppendedItems ==
  ASSUME NEW s \in Seq(Keys \X Values), NEW e \in Keys \X Values
  PROVE  {Append(s, e)[n] : n \in 1 .. Len(Append(s, e))} = {s[n] : n \in 1 .. Len(s)} \cup {e}
<1>1. /\ Len(s) \in Nat /\ Len(Append(s, e)) = Len(s) + 1 /\ Append(s, e)[Len(s) + 1] = e
      /\ \A n \in 1 .. Len(s) : Append(s, e)[n] = s[n]
  BY SMT
<1>2. \A n \in 1 .. Len(s) + 1 : n \in 1 .. Len(s) \/ n = Len(s) + 1
  BY <1>1, SMT
<1>3. Len(s) + 1 \in 1 .. Len(s) + 1 /\ 1 .. Len(s) \subseteq 1 .. Len(s) + 1
  BY <1>1, SMT
<1> QED
  BY <1>1, <1>2, <1>3, ZenonT(30)

\* A step of the goroutine that leaves the cursor of its iterator as it is.
LEMMA WalksStutter ==
  ASSUME IInv, NEW i \in Iters, Walks(i), UNCHANGED btree, made(i) /\ ~done[i] => toCome(i)' = toCome(i)
  PROVE  UNCHANGED Store!vars
<1>1. \A c \in Clients : found(c)' = found(c)
  BY SameFound DEF Walks
<1>2. cursor(i)' = cursor(i)
  <2>1. (made(i)' <=> made(i)) /\ done'[i] = done[i] /\ args'[i] = args[i]
    BY DEF Walks, made
  <2> QED
    BY <2>1 DEF cursor
<1> QED
  BY <1>1, <1>2, CursorsOfOthersWalk, AbstractStutter

\* A visit takes one key off what is ahead of the walk.
LEMMA VisitedOne ==
  ASSUME TypeOK, NEW i \in Iters, NEW k \in ahead(i), isNext(i, k), at'[i] = k,
         args'[i] = args[i], UNCHANGED btree
  PROVE  ahead(i)' = ahead(i) \ {k}
<1>1. /\ at[i] # Nil => at[i] \in Int /\ Before(args[i].reverse, at[i], k)
      /\ k \in Int /\ k # Nil /\ DOMAIN btree \subseteq Int /\ args[i].reverse \in BOOLEAN
      /\ k \in DOMAIN btree
  <2>1. k \in Keys /\ k \in DOMAIN btree
    BY DEF TypeOK, ahead
  <2> QED
    BY <2>1, MemDBAssumption DEF TypeOK, ahead
<1>2. ASSUME NEW l \in DOMAIN btree, visits(args[i], l)
      PROVE  Before(args[i].reverse, k, l)
             <=> (at[i] = Nil \/ Before(args[i].reverse, at[i], l)) /\ l # k
  <2>1. l \in ahead(i) <=> (at[i] = Nil \/ Before(args[i].reverse, at[i], l))
    BY <1>2 DEF ahead
  <2>2. l \in ahead(i) /\ l # k => Before(args[i].reverse, k, l)
    BY DEF isNext
  <2>3. l \in Int
    BY <1>1
  <2>4. Before(args[i].reverse, k, l) =>
          (at[i] = Nil \/ Before(args[i].reverse, at[i], l)) /\ l # k
    BY <1>1, <2>3, SMT DEF Before
  <2> QED
    BY <2>1, <2>2, <2>4
<1> QED
  BY <1>1, <1>2 DEF ahead

LEMMA VisitStep ==
  ASSUME IInv, NEW i \in Iters, visit(i)
  PROVE  IInv' /\ UNCHANGED Store!vars
<1> USE DEF IInv
<1>1. PICK k \in ahead(i) :
        /\ phase[i] = "walking" /\ isNext(i, k) /\ ~aborts(i, k) /\ at' = [at EXCEPT ![i] = k]
        /\ \/ k = skipEqual(args[i]) /\ UNCHANGED ch
           \/ /\ k # skipEqual(args[i]) /\ hasRoom(i)
              /\ ch' = [ch EXCEPT ![i] = Append(ch[i], <<k, btree[k]>>)]
        /\ UNCHANGED <<btree, lock, pc, op, phase, owner, args, item, done>>
  BY DEF visit
<1>2. k \in Keys /\ <<k, btree[k]>> \in Keys \X Values
  BY DEF TypeOK, ahead
<1>3. /\ ch[i] \in Seq(Keys \X Values) /\ Len(ch[i]) <= chBufferSize /\ chBufferSize \in Nat
      /\ Len(ch[i]) \in Nat
  BY MemDBAssumption, SMT DEF TypeOK
<1>4. at'[i] = k /\ args'[i] = args[i] /\ item'[i] = item[i]
  BY <1>1 DEF TypeOK
<1>5. \/ k = skipEqual(args[i]) /\ ch'[i] = ch[i]
      \/ k # skipEqual(args[i]) /\ hasRoom(i) /\ ch'[i] = Append(ch[i], <<k, btree[k]>>)
  BY <1>1 DEF TypeOK
<1>6. ch'[i] \in Seq(Keys \X Values) /\ Len(ch'[i]) <= chBufferSize
  <2>1. CASE ch'[i] = ch[i]
    BY <1>3, <2>1
  <2>2. CASE hasRoom(i) /\ ch'[i] = Append(ch[i], <<k, btree[k]>>)
    <3> DEFINE e == <<k, btree[k]>>
    <3>1. e \in Keys \X Values /\ ch'[i] = Append(ch[i], e) /\ Len(ch[i]) < chBufferSize
      BY <1>2, <2>2 DEF hasRoom
    <3> HIDE DEF e
    <3> QED
      BY <1>3, <3>1, AppendFacts, SMT
  <2> QED
    BY <1>5, <2>1, <2>2
<1>7. TypeOK'
  <2>1. at' \in [Iters -> Keys \cup {Nil}]
    <3>1. at \in [Iters -> Keys \cup {Nil}] /\ at' = [at EXCEPT ![i] = k]
      BY <1>1 DEF TypeOK
    <3> QED
      BY <1>2, <3>1
  <2>2. ch' \in [Iters -> Seq(Keys \X Values)] /\ \A j \in Iters : Len(ch'[j]) <= chBufferSize
    BY <1>1, <1>6 DEF TypeOK
  <2> QED
    BY <1>1, <2>1, <2>2 DEF TypeOK, lock
<1>8. Walks(i)
  BY <1>1 DEF Walks, OnlyIter, TypeOK, lock
<1>9. made(i)
  BY <1>1 DEF IterInv, IterOK
<1>10. IterOK(i)'
  BY <1>1, <1>9 DEF IterInv, IterOK, made, lock
<1>11. OrderOK(i)'
  <2>1. OrderOK(i)
    BY DEF OrderInv
  <2>2. k # Nil
    BY <1>2, MemDBAssumption
  <2>3. \A x \in Keys : Visited(i, x) => Visited(i, x)' /\ Before(args[i].reverse, x, k)
    BY <1>4, <2>2, AheadIsLater DEF Visited
  <2>4. item[i] # Nil => item[i][1] \in Keys /\ Visited(i, item[i][1])
    BY <2>1 DEF OrderOK, TypeOK
  <2>5. \A n \in 1 .. Len(ch[i]) : ch[i][n][1] \in Keys /\ Visited(i, ch[i][n][1])
    BY <1>3, <2>1, SMT DEF OrderOK
  <2>6. CASE ch'[i] = ch[i]
    BY <1>4, <2>1, <2>3, <2>4, <2>5, <2>6 DEF OrderOK
  <2>7. CASE ch'[i] = Append(ch[i], <<k, btree[k]>>)
    <3>1. /\ Len(ch'[i]) = Len(ch[i]) + 1 /\ ch'[i][Len(ch[i]) + 1][1] = k
          /\ \A n \in 1 .. Len(ch[i]) : ch'[i][n] = ch[i][n]
      BY <1>3, <2>7, SMT
    <3>2. \A n \in 1 .. Len(ch[i]) + 1 : n \in 1 .. Len(ch[i]) \/ n = Len(ch[i]) + 1
      BY <1>3, SMT
    <3>3. item'[i] # Nil => Visited(i, item[i][1])'
      BY <1>4, <2>3, <2>4
    <3>4. ASSUME NEW n \in 1 .. Len(ch'[i])
          PROVE  /\ Visited(i, ch[i][n][1])'
                 /\ item[i] # Nil => Before(args[i].reverse, item[i][1], ch'[i][n][1])
                 /\ \A m \in 1 .. Len(ch'[i]) :
                      n < m => Before(args[i].reverse, ch'[i][n][1], ch'[i][m][1])
      <4>1. CASE n = Len(ch[i]) + 1
        BY <1>3, <1>4, <2>2, <2>3, <2>4, <3>1, <4>1, SMT DEF Visited
      <4>2. CASE n \in 1 .. Len(ch[i])
        <5>1. Visited(i, ch[i][n][1])'
          BY <2>3, <2>5, <3>1, <4>2 DEF Visited
        <5>2. item[i] # Nil => Before(args[i].reverse, item[i][1], ch'[i][n][1])
          BY <2>1, <3>1, <4>2 DEF OrderOK
        <5>3. ASSUME NEW m \in 1 .. Len(ch'[i]), n < m
              PROVE  Before(args[i].reverse, ch'[i][n][1], ch'[i][m][1])
          BY <1>3, <2>1, <2>3, <2>5, <3>1, <3>2, <4>2, <5>3 DEF OrderOK
        <5> QED
          BY <5>1, <5>2, <5>3
      <4> QED
        BY <3>1, <3>2, <4>1, <4>2, SMT
    <3> QED
      BY <1>4, <3>3, <3>4 DEF OrderOK
  <2> QED
    BY <1>5, <2>6, <2>7
<1>12. ahead(i)' = ahead(i) \ {k}
  BY <1>1, <1>4, VisitedOne
<1>13. toSend(i)' = {<<x, btree[x]>> : x \in {l \in ahead(i) \ {k} :
                                             l # skipEqual(args[i]) /\ ~aborts(i, l)}}
  BY <1>1, <1>12 DEF toSend, aborts
<1>14. toCome(i)' = toCome(i)
  <2>1. CASE k = skipEqual(args[i]) /\ ch'[i] = ch[i]
    <3>1. toSend(i)' = toSend(i)
      BY <1>1, <1>13, <2>1 DEF toSend
    <3> QED
      BY <1>4, <2>1, <3>1 DEF toCome
  <2>2. CASE k # skipEqual(args[i]) /\ ch'[i] = Append(ch[i], <<k, btree[k]>>)
    <3> DEFINE e == <<k, btree[k]>>
    <3>1. toSend(i) = toSend(i)' \cup {e}
      BY <1>1, <1>13, <2>2 DEF toSend
    <3>2. e \in Keys \X Values /\ ch'[i] = Append(ch[i], e)
      BY <1>2, <2>2
    <3> HIDE DEF e
    <3>3. {ch'[i][n] : n \in 1 .. Len(ch'[i])} = {ch[i][n] : n \in 1 .. Len(ch[i])} \cup {e}
      <4>1. {Append(ch[i], e)[n] : n \in 1 .. Len(Append(ch[i], e))} =
              {ch[i][n] : n \in 1 .. Len(ch[i])} \cup {e}
        BY <1>3, <3>2, AppendedItems
      <4> QED
        BY <3>2, <4>1
    <3> QED
      BY <1>4, <3>1, <3>3 DEF toCome
  <2> QED
    BY <1>5, <2>1, <2>2
<1>15. UNCHANGED Store!vars
  BY <1>1, <1>8, <1>14, WalksStutter
<1> QED
  BY <1>7, <1>15, <1>8, <1>10, <1>11, WalksStep

\* A walk that was not cancelled has sent everything when it ends.
LEMMA NothingLeft ==
  ASSUME TypeOK, NEW i \in Iters, walkEnds(i), ~done[i]
  PROVE  toSend(i) = {}
<1>1. CASE ahead(i) = {}
  BY <1>1 DEF toSend
<1>2. CASE ahead(i) # {}
  <2>1. PICK k \in ahead(i) : isNext(i, k) /\ aborts(i, k)
    BY <1>2 DEF walkEnds
  <2>2. /\ ahead(i) \subseteq Int /\ args[i].reverse \in BOOLEAN
        /\ args[i].start \in Int \cup {Nil}
    BY MemDBAssumption DEF TypeOK, ahead
  <2>3. args[i].reverse /\ args[i].start \in Int /\ k < args[i].start
    BY <2>1, <2>2 DEF aborts, abortLessThan
  <2>4. ASSUME NEW l \in ahead(i), l # skipEqual(args[i]) PROVE aborts(i, l)
    <3>1. l <= k
      BY <2>1, <2>2, <2>3, SMT DEF isNext, Before
    <3> QED
      BY <2>1, <2>2, <2>3, <2>4, <3>1, SMT DEF aborts, abortLessThan
  <2> QED
    BY <2>4 DEF toSend
<1> QED
  BY <1>1, <1>2

LEMMA WalkEndsStep ==
  ASSUME IInv, NEW i \in Iters, walkEnds(i)
  PROVE  IInv' /\ UNCHANGED Store!vars
<1> USE DEF IInv
<1>1. /\ phase[i] = "walking" /\ phase' = [phase EXCEPT ![i] = "closed"]
      /\ UNCHANGED <<btree, lock, pc, op, owner, args, at, ch, item, done>>
  BY DEF walkEnds
<1>2. TypeOK'
  BY <1>1 DEF TypeOK, Phases, lock
<1>3. Walks(i)
  BY <1>1 DEF Walks, OnlyIter, TypeOK, lock
<1>4. IterOK(i)'
  BY <1>1 DEF IterInv, IterOK, made, lock
<1>5. OrderOK(i)'
  BY <1>1 DEF OrderInv, OrderOK, Visited
<1>6. ~done[i] => toSend(i) = {}
  BY NothingLeft
<1>7. toSend(i)' = {} /\ (~done[i] => toCome(i)' = toCome(i))
  BY <1>1, <1>6, SMT DEF TypeOK, toSend, toCome
<1>8. UNCHANGED Store!vars
  BY <1>1, <1>3, <1>7, WalksStutter
<1> QED
  BY <1>2, <1>8, <1>3, <1>4, <1>5, WalksStep

LEMMA WalkReturnsStep ==
  ASSUME IInv, NEW i \in Iters, walkReturns(i)
  PROVE  IInv' /\ UNCHANGED Store!vars
<1> USE DEF IInv
<1>1. /\ phase[i] = "closed" /\ phase' = [phase EXCEPT ![i] = "none"]
      /\ readers' = readers \ {i}
      /\ UNCHANGED <<btree, writer, queued, pc, op, owner, args, at, ch, item, done>>
  BY DEF walkReturns, walkUnlocks, RUnlock
<1>2. TypeOK'
  BY <1>1 DEF TypeOK, Phases
<1>3. Walks(i)
  BY <1>1 DEF Walks, OnlyIter, TypeOK
<1>4. IterOK(i)'
  BY <1>1 DEF IterInv, IterOK, made, TypeOK
<1>5. OrderOK(i)'
  BY <1>1, SameOrder DEF IInv, OrderInv
<1>6. toCome(i)' = toCome(i)
  BY <1>1, SMT DEF TypeOK, toSend, toCome
<1>7. UNCHANGED Store!vars
  BY <1>1, <1>3, <1>6, WalksStutter
<1> QED
  BY <1>2, <1>7, <1>3, <1>4, <1>5, WalksStep


-----------------------------------------------------------------------------

\* Every step keeps the invariant and is a step of SnapshotStore or none.
LEMMA EveryStep ==
  ASSUME IInv, [Next]_vars
  PROVE  IInv' /\ [Store!Next]_(Store!vars)
<1>1. CASE UNCHANGED vars
  <2>1. IInv'
    <3>1. TypeOK'
      BY <1>1 DEF IInv, TypeOK, vars, lock, iterators
    <3>2. UseInv' /\ IterInv'
      BY <1>1 DEF IInv, UseInv, UseOK, IterInv, IterOK, made, vars, lock, iterators
    <3>3. OrderInv'
      BY <1>1, SameOrder DEF IInv, OrderInv, vars, iterators
    <3> QED
      BY <3>1, <3>2, <3>3 DEF IInv
  <2>2. \A c \in Clients : found(c)' = found(c)
    BY <1>1, SameFound DEF vars
  <2>3. \A i \in Iters : made(i)' <=> made(i)
    BY <1>1 DEF vars, iterators, made
  <2>4. \A i \in Iters : cursor(i)' = cursor(i)
    BY <1>1, <2>3, SameCursor DEF vars, iterators
  <2>5. UNCHANGED Store!vars
    BY <1>1, <2>2, <2>4, AbstractStutter DEF vars
  <2> QED
    BY <2>1, <2>5
<1>2. ASSUME NEW c \in Clients, Start(c) PROVE IInv' /\ UNCHANGED Store!vars
  BY <1>2, GetStep, DeleteStep, SetStep, IteratorStep, NextStep DEF Start
<1>3. ASSUME NEW c \in Clients, Closes(c) PROVE IInv' /\ Store!Next
  BY <1>3, CloseStep DEF Closes
<1>4. ASSUME NEW c \in Clients, Step(c) PROVE IInv' /\ [Store!Next]_(Store!vars)
  BY <1>4, ReadStep, WriteStep, ReturnStep, NewMemDBIteratorStep, ReceiveStep, DrainStep,
     DrainedStep DEF Step
<1>5. ASSUME NEW i \in Iters, Walk(i) PROVE IInv' /\ UNCHANGED Store!vars
  BY <1>5, VisitStep, WalkEndsStep, WalkReturnsStep DEF Walk
<1> QED
  BY <1>1, <1>2, <1>3, <1>4, <1>5, LockStep DEF Next

LEMMA Invariance == Spec => []IInv
<1>1. Init => IInv
  BY Initially
<1>2. IInv /\ [Next]_vars => IInv'
  BY EveryStep
<1> QED
  BY <1>1, <1>2, PTL DEF Spec

\* The variables keep their types; in particular no channel of an iterator ever
\* holds more than chBufferSize items (memdb_iterator.go:36).
THEOREM TypeCorrect == Spec => []TypeOK
<1>1. IInv => TypeOK
  BY DEF IInv
<1> QED
  BY <1>1, Invariance, PTL

\* Only write changes the tree.
LEMMA OnlyWrites ==
  ASSUME [Next]_vars
  PROVE  UNCHANGED btree \/ \E c \in Clients : write(c)
<1>1. CASE UNCHANGED vars
  BY <1>1 DEF vars
<1>2. ASSUME NEW c \in Clients, Start(c) PROVE UNCHANGED btree
  BY <1>2 DEF Start, Get, Set, Delete, Iterator, Next_, Fails
<1>3. ASSUME NEW c \in Clients, Closes(c) \/ Lock(c) PROVE UNCHANGED btree
  BY <1>3 DEF Closes, Close, Lock
<1>4. ASSUME NEW c \in Clients, Step(c), ~write(c) PROVE UNCHANGED btree
  BY <1>4 DEF Step, read, Return, newMemDBIterator, receive, drain, drained
<1>5. ASSUME NEW j \in Iters, Walk(j) PROVE UNCHANGED btree
  BY <1>5 DEF Walk, visit, walkEnds, walkReturns
<1> QED
  BY <1>1, <1>2, <1>3, <1>4, <1>5 DEF Next

\* It finds no reader.
LEMMA WritesAlone ==
  ASSUME IInv, [Next]_vars, NEW i \in Iters, phase[i] = "walking"
  PROVE  UNCHANGED btree
<1>1. ASSUME NEW c \in Clients, write(c) PROVE FALSE
  BY <1>1 DEF write, noReaders, IInv, IterInv, IterOK
<1> QED
  BY <1>1, OnlyWrites

\* No client changes the tree while a goroutine walks through it: the read lock
\* of newMemDBIteratorMtxChoice keeps Set and Delete out (memdb_iterator.go:45).
THEOREM WalkedTreeIsStable == Spec => TreeIsStable
<1>1. IInv /\ [Next]_vars => [\A i \in Iters : phase[i] = "walking" => UNCHANGED btree]_vars
  BY WritesAlone
<1> QED
  BY <1>1, Invariance, PTL DEF Spec, TreeIsStable

\* The store of testdb is the store that types/store.go promises: reads and
\* writes are atomic and every iterator goes, in order, through the items of its
\* domain as they were when Iterator or ReverseIterator was called, although a
\* goroutine reads them later (memdb_iterator.go:48) and clients write meanwhile.
THEOREM IteratorsSeeSnapshots == Spec => IteratorsAreSnapshots
<1>1. Init => Store!Init
  BY AbstractInit
<1>2. IInv /\ [Next]_vars => [Store!Next]_(Store!vars)
  BY EveryStep
<1> QED
  BY <1>1, <1>2, Invariance, PTL DEF Spec, IteratorsAreSnapshots, Store!Spec

-----------------------------------------------------------------------------
(* A deadlock lasts.                                                       *)

\* The writer waits for its readers or has none.
LockInv ==
  writer # Nil => pc[writer] = "write" \/ (pc[writer] = "return" /\ readers = {})

FiniteInv == IsFiniteSet(DOMAIN btree)

LEMMA LockKept ==
  ASSUME IInv, LockInv, [Next]_vars
  PROVE  LockInv'
<1> USE DEF LockInv
<1>1. pc \in [Clients -> Labels] /\ writer \in Clients \cup {Nil}
  BY DEF IInv, TypeOK
<1>2. CASE UNCHANGED vars
  BY <1>2 DEF vars, lock
<1>3. ASSUME NEW c \in Clients, Start(c) \/ Closes(c) PROVE LockInv'
  <2>1. /\ pc[c] = "idle" /\ \E l \in Labels : pc' = [pc EXCEPT ![c] = l]
        /\ writer' = writer /\ (writer # Nil => readers' = readers)
    BY <1>3 DEF Start, Closes, Close, Get, Set, Delete, Iterator, Next_, Fails, Starts, RLock,
                lock, Labels
  <2> QED
    BY <1>1, <2>1
<1>4. ASSUME NEW c \in Clients, Lock(c) PROVE LockInv'
  BY <1>1, <1>4 DEF Lock
<1>5. ASSUME NEW c \in Clients, write(c) PROVE LockInv'
  BY <1>1, <1>5 DEF write, noReaders, Starts, lock
<1>6. ASSUME NEW c \in Clients, Return(c) PROVE LockInv'
  BY <1>1, <1>6 DEF Return, Starts, Unlock, RUnlock
<1>7. ASSUME NEW c \in Clients, read(c) \/ newMemDBIterator(c) \/ receive(c) \/ drain(c) \/ drained(c)
      PROVE  LockInv'
  <2>1. /\ pc[c] \notin {"write", "return"} /\ UNCHANGED lock
        /\ pc' = pc \/ \E l \in Labels : pc' = [pc EXCEPT ![c] = l]
    BY <1>7 DEF read, newMemDBIterator, receive, drain, drained, Starts, Labels
  <2> QED
    BY <1>1, <2>1 DEF lock
<1>8. ASSUME NEW i \in Iters, Walk(i) PROVE LockInv'
  <2>1. pc' = pc /\ writer' = writer /\ readers' \subseteq readers
    BY <1>8 DEF Walk, visit, walkEnds, walkReturns, walkUnlocks, RUnlock, lock
  <2> QED
    BY <2>1
<1> QED
  BY <1>2, <1>3, <1>4, <1>5, <1>6, <1>7, <1>8 DEF Next, Step

LEMMA StaysFinite ==
  ASSUME FiniteInv, [Next]_vars
  PROVE  FiniteInv'
<1>1. ASSUME NEW c \in Clients, write(c) PROVE FiniteInv'
  <2>1. \/ DOMAIN btree' = DOMAIN btree \cup {op[c].key}
        \/ DOMAIN btree' = DOMAIN btree \ {op[c].key}
    BY <1>1 DEF write
  <2> QED
    BY <2>1, FS_AddElement, FS_RemoveElement DEF FiniteInv
<1> QED
  BY <1>1, OnlyWrites DEF FiniteInv

LEMMA FiniteToSend ==
  ASSUME FiniteInv, NEW i \in Iters
  PROVE  IsFiniteSet(toSend(i))
<1> DEFINE S == {l \in ahead(i) : l # skipEqual(args[i]) /\ ~aborts(i, l)}
           T == {<<k, btree[k]>> : k \in S}
           f == [k \in S |-> <<k, btree[k]>>]
<1>1. IsFiniteSet(S)
  <2>1. S \in SUBSET DOMAIN btree
    BY DEF ahead
  <2> HIDE DEF S
  <2> QED
    BY <2>1, FS_Subset DEF FiniteInv
<1>2. f \in Surjection(S, T)
  <2> HIDE DEF S
  <2> QED
    BY DEF Surjection
<1>3. IsFiniteSet(T)
  <2> HIDE DEF S, T, f
  <2> QED
    BY <1>1, <1>2, FS_Surjection
<1> QED
  BY <1>3, FS_EmptySet DEF toSend

\* Where a deadlocked client is, and its walk: that waits for room, with the read
\* lock for which the writer waits.
LEMMA StuckWalk ==
  ASSUME IInv, LockInv, NEW c \in Clients, NEW i \in Iters,
         waits(c), writer # Nil, owner[i] = c, ~fits(i)
  PROVE  /\ toSend(i) # {} /\ phase[i] = "walking" /\ i \in readers /\ ~done[i]
         /\ pc[c] \in {"get", "open", "lock", "write"} /\ pc[writer] = "write"
         /\ pc[c] = "open" => op[c].iter # i
<1>1. toSend(i) # {} /\ phase[i] = "walking"
  <2>1. ASSUME toSend(i) = {} PROVE FALSE
    <3>1. Len(ch[i]) \in Nat /\ Len(ch[i]) <= chBufferSize
      BY SMT DEF IInv, TypeOK
    <3> QED
      BY <2>1, <3>1, FS_EmptySet, SMT DEF fits
  <2> QED
    BY <2>1 DEF toSend
<1>2. i \in readers
  BY <1>1 DEF IInv, IterInv, IterOK
<1>3. pc[c] \in {"get", "open", "lock", "write"}
  BY DEF waits
<1>4. ~done[i]
  BY <1>3 DEF IInv, IterInv, IterOK
<1>5. pc[c] = "open" => op[c].iter # i
  BY <1>1 DEF IInv, IterInv, IterOK, made
<1> QED
  BY <1>1, <1>2, <1>3, <1>4, <1>5 DEF LockInv

\* Nothing that others do, and no visit of the walk, makes room for the walk.
LEMMA NoRoom ==
  ASSUME IInv, FiniteInv, NEW i \in Iters, ~fits(i), phase[i] = "walking", UNCHANGED btree,
         phase'[i] = phase[i], args'[i] = args[i],
         (at'[i] = at[i] /\ ch'[i] = ch[i]) \/ visit(i)
  PROVE  ~fits(i)'
<1>1. CASE at'[i] = at[i] /\ ch'[i] = ch[i]
  <2>1. toSend(i)' = toSend(i)
    BY <1>1 DEF toSend, ahead, aborts
  <2> QED
    BY <1>1, <2>1 DEF fits
<1>2. CASE visit(i)
  <2>1. PICK k \in ahead(i) :
          /\ isNext(i, k) /\ ~aborts(i, k) /\ at' = [at EXCEPT ![i] = k]
          /\ \/ k = skipEqual(args[i]) /\ UNCHANGED ch
             \/ /\ k # skipEqual(args[i])
                /\ ch' = [ch EXCEPT ![i] = Append(ch[i], <<k, btree[k]>>)]
    BY <1>2 DEF visit
  <2>2. at'[i] = k
    BY <2>1 DEF IInv, TypeOK
  <2>3. ahead(i)' = ahead(i) \ {k}
    BY <2>1, <2>2, VisitedOne DEF IInv
  <2>4. toSend(i)' = {<<x, btree[x]>> : x \in {l \in ahead(i) \ {k} :
                                              l # skipEqual(args[i]) /\ ~aborts(i, l)}}
    BY <2>3 DEF toSend, aborts
  <2>5. CASE k = skipEqual(args[i]) /\ UNCHANGED ch
    <3>1. toSend(i)' = toSend(i)
      BY <2>4, <2>5 DEF toSend
    <3> QED
      BY <2>5, <3>1 DEF fits
  <2>6. CASE k # skipEqual(args[i]) /\ ch' = [ch EXCEPT ![i] = Append(ch[i], <<k, btree[k]>>)]
    <3> DEFINE e == <<k, btree[k]>>
    <3>1. toSend(i)' = toSend(i) \ {e} /\ e \in toSend(i)
      BY <2>1, <2>4, <2>6 DEF toSend
    <3>2. e \in Keys \X Values /\ ch[i] \in Seq(Keys \X Values)
      BY DEF IInv, TypeOK, ahead
    <3>3. ch'[i] = Append(ch[i], e)
      BY <2>6 DEF IInv, TypeOK
    <3> HIDE DEF e
    <3>4. Len(ch'[i]) = Len(ch[i]) + 1 /\ Len(ch[i]) \in Nat
      BY <3>2, <3>3, AppendFacts, SMT
    <3>5. IsFiniteSet(toSend(i))
      BY FiniteToSend
    <3>6. Cardinality(toSend(i)') = Cardinality(toSend(i)) - 1 /\ Cardinality(toSend(i)) \in Nat
      BY <3>1, <3>5, FS_RemoveElement, FS_CardinalityType
    <3> QED
      BY <3>4, <3>6, MemDBAssumption, SMT DEF fits
  <2> QED
    BY <2>1, <2>5, <2>6
<1> QED
  BY <1>1, <1>2

LEMMA StillDeadlocked ==
  ASSUME IInv, LockInv, FiniteInv, [Next]_vars, NEW c \in Clients, Deadlocked(c)
  PROVE  Deadlocked(c)'
<1>1. PICK i \in Iters : waits(c) /\ writer # Nil /\ owner[i] = c /\ ~fits(i)
  BY DEF Deadlocked
<1>2. /\ toSend(i) # {} /\ phase[i] = "walking" /\ i \in readers /\ ~done[i]
      /\ pc[c] \in {"get", "open", "lock", "write"} /\ pc[writer] = "write"
      /\ pc[c] = "open" => op[c].iter # i
  BY <1>1, StuckWalk
<1>3. /\ pc \in [Clients -> Labels] /\ op \in [Clients -> Ops]
      /\ DOMAIN phase = Iters /\ DOMAIN owner = Iters /\ DOMAIN args = Iters
      /\ DOMAIN at = Iters /\ DOMAIN ch = Iters
  BY Shapes DEF IInv
<1>4. UNCHANGED btree
  BY <1>2, WritesAlone
<1> DEFINE Waits == /\ pc'[c] = pc[c] /\ op'[c] = op[c]
                    /\ writer' = writer /\ readers' \subseteq readers
           Sends == /\ owner'[i] = owner[i] /\ phase'[i] = phase[i] /\ args'[i] = args[i]
                    /\ (at'[i] = at[i] /\ ch'[i] = ch[i]) \/ visit(i)
<1>5. ASSUME Waits, Sends PROVE Deadlocked(c)'
  <2>1. waits(c)'
    BY <1>1, <1>5 DEF waits
  <2>2. ~fits(i)'
    BY <1>1, <1>2, <1>4, <1>5, NoRoom
  <2> QED
    BY <1>1, <1>5, <2>1, <2>2 DEF Deadlocked
<1>6. CASE UNCHANGED vars
  BY <1>6, <1>5 DEF vars, lock, iterators
<1>7. ASSUME NEW d \in Clients, Start(d) \/ Closes(d) PROVE Waits /\ Sends
  <2>1. /\ pc[d] = "idle" /\ \E l, o : pc' = [pc EXCEPT ![d] = l] /\ op' = [op EXCEPT ![d] = o]
        /\ writer' = writer /\ readers' = readers
    BY <1>1, <1>7 DEF Start, Closes, Close, Get, Set, Delete, Iterator, Next_, Fails, Starts, RLock,
                      lock
  <2>2. /\ UNCHANGED <<phase, at, ch>>
        /\ UNCHANGED <<owner, args>>
           \/ \E j \in Iters : \E x, y : /\ owner[j] = Nil /\ owner' = [owner EXCEPT ![j] = x]
                                          /\ args' = [args EXCEPT ![j] = y]
    BY <1>7 DEF Start, Closes, Close, Get, Set, Delete, Iterator, Next_, Fails, iterators
  <2>3. c # Nil
    BY MemDBAssumption
  <2> QED
    BY <1>1, <1>2, <1>3, <2>1, <2>2, <2>3
<1>8. ASSUME NEW d \in Clients, Step(d) PROVE Waits /\ Sends
  <2>1. ~write(d)
    BY <1>2 DEF write, noReaders
  <2>2. CASE read(d)
    BY <1>1, <1>2, <1>3, <2>2 DEF read, Starts, lock, iterators, waits
  <2>3. CASE Return(d)
    BY <1>1, <1>2, <1>3, <2>3 DEF Return, Starts, RUnlock, iterators
  <2>4. CASE newMemDBIterator(d)
    <3>1. op[d].iter # i /\ d # c
      BY <1>1, <1>2, <2>4 DEF newMemDBIterator, waits, IInv, UseInv, UseOK, Using
    <3> QED
      BY <1>3, <2>4, <3>1 DEF newMemDBIterator, lock
  <2>5. CASE receive(d) \/ drain(d) \/ drained(d)
    <3>1. d # c /\ op[d].iter # i
      BY <1>1, <1>2, <2>5 DEF receive, drain, drained, IInv, UseInv, UseOK, Using
    <3>2. UNCHANGED lock /\ pc'[c] = pc[c] /\ op'[c] = op[c]
      BY <1>3, <2>5, <3>1 DEF receive, drain, drained, Starts
    <3>3. /\ phase'[i] = phase[i] /\ owner'[i] = owner[i] /\ args'[i] = args[i]
          /\ at'[i] = at[i] /\ ch'[i] = ch[i]
      BY <1>3, <2>5, <3>1 DEF receive, drain, drained
    <3> QED
      BY <3>2, <3>3 DEF lock
  <2> QED
    BY <1>8, <2>1, <2>2, <2>3, <2>4, <2>5 DEF Step
<1>9. ASSUME NEW j \in Iters, Walk(j) PROVE Waits /\ Sends
  <2>1. ~(walkEnds(j) /\ j = i)
    BY <1>2, NothingLeft DEF IInv
  <2>2. Waits
    BY <1>9 DEF Walk, visit, walkEnds, walkReturns, walkUnlocks, RUnlock, lock
  <2>3. Sends
    BY <1>2, <1>3, <1>9, <2>1 DEF Walk, visit, walkEnds, walkReturns
  <2> QED
    BY <2>2, <2>3
<1>10. ASSUME NEW d \in Clients PROVE ~Lock(d)
  BY <1>1 DEF Lock
<1> HIDE DEF Waits, Sends
<1> QED
  BY <1>5, <1>6, <1>7, <1>8, <1>9, <1>10 DEF Next

\* A client that waits for the lock behind a writer, or as a writer, while its own
\* walk waits in the channel for it (memdb_iterator.go:70) waits for ever: no step
\* of any client or walk, in any store and with any size of the channel, frees it.
THEOREM DeadlocksLast == Spec => DeadlocksStay
<1>1. Init => LockInv /\ FiniteInv
  BY FS_EmptySet, SMT DEF Init, LockInv, FiniteInv
<1>2. IInv /\ LockInv /\ FiniteInv /\ [Next]_vars => LockInv' /\ FiniteInv'
  BY LockKept, StaysFinite
<1>3. IInv /\ LockInv /\ FiniteInv /\ [Next]_vars =>
        [\A c \in Clients : Deadlocked(c) => Deadlocked(c)']_vars
  BY StillDeadlocked
<1> QED
  BY <1>1, <1>2, <1>3, Invariance, PTL DEF Spec, DeadlocksStay
=============================================================================
