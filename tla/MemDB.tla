------------------------------- MODULE MemDB -------------------------------
(***************************************************************************)
(* The in-memory store of internal/api/testdb: a B-tree behind a           *)
(* sync.RWMutex.  Every iterator has a goroutine of its own that walks the *)
(* tree under a read lock and sends the items through a buffered channel.  *)
(*                                                                         *)
(* The lock is Go's: Lock keeps later readers out as soon as it waits, and *)
(* Unlock lets in every reader that waits by then.  The tree is            *)
(* github.com/google/btree.                                                *)
(***************************************************************************)
EXTENDS Integers, Sequences, FiniteSets

CONSTANTS
  Clients,       \* the goroutines that use the store
  Iters,         \* iterators that may be open at the same time
  Keys,          \* the keys, ordered as numbers
  Values,        \* the values
  Bounds,        \* starts and ends of iterators: keys, Nil and Empty
  chBufferSize,  \* size of the channel of an iterator (64 in the code)
  Nil,           \* nil
  Empty          \* an empty key that is not nil

ASSUME MemDBAssumption ==
  /\ Keys \subseteq Int
  /\ Nil \notin Keys \cup Values \cup (Keys \X Values) /\ Empty \notin Keys \cup {Nil}
  /\ Nil \notin Clients \cup Iters /\ Clients \cap Iters = {}
  /\ Bounds \subseteq Keys \cup {Nil, Empty}
  /\ chBufferSize \in Nat \ {0}
  /\ {"errKeyEmpty", "errValueNil"} \cap (Values \cup {Nil}) = {}

VARIABLES
  btree,    \* the items of the tree: a function on some of the keys
  writer,   \* the client that is in Lock or has locked the mutex
  readers,  \* who has a read lock: clients and goroutines of iterators
  queued,   \* who waits for one
  pc,       \* pc[c]: where client c is in an operation
  op,       \* op[c]: arguments and result of that operation
  phase,    \* phase[i]: what the goroutine of iterator i does
  owner,    \* owner[i]: the client that has made the iterator
  args,     \* args[i]: start, end and reverse
  at,       \* at[i]: the key the walk has visited last
  ch,       \* ch[i]: items in the channel
  item,     \* item[i]: the item the iterator stands at
  done      \* done[i]: the context of the goroutine has been cancelled

lock == <<writer, readers, queued>>
iterators == <<phase, owner, args, at, ch, item, done>>
vars == <<btree, lock, pc, op, iterators>>

Operation(name, key, value, iter) ==
  [name |-> name, key |-> key, value |-> value, iter |-> iter]
NoOp == Operation("none", Nil, Nil, Nil)
NoArgs == [start |-> Nil, end |-> Nil, reverse |-> FALSE]

Labels ==
  {"idle", "get", "lock", "write", "open", "prime", "next", "drain", "return"}
Phases == {"none", "walking", "closed"}

Init ==
  /\ btree = << >>
  /\ writer = Nil /\ readers = {} /\ queued = {}
  /\ pc = [c \in Clients |-> "idle"]
  /\ op = [c \in Clients |-> NoOp]
  /\ phase = [i \in Iters |-> "none"]
  /\ owner = [i \in Iters |-> Nil]
  /\ args = [i \in Iters |-> NoArgs]
  /\ at = [i \in Iters |-> Nil]
  /\ ch = [i \in Iters |-> << >>]
  /\ item = [i \in Iters |-> Nil]
  /\ done = [i \in Iters |-> FALSE]

-----------------------------------------------------------------------------
(* sync.RWMutex                                                            *)

RLock(t) ==
  /\ readers' = IF writer = Nil THEN readers \cup {t} ELSE readers
  /\ queued' = IF writer = Nil THEN queued ELSE queued \cup {t}
  /\ UNCHANGED writer

RUnlock(t) == readers' = readers \ {t} /\ UNCHANGED <<writer, queued>>

Unlock == writer' = Nil /\ readers' = readers \cup queued /\ queued' = {}

\* A client in Lock goes on when the readers it has met are gone.
noReaders == readers = {}

-----------------------------------------------------------------------------
(* What the goroutine of an iterator goes through.                         *)

\* The keys that the method of the tree, chosen by the switch, would visit:
\* Ascend and Descend, AscendGreaterOrEqual, AscendRange, DescendLessOrEqual.
\* A nil start is less than every key.
visits(a, k) ==
  IF a.reverse
  THEN a.end = Nil \/ k <= a.end
  ELSE /\ a.start = Nil \/ a.start <= k
       /\ a.end = Nil \/ k < a.end

fault_skipEqual(a) == Nil

\* The end of a reverse iterator is exclusive.  The tree visits a key once, so
\* that clearing the variable after the skip changes nothing.
skipEqual(a) == IF a.reverse THEN a.end ELSE Nil

abortLessThan(a) == IF a.reverse THEN a.start ELSE Nil

Before(reverse, k, l) == IF reverse THEN l < k ELSE k < l

\* What the walk of iterator i has not visited yet, and what comes next.
ahead(i) ==
  {k \in DOMAIN btree : visits(args[i], k) /\ (at[i] = Nil \/ Before(args[i].reverse, at[i], k))}

isNext(i, k) == k \in ahead(i) /\ \A l \in ahead(i) : l = k \/ Before(args[i].reverse, k, l)

aborts(i, k) ==
  /\ k # skipEqual(args[i])
  /\ abortLessThan(args[i]) # Nil /\ k < abortLessThan(args[i])

\* What the walk of iterator i is going to send.
toSend(i) ==
  IF phase[i] = "walking"
  THEN {<<k, btree[k]>> : k \in {l \in ahead(i) : l # skipEqual(args[i]) /\ ~aborts(i, l)}}
  ELSE {}

\* The walk comes to its end, and gives up its lock, without its client.
fits(i) == Len(ch[i]) + Cardinality(toSend(i)) <= chBufferSize

-----------------------------------------------------------------------------
(* Reads and writes.  Every operation ends with Return, which runs the     *)
(* deferred RUnlock or Unlock.                                             *)

Starts(c, label, o) ==
  /\ pc' = [pc EXCEPT ![c] = label]
  /\ op' = [op EXCEPT ![c] = o]

Fails(c, err) ==
  Starts(c, "return", Operation("none", Nil, err, Nil)) /\ UNCHANGED <<btree, lock, iterators>>

\* Get, and Has, which tells whether the tree has the item that Get looks for.
Get(c, k) ==
  /\ pc[c] = "idle"
  /\ IF k = Empty
     THEN Fails(c, "errKeyEmpty")
     ELSE /\ Starts(c, "get", Operation("Get", k, Nil, Nil))
          /\ RLock(c)
          /\ UNCHANGED <<btree, iterators>>

read(c) ==
  /\ pc[c] = "get" /\ c \in readers
  /\ Starts(c, "return", Operation("Get", op[c].key,
                                  IF op[c].key \in DOMAIN btree THEN btree[op[c].key] ELSE Nil, Nil))
  /\ UNCHANGED <<btree, lock, iterators>>

\* Set and SetSync.
Set(c, k, v) ==
  /\ pc[c] = "idle"
  /\ \/ k = Empty /\ Fails(c, "errKeyEmpty")
     \/ k # Empty /\ v = Nil /\ Fails(c, "errValueNil")
     \/ /\ k # Empty /\ v # Nil
        /\ Starts(c, "lock", Operation("Set", k, v, Nil))
        /\ UNCHANGED <<btree, lock, iterators>>

\* Delete and DeleteSync.
Delete(c, k) ==
  /\ pc[c] = "idle"
  /\ IF k = Empty
     THEN Fails(c, "errKeyEmpty")
     ELSE /\ Starts(c, "lock", Operation("Delete", k, Nil, Nil))
          /\ UNCHANGED <<btree, lock, iterators>>

Lock(c) ==
  /\ pc[c] = "lock" /\ writer = Nil
  /\ writer' = c
  /\ pc' = [pc EXCEPT ![c] = "write"]
  /\ UNCHANGED <<btree, readers, queued, op, iterators>>

write(c) ==
  /\ pc[c] = "write" /\ noReaders
  /\ btree' = IF op[c].name = "Set"
              THEN [x \in DOMAIN btree \cup {op[c].key} |->
                      IF x = op[c].key THEN op[c].value ELSE btree[x]]
              ELSE [x \in DOMAIN btree \ {op[c].key} |-> btree[x]]
  /\ Starts(c, "return", NoOp)
  /\ UNCHANGED <<lock, iterators>>

Return(c) ==
  /\ pc[c] = "return"
  /\ IF writer = c THEN Unlock ELSE RUnlock(c)
  /\ Starts(c, "idle", NoOp)
  /\ UNCHANGED <<btree, iterators>>

-----------------------------------------------------------------------------
(* The goroutine of an iterator.                                           *)

fault_hasRoom(i) == Len(ch[i]) <= chBufferSize

hasRoom(i) == Len(ch[i]) < chBufferSize

\* The visitor: skip, send, or - in walkEnds - stop.  When the context is
\* cancelled and there is room for the item, select takes either case.
visit(i) ==
  /\ phase[i] = "walking"
  /\ \E k \in ahead(i) :
       /\ isNext(i, k) /\ ~aborts(i, k)
       /\ at' = [at EXCEPT ![i] = k]
       /\ \/ k = skipEqual(args[i]) /\ UNCHANGED ch
          \/ /\ k # skipEqual(args[i]) /\ hasRoom(i)
             /\ ch' = [ch EXCEPT ![i] = Append(@, <<k, btree[k]>>)]
  /\ UNCHANGED <<btree, lock, pc, op, phase, owner, args, item, done>>

\* The walk is over, aborted or cancelled, and the channel is closed.
walkEnds(i) ==
  /\ phase[i] = "walking"
  /\ \/ ahead(i) = {}
     \/ \E k \in ahead(i) :
          /\ isNext(i, k)
          /\ aborts(i, k) \/ (k # skipEqual(args[i]) /\ done[i])
  /\ phase' = [phase EXCEPT ![i] = "closed"]
  /\ UNCHANGED <<btree, lock, pc, op, owner, args, at, ch, item, done>>

fault_walkUnlocks(i) == UNCHANGED lock

walkUnlocks(i) == RUnlock(i)

\* The deferred RUnlock.
walkReturns(i) ==
  /\ phase[i] = "closed"
  /\ walkUnlocks(i)
  /\ phase' = [phase EXCEPT ![i] = "none"]
  /\ UNCHANGED <<btree, pc, op, owner, args, at, ch, item, done>>

-----------------------------------------------------------------------------
(* Iterators, as their clients see them.                                   *)

\* Iterator and ReverseIterator.
Iterator(c, i, start, end, reverse) ==
  /\ pc[c] = "idle" /\ owner[i] = Nil /\ phase[i] = "none"
  /\ IF Empty \in {start, end}
     THEN Fails(c, "errKeyEmpty")
     ELSE /\ Starts(c, "open", Operation("Iterator", Nil, Nil, i))
          /\ RLock(i)
          /\ owner' = [owner EXCEPT ![i] = c]
          /\ args' = [args EXCEPT ![i] = [start |-> start, end |-> end, reverse |-> reverse]]
          /\ UNCHANGED <<btree, phase, at, ch, item, done>>

fault_newMemDBIterator(c) ==
  /\ pc[c] = "open" /\ op[c].iter \in readers
  /\ phase' = [phase EXCEPT ![op[c].iter] = "walking"]
  /\ pc' = [pc EXCEPT ![c] = "prime"]
  /\ RUnlock(op[c].iter)
  /\ UNCHANGED <<btree, op, owner, args, at, ch, item, done>>

\* The read lock is there and passes to the goroutine, which starts.
newMemDBIterator(c) ==
  /\ pc[c] = "open" /\ op[c].iter \in readers
  /\ phase' = [phase EXCEPT ![op[c].iter] = "walking"]
  /\ pc' = [pc EXCEPT ![c] = "prime"]
  /\ UNCHANGED <<btree, lock, op, owner, args, at, ch, item, done>>

Next_(c, i) ==
  /\ pc[c] = "idle" /\ owner[i] = c /\ item[i] # Nil
  /\ Starts(c, "next", Operation("Next", Nil, Nil, i))
  /\ UNCHANGED <<btree, lock, iterators>>

\* The receive at the end of newMemDBIterator and in Next.
receive(c) ==
  /\ pc[c] \in {"prime", "next"}
  /\ LET i == op[c].iter IN
     /\ ch[i] # << >> \/ phase[i] # "walking"
     /\ item' = [item EXCEPT ![i] = IF ch[i] = << >> THEN Nil ELSE Head(ch[i])]
     /\ ch' = [ch EXCEPT ![i] = IF @ = << >> THEN @ ELSE Tail(@)]
  /\ Starts(c, "idle", NoOp)
  /\ UNCHANGED <<btree, lock, phase, owner, args, at, done>>

Close(c, i) ==
  /\ pc[c] = "idle" /\ owner[i] = c
  /\ Starts(c, "drain", Operation("Close", Nil, Nil, i))
  /\ done' = [done EXCEPT ![i] = TRUE]
  /\ UNCHANGED <<btree, lock, phase, owner, args, at, ch, item>>

drain(c) ==
  /\ pc[c] = "drain" /\ ch[op[c].iter] # << >>
  /\ ch' = [ch EXCEPT ![op[c].iter] = Tail(@)]
  /\ UNCHANGED <<btree, lock, pc, op, phase, owner, args, at, item, done>>

\* The channel is closed and empty.  The iterator is not used any more.
drained(c) ==
  /\ pc[c] = "drain"
  /\ LET i == op[c].iter IN
     /\ ch[i] = << >> /\ phase[i] # "walking"
     /\ item' = [item EXCEPT ![i] = Nil]
     /\ owner' = [owner EXCEPT ![i] = Nil]
     /\ args' = [args EXCEPT ![i] = NoArgs]
     /\ at' = [at EXCEPT ![i] = Nil]
     /\ done' = [done EXCEPT ![i] = FALSE]
  /\ Starts(c, "idle", NoOp)
  /\ UNCHANGED <<btree, lock, phase, ch>>

-----------------------------------------------------------------------------

Start(c) ==
  \/ \E k \in Keys \cup {Empty} : Get(c, k) \/ Delete(c, k)
  \/ \E k \in Keys \cup {Empty}, v \in Values \cup {Nil} : Set(c, k, v)
  \/ \E i \in Iters, start, end \in Bounds, reverse \in BOOLEAN :
       Iterator(c, i, start, end, reverse)
  \/ \E i \in Iters : Next_(c, i)

\* The steps of a client inside an operation.
Step(c) ==
  \/ read(c) \/ write(c) \/ Return(c)
  \/ newMemDBIterator(c) \/ receive(c) \/ drain(c) \/ drained(c)

Closes(c) == \E i \in Iters : Close(c, i)

Walk(i) == visit(i) \/ walkEnds(i) \/ walkReturns(i)

Next ==
  \/ \E c \in Clients : Start(c) \/ Closes(c) \/ Lock(c) \/ Step(c)
  \/ \E i \in Iters : Walk(i)

Spec == Init /\ [][Next]_vars

\* Goroutines that can run do run; sync.Mutex hands over in turn once a
\* goroutine has waited for long; a client that gets its operations answered
\* closes each of its iterators at some point.
Fairness ==
  /\ \A c \in Clients : WF_vars(Step(c)) /\ SF_vars(Lock(c))
  /\ \A c \in Clients, i \in Iters : SF_vars(Close(c, i))
  /\ \A i \in Iters : WF_vars(Walk(i))

FairSpec == Spec /\ Fairness

-----------------------------------------------------------------------------
(* Properties                                                              *)

Ops ==
  [name : {"none", "Get", "Set", "Delete", "Iterator", "Next", "Close"},
   key : Keys \cup {Nil}, value : Values \cup {Nil, "errKeyEmpty", "errValueNil"},
   iter : Iters \cup {Nil}]

\* The variables have their types: in particular no channel holds more items
\* than its buffer has room for (memdb_iterator.go:36).
TypeOK ==
  /\ DOMAIN btree \subseteq Keys /\ \A k \in DOMAIN btree : btree[k] \in Values
  /\ writer \in Clients \cup {Nil}
  /\ readers \subseteq Clients \cup Iters /\ queued \subseteq Clients \cup Iters
  /\ pc \in [Clients -> Labels] /\ op \in [Clients -> Ops]
  /\ phase \in [Iters -> Phases] /\ owner \in [Iters -> Clients \cup {Nil}]
  /\ args \in [Iters -> [start : Keys \cup {Nil}, end : Keys \cup {Nil}, reverse : BOOLEAN]]
  /\ at \in [Iters -> Keys \cup {Nil}]
  /\ ch \in [Iters -> Seq(Keys \X Values)] /\ \A i \in Iters : Len(ch[i]) <= chBufferSize
  /\ item \in [Iters -> (Keys \X Values) \cup {Nil}]
  /\ done \in [Iters -> BOOLEAN]

\* The iterator has been returned to its client, or is about to be.
made(i) == owner[i] # Nil /\ ~(pc[owner[i]] = "open" /\ op[owner[i]].iter = i)

\* What an iterator is going to give to its client: where it stands, what is
\* in the channel, and what is still to be sent.
toCome(i) == ({item[i]} \ {Nil}) \cup {ch[i][n] : n \in 1 .. Len(ch[i])} \cup toSend(i)

\* The abstract state: what a client has read, and the cursor of an iterator.
found(c) ==
  IF pc[c] = "return" /\ op[c].name = "Get"
  THEN [key |-> op[c].key, value |-> op[c].value]
  ELSE [key |-> Nil, value |-> Nil]

cursor(i) ==
  IF made(i) /\ ~done[i]
  THEN [ahead |-> toCome(i), start |-> args[i].start,
        end |-> args[i].end, reverse |-> args[i].reverse]
  ELSE [ahead |-> {}, start |-> Nil, end |-> Nil, reverse |-> FALSE]

Store == INSTANCE SnapshotStore WITH
  kv <- btree,
  got <- [c \in Clients |-> found(c)],
  cursors <- [i \in Iters |-> cursor(i)]

\* Reads and writes are atomic and every iterator goes through the items of its
\* domain, in order, as they were when it was made, although the goroutine of
\* newMemDBIteratorMtxChoice reads the tree later and clients write meanwhile.
IteratorsAreSnapshots == Store!Spec

\* Nobody changes the tree while the goroutine of an iterator walks through it:
\* Set and Delete wait for the read lock that goroutine has.
TreeIsStable == [][\A i \in Iters : phase[i] = "walking" => UNCHANGED btree]_vars

\* Client c waits for the lock: in RLock behind a writer, or in Lock.
waits(c) ==
  \/ pc[c] = "get" /\ c \notin readers
  \/ pc[c] = "open" /\ op[c].iter \notin readers
  \/ pc[c] \in {"lock", "write"}

\* Everyone waits for everyone: client c for the lock, the writer for the read
\* lock of a walk, and that walk for c, which would have to receive.
Deadlocked(c) == waits(c) /\ writer # Nil /\ \E i \in Iters : owner[i] = c /\ ~fits(i)

\* Whatever clients do beside their open iterators, every Get, Set, Delete,
\* Iterator, Next and Close returns, except for one cause: a client has begun
\* another operation on the store although the channel cannot take what its own
\* walk has left, and a writer - itself or another client - waits for that walk.
\* Full channels, waiting writers (memdb.go:92) and readers that queue behind
\* them (memdb.go:63) block nobody for good without that.
OperationsReturn ==
  \A c \in Clients : []<>(pc[c] = "idle" \/ \E d \in Clients : Deadlocked(d))

\* The exception is a deadlock indeed: no step of another client and no walk
\* that ends gets a client out of it.
DeadlocksStay == [][\A c \in Clients : Deadlocked(c) => Deadlocked(c)']_vars
=============================================================================
