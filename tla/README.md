# TLA+ models of wasmvm

wasmvm lets a Go application run CosmWasm contracts. A call crosses the border
between Go and Rust twice in each direction: Go calls a C function of libwasmvm,
which runs the contract in `cosmwasm_vm`; the contract uses the application's
store, address functions and querier through callbacks into Go; and a querier
may call the library again before the first call has returned. These modules
model that border: who owns which memory, whose error and whose gas a caller
gets, which iterator a reference means, which VM may use a directory, which codes
are on disk, what a querying contract learns, and what the store of the tests
promises its clients.

## Inventory

| Part | Code | State | Operations | What is hard about it |
|---|---|---|---|---|
| Iterator frames | `internal/api/iterator.go`, `callbacks.go`, `libwasmvm/src/{storage,iterator}.rs` | `latestCallID`, `iteratorFrames`, `GoStorage.iterators` | `startCall`, `storeIterator`, `retrieveIterator`, `removeFrame`, `endCall` | goroutines share one map; nested calls; two numberings of the same iterators; closing outside the mutex; limit of a frame |
| Entry points | `lib_libwasmvm.go`, `internal/api/lib.go`, `libwasmvm/src/calls.rs` | none of their own | 19 contract calls in three layers | the layers repeat each other with untyped arguments |
| Callbacks | `callbacks.go`, `callbacks_cgo.go`, `{storage,iterator,api,querier}.rs` | none of their own | 11 callbacks | panics of the application, `nil` against empty |
| Vectors | `memory.go`, `memory.rs` | allocations | `newUnmanagedVector`, `consume`, `copyAndDestroyUnmanagedVector` | freed exactly once, on error paths too |
| Errors | `error/go.rs`, `error/rust.rs`, `errorWithMessage` | `errno` of the thread | `set_error`, `clear_error`, `into_result` | nested calls and libc overwrite `errno` |
| Gas | `DeserializeResponse`, `gas_report.rs`, `types/fraction.go`, callbacks | the application's meter, the VM's limit | report, charge | nested calls use the same meter; words wrap around |
| Life of a VM | `InitCache`, `ReleaseCache`, `cache.rs` | lock file, Rust cache | open, lock, create, release | crashes, failures half-way, finalizers |
| Code cache | `lib.go`, `cache.rs` | codes and pins, inside `cosmwasm_vm` | store, load, remove, pin, sync, metrics | partial failures, restarts, lists without lengths, adjacent booleans |
| Query results | `types/queries.go`, `types/systemerror.go` | none | conversions | five forms that tell failures, empty data and nothing apart differently |
| JSON sizes | `types/json_size.go` | none | pure functions | names, commas, escapes and digits counted by hand |
| MemDB | `internal/api/testdb` | B-tree, lock, goroutine per iterator | get, set, iterate | a walk holds the read lock while its channel is full; a waiting writer keeps readers out |

The correctness properties that follow from this are the ones of the runs
below. `PROJECT.json` lists the hazards line by line, with the property that
covers each or the reason why none does.

## Modules

* **IteratorFrames** - goroutines with stacks of calls on the shared frames. A
  critical section is one step, a call on an iterator outside the mutex another.
  `held` is the iterator a callback works on, `closing` the rest of `endCall`'s
  loop. `storage` is Rust's list of references, numbered separately.
* **PrivateCursors** - what a contract is promised about its iterators: a private
  list of cursors. IteratorFrames is shown to implement it (`CursorsArePrivate`).
* **IteratorFramesProofs** - the theorems about IteratorFrames.
* **EntryPoints** - the tables of the three layers: what each VM method calls,
  which arguments it passes in which order, into what it decodes the answer.
  `RawFunctions` is what `cosmwasm_vm` expects: which entry point a function runs,
  with which arguments and which answer.
* **Callbacks** - the answers each Go callback can give and what Rust makes of them.
* **ContractCall** - composes EntryPoints and Callbacks: one thread with its
  `errno`, the heap of vectors, and a stack of calls from the VM method to the
  contract and back, cache operations included.
* **ContractCallProofs** - the theorems about ContractCall.
* **GasAccounting** - the application's meter, the limits of nested calls, gas
  reports and the charge for decoding, in words that wrap around.
* **GasAccountingProofs** - the theorems about GasAccounting.
* **CacheLock** - VMs in several processes, the lock file, crashes and finalizers.
* **CacheLockProofs** - the theorems about CacheLock.
* **CodeCache** - storing, simulating, removing, reading, pinning and syncing codes
  from the VM method down to the cache, with gas, partial failures and restarts.
  A checksum is a sequence of bytes; `buffer`, the last of the slices in `appended`,
  and `chunks_exact` are the two ends of the slice in which `SyncPinnedCodes` sends a
  list of them. `allowed`,
  `returned` and `last` record what applications did and were told.
* **CodeCacheProofs** - the theorems about CodeCache.
* **QueryResults** - what a contract learns of a query, along a chain of contracts
  that ask each other: every conversion between the document of one contract
  and the `SystemResult` the other gets.
* **QueryResultsProofs** - the theorems about QueryResults.
* **JSONSize** - every `ExpectedJSONSize` method (`Size_` and its type) next to the
  declaration of the type, as the set of its values, and the length of the
  document that `encoding/json` makes of the fields and their tags (`Marshal_` and
  its type). A behaviour is one call, with any value in `Measured`.
* **JSONSizeProofs** - the theorems about JSONSize.
* **MemDB** - clients of the in-memory store, Go's `RWMutex` with its waiting
  writer, and for each iterator the goroutine that walks the tree and the
  channel through which it sends. `visits` and its neighbours are the btree
  callbacks of `newMemDBIterator`.
* **SnapshotStore** - what the store promises: atomic reads and writes, and
  iterators that go in order through the items there were when they were made.
  MemDB is shown to implement it (`IteratorsAreSnapshots`).
* **MemDBProofs** - the theorems about MemDB: the inductive invariant with the
  steps of clients; then receiving from a channel, the walks of the goroutines,
  the theorems, and that a deadlock lasts.

An `MC` module instantiates the module of the same name. An operator whose name
starts with `fault_` is a seeded fault: a copy of the definition after it with
one mistake. Putting it in the definition's place must violate a property; no
specification uses it.

`cosmwasm_vm`, the allocator, cgo, `flock` and the Go runtime are outside the
repository and modelled from their use: a contract may make any callbacks in any
order and end in any way; `errno` may be overwritten at any point inside a call;
a file nobody refers to is closed at some point or never. When a callback
reports a user error the VM may abort the contract or go on; the models allow both.

## Runs

| Run | Properties | Shows | Distinct states |
|---|---|---|---|
| `frames_safety` | `TypeOK`, `HandlesResolve`, `NoUseAfterClose`, `ClosedOnce`, `FramesReleased`, `CursorsArePrivate` | references mean the right open iterator; nothing is used after it is closed or closed twice; frames go away with their call; the shared map implements private cursors | 517,764 |
| `frames_closing` | `NoIteratorLeak`, `StoredIteratorsClosed`, `CallsEnd` | stored iterators get closed, goroutines get out, no open iterator is lost below the limit of a frame | 79,062 |
| `frames_limit` | `NoIteratorLeak` | *violated* at the limit, see Findings | |
| `calls` | `TypeOK`, `OneOwner`, `OutcomeIsOwn`, `FailureReportsGas`, `AnswersArrive`, `DispatchedRight` | memory, errors and gas reports of nested calls; all entry points and callbacks are wired correctly | 1,007,036 |
| `gas` | `TypeOK`, `ExternalIsMetered`, `ChargeWithinLimit` | gas is counted once and charged within the limit | 1,258,147 |
| `gas_remaining` | `RemainingIsLeft` | *violated*, see Findings | |
| `lock` | `TypeOK`, `Exclusive` | no two VMs use one directory | 69,929 |
| `memdb_safety` | `TypeOK`, `IteratorsAreSnapshots`, `TreeIsStable` | the store implements atomic operations and snapshot iterators; no write happens under a walk | 908,588 |
| `memdb_liveness` | `OperationsReturn`, `DeadlocksStay` | operations return while walks are stopped by full channels and writers wait, with one kind of deadlock as the only exception, see Findings | 245,292 |
| `json_size` | `SizesAreExact` | the sizes are exact for the values in `Counted` and too small for all others | 229,750 |
| `query_results` | `FailuresArrive`, `AnswersArriveUnchanged`, `SystemErrorsArrive` | failures, data and system errors survive chains of queries | 1,258 |
| `code_cache` | `OnlyPaidCodesStored`, `StoredCodesStay`, `SyncPinsList` | nothing is stored unpaid, nothing stored gets lost, syncing pins its list | 25,866 |

### Bounds

Two goroutines and a nesting of two are the least in which calls are both
concurrent and nested. Three call IDs let a nested call run beside a call of the
other goroutine. Frames of one or two iterators make the limit reachable; in
`frames_closing` the gas of a call pays for no more iterators than a frame holds,
which is what keeps that run below the limit. `calls` takes every entry, cache
operation and callback; the querier starts nested calls with the entries in
`Nesting`, one that changes the store and one that only reads, because nesting
does not change the wiring. The prices of `gas` are realistic in that no sum of a
limit and a price leaves a word of 16 values; the theorems have no such
condition. Four files let a directory be locked, abandoned, refused and locked
again.

In both MemDB runs a channel takes one item: with two keys a walk can wait for
its client, with three it can wait again after the client has received.
In both, clients begin any operation beside their open iterators, and block where Go
blocks. The bounds of the iterators of `memdb_safety` include `nil`, empty keys and
keys on either side; those of `memdb_liveness` walk the whole tree, and its single
value is enough because no value decides who waits.
Codes are a short, a long and an invalid one, with limits below, between and above
their prices and lists of two checksums, cut-off ones and `nil` included. JSON
strings and lists of coins have up to three elements, slices up to seven bytes
(two groups of base64 and a rest), ints eight bits, other numbers up to five
digits; the structs take every value that can be made of two strings, two slices,
two numbers and up to two coins, with each pointer `nil` or not. Chains of queries have three
contracts, so that one is in the middle.

Goroutines are symmetric; only `frames_limit` uses the symmetry, since the other
runs of IteratorFrames check temporal properties.

Deadlock is checked in `query_results` and `code_cache`, where something can
always happen next. Elsewhere the application may stop calling, the bounds use up
calls, files or gas, or, in MemDB, clients may deadlock.

### Fairness

`FairSpec` of IteratorFrames is weakly fair for every goroutine inside the
library. The Go scheduler runs every goroutine that can run, no mutex is held
across a call, and gas ends every contract (`GasLimit` is part of the model, not
only a bound). Whether the application makes another call is left open. `Close`
and the store are assumed to return.

`FairSpec` of MemDB is weakly fair for the steps inside an operation, for the
goroutine of every iterator, for the same reason. It is strongly fair for `Close`,
which the store's interface demands of its clients ("Callers must call Close when
done.", `types/store.go`): a client may use the store in between, but not for ever
instead. It is strongly fair for `Lock`, the step that takes the writers'
mutex inside the `RWMutex`: other writers may take it in between again and again,
and Go's `Mutex` hands it to a goroutine that has waited long enough. Whether a
client begins another operation is left open.

## Findings

* **An iterator is left open at the limit of a frame** (`frames_limit`).
  `storeIterator` refuses an iterator when the frame is full, and `cScan`
  (`internal/api/callbacks.go:258`) returns the error without closing it;
  `types/store.go:13` says "Iterator must be closed by caller."
* **Remaining gas wraps around** (`gas_remaining`). `DeserializeResponse`
  (`lib_libwasmvm.go:848`) leaves gas used externally out of its check, so the
  subtraction at line 852 can underflow in a successful call;
  `libwasmvm/src/gas_report.rs:6` calls the field "The remaining gas that can be
  spend". `UsedInternally`, which `ChargeWithinLimit` is about, stays within the
  limit.

Four observations are no findings with a run of their own:

* An `InitCache` that fails after `flock` does not close the lock file, so a retry
  is refused until the garbage collector has closed it. Nothing in the repository
  says otherwise.
* `internal/api/testdb/memdb.go:165` says that `Iterator` "Takes out a read-lock on
  the database until the iterator is closed." The goroutine gives the lock up as
  soon as it has put its last item into the channel (`memdb_iterator.go:50`), which
  takes 64, so it may be free long before `Close`. `fits` in MemDB says when.
* While the channel of its iterator is full a client of `testdb` can deadlock. It is
  enough that its walk has more items left than the channel takes (`fits`) and that the
  client itself calls `Set` or `Delete`, or that another client does and then the first
  one calls `Get` or `Iterator`: the reader queues behind the writer in `RLock`
  (`memdb.go:63`), the writer waits in `Lock` for the walk (`memdb.go:92`), and the
  walk for the client that would have to receive (`memdb_iterator.go:70`).
  `OperationsReturn` says that nothing else keeps an operation from returning,
  `DeadlocksStay` that nobody gets out. `types/store.go:24` says "No writes can happen
  to a domain while there exists an iterator over it", which leaves it to the
  application to keep such writes away, so the code contradicts no promise.
* `types/json_size.go:7` calls the sizes "a best guess and correct in most cases".
  `SizesAreExact` says which cases: all but U+2028, U+2029, bytes that are no UTF-8
  and the least int, for which the result is smaller than the document.

## Proofs

`IteratorFramesProofs` proves for every set of goroutines and every value of the
bounds that satisfies `ConstantsAssumption` (natural numbers, `MaxDepth` positive,
and the frame limit at most `MaxInt32`; 32768 in the code):
`TypeCorrect`, `HandlesAlwaysResolve`, `NeverUsedAfterClose`, `AlwaysClosedOnce`
and `FramesAlwaysReleased`, the five invariants of `frames_safety`, its refinement
`CursorsStayPrivate`, and `NeverLeaks`, the invariant of `frames_closing`.

None of these is inductive. `HandlesResolve` needs to know that Rust's list and
Go's frame have the same length and order (`StorageInv`), that the frame holds
distinct open iterators of its own call (`FrameInv`), and that no two calls have
the same ID (`IdInv`). Storing keeps frames distinct because an iterator that is
being stored is in no frame yet (`HeldInv`); closing harms no other call because
what `endCall` removed is in no frame any more (`ClosingInv`); a freshly opened
iterator is new everywhere (`OpenedInv`); and only the topmost call of a
goroutine moves (`StackInv`). `IInv` is their conjunction. Each action has a
lemma that it preserves `IInv`, `Invariance` combines them, and the five
invariants follow from `IInv`.

`CursorInv` adds three facts for the other two theorems: `cNext` works on an
iterator of its own frame (`NextInv`), nobody has read an iterator that is not
stored yet (`FreshInv`), and every scan of a call has been paid for (`PaidInv`).

* `CursorsStayPrivate` says that every step of IteratorFrames is a step of
  PrivateCursors or none. `storeIterator` is `Scan`, which needs `FreshInv` since
  a new cursor starts at the front; `advance` is `Read` of one cursor of the same
  contract, which needs `NextInv` and `FrameInv` since no other reference may lead
  to the iterator that moved; the end of a call is `Drop`. All other steps, those of
  other goroutines and of nested calls included, leave what a contract sees as
  it was (`OthersKeep`).
* `NeverLeaks` has the hypothesis `GasLimit <= FrameLenLimit`. Without it the
  statement is false (`frames_limit`). With it `PaidInv` shows that `storeIterator`
  never meets a full frame, so the path on which `cScan` forgets its iterator is
  not taken.

`ContractCallProofs` proves the six invariants of `calls` for any entries and
callbacks out of the tables and any depth and number of calls. `OneOwner` is not
inductive: an allocation could collide with one of a call further down the stack.
The reason that it does not is `HeapInv`, all memory belongs to the innermost
call, together with `StackInv`, every call below it waits in `cQueryExternal`, where
it holds nothing (`CallOK`). Allocation then starts from an empty heap, and
`AnswerHeld` and `ResultHeld` say where the vectors of an answer or a result are.
`OutcomeIsOwn` needs `ErrnoInv`: between the end of the C function and cgo's look at
it `errno` is what `handle_c_error` left, whatever nested calls and libc did before.
`AnswersArrive` needs that a vector Rust consumes still stands for the bytes Go
put into it (`VectorHolds`). `AlwaysDispatchedRight` rests on `Dispatches`, which
follows each entry of the tables through the three layers to the function of that entry; these lemmas go
through a finite table, the others do not depend on its size.

`QueryResultsProofs` proves the three invariants of `query_results` for any data
and messages and chains of any length. The properties only speak of the moment
when a contract has its answer; `IInv` says at every stage before, document,
pair of data and error, `QuerierResult`, that what the contract will make of it
is right (`Arrives`). The lemmas at the start compute this border by border, and
are where `ToQuerierResult`, both `MarshalJSON` and the reading on the Rust side
have to fit together. `NilAssumption` says that the constants that stand for `nil`
and for an absent member are none of the records they are compared with, which
TLA+ leaves open for arbitrary values; TLC evaluates it on the run's model values.

`MemDBProofs` proves `TypeCorrect`, `WalkedTreeIsStable`, `IteratorsSeeSnapshots` and
`DeadlocksLast` for any clients, iterators, integer keys, values and buffer
size. `IteratorsSeeSnapshots` is the whole refinement: every step of
MemDB is a step of SnapshotStore or none, where a cursor of SnapshotStore is what
has been sent, what is in the channel and what is still in the tree. `IInv` says
that a walk has the read lock and an operation works on an iterator of its own
client (`UseInv`, `IterInv`), and that what was received, what is in the channel
and what is still to be visited follow each other in the order of the iterator
(`OrderInv`); without the last, the next item received need not be the next one
of the snapshot. The lemma of a step says both that it keeps `IInv` and which step
of SnapshotStore it is. `DeadlocksLast` also needs that a writer waits or has no readers
(`LockInv`), so that no `Unlock` lets the client in, and that the tree is finite
(`FiniteInv`), so that a visit moves one item from what is left to the channel and
the sum that does not fit stays the same.

`CacheLockProofs` proves `TypeCorrect` and `AlwaysExclusive` for any VMs, processes
and directories. `Exclusive` alone does not survive a step: two VMs could share a
locked file. `OwnInv` and `DistinctInv` give each VM an open file of its own,
`LockInv` gives a directory one locked file at most, and `CacheInv` says that a
cache exists only between `init_cache` and `release_cache`, while its file is locked.

`GasAccountingProofs` proves `TypeCorrect`, `ExternalAlwaysMetered` and
`ChargeAlwaysWithinLimit` for words of any width and any limits, costs and prices,
as long as the meter itself does not overflow (`MaxMeter < Word`). The invariant
adds that every call below the innermost is inside a query and that readings of
the meter do not decrease, so that no difference wraps around. The charge stays
within the limit even when the sum in `DeserializeResponse` does wrap around,
because what is compared is what is charged.

`CodeCacheProofs` proves `OnlyPaidCodesEverStored` and `StoredCodesAlwaysStay` for any
codes, prices and limits; the two are inductive together. That files survive a restart
is an assumption of the model, not a result: `Restart` leaves `stored` alone. `SyncAlwaysPinsList` is
proved for lists and checksums of any length, cut-off checksums and `nil` in the
list included. A successful call has found every chunk among the stored codes,
so all chunks are checksums; what has to be shown is that they are then the
checksums in the list (`ChunksAreListed`). Checksums are hashes, so the model takes
two bytes of different checksums or places to be different; a cut-off checksum
lacks its last byte. The last byte of a chunk comes from the list
(`EveryByteIsListed`), and only a whole checksum has it, so the chunk is in the list.
Conversely, a whole checksum of the list lies somewhere in the slice
(`ChecksumsArePlaced`); were that not at the start of a chunk, its first byte would
be in the middle of a chunk, and no checksum has it there.

`JSONSizeProofs` proves `EverySizeIsExact` for all 30 types and all their values, and
from it `SizesAlwaysExact` for any set `Measured` of values. `Agree` is the statement
for one type: the size is at most the length of the document, and equal just for
the values in `Counted`. Strings and lists come down to comparing two sums element by
element (`SumsCompare`), which is why the sizes are never too large: every character
is counted with what it takes or with less. Numbers come down to showing that
dividing by ten until zero and the powers of ten give the same number of digits.
A struct is the sum of its fields, so it is counted if all its fields are;
`VariantsAgree` treats the messages with two pointers, where the comma depends on
both. The proof assumes that the least int is negative, that `Measured` contains
values of the types, and the lengths of the member names (`NameLengths`), which the
provers cannot compute and TLC does on the run.

Both proofs need induction over data. The library's induction theorems take a
predicate as a parameter, which the provers cannot instantiate; `WFMin`, every
nonempty set of numbers has a least element, is about sets and gives the same. A
recursive function is defined by choice, so each proof first shows that a function
with the equations of the definition exists (`LoopsRun`, `Recursion`).

Only model-checked: the liveness properties `StoredIteratorsClosed`, `CallsEnd` and
`OperationsReturn`, because fairness and `ENABLED` are out of the prover's reach. Every
other property of a passing run has a theorem.

The larger proof modules make Zenon the default backend (`USE Zenon`): most of
their leaves are first-order, and a leaf about numbers or sequences cites SMT.

## Not modelled

Message types, JSON texts, error wording, logging, version and link files, mocks,
the demo and the generated header have no state to check. `ByteSliceView` and
`U8SliceView` borrow memory for one call. Calling conventions are below the level
of the models. A second `Cleanup`, or one during a call, breaks a duty of the
application that the library cannot detect. Call IDs are 64 bits wide and do not
wrap around in the models.

Of MemDB, `Print` and `Stats` only read, and the iterators without a mutex are not
used. A panic in an iterator's `Close`, an iterator that fails without ending, and
the gas of a callback that panicked are hazards without a property: the repository
does not say what has to happen.
