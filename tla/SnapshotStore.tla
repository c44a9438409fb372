--------------------------- MODULE SnapshotStore ---------------------------
(***************************************************************************)
(* What a client of a store is promised by types.KVStore and               *)
(* types.Iterator (types/store.go): reads and writes are atomic, and an    *)
(* iterator goes once through the items of its domain, from start          *)
(* (inclusive) to end (exclusive), in ascending or descending order, as    *)
(* they were when it was made.                                             *)
(***************************************************************************)
EXTENDS Integers

CONSTANTS
  Clients,  \* the goroutines that use the store
  Iters,    \* iterators that may be open at the same time
  Keys,     \* the keys, ordered as numbers
  Values,   \* the values
  Nil       \* no key, no value, no iterator

VARIABLES
  kv,      \* the items of the store: a function on some of the keys
  got,     \* got[c]: the key that c reads and the value it has found
  cursors  \* cursors[i]: the domain of an iterator and the items ahead of it

vars == <<kv, got, cursors>>

Found(k, v) == [key |-> k, value |-> v]
Nothing == Found(Nil, Nil)

Cursor(ahead, start, end, reverse) ==
  [ahead |-> ahead, start |-> start, end |-> end, reverse |-> reverse]
NoCursor == Cursor({}, Nil, Nil, FALSE)

\* The items of a store between start and end, either of which may be Nil.
ItemsBetween(store, start, end) ==
  {<<k, store[k]>> : k \in {x \in DOMAIN store :
     (start = Nil \/ start <= x) /\ (end = Nil \/ x < end)}}

\* m is the item at which the cursor stands.
IsFirst(m, cursor) ==
  /\ m \in cursor.ahead
  /\ \A n \in cursor.ahead : IF cursor.reverse THEN n[1] <= m[1] ELSE m[1] <= n[1]

Init ==
  /\ kv = << >>
  /\ got = [c \in Clients |-> Nothing]
  /\ cursors = [i \in Iters |-> NoCursor]

Write(k, v) ==
  /\ kv' = [x \in DOMAIN kv \cup {k} |-> IF x = k THEN v ELSE kv[x]]
  /\ UNCHANGED <<got, cursors>>

Remove(k) ==
  /\ kv' = [x \in DOMAIN kv \ {k} |-> kv[x]]
  /\ UNCHANGED <<got, cursors>>

Read(c, k) ==
  /\ got' = [got EXCEPT ![c] = Found(k, IF k \in DOMAIN kv THEN kv[k] ELSE Nil)]
  /\ UNCHANGED <<kv, cursors>>

Forget(c) ==
  /\ got' = [got EXCEPT ![c] = Nothing]
  /\ UNCHANGED <<kv, cursors>>

Open(i, start, end, reverse) ==
  /\ cursors[i] = NoCursor
  /\ cursors' = [cursors EXCEPT ![i] =
                   Cursor(ItemsBetween(kv, start, end), start, end, reverse)]
  /\ UNCHANGED <<kv, got>>

Advance(i) ==
  /\ \E m \in cursors[i].ahead :
       /\ IsFirst(m, cursors[i])
       /\ cursors' = [cursors EXCEPT ![i] = Cursor(@.ahead \ {m}, @.start, @.end, @.reverse)]
  /\ UNCHANGED <<kv, got>>

Close(i) ==
  /\ cursors' = [cursors EXCEPT ![i] = NoCursor]
  /\ UNCHANGED <<kv, got>>

Next ==
  \/ \E k \in Keys, v \in Values : Write(k, v)
  \/ \E k \in Keys : Remove(k)
  \/ \E c \in Clients, k \in Keys : Read(c, k)
  \/ \E c \in Clients : Forget(c)
  \/ \E i \in Iters, start, end \in Keys \cup {Nil}, reverse \in BOOLEAN :
       Open(i, start, end, reverse)
  \/ \E i \in Iters : Advance(i) \/ Close(i)

Spec == Init /\ [][Next]_vars

=============================================================================
