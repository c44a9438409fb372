---------------------------- MODULE PrivateCursors ----------------------------
(***************************************************************************)
(* What the storage of a contract call promises about iterators, as the    *)
(* Storage implementation GoStorage of libwasmvm/src/storage.rs shows it   *)
(* to a contract: every call has its own list of cursors, numbered by the  *)
(* order of its scans; scanning adds a cursor at the start of its domain,  *)
(* reading moves that one cursor by one entry, and all of them disappear   *)
(* together when the call is over.  A step never touches the cursors of    *)
(* two calls.  Call IDs, frames, references, mutexes and goroutines do not *)
(* appear here.                                                            *)
(***************************************************************************)
EXTENDS Naturals, Sequences

CONSTANTS
  Callers,     \* the calls that can be in progress at the same time
  MaxCursors,  \* most cursors one call can have
  Entries      \* entries in the domain of every cursor

VARIABLE cursors  \* per call: how many entries each of its cursors has read

Init == cursors = [a \in Callers |-> <<>>]

Scan(a) ==
  /\ Len(cursors[a]) < MaxCursors
  /\ cursors' = [cursors EXCEPT ![a] = Append(@, 0)]

Read(a, n) ==
  /\ cursors[a][n] < Entries
  /\ cursors' = [cursors EXCEPT ![a][n] = @ + 1]

Drop(a) == cursors' = [cursors EXCEPT ![a] = <<>>]

Next ==
  \E a \in Callers :
    \/ Scan(a)
    \/ \E n \in DOMAIN cursors[a] : Read(a, n)
    \/ Drop(a)

Spec == Init /\ [][Next]_cursors
=============================================================================
