------------------------------ MODULE CacheLock ------------------------------
(***************************************************************************)
(* The life of a VM and of the lock on its directory: InitCache and        *)
(* ReleaseCache of internal/api/lib.go, init_cache and release_cache of    *)
(* libwasmvm/src/cache.rs.                                                 *)
(*                                                                         *)
(* VMs live in several processes.  Each takes an exclusive flock on the    *)
(* file exclusive.lock of its directory.  The lock belongs to the open     *)
(* file, and goes away when that is closed: by ReleaseCache, by the        *)
(* finalizer of an os.File nobody refers to any more, or by the kernel     *)
(* when the process dies.                                                  *)
(***************************************************************************)
EXTENDS Naturals, FiniteSets

CONSTANTS
  VMs,       \* the VMs applications create
  Process,   \* the process of each VM
  Dir,       \* Cache.BaseDir of each VM's configuration
  MaxFiles   \* bound: calls of OpenFile in a behaviour

ASSUME CacheLockAssumption == MaxFiles \in Nat

VARIABLES
  pc,      \* per VM: where it is in its life
  file,    \* per VM: the open file behind cache.lockfile
  cache,   \* the VMs whose Rust cache exists and is referred to by Go
  files,   \* the open files: owner and whether it is locked
  count    \* number of files opened so far

vars == <<pc, file, cache, files, count>>

NoFile == 0
Locations == {"none", "opened", "locked", "ready", "cleanup"}

\* An open file, or one that has been closed or not opened yet.
File(open, locked, dir, process) ==
  [open |-> open, locked |-> locked, dir |-> dir, process |-> process]

OpenFiles == {k \in 1 .. count : files[k].open}
LockedDir(d) == \E k \in OpenFiles : files[k].locked /\ files[k].dir = d

Init ==
  /\ pc = [v \in VMs |-> "none"]
  /\ file = [v \in VMs |-> NoFile]
  /\ cache = {}
  /\ files = [k \in 1 .. MaxFiles |-> File(FALSE, FALSE, "none", "none")]
  /\ count = 0

At(v, l) == pc[v] = l
Goes(v, l) == pc' = [pc EXCEPT ![v] = l]

\* The VM's file is no longer referred to; it stays open until it is finalized.
Forgets(v) == file' = [file EXCEPT ![v] = NoFile] /\ Goes(v, "none")

closed(k) == [files EXCEPT ![k] = File(FALSE, FALSE, @.dir, @.process)]

\* InitCache: MkdirAll, OpenFile and WriteString succeed.
OpenFile(v) ==
  /\ At(v, "none")
  /\ count < MaxFiles
  /\ count' = count + 1
  /\ files' = [files EXCEPT ![count + 1] = File(TRUE, FALSE, Dir[v], Process[v])]
  /\ file' = [file EXCEPT ![v] = count + 1]
  /\ Goes(v, "opened")
  /\ UNCHANGED cache

\* InitCache: WriteString fails.
WriteFails(v) ==
  /\ At(v, "opened")
  /\ Forgets(v)
  /\ UNCHANGED <<cache, files, count>>

\* flock with LOCK_EX and LOCK_NB.
canLock(d) == ~LockedDir(d)

Flock(v) ==
  /\ At(v, "opened")
  /\ canLock(Dir[v])
  /\ files' = [files EXCEPT ![file[v]] = File(@.open, TRUE, @.dir, @.process)]
  /\ Goes(v, "locked")
  /\ UNCHANGED <<file, cache, count>>

\* "could not lock exclusive.lock. Is a different VM running in the same
\* directory already?"
FlockFails(v) ==
  /\ At(v, "opened")
  /\ ~canLock(Dir[v])
  /\ Forgets(v)
  /\ UNCHANGED <<cache, files, count>>

init_cache(v) ==
  /\ At(v, "locked")
  /\ cache' = cache \cup {v}
  /\ Goes(v, "ready")
  /\ UNCHANGED <<file, files, count>>

\* The configuration does not serialize, or C.init_cache fails.  The file stays
\* open, and the directory locked, until the file is finalized.
initFails(v) ==
  /\ At(v, "locked")
  /\ Forgets(v)
  /\ UNCHANGED <<cache, files, count>>

fault_cleanupOrder == [ready |-> "Close", cleanup |-> "release_cache"]

\* The order of the two statements of ReleaseCache.
cleanupOrder == [ready |-> "release_cache", cleanup |-> "Close"]

\* ReleaseCache, one statement.
ReleaseCache(v) ==
  /\ pc[v] \in {"ready", "cleanup"}
  /\ IF cleanupOrder[pc[v]] = "release_cache"
     THEN cache' = cache \ {v} /\ UNCHANGED <<file, files>>
     ELSE /\ files' = closed(file[v])
          /\ file' = [file EXCEPT ![v] = NoFile]
          /\ UNCHANGED cache
  /\ Goes(v, IF At(v, "ready") THEN "cleanup" ELSE "none")
  /\ UNCHANGED count

\* The application drops the VM without Cleanup; nothing uses its Rust cache then.
Drop(v) ==
  /\ At(v, "ready")
  /\ cache' = cache \ {v}
  /\ Forgets(v)
  /\ UNCHANGED <<files, count>>

\* The Go runtime finalizes an os.File that nobody refers to.
finalize(k) ==
  /\ k \in OpenFiles
  /\ \A v \in VMs : file[v] # k
  /\ files' = closed(k)
  /\ UNCHANGED <<pc, file, cache, count>>

\* A process dies at any point; the kernel closes its files.
Crash(p) ==
  LET dead == {v \in VMs : Process[v] = p} IN
  /\ \E v \in dead : ~At(v, "none")
  /\ pc' = [v \in VMs |-> IF v \in dead THEN "none" ELSE pc[v]]
  /\ file' = [v \in VMs |-> IF v \in dead THEN NoFile ELSE file[v]]
  /\ cache' = cache \ dead
  /\ files' = [k \in DOMAIN files |->
                 IF files[k].process = p
                 THEN File(FALSE, FALSE, files[k].dir, p) ELSE files[k]]
  /\ UNCHANGED count

VMStep(v) ==
  \/ OpenFile(v) \/ WriteFails(v) \/ Flock(v) \/ FlockFails(v)
  \/ init_cache(v) \/ initFails(v) \/ ReleaseCache(v) \/ Drop(v)

Next ==
  \/ \E v \in VMs : VMStep(v)
  \/ \E k \in 1 .. MaxFiles : finalize(k)
  \/ \E p \in {Process[v] : v \in VMs} : Crash(p)

Spec == Init /\ [][Next]_vars

-----------------------------------------------------------------------------
(* Properties.                                                             *)

\* Every variable has its type, and a VM past Flock has the open locked file of
\* its directory.
TypeOK ==
  /\ pc \in [VMs -> Locations]
  /\ file \in [VMs -> 0 .. count]
  /\ cache \subseteq VMs
  /\ count \in 0 .. MaxFiles
  /\ \A k \in DOMAIN files : files[k].locked => files[k].open
  /\ \A v \in VMs : pc[v] \in {"locked", "ready", "cleanup"} =>
       /\ file[v] \in OpenFiles
       /\ files[file[v]].locked /\ files[file[v]].dir = Dir[v]

\* "no two VM instances operate on the same directory in parallel"
\* (docs/MIGRATING.md): two Rust caches in use never share a directory, across
\* processes, failed and repeated InitCaches, crashes and the garbage collector.
Exclusive ==
  \A v, w \in cache : Dir[v] = Dir[w] => v = w
=============================================================================
