--------------------------- MODULE CacheLockProofs ---------------------------
(***************************************************************************)
(* Theorems about CacheLock, for any number of VMs, processes, directories *)
(* and files.                                                              *)
(***************************************************************************)
EXTENDS CacheLock, TLAPS

(***************************************************************************)
(* The inductive invariant.  A VM that is in use has a file of its own,    *)
(* open and locked; a directory has one locked file at most; and a Rust    *)
(* cache exists only between init_cache and release_cache.                 *)
(***************************************************************************)

Dirs == {Dir[v] : v \in VMs} \cup {"none"}
Processes == {Process[v] : v \in VMs} \cup {"none"}

FilesInv ==
  /\ files \in [1 .. MaxFiles ->
                  [open : BOOLEAN, locked : BOOLEAN, dir : Dirs, process : Processes]]
  /\ \A k \in 1 .. MaxFiles : files[k].open => k <= count

OwnInv ==
  \A v \in VMs :
    /\ pc[v] = "none" <=> file[v] = NoFile
    /\ file[v] # NoFile => /\ files[file[v]].open
                           /\ files[file[v]].dir = Dir[v]
                           /\ files[file[v]].process = Process[v]

DistinctInv == \A v, w \in VMs : file[v] = file[w] /\ file[v] # NoFile => v = w

LockInv ==
  \A k, l \in 1 .. MaxFiles :
    files[k].locked /\ files[l].locked /\ files[k].dir = files[l].dir => k = l

CacheInv == \A v \in cache : pc[v] = "ready"

IInv == TypeOK /\ FilesInv /\ OwnInv /\ DistinctInv /\ LockInv /\ CacheInv

-----------------------------------------------------------------------------

USE CacheLockAssumption DEF CacheLockAssumption, NoFile, File

LEMMA InitInv == Init => IInv
  BY DEF Init, IInv, TypeOK, FilesInv, OwnInv, DistinctInv, LockInv, CacheInv, Locations,
         OpenFiles, Dirs, Processes

\* InitCache fails, or the VM is dropped: the file is not referred to any more.
LEMMA ForgetsStep ==
  ASSUME IInv, NEW v \in VMs, Forgets(v), cache' = cache \ {v}, UNCHANGED <<files, count>>
  PROVE  IInv'
<1> USE DEF Forgets, Goes
<1>1. TypeOK'
  BY DEF IInv, TypeOK, Locations, OpenFiles
<1>2. FilesInv' /\ LockInv'
  BY DEF IInv, FilesInv, LockInv
<1>3. OwnInv' /\ DistinctInv' /\ CacheInv'
  BY DEF IInv, TypeOK, OwnInv, DistinctInv, CacheInv
<1> QED BY <1>1, <1>2, <1>3 DEF IInv

LEMMA OpenFileStep ==
  ASSUME IInv, NEW v \in VMs, OpenFile(v)
  PROVE  IInv'
<1> USE DEF OpenFile, Goes, At, IInv
<1>1. /\ count + 1 \in 1 .. MaxFiles /\ count \in Nat
      /\ ~files[count + 1].open /\ ~files[count + 1].locked
  <2>1. count + 1 \in 1 .. MaxFiles /\ count \in Nat /\ ~(count + 1 <= count)
    BY DEF TypeOK
  <2>2. ~files[count + 1].open
    BY <2>1 DEF FilesInv
  <2> QED BY <2>1, <2>2, ZenonT(30) DEF TypeOK, FilesInv
<1>2. TypeOK'
  <2>1. pc' \in [VMs -> Locations] /\ file' \in [VMs -> 0 .. count'] /\ count' \in 0 .. MaxFiles
    BY <1>1 DEF TypeOK, Locations
  <2>2. \A k \in DOMAIN files' : files'[k].locked => files'[k].open
    BY <1>1 DEF TypeOK, FilesInv
  <2>3. ASSUME NEW w \in VMs, pc'[w] \in {"locked", "ready", "cleanup"}
        PROVE  /\ file'[w] \in OpenFiles'
               /\ files'[file'[w]].locked /\ files'[file'[w]].dir = Dir[w]
    BY <1>1, <2>3 DEF TypeOK, FilesInv, OpenFiles
  <2> QED BY <2>1, <2>2, <2>3 DEF TypeOK
<1>3. FilesInv'
  BY <1>1 DEF TypeOK, FilesInv, Dirs, Processes
<1>4. OwnInv'
  BY <1>1 DEF TypeOK, FilesInv, OwnInv
<1>5. DistinctInv'
  BY <1>1 DEF TypeOK, FilesInv, OwnInv, DistinctInv
<1>6. LockInv'
  BY <1>1 DEF TypeOK, FilesInv, LockInv
<1>7. CacheInv'
  BY DEF TypeOK, CacheInv
<1> QED BY <1>2, <1>3, <1>4, <1>5, <1>6, <1>7

\* flock only succeeds if no open file of the directory is locked.
LEMMA FlockStep ==
  ASSUME IInv, NEW v \in VMs, Flock(v)
  PROVE  IInv'
<1> USE DEF Flock, Goes, At, IInv
<1>1. /\ file[v] \in 1 .. MaxFiles /\ file[v] \in OpenFiles
      /\ files[file[v]].open /\ files[file[v]].dir = Dir[v]
  BY DEF TypeOK, FilesInv, OwnInv, OpenFiles
<1>2. \A k \in 1 .. MaxFiles : files[k].locked => files[k].dir # Dir[v]
  BY DEF TypeOK, FilesInv, canLock, LockedDir, OpenFiles
<1>3. TypeOK'
  BY <1>1 DEF TypeOK, FilesInv, OwnInv, OpenFiles, Locations
<1>4. FilesInv'
  BY <1>1 DEF TypeOK, FilesInv
<1>5. OwnInv'
  BY <1>1 DEF TypeOK, FilesInv, OwnInv
<1>6. LockInv'
  BY <1>1, <1>2 DEF TypeOK, FilesInv, LockInv
<1>7. DistinctInv' /\ CacheInv'
  BY DEF TypeOK, DistinctInv, CacheInv
<1> QED BY <1>3, <1>4, <1>5, <1>6, <1>7

LEMMA InitCacheStep ==
  ASSUME IInv, NEW v \in VMs, init_cache(v)
  PROVE  IInv'
<1> USE DEF init_cache, Goes, At
<1>1. TypeOK'
  BY DEF IInv, TypeOK, Locations, OpenFiles
<1>2. FilesInv' /\ LockInv' /\ DistinctInv'
  BY DEF IInv, FilesInv, LockInv, DistinctInv
<1>3. OwnInv' /\ CacheInv'
  BY DEF IInv, TypeOK, OwnInv, CacheInv
<1> QED BY <1>1, <1>2, <1>3 DEF IInv

\* A file is closed, and nobody uses it afterwards.
LEMMA ClosedFile ==
  ASSUME IInv, NEW k \in 1 .. MaxFiles, files' = closed(k), count' = count
  PROVE  /\ FilesInv' /\ LockInv'
         /\ \A l \in DOMAIN files' : files'[l].locked => files'[l].open
         /\ \A l \in 1 .. MaxFiles : l # k => files'[l] = files[l]
  BY DEF IInv, TypeOK, FilesInv, LockInv, closed

\* The two statements of ReleaseCache: release_cache, and then Close.
LEMMA ReleaseCacheStep ==
  ASSUME IInv, NEW v \in VMs, ReleaseCache(v)
  PROVE  IInv'
<1>1. CASE pc[v] = "ready"
  <2>1. /\ cache' = cache \ {v} /\ UNCHANGED <<file, files, count>>
        /\ pc' = [pc EXCEPT ![v] = "cleanup"]
    BY <1>1 DEF ReleaseCache, cleanupOrder, At, Goes
  <2>2. TypeOK'
    BY <1>1, <2>1 DEF IInv, TypeOK, Locations, OpenFiles
  <2>3. FilesInv' /\ LockInv' /\ DistinctInv'
    BY <2>1 DEF IInv, FilesInv, LockInv, DistinctInv
  <2>4. OwnInv' /\ CacheInv'
    BY <1>1, <2>1 DEF IInv, TypeOK, OwnInv, CacheInv
  <2> QED BY <2>2, <2>3, <2>4 DEF IInv
<1>2. CASE pc[v] = "cleanup"
  <2>1. /\ files' = closed(file[v]) /\ file' = [file EXCEPT ![v] = NoFile]
        /\ UNCHANGED <<cache, count>> /\ pc' = [pc EXCEPT ![v] = "none"]
    BY <1>2 DEF ReleaseCache, cleanupOrder, At, Goes
  <2>2. file[v] \in 1 .. MaxFiles /\ file[v] # NoFile
    BY <1>2 DEF IInv, TypeOK, OwnInv, OpenFiles
  <2>3. /\ FilesInv' /\ LockInv'
        /\ \A l \in DOMAIN files' : files'[l].locked => files'[l].open
        /\ \A l \in 1 .. MaxFiles : l # file[v] => files'[l] = files[l]
    BY <2>1, <2>2, ClosedFile
  <2>4. \A w \in VMs : w # v => file[w] # file[v]
    BY <2>2 DEF IInv, DistinctInv
  <2>5. TypeOK'
    BY <1>2, <2>1, <2>2, <2>3, <2>4 DEF IInv, TypeOK, Locations, OpenFiles
  <2>6. OwnInv' /\ DistinctInv' /\ CacheInv'
    BY <1>2, <2>1, <2>2, <2>3, <2>4 DEF IInv, TypeOK, OwnInv, DistinctInv, CacheInv
  <2> QED BY <2>3, <2>5, <2>6 DEF IInv
<1> QED BY <1>1, <1>2 DEF ReleaseCache

LEMMA FinalizeStep ==
  ASSUME IInv, NEW k \in 1 .. MaxFiles, finalize(k)
  PROVE  IInv'
<1>1. /\ FilesInv' /\ LockInv'
      /\ \A l \in DOMAIN files' : files'[l].locked => files'[l].open
      /\ \A l \in 1 .. MaxFiles : l # k => files'[l] = files[l]
  BY ClosedFile DEF finalize
<1>2. TypeOK'
  BY <1>1 DEF finalize, IInv, TypeOK, OpenFiles
<1>3. OwnInv' /\ DistinctInv' /\ CacheInv'
  BY <1>1 DEF finalize, IInv, TypeOK, OwnInv, DistinctInv, CacheInv
<1> QED BY <1>1, <1>2, <1>3 DEF IInv

\* The files of a process are those its VMs refer to, and abandoned ones.
LEMMA CrashStep ==
  ASSUME IInv, NEW p \in {Process[v] : v \in VMs}, Crash(p)
  PROVE  IInv'
<1>1. /\ pc' = [v \in VMs |-> IF Process[v] = p THEN "none" ELSE pc[v]]
      /\ file' = [v \in VMs |-> IF Process[v] = p THEN NoFile ELSE file[v]]
      /\ cache' = {v \in cache : Process[v] # p}
      /\ files' = [k \in 1 .. MaxFiles |->
                     IF files[k].process = p THEN File(FALSE, FALSE, files[k].dir, p) ELSE files[k]]
      /\ count' = count
  BY DEF Crash, IInv, TypeOK, FilesInv
<1>2. FilesInv'
  BY <1>1 DEF IInv, FilesInv, Processes
<1>3. LockInv' /\ \A k \in DOMAIN files' : files'[k].locked => files'[k].open
  BY <1>1 DEF IInv, TypeOK, FilesInv, LockInv
<1>4. ASSUME NEW v \in VMs, file'[v] # NoFile
      PROVE  Process[v] # p /\ file'[v] = file[v] /\ files'[file[v]] = files[file[v]]
  BY <1>1, <1>4 DEF IInv, TypeOK, OwnInv
<1>5. TypeOK'
  <2>1. /\ pc' \in [VMs -> Locations] /\ file' \in [VMs -> 0 .. count'] /\ cache' \subseteq VMs
        /\ count' \in 0 .. MaxFiles
    BY <1>1 DEF IInv, TypeOK, Locations
  <2>2. ASSUME NEW v \in VMs, pc'[v] \in {"locked", "ready", "cleanup"}
        PROVE  /\ file'[v] \in OpenFiles'
               /\ files'[file'[v]].locked /\ files'[file'[v]].dir = Dir[v]
    <3>1. file[v] \in OpenFiles /\ pc[v] = pc'[v] /\ file'[v] = file[v] /\ file[v] # NoFile
      BY <1>1, <2>2 DEF IInv, TypeOK, OpenFiles
    <3>2. files[file[v]].locked /\ files[file[v]].dir = Dir[v]
      BY <2>2, <3>1 DEF IInv, TypeOK
    <3>3. files'[file[v]] = files[file[v]]
      BY <1>4, <3>1
    <3> QED BY <1>1, <3>1, <3>2, <3>3 DEF OpenFiles
  <2> QED BY <1>3, <2>1, <2>2 DEF TypeOK
<1>6. OwnInv' /\ DistinctInv'
  BY <1>1, <1>4 DEF IInv, TypeOK, OwnInv, DistinctInv
<1>7. CacheInv'
  BY <1>1 DEF IInv, TypeOK, CacheInv
<1> QED BY <1>2, <1>3, <1>5, <1>6, <1>7 DEF IInv

-----------------------------------------------------------------------------

LEMMA NextStep ==
  ASSUME IInv, [Next]_vars
  PROVE  IInv'
<1>1. CASE UNCHANGED vars
  BY <1>1 DEF vars, IInv, TypeOK, FilesInv, OwnInv, DistinctInv, LockInv, CacheInv, OpenFiles
<1>2. ASSUME NEW v \in VMs, VMStep(v)
      PROVE  IInv'
  <2>1. CASE WriteFails(v) \/ FlockFails(v) \/ initFails(v)
    <3>1. v \notin cache
      BY <2>1 DEF WriteFails, FlockFails, initFails, At, IInv, CacheInv
    <3> QED BY <2>1, <3>1, ForgetsStep DEF WriteFails, FlockFails, initFails
  <2>2. CASE Drop(v)
    BY <2>2, ForgetsStep DEF Drop
  <2> QED BY <1>2, <2>1, <2>2, OpenFileStep, FlockStep, InitCacheStep, ReleaseCacheStep DEF VMStep
<1> QED BY <1>1, <1>2, FinalizeStep, CrashStep DEF Next

LEMMA Invariance == Spec => []IInv
  BY InitInv, NextStep, PTL DEF Spec

\* Every variable keeps its type, and a VM past flock keeps the open and locked
\* file of its directory until ReleaseCache closes it (internal/api/lib.go).
THEOREM TypeCorrect == Spec => []TypeOK
<1>1. IInv => TypeOK
  BY DEF IInv
<1> QED BY <1>1, Invariance, PTL

\* Two VMs never have a Rust cache in the same directory at the same time,
\* whatever InitCaches fail, processes die and finalizers run in between.
THEOREM AlwaysExclusive == Spec => []Exclusive
<1>1. IInv => Exclusive
  <2> SUFFICES ASSUME IInv, NEW v \in cache, NEW w \in cache, Dir[v] = Dir[w]
               PROVE  v = w
    BY DEF Exclusive
  <2>1. v \in VMs /\ w \in VMs /\ pc[v] = "ready" /\ pc[w] = "ready"
    BY DEF IInv, TypeOK, CacheInv
  <2>2. /\ file[v] \in OpenFiles /\ files[file[v]].locked /\ files[file[v]].dir = Dir[v]
        /\ file[w] \in OpenFiles /\ files[file[w]].locked /\ files[file[w]].dir = Dir[w]
    BY <2>1 DEF IInv, TypeOK
  <2>3. file[v] \in 1 .. MaxFiles /\ file[w] \in 1 .. MaxFiles
    BY <2>2 DEF OpenFiles, IInv, TypeOK
  <2>4. file[v] = file[w]
    BY <2>2, <2>3 DEF IInv, LockInv
  <2> QED BY <2>1, <2>3, <2>4 DEF IInv, DistinctInv
<1> QED BY <1>1, Invariance, PTL

=============================================================================
