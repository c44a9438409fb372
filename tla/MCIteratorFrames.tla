--------------------------- MODULE MCIteratorFrames ---------------------------
(* Instances of IteratorFrames for model checking. *)
EXTENDS IteratorFrames, TLC

\* Goroutines are interchangeable: no definition tells one from another.
GoroutineSymmetry == Permutations(Goroutines)
=============================================================================
