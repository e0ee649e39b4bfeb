---------------------------- MODULE MCIndexBuild ----------------------------
(* IndexBuild with one worker per request thread. *)
EXTENDS IndexBuild, TLC

CONSTANTS r1, r2, w1, w2

TwoWorkers == (r1 :> w1) @@ (r2 :> w2)
BothInOne == (r1 :> w1) @@ (r2 :> w1)
OneWorker == r1 :> w1

\* Builds and inodes are interchangeable (used by runs without liveness).
Interchangeable == Permutations(Build) \cup Permutations(Inode)
=============================================================================
