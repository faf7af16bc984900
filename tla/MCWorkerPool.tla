---------------------------- MODULE MCWorkerPool ----------------------------
(* The instances of WorkerPool that TLC checks.  Calls of Start, calls of  *)
(* Stop and workers are interchangeable; Symmetry is used for safety only. *)
EXTENDS WorkerPool, TLC

CONSTANTS s1, s2, p1, p2, w1, w2

Symmetry == Permutations(Starts) \cup Permutations(Stops) \cup Permutations(Workers)
=============================================================================
