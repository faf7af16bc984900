--------------------------- MODULE MCAsyncExecution ---------------------------
(* The instances of AsyncExecution that TLC checks; the cfgs choose the    *)
(* constants.  Tasks and workers are interchangeable, tasks with a handler *)
(* only among themselves.                                                  *)
EXTENDS AsyncExecution, TLC

CONSTANTS a, b, u, w1, w2

Symmetry == Permutations({a, b}) \cup Permutations({w1, w2})
=============================================================================
