------------------------------ MODULE MCWorker ------------------------------
(***************************************************************************)
(* TLC instance of WorkerPass: three task states, so that a task can be    *)
(* removed with one before it and one behind it, and a clock that passes a *)
(* throttle and a deadline.                                                *)
(***************************************************************************)
EXTENDS WorkerPass, TLC

Symmetric == Permutations(Dysks) \cup Permutations(States)
=============================================================================
