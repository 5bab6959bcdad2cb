---------------------------- MODULE MCScheduler ----------------------------
(* Small schedulers: model values for threads, fibers and tasks.           *)
EXTENDS Scheduler

CONSTANTS c, w1, w2

Symmetry == Permutations(Fibers) \cup Permutations(Tasks)
=============================================================================
