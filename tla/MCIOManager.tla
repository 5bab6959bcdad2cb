---------------------------- MODULE MCIOManager ----------------------------
(* Small I/O managers: model values for threads, fibers, tasks, fds.       *)
EXTENDS IOManager

CONSTANTS c, w1, w2, a

ReadOnly == {<<a, "READ">>}
Both     == {<<a, "READ">>, <<a, "WRITE">>}
Symmetry == Permutations(Fibers) \cup Permutations(Tasks)
              \cup Permutations(Pool)
=============================================================================
