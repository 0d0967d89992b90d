---------------------------- MODULE MCIndexStore ----------------------------
(* Model values and symmetry for the runs of IndexStore.                   *)
EXTENDS IndexStore

CONSTANTS p1, p2, x1, x2, j1, j2, t1

(* Processes, indexes and jobs are interchangeable.                        *)
Symmetry == Permutations(Processes) \cup Permutations(Indexes) \cup Permutations(Jobs)
=============================================================================
