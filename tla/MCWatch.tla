------------------------------- MODULE MCWatch -------------------------------
(* Model values for the runs of Watch.                                     *)
EXTENDS Watch, TLC

CONSTANTS t1, t2, v1, v2, m1, d1, d2, a, b, x1, x2

(* Contents, dialogs and texts are interchangeable.                        *)
Symmetry == Permutations(Valid) \cup Permutations(Dialogs) \cup Permutations(Texts)
                \cup Permutations(Targets)
=============================================================================
