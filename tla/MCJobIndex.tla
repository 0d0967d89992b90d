----------------------------- MODULE MCJobIndex -----------------------------
(* Model values, symmetry and combined bounds for the runs of JobIndex.    *)
EXTENDS JobIndex

CONSTANTS c1, c2, j1, j2, t1, t2, s1, s2, p1, b1, b2, k1, k2, k3

(* Controllers and tokens are interchangeable in every safety run; where   *)
(* two jobs compete for one target, the jobs are too.                      *)
Symmetry == Permutations(Controllers) \cup Permutations(Tokens)
JobSymmetry == Permutations(Jobs)

(* Bound of stops: three questions share the run. A job has attention       *)
(* incidents, or it is launched, or it is prompted and answers.            *)
Launched(j) == Registered(j) /\ job[j].launch # None
Prompted(j) == result[j][1] # None \/ (Registered(j) /\ job[j].attempts # <<>>)
Attended(j) == attention[j].issue > 0

OneConcern == \A j \in Jobs :
    /\ ~(Launched(j) /\ Prompted(j))
    /\ ~(Prompted(j) /\ Attended(j))
    /\ ~(Attended(j) /\ Launched(j))
=============================================================================
