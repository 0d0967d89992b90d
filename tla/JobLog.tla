------------------------------- MODULE JobLog -------------------------------
(***************************************************************************)
(* What the storage of the submission indexes promises: a job has one      *)
(* history of revisions, in one index, which only grows, each revision     *)
(* made from the one before it; and no two open jobs of one index that     *)
(* both began on a target.                                                 *)
(***************************************************************************)
EXTENDS Sequences, SequencesExt

CONSTANTS Indexes, Jobs, Targets, None

VARIABLE history    \* history[i][j]: the committed revisions of job j in index i

Revision == [target : Targets \cup {None}, begun : BOOLEAN, open : BOOLEAN]

Active(h) == h # <<>> /\ Last(h).open
Occupies(h, t) == Active(h) /\ Last(h).begun /\ Last(h).target = t

Init == history = [i \in Indexes |-> [j \in Jobs |-> <<>>]]

Grow(i, j, revision) == history' = [history EXCEPT ![i][j] = Append(@, revision)]

(* The first revision, in the only index that ever gets one.               *)
Create(i, j) ==
    /\ \A other \in Indexes : history[other][j] = <<>>
    /\ \E t \in Targets \cup {None} : Grow(i, j, [target |-> t, begun |-> FALSE, open |-> TRUE])

(* A target is taken only while no other open job has begun on it.         *)
Reserve(i, j, t) ==
    /\ Active(history[i][j])
    /\ \A k \in Jobs \ {j} : ~Occupies(history[i][k], t)
    /\ Grow(i, j, [Last(history[i][j]) EXCEPT !.target = t, !.begun = TRUE])

Finish(i, j) ==
    /\ Active(history[i][j])
    /\ Grow(i, j, [Last(history[i][j]) EXCEPT !.open = FALSE])

Next == \E i \in Indexes, j \in Jobs :
            Create(i, j) \/ (\E t \in Targets : Reserve(i, j, t)) \/ Finish(i, j)

Spec == Init /\ [][Next]_history
=============================================================================
