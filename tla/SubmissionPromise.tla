-------------------------- MODULE SubmissionPromise --------------------------
(***************************************************************************)
(* What the submission index promises about the input of a round: whatever *)
(* crashes, expires or is lost, it reaches the target at most once; while  *)
(* nobody knows what became of it, it is not sent again; and what was once *)
(* found out stays so, except that a round that surely was not sent may be *)
(* tried again.                                                            *)
(***************************************************************************)
CONSTANTS Jobs, Rounds, Attempts

VARIABLES
    known,    \* known[j][r]: what the index knows of the input of round r
    inputs    \* inputs[j][r]: the attempts whose input reached the target

vars == <<known, inputs>>

Init ==
    /\ known = [j \in Jobs |-> [r \in Rounds |-> "unsent"]]
    /\ inputs = [j \in Jobs |-> [r \in Rounds |-> {}]]

Try(j, r) ==
    /\ known[j][r] \in {"unsent", "rejected"}
    /\ inputs[j][r] = {}
    /\ known' = [known EXCEPT ![j][r] = "uncertain"]
    /\ UNCHANGED inputs

Arrive(j, r) ==
    /\ known[j][r] \in {"uncertain", "accepted"}
    /\ inputs[j][r] = {}
    /\ \E n \in Attempts : inputs' = [inputs EXCEPT ![j][r] = {n}]
    /\ UNCHANGED known

Learn(j, r) ==
    /\ known[j][r] = "uncertain"
    /\ \/ known' = [known EXCEPT ![j][r] = "accepted"]
       \/ inputs[j][r] = {} /\ known' = [known EXCEPT ![j][r] = "rejected"]
    /\ UNCHANGED inputs

Next == \E j \in Jobs, r \in Rounds : Try(j, r) \/ Arrive(j, r) \/ Learn(j, r)

Spec == Init /\ [][Next]_vars
=============================================================================
