----------------------------- MODULE Completion -----------------------------
(***************************************************************************)
(* Reviews of a published response and host observations                   *)
(* (scripts/completion.py and the history they are checked against in      *)
(* scripts/round_history.py). A response stands for its exact bytes, so    *)
(* equal responses are equal result hashes; evidence and delivery checks   *)
(* can only refuse.                                                        *)
(***************************************************************************)
EXTENDS Controls

(* acceptance_summary: the verdict counts only for the bytes it was made   *)
(* of, and only while they are a valid success response.                   *)
ReviewStatus(s, response) ==
    IF s.acceptance = None
      THEN IF response.status \in {"blocked", "error"} THEN "not_applicable" ELSE "missing"
      ELSE IF response.status = "success" /\ s.acceptance.of = response
             THEN s.acceptance.verdict ELSE "invalid"

HostTargetOf(s) ==
    [resources |-> s.resources, session |-> s.session, launch |-> s.launch]

(* A plausible bug: an old observation of another conversation still counts. *)
HostSettledAnywhere(s, response) ==
    /\ s.host # None
    /\ s.host.of = response
    /\ s.host.left > 0

(* host_summary: a settled observation of these bytes and this target that *)
(* has not expired.                                                        *)
HostSettled(s, response) ==
    /\ s.host # None
    /\ s.host.of = response
    /\ s.host.target = HostTargetOf(s)
    /\ s.host.left > 0

(* summarize: ready_to_complete.                                           *)
ReadyToComplete(s, response) ==
    /\ response # None
    /\ response.status = "success"
    /\ ReviewStatus(s, response) = "accepted"
    /\ HostSettled(s, response)

-----------------------------------------------------------------------------
(* Once the job is closed only the bytes reviewed before can be reviewed.  *)
Reviewable(s, response) ==
    /\ response # None
    /\ response.status = "success"
    /\ s.closed # "open" /\ s.acceptance # None => s.acceptance.of = response

(* record_acceptance for the active round, open or closed.                 *)
Accept(c, j, verdict) ==
    /\ May(c, j, "accept")
    /\ Reviewable(job[j], Answer(j))
    /\ Commit(j, [job[j] EXCEPT !.acceptance = [verdict |-> verdict, of |-> Answer(j)]])
    /\ UNCHANGED <<files, inspections, token, world>>

(* A plausible bug: the bytes the transition pinned are not compared.      *)
AnnotatableReplaced(j, r) ==
    result[j][r] # None /\ result[j][r].status = "success"

(* The old round's response is a success and still the bytes its           *)
(* transition recorded.                                                    *)
Annotatable(j, r) ==
    /\ result[j][r] # None
    /\ result[j][r].status = "success"
    /\ job[j].past[r].of = result[j][r]

(* record_acceptance for an earlier round: an annotation, not a rewrite.   *)
AcceptPast(c, j, r, verdict) ==
    /\ May(c, j, "accept")
    /\ r < job[j].round
    /\ Annotatable(j, r)
    /\ Commit(j, [job[j] EXCEPT !.notes[r] = [verdict |-> verdict, of |-> result[j][r]]])
    /\ UNCHANGED <<files, inspections, token, world>>

(* record_host: a settled observation needs the transport, the native      *)
(* session and a valid response; any other replaces it all the same.       *)
RecordSettled(c, j, left) ==
    /\ May(c, j, "host")
    /\ job[j].resources # None
    /\ job[j].session # None
    /\ Valid(Answer(j))
    /\ Commit(j, [job[j] EXCEPT !.host =
           [of |-> Answer(j), target |-> HostTargetOf(job[j]), left |-> left]])
    /\ UNCHANGED <<files, inspections, token, world>>

RecordUnsettled(c, j) ==
    /\ May(c, j, "host")
    /\ Commit(j, [job[j] EXCEPT !.host = None])
    /\ UNCHANGED <<files, inspections, token, world>>
=============================================================================
