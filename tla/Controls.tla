------------------------------ MODULE Controls ------------------------------
(***************************************************************************)
(* Interventions on a running job (scripts/controls.py): an inspection is  *)
(* published, a control intent pinned to it is committed as "uncertain"    *)
(* before anyone acts on the terminal, and a receipt records what came of  *)
(* it. The guard on every other mutation is here too, with the part of     *)
(* jobs.change that all mutations share.                                   *)
(*                                                                         *)
(* The live read of the terminal (screen, dialog, truncation, method) only *)
(* ever refuses an intent, which is then a step not taken.                 *)
(***************************************************************************)
EXTENDS JobState

HasControl(s) == s.controls # <<>>
LatestControl(s) == Last(s.controls)
Unresolved(s) == HasControl(s) /\ LatestControl(s).status = "uncertain"
CancelConfirmed(s) ==
    /\ HasControl(s)
    /\ LatestControl(s).kind = "cancel"
    /\ LatestControl(s).status = "confirmed"

CloseAs == [completed |-> "close completed", failed |-> "close failed",
            cancelled |-> "close cancelled"]
Closures == {CloseAs.completed, CloseAs.failed, CloseAs.cancelled}
NewWork == {"begin", "activate", "control-begin", "update identity"}
ReviewOnly == {"accept", "renew", "release"}

(* A plausible bug: launch and native identity may change under a control. *)
GuardForgetsIdentity(s, action) ==
    /\ Unresolved(s) => action \notin (NewWork \cup Closures) \ {"update identity"}
    /\ CancelConfirmed(s) => action \notin NewWork \cup (Closures \ {CloseAs.cancelled})

Guard(s, action) ==
    /\ Unresolved(s) => action \notin NewWork \cup Closures
    /\ CancelConfirmed(s) => action \notin NewWork \cup (Closures \ {CloseAs.cancelled})

(* A plausible bug: the acceptance-only lease is not limited to reviews.   *)
MayIgnoresScope(c, j, action) ==
    /\ Holds(c, j)
    /\ job[j].closed = "open" \/ job[j].lease.scope = "acceptance"
    /\ Guard(job[j], action)

(* What every mutation but a claim requires of its caller and the head.    *)
May(c, j, action) ==
    /\ Holds(c, j)
    /\ job[j].closed = "open" \/ job[j].lease.scope = "acceptance"
    /\ job[j].lease.scope = "acceptance" => action \in ReviewOnly
    /\ Guard(job[j], action)

-----------------------------------------------------------------------------
(* The incident is the one the observer still sees, of the active round,   *)
(* and nobody has reviewed its event as handled.                           *)
EventCurrent(j, issue) ==
    /\ attention[j] = [issue |-> issue, round |-> job[j].round, live |-> TRUE]
    /\ issue \notin handled[j]

(* inspect: lock-free. Its last act before publishing re-reads the         *)
(* revision, so it takes effect as if all reads happened there.            *)
Inspect(j, issue) ==
    /\ Open(j)
    /\ Target(j) # None
    /\ issue # 0 => EventCurrent(j, issue)
    /\ Cardinality(inspections[j]) < MaxInspections
    /\ inspections' = [inspections EXCEPT ![j] =
           @ \cup {[identity |-> IdentityOf(j), issue |-> issue, age |-> 0]}]
    /\ UNCHANGED <<job, files, token, world>>

(* A plausible bug: only unresolved controls count as having acted.        *)
UnactedIfResolved(j, issue) ==
    \A i \in DOMAIN job[j].controls :
        job[j].controls[i].issue = issue => job[j].controls[i].status # "uncertain"

(* No earlier control of this job acted, or may have acted, on incident.   *)
Unacted(j, issue) ==
    \A i \in DOMAIN job[j].controls :
        job[j].controls[i].issue = issue => job[j].controls[i].status = "not_sent"

(* The other open jobs' resources.json name other targets.                 *)
TargetUnshared(j) ==
    /\ Target(j) # None
    /\ \A k \in Jobs \ {j} : Open(k) => Target(k) # Target(j)

ControlBegin(c, j, kind, inspection) ==
    /\ May(c, j, "control-begin")
    /\ Len(job[j].controls) < MaxControls
    /\ inspection \in inspections[j]
    /\ inspection.identity = IdentityOf(j)
    /\ TargetUnshared(j)
    /\ kind = "deny" => inspection.issue # 0
    /\ inspection.issue # 0 =>
           EventCurrent(j, inspection.issue) /\ Unacted(j, inspection.issue)
    /\ Commit(j, [job[j] EXCEPT !.controls = Append(@,
           [kind |-> kind, status |-> "uncertain",
            identity |-> IdentityOf(j), issue |-> inspection.issue,
            age |-> 0, proof |-> MaxAge + 1])])
    /\ UNCHANGED <<files, inspections, token, world>>

-----------------------------------------------------------------------------
(* A confirmed stop may be confirmed again, to renew its age.              *)
Refreshes(control, status) ==
    /\ control.status = "confirmed"
    /\ control.kind \in {"cancel", "interrupt"}
    /\ status = "confirmed"

(* The outcome was observed after the intent (age <= control.age) and, for *)
(* a refresh, not before the observation it replaces.                      *)
Resolvable(j, status, age) ==
    LET control == LatestControl(job[j]) IN
    /\ control.status = "uncertain" \/ Refreshes(control, status)
    /\ control.identity = IdentityOf(j)
    /\ control.status = "confirmed" => age <= control.proof
    /\ age <= control.age

Resolved(control, status, age) ==
    [control EXCEPT !.status = status,
                    !.proof = IF status = "confirmed" THEN age ELSE @]

ControlReceipt(c, j, status, age) ==
    /\ May(c, j, "control-receipt")
    /\ HasControl(job[j])
    /\ Resolvable(j, status, age)
    /\ Commit(j, [job[j] EXCEPT !.controls[Len(job[j].controls)] =
                       Resolved(LatestControl(job[j]), status, age)])
    /\ UNCHANGED <<files, inspections, token, world>>

(* A plausible bug: any confirmed stop will do, whatever it stopped.       *)
StopProvenForAnything(j) ==
    /\ HasControl(job[j])
    /\ LatestControl(job[j]).kind \in {"cancel", "interrupt"}
    /\ LatestControl(job[j]).status = "confirmed"
    /\ LatestControl(job[j]).proof <= MaxAge

(* The latest control is a fresh confirmed stop of the current identity.   *)
StopProven(j) ==
    /\ HasControl(job[j])
    /\ LatestControl(job[j]).kind \in {"cancel", "interrupt"}
    /\ LatestControl(job[j]).status = "confirmed"
    /\ LatestControl(job[j]).identity = IdentityOf(j)
    /\ LatestControl(job[j]).proof <= MaxAge

NeverStarted(j) ==
    Target(j) = None /\ job[j].launch = None /\ job[j].attempts = <<>>

Cancellable(j) == NeverStarted(j) \/ StopProven(j)
=============================================================================
