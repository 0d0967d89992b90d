------------------------------ MODULE JobIndex ------------------------------
(***************************************************************************)
(* The submission index (scripts/jobs.py): several controllers drive the   *)
(* jobs of one index through leases, submission attempts, receipts,        *)
(* follow-up rounds, interventions and closure, while the agents publish   *)
(* and replace responses, the observer raises incidents, controllers crash *)
(* and replies are lost.                                                   *)
(***************************************************************************)
EXTENDS Completion

NoIncident == [issue |-> 0, round |-> 1, live |-> FALSE]

Init ==
    /\ job = [j \in Jobs |-> None]
    /\ recorded = [j \in Jobs |-> [r \in Rounds |-> None]]
    /\ result = [j \in Jobs |-> [r \in Rounds |-> None]]
    /\ attention = [j \in Jobs |-> NoIncident]
    /\ handled = [j \in Jobs |-> {}]
    /\ inspections = [j \in Jobs |-> {}]
    /\ token = [c \in Controllers |-> [j \in Jobs |-> None]]
    /\ duty = [c \in Controllers |-> None]
    /\ delivered = {}

-----------------------------------------------------------------------------
(* register: the initial round, once, before anything was submitted. A     *)
(* repeated registration returns the head and changes nothing.             *)
Register(j) ==
    /\ job[j] = None
    /\ result[j][1] = None
    /\ Commit(j, [lease |-> None, round |-> 1, resources |-> recorded[j][1],
                  submission |-> "prepared", attempts |-> <<>>,
                  session |-> None, launch |-> None, controls |-> <<>>,
                  acceptance |-> None, host |-> None, past |-> <<>>,
                  notes |-> [r \in Rounds |-> None], closed |-> "open"])
    /\ UNCHANGED <<files, inspections, token, world>>

(* A fresh uuid differs from every token anyone still knows.               *)
Fresh(j, t) == \A c \in Controllers : token[c][j] # t

(* A plausible bug: the token is not fresh when an expired lease is taken. *)
ClaimReusesToken(c, j, t, scope, left) ==
    /\ Registered(j)
    /\ job[j].closed = "open" \/ scope = "acceptance"
    /\ job[j].lease # None => job[j].lease.left = 0
    /\ Commit(j, [job[j] EXCEPT !.lease = [token |-> t, left |-> left, scope |-> scope]])

(* A plausible bug: an expired lease is not recognised as such.            *)
ClaimUnownedOnly(c, j, t, scope, left) ==
    /\ Registered(j)
    /\ job[j].closed = "open" \/ scope = "acceptance"
    /\ job[j].lease = None
    /\ Fresh(j, t)
    /\ Commit(j, [job[j] EXCEPT !.lease = [token |-> t, left |-> left, scope |-> scope]])

(* claim: an unowned or expired job, with a fresh token.                   *)
ClaimCommits(c, j, t, scope, left) ==
    /\ Registered(j)
    /\ job[j].closed = "open" \/ scope = "acceptance"
    /\ job[j].lease # None => job[j].lease.left = 0
    /\ Fresh(j, t)
    /\ Commit(j, [job[j] EXCEPT !.lease = [token |-> t, left |-> left, scope |-> scope]])

(* The token is in the reply alone: a claim whose reply is lost leaves a   *)
(* live lease that nobody can use.                                         *)
Claim(c, j, t, scope, left, replied) ==
    /\ left > 0
    /\ ClaimCommits(c, j, t, scope, left)
    /\ token' = IF replied THEN [token EXCEPT ![c][j] = t] ELSE token
    /\ UNCHANGED <<files, inspections, world>>

(* A plausible bug: a renewal adds to the time that is left, so that the    *)
(* lease of a controller that crashes can last for any time.               *)
RenewAdds(c, j, left) ==
    /\ May(c, j, "renew")
    /\ left > 0
    /\ Commit(j, [job[j] EXCEPT !.lease.left = @ + left])
    /\ UNCHANGED <<files, inspections, token, world>>

(* renew: the new expiry is counted from now.                              *)
Renew(c, j, left) ==
    /\ May(c, j, "renew")
    /\ left > 0
    /\ Commit(j, [job[j] EXCEPT !.lease.left = left])
    /\ UNCHANGED <<files, inspections, token, world>>

Release(c, j) ==
    /\ May(c, j, "release")
    /\ Commit(j, [job[j] EXCEPT !.lease = None])
    /\ UNCHANGED <<files, inspections, token, world>>

(* update: launch and native session. A launch record can be replaced but  *)
(* not erased. The monitor only refuses events of another watch, and the   *)
(* deadline is read by no mutation: both are left out.                     *)
Update(c, j, session, launch) ==
    /\ May(c, j, "update identity")
    /\ launch = None => job[j].launch = None
    /\ Commit(j, [job[j] EXCEPT !.session = session, !.launch = launch])
    /\ UNCHANGED <<files, inspections, token, world>>

-----------------------------------------------------------------------------
(* A plausible bug: an uncertain attempt can be begun again.               *)
SendableAgain(j) ==
    job[j].submission \in {"prepared", "rejected", "uncertain"} /\ Answer(j) = None

Sendable(j) ==
    job[j].submission \in {"prepared", "rejected"} /\ Answer(j) = None

(* A plausible bug: only the jobs that are being submitted are compared.   *)
TargetFreeOfUncertain(j) ==
    /\ Target(j) # None
    /\ \A k \in Jobs \ {j} :
           Open(k) /\ job[k].submission = "uncertain" => job[k].resources # Target(j)

(* No other open job's head names this target; a head whose resources are  *)
(* null names none.                                                        *)
TargetFree(j) ==
    /\ Target(j) # None
    /\ \A k \in Jobs \ {j} : Open(k) => job[k].resources # Target(j)

(* begin: commits the uncertain attempt before anything is sent. The       *)
(* controller that gets the reply is told to send; one that does not finds *)
(* an uncertain attempt and reconciles.                                    *)
Begin(c, j, replied) ==
    /\ May(c, j, "begin")
    /\ duty[c] = None
    /\ Sendable(j)
    /\ TargetFree(j)
    /\ Len(job[j].attempts) < MaxAttempts
    /\ Commit(j, [job[j] EXCEPT
           !.resources = Target(j),
           !.submission = "uncertain",
           !.attempts = Append(@, [round |-> job[j].round, status |-> "uncertain"])])
    /\ duty' = IF replied THEN [duty EXCEPT ![c] = <<j, Len(job[j].attempts) + 1>>]
                          ELSE duty
    /\ UNCHANGED <<files, inspections, token, delivered>>

Outcomes == [accepted |-> {"target_active", "matching_result"},
             uncertain |-> {"unconfirmed"},
             rejected |-> {"not_sent"}]

(* The evidence a receipt cites is the controller's: it is taken to be     *)
(* true, and "not_sent" to be final, which needs the sender gone.          *)
EvidenceTrue(j, n, kind) ==
    CASE kind = "target_active" -> <<j, n>> \in delivered
      [] kind = "not_sent" -> <<j, n>> \notin delivered /\ <<j, n>> \notin Range(duty)
      [] OTHER -> TRUE

(* A plausible bug: a resolved attempt can be resolved again.              *)
SettleableAgain(j, status, kind) ==
    /\ job[j].attempts # <<>>
    /\ Last(job[j].attempts).round = job[j].round
    /\ kind = "matching_result" => Valid(Answer(j))
    /\ status = "rejected" => Answer(j) = None

Settleable(j, status, kind) ==
    /\ job[j].attempts # <<>>
    /\ Last(job[j].attempts).round = job[j].round
    /\ \/ Last(job[j].attempts).status = "uncertain"
       \/ Last(job[j].attempts).status = "accepted" /\ status = "accepted"
    /\ kind = "matching_result" => Valid(Answer(j))
    /\ status = "rejected" => Answer(j) = None

(* receipt: what became of the active round's latest attempt.              *)
Receipt(c, j, status, kind) ==
    /\ May(c, j, "receipt")
    /\ kind \in Outcomes[status]
    /\ Settleable(j, status, kind)
    /\ LET n == Len(job[j].attempts) IN
       /\ EvidenceTrue(j, n, kind)
       /\ Commit(j, [job[j] EXCEPT !.attempts[n].status = status,
                                   !.submission = status])
    /\ UNCHANGED <<files, inspections, token, world>>

(* transition: a valid response, and for a success a valid verdict on it.  *)
Followable(j) ==
    /\ Valid(Answer(j))
    /\ Answer(j).status = "success" => ReviewStatus(job[j], Answer(j)) \in Verdicts

(* A plausible bug: the new round takes over the old round's submission.   *)
NextRoundKeepsSubmission(j) ==
    LET r == job[j].round IN
    [job[j] EXCEPT !.round = r + 1, !.resources = recorded[j][r + 1],
                   !.acceptance = None, !.host = None,
                   !.past = Append(@, [of |-> Answer(j),
                                       review |-> ReviewStatus(job[j], Answer(j))])]

(* activate: the head after the follow-up became the active round.         *)
NextRound(j) ==
    LET r == job[j].round IN
    [job[j] EXCEPT !.round = r + 1, !.resources = recorded[j][r + 1],
                   !.submission = "prepared",
                   !.acceptance = None, !.host = None,
                   !.past = Append(@, [of |-> Answer(j),
                                       review |-> ReviewStatus(job[j], Answer(j))])]

Activate(c, j) ==
    /\ May(c, j, "activate")
    /\ job[j].round < MaxRound
    /\ Followable(j)
    /\ result[j][job[j].round + 1] = None
    /\ job[j].resources # None => recorded[j][job[j].round + 1] = job[j].resources
    /\ Commit(j, NextRound(j))
    /\ UNCHANGED <<files, inspections, token, world>>

Closable(j, outcome) ==
    /\ outcome = "completed" => ReadyToComplete(job[j], Answer(j))
    /\ outcome = "cancelled" => Cancellable(j)

Close(c, j, outcome) ==
    /\ May(c, j, CloseAs[outcome])
    /\ Closable(j, outcome)
    /\ Commit(j, [job[j] EXCEPT !.closed = outcome, !.lease = None])
    /\ UNCHANGED <<files, inspections, token, world>>

-----------------------------------------------------------------------------
(* The rest of the world. A round has files once it is prepared: the first *)
(* from the start, a follow-up once its predecessor has a valid response.  *)
Prepared(j, r) ==
    r > 1 => Registered(j) /\ r <= job[j].round + 1 /\ Valid(result[j][r - 1])

(* protocol.record: resources.json is published once.                      *)
Record(j, r, t) ==
    /\ Prepared(j, r)
    /\ recorded[j][r] = None
    /\ recorded' = [recorded EXCEPT ![j][r] = t]
    /\ UNCHANGED <<job, result, attention, handled, inspections, token, world>>

(* A response appears, or its file is replaced by another.                 *)
Respond(j, r, response) ==
    /\ Prepared(j, r)
    /\ result[j][r] # response
    /\ result' = [result EXCEPT ![j][r] = response]
    /\ UNCHANGED <<job, recorded, attention, handled, inspections, token, world>>

(* The observer sees another dialog in round r's terminal, or none.        *)
Raise(j, r) ==
    /\ recorded[j][r] # None
    /\ attention[j].issue < MaxIssues
    /\ attention' = [attention EXCEPT ![j] =
           [issue |-> attention[j].issue + 1, round |-> r, live |-> TRUE]]
    /\ UNCHANGED <<job, recorded, result, handled, inspections, token, world>>

Subside(j) ==
    /\ attention[j].live
    /\ attention' = [attention EXCEPT ![j].live = FALSE]
    /\ UNCHANGED <<job, recorded, result, handled, inspections, token, world>>

(* An event review records an incident as handled.                         *)
Handle(j, issue) ==
    /\ issue \in 1..attention[j].issue \ handled[j]
    /\ handled' = [handled EXCEPT ![j] = @ \cup {issue}]
    /\ UNCHANGED <<job, recorded, result, attention, inspections, token, world>>

(* The controller sends what it was told to send, or gives up before.      *)
Send(c) ==
    /\ duty[c] # None
    /\ delivered' = delivered \cup {duty[c]}
    /\ duty' = [duty EXCEPT ![c] = None]
    /\ UNCHANGED <<job, files, inspections, token>>

GiveUp(c) ==
    /\ duty[c] # None
    /\ duty' = [duty EXCEPT ![c] = None]
    /\ UNCHANGED <<job, files, inspections, token, delivered>>

(* A controller dies: the tokens it was answered die with it.              *)
Crash(c) ==
    /\ duty[c] # None \/ \E j \in Jobs : token[c][j] # None
    /\ token' = [token EXCEPT ![c] = [j \in Jobs |-> None]]
    /\ duty' = [duty EXCEPT ![c] = None]
    /\ UNCHANGED <<job, files, inspections, delivered>>

Sooner(left) == IF left > 0 THEN left - 1 ELSE 0
Older(age) == IF age > MaxAge THEN age ELSE age + 1

(* A state one tick later. Only the latest control's times are ever read.  *)
Expiring(x) == IF x = None THEN None ELSE [x EXCEPT !.left = Sooner(@)]
OlderControl(control) == [control EXCEPT !.age = Older(@), !.proof = Older(@)]
Aged(s) ==
    [s EXCEPT
       !.lease = Expiring(@),
       !.host = Expiring(@),
       !.controls = IF s.controls = <<>> THEN @ ELSE
           [s.controls EXCEPT ![Len(s.controls)] = OlderControl(Last(s.controls))]]

(* One tick of the clock. Inspections past MaxAge can no longer be used.   *)
Tick ==
    /\ job' = [j \in Jobs |-> IF job[j] = None THEN None ELSE Aged(job[j])]
    /\ inspections' = [j \in Jobs |->
           {[i EXCEPT !.age = @ + 1] : i \in {i \in inspections[j] : i.age < MaxAge}}]
    /\ UNCHANGED <<files, token, world>>

-----------------------------------------------------------------------------
Mutate(c, j) ==
    \/ \E t \in Tokens, scope \in {"full", "acceptance"}, left \in 1..MaxLease,
          replied \in BOOLEAN : Claim(c, j, t, scope, left, replied)
    \/ \E left \in 1..MaxLease : Renew(c, j, left)
    \/ Release(c, j)
    \/ \E s \in Sessions \cup {None}, p \in Profiles \cup {None} : Update(c, j, s, p)
    \/ \E replied \in BOOLEAN : Begin(c, j, replied)
    \/ \E status \in Statuses : \E kind \in Outcomes[status] : Receipt(c, j, status, kind)
    \/ Activate(c, j)
    \/ \E kind \in Kinds : \E i \in inspections[j] : ControlBegin(c, j, kind, i)
    \/ \E status \in {"uncertain", "not_sent", "confirmed"}, age \in 0..MaxAge + 1 :
          ControlReceipt(c, j, status, age)
    \/ \E verdict \in Verdicts : Accept(c, j, verdict)
    \/ \E r \in Rounds, verdict \in Verdicts : AcceptPast(c, j, r, verdict)
    \/ \E left \in 1..HostWindow : RecordSettled(c, j, left)
    \/ RecordUnsettled(c, j)
    \/ \E outcome \in {"completed", "failed", "cancelled"} : Close(c, j, outcome)

Surroundings(j) ==
    \/ \E r \in Rounds, t \in Targets : Record(j, r, t)
    \/ \E r \in Rounds, response \in Response : Respond(j, r, response)
    \/ \E r \in Rounds : Raise(j, r)
    \/ Subside(j)
    \/ \E issue \in 1..MaxIssues : Handle(j, issue)

Next ==
    \/ \E j \in Jobs : Register(j)
    \/ \E j \in Jobs : \E issue \in 0..MaxIssues : Inspect(j, issue)
    \/ \E c \in Controllers, j \in Jobs : Mutate(c, j)
    \/ \E j \in Jobs : Surroundings(j)
    \/ \E c \in Controllers : Send(c) \/ GiveUp(c) \/ Crash(c)
    \/ Tick

Spec == Init /\ [][Next]_vars

(* The clock runs, and controllers that want an open job keep claiming it: *)
(* not every claim's reply is lost.                                        *)
FairSpec ==
    /\ Spec
    /\ WF_vars(Tick)
    /\ \A j \in Jobs : SF_vars(\E c \in Controllers, t \in Tokens :
                                Claim(c, j, t, "full", MaxLease, TRUE))

-----------------------------------------------------------------------------
(* At most one controller can use a lease of a job: a takeover fences the  *)
(* controller that held the token before (claim and change).               *)
OneUsableToken ==
    \A j \in Jobs : \A c, d \in Controllers : Holds(c, j) /\ Holds(d, j) => c = d

(* Whatever crashes, expires and is lost, the input of one round reaches a *)
(* target at most once, provided no receipt claims "not_sent" falsely      *)
(* (begin, receipt, activate).                                             *)
AtMostOneInput ==
    \A p, q \in delivered :
        /\ p[1] = q[1]
        /\ job[p[1]].attempts[p[2]].round = job[q[1]].attempts[q[2]].round
        => p = q

(* The index as a user of it sees it: what it knows of the input of each   *)
(* round, and which attempts' inputs arrived.                              *)
StatusesOf(j, r) ==
    IF job[j] = None THEN {} ELSE
    {job[j].attempts[n].status :
        n \in {n \in DOMAIN job[j].attempts : job[j].attempts[n].round = r}}
KnownOf(j, r) ==
    CASE "accepted" \in StatusesOf(j, r) -> "accepted"
      [] "accepted" \notin StatusesOf(j, r) /\ "uncertain" \in StatusesOf(j, r) -> "uncertain"
      [] StatusesOf(j, r) = {"rejected"} -> "rejected"
      [] OTHER -> "unsent"
InputsOf(j, r) ==
    {d[2] : d \in {d \in delivered : d[1] = j /\ job[j].attempts[d[2]].round = r}}

Promise == INSTANCE SubmissionPromise WITH
    Attempts <- 1..MaxAttempts,
    known <- [j \in Jobs |-> [r \in Rounds |-> KnownOf(j, r)]],
    inputs <- [j \in Jobs |-> [r \in Rounds |-> InputsOf(j, r)]]

(* Every mutation, with every crash, takeover and lost reply, is a step of *)
(* the promise or changes nothing a user of the index sees of its rounds   *)
(* (begin, receipt, activate).                                             *)
KeepsPromise == Promise!Spec

(* The head's submission status is that of the active round's attempt, and *)
(* a round was tried again only after every earlier try was rejected       *)
(* (begin, receipt and activate each write only part of this).             *)
SubmissionAgrees ==
    \A j \in Jobs : Registered(j) =>
        LET s == job[j] IN
        /\ s.submission = IF s.attempts # <<>> /\ Last(s.attempts).round = s.round
                            THEN Last(s.attempts).status ELSE "prepared"
        /\ \A m, n \in DOMAIN s.attempts :
               m < n /\ s.attempts[m].round = s.attempts[n].round
                   => s.attempts[m].status = "rejected"

(* Why no input is sent twice: rounds of attempts only grow, and every     *)
(* input that arrived or may still arrive is of an attempt that nobody     *)
(* has recorded as rejected (begin, receipt, activate).                    *)
Backed(d) ==
    /\ d \in Jobs \X (Nat \ {0})
    /\ Registered(d[1])
    /\ d[2] \in DOMAIN job[d[1]].attempts
    /\ job[d[1]].attempts[d[2]].status # "rejected"
RoundsOrdered(s) ==
    \A n \in DOMAIN s.attempts :
        /\ s.attempts[n].round <= s.round
        /\ \A m \in 1..n : s.attempts[m].round <= s.attempts[n].round
SubmissionInv ==
    /\ TypeOK
    /\ SubmissionAgrees
    /\ \A j \in Jobs : Registered(j) => RoundsOrdered(job[j])
    /\ \A d \in delivered : Backed(d)
    /\ \A c \in Controllers : duty[c] # None => Backed(duty[c])

(* Two open jobs never both have sent, or be sending, to one target: the   *)
(* check in begin survives rounds, registration before allocation and      *)
(* closure (begin, activate).                                              *)
Submitted(j) == Open(j) /\ job[j].attempts # <<>>
TargetExclusive ==
    \A j, k \in Jobs :
        Submitted(j) /\ Submitted(k) /\ job[j].resources = job[k].resources => j = k

(* While a control is unresolved its job stays open and keeps the identity *)
(* the control was pinned to, so that its receipt is never refused; a      *)
(* confirmed cancel keeps it as well, so that the job can be closed        *)
(* (controls.guard against receipt's and cancellation's identity check).   *)
ControlledIdentityHeld ==
    \A j \in Jobs : Registered(j) =>
        /\ Unresolved(job[j]) => Open(j)
        /\ Unresolved(job[j]) \/ CancelConfirmed(job[j]) =>
               LatestControl(job[j]).identity = IdentityOf(j)

(* However often it is inspected and whoever takes over, one attention     *)
(* incident is acted on at most once (controls.begin, receipt).            *)
OneActionPerIncident ==
    \A j \in Jobs : Registered(j) =>
        \A m, n \in DOMAIN job[j].controls :
            LET a == job[j].controls[m]  b == job[j].controls[n] IN
            /\ a.issue # 0 /\ a.issue = b.issue
            /\ a.status # "not_sent" /\ b.status # "not_sent"
            => m = n

(* A job closed as cancelled either never started or was stopped after its *)
(* last attempt, in its last round: an earlier stop is not borrowed. And a *)
(* confirmed cancel ends in a cancelled job and in nothing else, whoever   *)
(* holds the lease then (controls.cancellation, guard, close).             *)
CancelledWasStopped ==
    \A j \in Jobs : Registered(j) =>
        /\ job[j].closed = "cancelled" =>
               \/ job[j].attempts = <<>> /\ job[j].launch = None
               \/ /\ HasControl(job[j])
                  /\ LatestControl(job[j]).kind \in {"cancel", "interrupt"}
                  /\ LatestControl(job[j]).status = "confirmed"
                  /\ LatestControl(job[j]).identity.attempt = Len(job[j].attempts)
                  /\ LatestControl(job[j]).identity.round = job[j].round
        /\ CancelConfirmed(job[j]) => job[j].closed \in {"open", "cancelled"}

(* After closure only ownership for reviews and the reviews themselves     *)
(* change, and a review is only ever of the bytes that were decided on     *)
(* then, even after the file was replaced (expected, change,               *)
(* claim --acceptance-only, record_acceptance).                            *)
Decided(s) ==
    <<s.round, s.resources, s.submission, s.attempts, s.session, s.launch, s.past,
      s.closed, s.host # None, [n \in DOMAIN s.controls |-> s.controls[n].status]>>
ClosedFrozen ==
    [][\A j \in Jobs : Registered(j) /\ ~Open(j) =>
           /\ Decided(job'[j]) = Decided(job[j])
           /\ job[j].acceptance # None =>
                  job'[j].acceptance.of = job[j].acceptance.of]_vars

(* Every round that was left behind had a valid response, and a verdict on *)
(* exactly that response if it was a success; a later annotation of the    *)
(* round is of that response too, whatever the file contains by now        *)
(* (activate, transition, record_acceptance).                              *)
PastReviewed ==
    \A j \in Jobs : Registered(j) =>
        /\ Len(job[j].past) = job[j].round - 1
        /\ \A r \in DOMAIN job[j].past :
               /\ Valid(job[j].past[r].of)
               /\ job[j].past[r].of.status = "success" => job[j].past[r].review \in Verdicts
        /\ \A r \in 1..MaxRound : job[j].notes[r] # None =>
               r < job[j].round /\ job[j].notes[r].of = job[j].past[r].of

(* A completed job was completed on one success response: the review and   *)
(* the settled host observation are of the same bytes, and the host was    *)
(* observed for the conversation the job ended with (summarize, close).    *)
CompletedCoherent ==
    \A j \in Jobs : Registered(j) /\ job[j].closed = "completed" =>
        LET s == job[j] IN
        /\ s.acceptance # None /\ s.host # None
        /\ s.host.of = s.acceptance.of
        /\ s.acceptance.of.status = "success"
        /\ s.host.target = HostTargetOf(s)

(* The promise of begin in references/submission.md: it rejects a target   *)
(* already recorded by another open job of the index.                      *)
BeginRejectsRecordedTarget ==
    [][\A j, k \in Jobs :
           /\ j # k /\ Open(j) /\ Open(k) /\ job'[j] # job[j]
           /\ Len(job'[j].attempts) > Len(job[j].attempts)
           => Target(k) # Target(j)]_vars

(* An open job does not stay without an owner: the lease of a crashed      *)
(* controller, or one whose token was lost with the reply, runs out and    *)
(* another claim gets it (claim, expiry).                                  *)
EventuallyOwned ==
    \A j \in Jobs : Open(j) ~> ((\E c \in Controllers : Holds(c, j)) \/ ~Open(j))
=============================================================================
