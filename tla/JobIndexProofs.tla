---------------------------- MODULE JobIndexProofs ----------------------------
(***************************************************************************)
(* Theorems about the submission index, for any number of controllers,     *)
(* jobs, rounds, attempts, controls and ticks: its types, then what must   *)
(* hold of tokens, targets, heads, pinned identities and closed jobs, each *)
(* with its inductive invariant. SubmissionProofs has those of submission. *)
(***************************************************************************)
EXTENDS JobIndex, TLAPS

(* The head revision of a registered job (jobs.load) has the type of a     *)
(* state.                                                                  *)
LEMMA RegisteredState ==
    ASSUME TypeOK, NEW j \in Jobs, Registered(j)
    PROVE  job[j] \in State
BY DEF TypeOK, Registered

(* A committed revision (jobs.save) leaves the index well typed.           *)
LEMMA CommitType ==
    ASSUME TypeOK, NEW j \in Jobs, NEW s \in State, Commit(j, s)
    PROVE  job' \in [Jobs -> State \cup {None}]
BY DEF TypeOK, Commit

(* What a control is about (controls.identity) has its type.               *)
LEMMA IdentityType ==
    ASSUME TypeOK, NEW j \in Jobs, Registered(j)
    PROVE  IdentityOf(j) \in Identity
<1>1. job[j] \in State
  BY RegisteredState
<1>2. recorded[j] \in [Rounds -> Targets \cup {None}]
  BY DEF TypeOK
<1>3. Target(j) \in Targets \cup {None}
  BY <1>1, <1>2 DEF Target, State
<1> QED
  BY <1>1, <1>3 DEF IdentityOf, Identity, State

(* The response at the active round's path (result_view) has its type.     *)
LEMMA AnswerType ==
    ASSUME TypeOK, NEW j \in Jobs, Registered(j)
    PROVE  Answer(j) \in Response \cup {None}
<1>1. job[j] \in State
  BY RegisteredState
<1>2. result[j] \in [Rounds -> Response \cup {None}]
  BY DEF TypeOK
<1> QED
  BY <1>1, <1>2 DEF Answer, State

(* The initial state is well typed.                                        *)
THEOREM InitType == Init => TypeOK
<1> SUFFICES ASSUME Init PROVE TypeOK
  OBVIOUS
<1> USE BoundsAssumption
<1>1. NoIncident \in Incident
  BY DEF NoIncident, Incident, Rounds
<1> QED
  BY <1>1 DEF Init, TypeOK


(* An operation that does nothing but commit a state keeps the types.      *)
LEMMA CommittedType ==
    ASSUME TypeOK, NEW j \in Jobs, NEW s \in State, Commit(j, s),
           UNCHANGED <<files, inspections, token, world>>
    PROVE  TypeOK' /\ job'[j] \in State
<1>1. job' \in [Jobs -> State \cup {None}] /\ job'[j] = s
  BY CommitType DEF Commit, TypeOK
<1> QED
  BY <1>1 DEF TypeOK, files, world

(* register keeps the types: revision 1 copies the recorded resources.     *)
LEMMA RegisterType ==
    ASSUME TypeOK, NEW j \in Jobs, Register(j)
    PROVE  TypeOK' /\ job'[j] \in State
<1> DEFINE s == [lease |-> None, round |-> 1, resources |-> recorded[j][1],
                  submission |-> "prepared", attempts |-> <<>>,
                  session |-> None, launch |-> None, controls |-> <<>>,
                  acceptance |-> None, host |-> None, past |-> <<>>,
                  notes |-> [r \in Rounds |-> None], closed |-> "open"]
<1>1. 1 \in Rounds
  BY BoundsAssumption DEF Rounds
<1>2. recorded[j][1] \in Targets \cup {None}
  BY <1>1 DEF TypeOK
<1>3. s \in State
  BY <1>1, <1>2 DEF State
<1> QED
  BY <1>3, CommittedType DEF Register

(* controls.inspect publishes an inspection of the right type.             *)
LEMMA InspectType ==
    ASSUME TypeOK, NEW j \in Jobs, NEW issue \in 0..MaxIssues, Inspect(j, issue)
    PROVE  TypeOK'
<1>1. IdentityOf(j) \in Identity
  BY IdentityType DEF Inspect, Open
<1>2. [identity |-> IdentityOf(j), issue |-> issue, age |-> 0] \in Inspection
  BY <1>1, BoundsAssumption DEF Inspection
<1>3. inspections' \in [Jobs -> SUBSET Inspection]
  BY <1>2 DEF Inspect, TypeOK
<1> QED
  BY <1>3 DEF Inspect, TypeOK, files, world

(* claim keeps the types, whether or not its reply arrives.                *)
LEMMA ClaimType ==
    ASSUME TypeOK, NEW c \in Controllers, NEW j \in Jobs, NEW t \in Tokens,
           NEW scope \in {"full", "acceptance"}, NEW left \in 1..MaxLease,
           NEW replied \in BOOLEAN, Claim(c, j, t, scope, left, replied)
    PROVE  TypeOK' /\ job'[j] \in State
<1> DEFINE l == [token |-> t, left |-> left, scope |-> scope]
           s == [job[j] EXCEPT !.lease = l]
<1>1. job[j] \in State
  BY RegisteredState DEF Claim, ClaimCommits
<1>2. l \in Lease
  BY BoundsAssumption DEF Lease
<1>3. s \in State
  BY <1>1, <1>2 DEF State
<1>4. job' \in [Jobs -> State \cup {None}] /\ job'[j] = s
  <2>1. Commit(j, s)
    BY DEF Claim, ClaimCommits
  <2> QED
    BY <2>1, <1>3, CommitType DEF Commit, TypeOK
<1>5. token' \in [Controllers -> [Jobs -> Tokens \cup {None}]]
  BY DEF Claim, TypeOK
<1> QED
  BY <1>3, <1>4, <1>5 DEF Claim, TypeOK, files, world

(* renew keeps the types: the holder's lease gets a new time left.         *)
LEMMA RenewType ==
    ASSUME TypeOK, NEW c \in Controllers, NEW j \in Jobs, NEW left \in 1..MaxLease,
           Renew(c, j, left)
    PROVE  TypeOK' /\ job'[j] \in State
<1> DEFINE s == [job[j] EXCEPT !.lease.left = left]
<1>1. job[j] \in State /\ job[j].lease # None
  BY RegisteredState DEF Renew, May, Holds
<1>2. job[j].lease \in Lease
  BY <1>1 DEF State
<1>3. [job[j].lease EXCEPT !.left = left] \in Lease
  BY <1>2, BoundsAssumption DEF Lease
<1>4. s \in State
  BY <1>1, <1>3 DEF State
<1> QED
  BY <1>4, CommittedType DEF Renew

(* release keeps the types: the lease becomes null.                        *)
LEMMA ReleaseType ==
    ASSUME TypeOK, NEW c \in Controllers, NEW j \in Jobs, Release(c, j)
    PROVE  TypeOK' /\ job'[j] \in State
<1>1. [job[j] EXCEPT !.lease = None] \in State
  BY RegisteredState, ZenonT(60) DEF Release, May, Holds, State
<1> QED
  BY <1>1, CommittedType DEF Release

(* update keeps the types: session and launch are recorded or kept.        *)
LEMMA UpdateType ==
    ASSUME TypeOK, NEW c \in Controllers, NEW j \in Jobs,
           NEW session \in Sessions \cup {None}, NEW launch \in Profiles \cup {None},
           Update(c, j, session, launch)
    PROVE  TypeOK' /\ job'[j] \in State
<1>1. [job[j] EXCEPT !.session = session, !.launch = launch] \in State
  BY RegisteredState, ZenonT(60) DEF Update, May, Holds, State
<1> QED
  BY <1>1, CommittedType DEF Update

(* begin keeps the types: an attempt is appended, the caller may send it.  *)
LEMMA BeginType ==
    ASSUME TypeOK, NEW c \in Controllers, NEW j \in Jobs, NEW replied \in BOOLEAN,
           Begin(c, j, replied)
    PROVE  TypeOK' /\ job'[j] \in State
<1> DEFINE a == [round |-> job[j].round, status |-> "uncertain"]
           s == [job[j] EXCEPT !.resources = Target(j), !.submission = "uncertain",
                               !.attempts = Append(@, a)]
<1>1. job[j] \in State
  BY RegisteredState DEF Begin, May, Holds
<1>2. Target(j) \in Targets \cup {None}
  BY <1>1 DEF Target, TypeOK, State
<1>3. job[j].attempts \in Seq(Attempt) /\ a \in Attempt
  BY <1>1 DEF State, Attempt, Statuses
<1>4. Append(job[j].attempts, a) \in Seq(Attempt)
  BY <1>3
<1>5. s \in State
  BY <1>1, <1>2, <1>4 DEF State, Statuses
<1>6. job' \in [Jobs -> State \cup {None}] /\ job'[j] = s
  <2>1. Commit(j, s)
    BY DEF Begin
  <2> QED
    BY <2>1, <1>5, CommitType DEF Commit, TypeOK
<1>7. duty' \in [Controllers -> (Jobs \X (Nat \ {0})) \cup {None}]
  BY <1>3 DEF Begin, TypeOK
<1> QED
  BY <1>5, <1>6, <1>7 DEF Begin, TypeOK, files


(* A submission attempt or a control is replaced by one of its type.       *)
LEMMA ReceiptType ==
    ASSUME TypeOK, NEW c \in Controllers, NEW j \in Jobs, NEW status \in Statuses,
           NEW kind, Receipt(c, j, status, kind)
    PROVE  TypeOK' /\ job'[j] \in State
<1> DEFINE n == Len(job[j].attempts)
           s == [job[j] EXCEPT !.attempts[n].status = status, !.submission = status]
<1>1. job[j] \in State
  BY RegisteredState DEF Receipt, May, Holds
<1>2. job[j].attempts \in Seq(Attempt) /\ job[j].attempts # <<>>
  BY <1>1 DEF State, Receipt, Settleable
<1>3. n \in DOMAIN job[j].attempts /\ job[j].attempts[n] \in Attempt
  BY <1>2
<1>4. [job[j].attempts[n] EXCEPT !.status = status] \in Attempt
  BY <1>3 DEF Attempt
<1>5. [job[j].attempts EXCEPT ![n].status = status] \in Seq(Attempt)
  BY <1>2, <1>3, <1>4
<1>6. s \in State
  BY <1>1, <1>5 DEF State
<1> QED
  BY <1>6, CommittedType DEF Receipt

(* activate keeps the types: the transition it stores is of a valid,       *)
(* reviewed response.                                                      *)
LEMMA ActivateType ==
    ASSUME TypeOK, NEW c \in Controllers, NEW j \in Jobs, Activate(c, j)
    PROVE  TypeOK' /\ job'[j] \in State
<1> DEFINE t == [of |-> Answer(j), review |-> ReviewStatus(job[j], Answer(j))]
<1>1. job[j] \in State
  BY RegisteredState DEF Activate, May, Holds
<1>2. Answer(j) \in Response /\ Answer(j).status \in Published
  BY AnswerType DEF Activate, May, Holds, Followable, Valid
<1>3. ReviewStatus(job[j], Answer(j)) \in Verdicts \cup {"not_applicable", "invalid"}
  BY <1>2 DEF Activate, Followable, ReviewStatus, Published, Verdicts
<1>4. t \in Transition
  BY <1>2, <1>3 DEF Transition
<1>5. Append(job[j].past, t) \in Seq(Transition)
  BY <1>1, <1>4 DEF State
<1>6. job[j].round \in Rounds /\ job[j].round + 1 \in Rounds
  BY <1>1, BoundsAssumption DEF State, Rounds, Activate
<1>7. recorded[j][job[j].round + 1] \in Targets \cup {None}
  BY <1>6 DEF TypeOK
<1>8. NextRound(j) \in State
  BY <1>1, <1>5, <1>6, <1>7 DEF NextRound, State
<1> QED
  BY <1>8, CommittedType DEF Activate

(* control-begin keeps the types: an uncertain control is appended.        *)
LEMMA ControlBeginType ==
    ASSUME TypeOK, NEW c \in Controllers, NEW j \in Jobs, NEW kind \in Kinds,
           NEW i \in inspections[j], ControlBegin(c, j, kind, i)
    PROVE  TypeOK' /\ job'[j] \in State
<1> DEFINE a == [kind |-> kind, status |-> "uncertain", identity |-> IdentityOf(j),
                 issue |-> i.issue, age |-> 0, proof |-> MaxAge + 1]
<1>1. job[j] \in State
  BY RegisteredState DEF ControlBegin, May, Holds
<1>2. IdentityOf(j) \in Identity
  BY IdentityType DEF ControlBegin, May, Holds
<1>3. i \in Inspection
  BY DEF TypeOK
<1>4. a \in Control
  BY <1>2, <1>3, BoundsAssumption DEF Control, Inspection
<1>5. Append(job[j].controls, a) \in Seq(Control)
  BY <1>1, <1>4 DEF State
<1>6. [job[j] EXCEPT !.controls = Append(@, a)] \in State
  BY <1>1, <1>5 DEF State
<1> QED
  BY <1>6, CommittedType DEF ControlBegin

(* control-receipt keeps the types: the latest control is resolved or      *)
(* refreshed.                                                              *)
LEMMA ControlReceiptType ==
    ASSUME TypeOK, NEW c \in Controllers, NEW j \in Jobs,
           NEW status \in {"uncertain", "not_sent", "confirmed"},
           NEW age \in 0..MaxAge + 1, ControlReceipt(c, j, status, age)
    PROVE  TypeOK' /\ job'[j] \in State
<1> DEFINE n == Len(job[j].controls)
           control == LatestControl(job[j])
           s == [job[j] EXCEPT !.controls[n] = Resolved(control, status, age)]
<1>1. job[j] \in State
  BY RegisteredState DEF ControlReceipt, May, Holds
<1>2. job[j].controls \in Seq(Control) /\ job[j].controls # <<>>
  BY <1>1 DEF State, ControlReceipt, HasControl
<1>3. n \in DOMAIN job[j].controls /\ control \in Control
  BY <1>2 DEF LatestControl, Last
<1>4. Resolved(control, status, age) \in Control
  BY <1>3 DEF Control, Resolved
<1>5. [job[j].controls EXCEPT ![n] = Resolved(control, status, age)] \in Seq(Control)
  BY <1>2, <1>3, <1>4
<1>6. s \in State
  BY <1>1, <1>5 DEF State
<1> QED
  BY <1>6, CommittedType DEF ControlReceipt


(* A review of the active round keeps the types.                           *)
LEMMA AcceptType ==
    ASSUME TypeOK, NEW c \in Controllers, NEW j \in Jobs, NEW verdict \in Verdicts,
           Accept(c, j, verdict)
    PROVE  TypeOK' /\ job'[j] \in State
<1>1. job[j] \in State
  BY RegisteredState DEF Accept, May, Holds
<1>2. [verdict |-> verdict, of |-> Answer(j)] \in Review
  BY AnswerType DEF Accept, May, Holds, Reviewable, Review
<1>3. [job[j] EXCEPT !.acceptance = [verdict |-> verdict, of |-> Answer(j)]] \in State
  BY <1>1, <1>2 DEF State
<1> QED
  BY <1>3, CommittedType DEF Accept

(* A review of an earlier round keeps the types.                           *)
LEMMA AcceptPastType ==
    ASSUME TypeOK, NEW c \in Controllers, NEW j \in Jobs, NEW r \in Rounds,
           NEW verdict \in Verdicts, AcceptPast(c, j, r, verdict)
    PROVE  TypeOK' /\ job'[j] \in State
<1> DEFINE note == [verdict |-> verdict, of |-> result[j][r]]
           s == [job[j] EXCEPT !.notes[r] = note]
<1>1. job[j] \in State
  BY RegisteredState DEF AcceptPast, May, Holds
<1>2. note \in Review
  BY DEF AcceptPast, Annotatable, Review, TypeOK
<1>3. [job[j].notes EXCEPT ![r] = note] \in [Rounds -> Review \cup {None}]
  BY <1>1, <1>2 DEF State
<1>4. s \in State
  BY <1>1, <1>3 DEF State
<1> QED
  BY <1>4, CommittedType DEF AcceptPast

(* A settled host observation keeps the types: it is of a valid response.  *)
LEMMA RecordSettledType ==
    ASSUME TypeOK, NEW c \in Controllers, NEW j \in Jobs, NEW left \in 1..HostWindow,
           RecordSettled(c, j, left)
    PROVE  TypeOK' /\ job'[j] \in State
<1> DEFINE h == [of |-> Answer(j), target |-> HostTargetOf(job[j]), left |-> left]
<1>1. job[j] \in State
  BY RegisteredState DEF RecordSettled, May, Holds
<1>2. Answer(j) \in Response
  BY AnswerType DEF RecordSettled, May, Holds, Valid
<1>3. HostTargetOf(job[j]) \in HostTarget
  BY <1>1 DEF HostTargetOf, HostTarget, State
<1>4. h \in Host
  BY <1>2, <1>3, BoundsAssumption DEF Host
<1>5. [job[j] EXCEPT !.host = h] \in State
  BY <1>1, <1>4 DEF State
<1> QED
  BY <1>5, CommittedType DEF RecordSettled

(* A host observation that is not settled keeps the types.                 *)
LEMMA RecordUnsettledType ==
    ASSUME TypeOK, NEW c \in Controllers, NEW j \in Jobs, RecordUnsettled(c, j)
    PROVE  TypeOK' /\ job'[j] \in State
<1>1. [job[j] EXCEPT !.host = None] \in State
  BY RegisteredState, ZenonT(60) DEF RecordUnsettled, May, Holds, State
<1> QED
  BY <1>1, CommittedType DEF RecordUnsettled

(* close keeps the types: the outcome is set and the lease is dropped.     *)
LEMMA CloseType ==
    ASSUME TypeOK, NEW c \in Controllers, NEW j \in Jobs,
           NEW outcome \in {"completed", "failed", "cancelled"}, Close(c, j, outcome)
    PROVE  TypeOK' /\ job'[j] \in State
<1>1. [job[j] EXCEPT !.closed = outcome, !.lease = None] \in State
  BY RegisteredState, ZenonT(60) DEF Close, May, Holds, State
<1> QED
  BY <1>1, CommittedType DEF Close

(* What other programs do to a job's files and terminal keeps the types.   *)
LEMMA SurroundingsType ==
    ASSUME TypeOK, NEW j \in Jobs, Surroundings(j)
    PROVE  TypeOK'
<1> USE BoundsAssumption
<1>1. ASSUME NEW r \in Rounds, NEW t \in Targets, Record(j, r, t)
      PROVE  TypeOK'
  BY <1>1 DEF Record, TypeOK, world
<1>2. ASSUME NEW r \in Rounds, NEW response \in Response, Respond(j, r, response)
      PROVE  TypeOK'
  BY <1>2 DEF Respond, TypeOK, world
<1>3. ASSUME NEW r \in Rounds, Raise(j, r)
      PROVE  TypeOK'
  <2>1. attention[j] \in Incident
    BY DEF TypeOK
  <2>2. [issue |-> attention[j].issue + 1, round |-> r, live |-> TRUE] \in Incident
    BY <1>3, <2>1 DEF Raise, Incident
  <2> QED
    BY <1>3, <2>2 DEF Raise, TypeOK, world
<1>4. CASE Subside(j)
  <2>1. [attention[j] EXCEPT !.live = FALSE] \in Incident
    BY ZenonT(60) DEF TypeOK, Incident
  <2> QED
    BY <1>4, <2>1 DEF Subside, TypeOK, world
<1>5. ASSUME NEW issue \in 1..MaxIssues, Handle(j, issue)
      PROVE  TypeOK'
  BY <1>5 DEF Handle, TypeOK, world
<1> QED
  BY <1>1, <1>2, <1>3, <1>4, <1>5 DEF Surroundings

(* Sending, giving up and dying keep the types.                            *)
LEMMA SendersType ==
    ASSUME TypeOK, NEW c \in Controllers, Send(c) \/ GiveUp(c) \/ Crash(c)
    PROVE  TypeOK'
<1>1. CASE Send(c)
  BY <1>1 DEF Send, TypeOK, files
<1>2. CASE GiveUp(c)
  BY <1>2 DEF GiveUp, TypeOK, files
<1>3. CASE Crash(c)
  BY <1>3 DEF Crash, TypeOK, files
<1> QED
  BY <1>1, <1>2, <1>3

(* A control stays of its type when a tick passes.                         *)
LEMMA OlderControlType ==
    ASSUME NEW control \in Control
    PROVE  OlderControl(control) \in Control
<1>1. control.age \in 0..MaxAge + 1 /\ control.proof \in 0..MaxAge + 1
  BY DEF Control
<1>2. Older(control.age) \in 0..MaxAge + 1 /\ Older(control.proof) \in 0..MaxAge + 1
  BY <1>1, BoundsAssumption DEF Older
<1> QED
  BY <1>2 DEF Control, OlderControl

(* A state whose leases, observations and controls age by a tick stays     *)
(* one.                                                                    *)
LEMMA AgedType ==
    ASSUME NEW s \in State
    PROVE  Aged(s) \in State
<1> USE BoundsAssumption
<1> DEFINE n == Len(s.controls)
           controls == IF s.controls = <<>> THEN s.controls
                       ELSE [s.controls EXCEPT ![n] = OlderControl(Last(s.controls))]
<1>1. Expiring(s.lease) \in Lease \cup {None}
  <2>1. CASE s.lease # None
    <3>1. s.lease \in Lease
      BY <2>1 DEF State
    <3>2. Sooner(s.lease.left) \in 0..MaxLease
      BY <3>1 DEF Lease, Sooner
    <3> QED
      BY <2>1, <3>1, <3>2 DEF Lease, Expiring
  <2> QED
    BY <2>1 DEF Expiring
<1>2. Expiring(s.host) \in Host \cup {None}
  <2>1. CASE s.host # None
    <3>1. s.host \in Host
      BY <2>1 DEF State
    <3>2. Sooner(s.host.left) \in 0..HostWindow
      BY <3>1 DEF Host, Sooner
    <3> QED
      BY <2>1, <3>1, <3>2 DEF Host, Expiring
  <2> QED
    BY <2>1 DEF Expiring
<1>3. controls \in Seq(Control)
  <2>1. s.controls \in Seq(Control)
    BY DEF State
  <2>2. CASE s.controls # <<>>
    <3>1. n \in DOMAIN s.controls /\ Last(s.controls) \in Control
      BY <2>1, <2>2 DEF Last
    <3>2. OlderControl(Last(s.controls)) \in Control
      BY <3>1, OlderControlType
    <3>3. [s.controls EXCEPT ![n] = OlderControl(Last(s.controls))] \in Seq(Control)
      BY <2>1, <3>1, <3>2
    <3> QED
      BY <2>2, <3>3
  <2> QED
    BY <2>1, <2>2
<1>4. Aged(s) = [s EXCEPT !.lease = Expiring(s.lease), !.host = Expiring(s.host),
                          !.controls = controls]
  BY DEF Aged, State
<1> QED
  BY <1>1, <1>2, <1>3, <1>4, ZenonT(60) DEF State

(* The clock keeps the types: every time is capped or stops at zero.       *)
LEMMA TickType == TypeOK /\ Tick => TypeOK'
<1> SUFFICES ASSUME TypeOK, Tick PROVE TypeOK'
  OBVIOUS
<1> USE BoundsAssumption
<1>1. job' \in [Jobs -> State \cup {None}]
  BY AgedType DEF Tick, TypeOK
<1>2. ASSUME NEW i \in Inspection, i.age < MaxAge
      PROVE  [i EXCEPT !.age = @ + 1] \in Inspection
  BY <1>2 DEF Inspection
<1>3. inspections' \in [Jobs -> SUBSET Inspection]
  BY <1>2 DEF Tick, TypeOK
<1> QED
  BY <1>1, <1>3 DEF Tick, TypeOK, files, world


(* Every mutation of a controller keeps the types.                         *)
LEMMA MutateType ==
    ASSUME TypeOK, NEW c \in Controllers, NEW j \in Jobs, Mutate(c, j)
    PROVE  TypeOK'
BY ClaimType, RenewType, ReleaseType, UpdateType, BeginType, ReceiptType, ActivateType,
   ControlBeginType, ControlReceiptType, AcceptType, AcceptPastType, RecordSettledType,
   RecordUnsettledType, CloseType
   DEF Mutate

(* Every state of the submission index is one that its revision files, its *)
(* leases and its clocks can be in.                                        *)
THEOREM TypeCorrect == Spec => []TypeOK
<1>1. Init => TypeOK
  BY InitType
<1>2. TypeOK /\ [Next]_vars => TypeOK'
  <2> SUFFICES ASSUME TypeOK, [Next]_vars PROVE TypeOK'
    OBVIOUS
  <2>1. CASE Next
    BY <2>1, RegisterType, InspectType, MutateType, SurroundingsType, SendersType, TickType
       DEF Next
  <2>2. CASE UNCHANGED vars
    BY <2>2 DEF vars, TypeOK
  <2> QED
    BY <2>1, <2>2
<1> QED
  BY <1>1, <1>2, PTL DEF Spec

-----------------------------------------------------------------------------
(* No two controllers know the same token of a job.                        *)
TokensDiffer ==
    \A j \in Jobs : \A c, d \in Controllers :
        token[c][j] # None /\ token[c][j] = token[d][j] => c = d

(* Of the mutations only a claim makes a token known.                      *)
LEMMA TokensStay ==
    ASSUME NEW c \in Controllers, NEW j \in Jobs, Mutate(c, j),
           ~\E t \in Tokens, scope \in {"full", "acceptance"}, left \in 1..MaxLease,
               replied \in BOOLEAN : Claim(c, j, t, scope, left, replied)
    PROVE  token' = token
BY DEF Mutate, Renew, Release, Update, Begin, Receipt, Activate, ControlBegin, ControlReceipt,
       Accept, AcceptPast, RecordSettled, RecordUnsettled, Close

(* A claim's token is fresh, and the tokens of a dead controller are gone. *)
LEMMA TokensDifferStill == TypeOK /\ TokensDiffer /\ [Next]_vars => TokensDiffer'
<1> SUFFICES ASSUME TypeOK, TokensDiffer, [Next]_vars PROVE TokensDiffer'
  OBVIOUS
<1>1. ASSUME token' = token PROVE TokensDiffer'
  BY <1>1 DEF TokensDiffer
<1>2. ASSUME NEW c \in Controllers, NEW j \in Jobs, NEW t \in Tokens,
             NEW scope \in {"full", "acceptance"}, NEW left \in 1..MaxLease,
             NEW replied \in BOOLEAN, Claim(c, j, t, scope, left, replied)
      PROVE  TokensDiffer'
  <2>1. CASE replied
    <3>1. token' = [token EXCEPT ![c][j] = t] /\ \A d \in Controllers : token[d][j] # t
      BY <1>2, <2>1 DEF Claim, ClaimCommits, Fresh
    <3>2. \A d \in Controllers, k \in Jobs :
              token'[d][k] = IF d = c /\ k = j THEN t ELSE token[d][k]
      BY <3>1 DEF TypeOK
    <3> QED BY <3>1, <3>2 DEF TokensDiffer
  <2> QED BY <1>1, <1>2, <2>1 DEF Claim
<1>3. ASSUME NEW c \in Controllers, Crash(c) PROVE TokensDiffer'
  <2>1. \A d \in Controllers, k \in Jobs :
            token'[d][k] = IF d = c THEN None ELSE token[d][k]
    BY <1>3 DEF Crash, TypeOK
  <2> QED BY <2>1 DEF TokensDiffer
<1>4. CASE UNCHANGED vars
  BY <1>1, <1>4 DEF vars
<1>5. CASE \E c \in Controllers, j \in Jobs : Mutate(c, j)
  <2>1. PICK c \in Controllers, j \in Jobs : Mutate(c, j)
    BY <1>5
  <2>2. CASE \E t \in Tokens, scope \in {"full", "acceptance"}, left \in 1..MaxLease,
                replied \in BOOLEAN : Claim(c, j, t, scope, left, replied)
    BY <1>2, <2>2
  <2> QED BY <1>1, <2>1, <2>2, TokensStay
<1>6. CASE \E c \in Controllers : Send(c) \/ GiveUp(c)
  BY <1>1, <1>6 DEF Send, GiveUp
<1>7. CASE \E j \in Jobs : \/ Register(j) \/ Surroundings(j)
                           \/ \E issue \in 0..MaxIssues : Inspect(j, issue)
  BY <1>1, <1>7 DEF Register, Inspect, Surroundings, Record, Respond, Raise, Subside, Handle
<1>8. CASE Tick
  BY <1>1, <1>8 DEF Tick
<1> QED BY <1>3, <1>4, <1>5, <1>6, <1>7, <1>8 DEF Next

(* At most one controller can use a lease of a job: whoever takes over     *)
(* fences the one before (claim, change).                                  *)
THEOREM OwnersAreFenced == Spec => []OneUsableToken
<1>1. Init => TypeOK /\ TokensDiffer
  BY InitType DEF Init, TokensDiffer
<1>2. TypeOK /\ TokensDiffer => OneUsableToken
  <2> SUFFICES ASSUME TypeOK, TokensDiffer, NEW j \in Jobs, NEW c \in Controllers,
                      NEW d \in Controllers, Holds(c, j), Holds(d, j)
               PROVE  c = d
    BY DEF OneUsableToken
  <2>1. job[j].lease \in Lease
    BY RegisteredState DEF Holds, State
  <2>2. token[c][j] # None
    BY <2>1, NoneAssumption DEF Holds, Lease
  <2> QED BY <2>2 DEF Holds, TokensDiffer
<1>3. Spec => [](TypeOK /\ TokensDiffer)
  <2>1. TypeOK /\ TokensDiffer /\ TypeOK' /\ [Next]_vars => (TypeOK /\ TokensDiffer)'
    BY TokensDifferStill
  <2> QED BY <1>1, <2>1, TypeCorrect, PTL DEF Spec
<1> QED BY <1>2, <1>3, PTL

-----------------------------------------------------------------------------
(* A job that tried to submit says to which target, and keeps saying so.   *)
HasTarget(s) == s.attempts # <<>> => s.resources # None
KeepsTarget(s, t) ==
    /\ t.attempts # <<>> => s.attempts # <<>> /\ t.resources = s.resources
    /\ t.closed = "open" => s.closed = "open"

TargetInv ==
    /\ TypeOK /\ TargetExclusive
    /\ \A j \in Jobs : Registered(j) => HasTarget(job[j])

(* A step is harmless if every job keeps its target.                       *)
LEMMA TargetsKept ==
    ASSUME TargetInv, TypeOK',
           \A k \in Jobs : Registered(k)' =>
               \/ job'[k].attempts = <<>>
               \/ Registered(k) /\ KeepsTarget(job[k], job'[k])
    PROVE  TargetInv'
<1>1. ASSUME NEW k \in Jobs, Submitted(k)'
      PROVE  Submitted(k) /\ job'[k].resources = job[k].resources
  BY <1>1 DEF Submitted, Open, KeepsTarget, Registered
<1>2. TargetExclusive'
  BY <1>1 DEF TargetExclusive, TargetInv
<1>3. ASSUME NEW k \in Jobs, Registered(k)' PROVE HasTarget(job'[k])
  BY <1>3 DEF TargetInv, HasTarget, KeepsTarget
<1> QED BY <1>2, <1>3 DEF TargetInv, Registered, HasTarget

(* The case of one job's new revision.                                     *)
LEMMA TargetCommitted ==
    ASSUME TargetInv, TypeOK', NEW j \in Jobs, NEW s, Registered(j), Commit(j, s),
           KeepsTarget(job[j], s)
    PROVE  TargetInv'
<1>1. job'[j] = s /\ \A k \in Jobs \ {j} : job'[k] = job[k]
  BY DEF Commit, TargetInv, TypeOK
<1>2. \A k \in Jobs \ {j} : Registered(k)' => Registered(k) /\ KeepsTarget(job[k], job'[k])
  BY <1>1 DEF Registered, KeepsTarget
<1> QED BY <1>1, <1>2, TargetsKept

(* begin: no other open job's head names the target.                       *)
LEMMA BeginTargets ==
    ASSUME TargetInv, NEW c \in Controllers, NEW j \in Jobs, NEW replied \in BOOLEAN,
           Begin(c, j, replied)
    PROVE  TargetInv'
<1>1. TypeOK /\ TypeOK' /\ job[j] \in State /\ Registered(j)
  BY BeginType, RegisteredState DEF TargetInv, Begin, May, Holds
<1>2. /\ job'[j].resources = Target(j) /\ job'[j].closed = job[j].closed
      /\ \A k \in Jobs \ {j} : job'[k] = job[k]
  BY <1>1 DEF Begin, Commit, TypeOK, State
<1>3. /\ Target(j) # None
      /\ \A k \in Jobs \ {j} : Open(k) => job[k].resources # Target(j)
  BY DEF Begin, TargetFree
<1>4. \A k \in Jobs \ {j} : Submitted(k)' => Submitted(k) /\ job'[k] = job[k]
  BY <1>2 DEF Submitted, Open, Registered
<1>5. TargetExclusive'
  <2> SUFFICES ASSUME NEW k \in Jobs, NEW l \in Jobs, Submitted(k)', Submitted(l)',
                      job'[k].resources = job'[l].resources, k # l
               PROVE  FALSE
    BY DEF TargetExclusive
  <2>1. CASE k = j
    BY <1>2, <1>3, <1>4, <2>1 DEF Submitted
  <2>2. CASE l = j
    BY <1>2, <1>3, <1>4, <2>2 DEF Submitted
  <2>3. CASE k # j /\ l # j
    BY <1>4, <2>3 DEF TargetInv, TargetExclusive
  <2> QED BY <2>1, <2>2, <2>3
<1>6. ASSUME NEW k \in Jobs, Registered(k)' PROVE HasTarget(job'[k])
  BY <1>2, <1>3, <1>6 DEF TargetInv, HasTarget, Registered
<1> QED BY <1>1, <1>5, <1>6 DEF TargetInv, Registered, HasTarget

(* activate: the new round is of the terminal the head already names.      *)
LEMMA ActivateTargets ==
    ASSUME TargetInv, NEW c \in Controllers, NEW j \in Jobs, Activate(c, j)
    PROVE  TargetInv'
<1>1. TypeOK /\ TypeOK' /\ job[j] \in State /\ Registered(j)
  BY ActivateType, RegisteredState DEF TargetInv, Activate, May, Holds
<1>2. /\ NextRound(j).attempts = job[j].attempts /\ NextRound(j).closed = job[j].closed
      /\ NextRound(j).resources = recorded[j][job[j].round + 1]
  BY <1>1 DEF NextRound, State
<1>3. job[j].attempts # <<>> => recorded[j][job[j].round + 1] = job[j].resources
  BY <1>1 DEF TargetInv, HasTarget, Activate
<1>4. KeepsTarget(job[j], NextRound(j))
  BY <1>2, <1>3 DEF KeepsTarget
<1> QED BY <1>1, <1>4, TargetCommitted DEF Activate

(* The other mutations leave the target and the attempts alone, but for    *)
(* the status of one.                                                      *)
LEMMA MutateTargets ==
    ASSUME TargetInv, NEW c \in Controllers, NEW j \in Jobs, Mutate(c, j)
    PROVE  TargetInv'
<1> USE DEF KeepsTarget
<1>0. TypeOK
  BY DEF TargetInv
<1>1. ASSUME Holds(c, j) \/ Registered(j)
      PROVE  job[j] \in State /\ Registered(j)
  BY <1>0, <1>1, RegisteredState DEF Holds
<1>2. ASSUME NEW left \in 1..MaxLease, Renew(c, j, left) PROVE TargetInv'
  BY <1>0, <1>1, <1>2, RenewType, TargetCommitted DEF Renew, May, State
<1>3. ASSUME Release(c, j) PROVE TargetInv'
  BY <1>0, <1>1, <1>3, ReleaseType, TargetCommitted DEF Release, May, State
<1>4. ASSUME NEW session \in Sessions \cup {None}, NEW launch \in Profiles \cup {None},
             Update(c, j, session, launch)
      PROVE  TargetInv'
  BY <1>0, <1>1, <1>4, UpdateType, TargetCommitted DEF Update, May, State
<1>5. ASSUME NEW kind \in Kinds, NEW i \in inspections[j], ControlBegin(c, j, kind, i)
      PROVE  TargetInv'
  BY <1>0, <1>1, <1>5, ControlBeginType, TargetCommitted DEF ControlBegin, May, State
<1>6. ASSUME NEW status \in {"uncertain", "not_sent", "confirmed"}, NEW age \in 0..MaxAge + 1,
             ControlReceipt(c, j, status, age)
      PROVE  TargetInv'
  BY <1>0, <1>1, <1>6, ControlReceiptType, TargetCommitted DEF ControlReceipt, May, State
<1>7. ASSUME NEW verdict \in Verdicts, Accept(c, j, verdict) PROVE TargetInv'
  BY <1>0, <1>1, <1>7, AcceptType, TargetCommitted DEF Accept, May, State
<1>8. ASSUME NEW r \in Rounds, NEW verdict \in Verdicts, AcceptPast(c, j, r, verdict)
      PROVE  TargetInv'
  BY <1>0, <1>1, <1>8, AcceptPastType, TargetCommitted DEF AcceptPast, May, State
<1>9. ASSUME NEW left \in 1..HostWindow, RecordSettled(c, j, left) PROVE TargetInv'
  BY <1>0, <1>1, <1>9, RecordSettledType, TargetCommitted DEF RecordSettled, May, State
<1>10. ASSUME RecordUnsettled(c, j) PROVE TargetInv'
  BY <1>0, <1>1, <1>10, RecordUnsettledType, TargetCommitted DEF RecordUnsettled, May, State
<1>11. ASSUME NEW outcome \in {"completed", "failed", "cancelled"}, Close(c, j, outcome)
       PROVE  TargetInv'
  BY <1>0, <1>1, <1>11, CloseType, TargetCommitted DEF Close, May, State
<1>12. ASSUME NEW t \in Tokens, NEW scope \in {"full", "acceptance"}, NEW left \in 1..MaxLease,
              NEW replied \in BOOLEAN, Claim(c, j, t, scope, left, replied)
       PROVE  TargetInv'
  BY <1>0, <1>1, <1>12, ClaimType, TargetCommitted DEF Claim, ClaimCommits, State
<1>13. ASSUME NEW status \in Statuses, NEW kind \in Outcomes[status], Receipt(c, j, status, kind)
       PROVE  TargetInv'
  <2>1. TypeOK' /\ job[j] \in State /\ Registered(j) /\ job[j].attempts # <<>>
    BY <1>0, <1>1, <1>13, ReceiptType DEF Receipt, May, Settleable
  <2> QED BY <1>13, <2>1, TargetCommitted DEF Receipt, State
<1> QED
  BY <1>2, <1>3, <1>4, <1>5, <1>6, <1>7, <1>8, <1>9, <1>10, <1>11, <1>12, <1>13,
     BeginTargets, ActivateTargets
  DEF Mutate

(* Every step keeps TargetInv.                                             *)
LEMMA TargetNext == TargetInv /\ [Next]_vars => TargetInv'
<1> SUFFICES ASSUME TargetInv, [Next]_vars PROVE TargetInv'
  OBVIOUS
<1>0. TypeOK
  BY DEF TargetInv
<1>1. ASSUME job' = job, TypeOK' PROVE TargetInv'
  BY <1>1, TargetsKept DEF Registered, KeepsTarget
<1>2. CASE UNCHANGED vars
  <2>1. TypeOK' /\ job' = job
    BY <1>0, <1>2 DEF vars, TypeOK
  <2> QED BY <1>1, <2>1
<1>3. ASSUME NEW j \in Jobs, Register(j) PROVE TargetInv'
  <2>1. TypeOK' /\ job'[j].attempts = <<>> /\ \A k \in Jobs \ {j} : job'[k] = job[k]
    BY <1>0, <1>3, RegisterType DEF Register, Commit, TypeOK
  <2> QED BY <2>1, TargetsKept DEF Registered, KeepsTarget
<1>4. ASSUME NEW j \in Jobs, NEW issue \in 0..MaxIssues, Inspect(j, issue) PROVE TargetInv'
  BY <1>0, <1>1, <1>4, InspectType DEF Inspect
<1>5. ASSUME NEW j \in Jobs, Surroundings(j) PROVE TargetInv'
  BY <1>0, <1>1, <1>5, SurroundingsType
  DEF Surroundings, Record, Respond, Raise, Subside, Handle
<1>6. ASSUME NEW c \in Controllers, Send(c) \/ GiveUp(c) \/ Crash(c) PROVE TargetInv'
  BY <1>0, <1>1, <1>6, SendersType DEF Send, GiveUp, Crash
<1>7. CASE Tick
  <2>1. TypeOK'
    BY <1>0, <1>7, TickType
  <2>2. ASSUME NEW k \in Jobs, Registered(k)'
        PROVE  Registered(k) /\ KeepsTarget(job[k], job'[k])
    <3>1. Registered(k) /\ job'[k] = Aged(job[k])
      BY <1>7, <2>2 DEF Tick, Registered
    <3>2. job[k] \in State
      BY <1>0, <3>1, RegisteredState
    <3> QED BY <3>1, <3>2 DEF Aged, State, KeepsTarget
  <2> QED BY <2>1, <2>2, TargetsKept
<1> QED BY <1>2, <1>3, <1>4, <1>5, <1>6, <1>7, MutateTargets DEF Next

(* Two open jobs never both have sent, or be sending, to one target        *)
(* (begin, activate).                                                      *)
THEOREM TargetsAreExclusive == Spec => []TargetExclusive
<1>1. Init => TargetInv
  BY InitType DEF Init, TargetInv, TargetExclusive, Submitted, Open, Registered
<1>2. TargetInv => TargetExclusive
  BY DEF TargetInv
<1> QED BY <1>1, <1>2, TargetNext, PTL DEF Spec

-----------------------------------------------------------------------------
(* What four invariants say of the head of one job.                        *)
PastHead(s) ==
    /\ Len(s.past) = s.round - 1
    /\ \A r \in DOMAIN s.past :
           /\ Valid(s.past[r].of)
           /\ s.past[r].of.status = "success" => s.past[r].review \in Verdicts
    /\ \A r \in 1..MaxRound : s.notes[r] # None =>
           r < s.round /\ s.notes[r].of = s.past[r].of

ActionsHead(s) ==
    \A m, n \in DOMAIN s.controls :
        LET a == s.controls[m]  b == s.controls[n] IN
        /\ a.issue # 0 /\ a.issue = b.issue
        /\ a.status # "not_sent" /\ b.status # "not_sent"
        => m = n

CompletedHead(s) ==
    s.closed = "completed" =>
        /\ s.acceptance # None /\ s.host # None
        /\ s.host.of = s.acceptance.of
        /\ s.acceptance.of.status = "success"
        /\ s.host.target = HostTargetOf(s)

CancelledHead(s) ==
    /\ s.closed = "cancelled" =>
           \/ s.attempts = <<>> /\ s.launch = None
           \/ /\ HasControl(s)
              /\ LatestControl(s).kind \in {"cancel", "interrupt"}
              /\ LatestControl(s).status = "confirmed"
              /\ LatestControl(s).identity.attempt = Len(s.attempts)
              /\ LatestControl(s).identity.round = s.round
    /\ CancelConfirmed(s) => s.closed \in {"open", "cancelled"}

HeadInv(s) == PastHead(s) /\ ActionsHead(s) /\ CompletedHead(s) /\ CancelledHead(s)

HeadsInv == TypeOK /\ \A j \in Jobs : Registered(j) => HeadInv(job[j])

(* Revisions that differ in times and in what became of an attempt only.   *)
SameControls(s, t) ==
    /\ Len(t.controls) = Len(s.controls)
    /\ \A n \in DOMAIN s.controls :
           /\ t.controls[n].kind = s.controls[n].kind
           /\ t.controls[n].status = s.controls[n].status
           /\ t.controls[n].identity = s.controls[n].identity
           /\ t.controls[n].issue = s.controls[n].issue
SameHost(s, t) ==
    /\ t.host = None <=> s.host = None
    /\ s.host # None => t.host.of = s.host.of /\ t.host.target = s.host.target
SameHead(s, t) ==
    /\ t.past = s.past /\ t.round = s.round /\ t.notes = s.notes
    /\ t.closed = s.closed /\ t.launch = s.launch /\ t.session = s.session
    /\ t.resources = s.resources /\ t.acceptance = s.acceptance
    /\ Len(t.attempts) = Len(s.attempts)
    /\ SameControls(s, t) /\ SameHost(s, t)

(* Nothing of the four is said of what they differ in.                     *)
LEMMA SameHeadHolds ==
    ASSUME NEW s \in State, NEW t \in State, HeadInv(s), SameHead(s, t)
    PROVE  HeadInv(t)
<1>1. /\ s.controls \in Seq(Control) /\ t.controls \in Seq(Control)
      /\ s.attempts \in Seq(Attempt) /\ t.attempts \in Seq(Attempt)
  BY DEF State
<1>2. DOMAIN t.controls = DOMAIN s.controls
  BY <1>1 DEF SameHead, SameControls
<1>3. PastHead(t)
  BY DEF HeadInv, SameHead, PastHead
<1>4. ActionsHead(t)
  BY <1>2 DEF HeadInv, SameHead, SameControls, ActionsHead
<1>5. CompletedHead(t)
  BY DEF HeadInv, SameHead, SameHost, CompletedHead, HostTargetOf
<1>6. /\ HasControl(t) <=> HasControl(s)
      /\ HasControl(s) =>
            /\ LatestControl(t).kind = LatestControl(s).kind
            /\ LatestControl(t).status = LatestControl(s).status
            /\ LatestControl(t).identity = LatestControl(s).identity
  <2>1. HasControl(s) => Len(s.controls) \in DOMAIN s.controls
    BY <1>1 DEF HasControl
  <2>2. HasControl(t) <=> HasControl(s)
    BY <1>1 DEF HasControl, SameHead, SameControls
  <2> QED BY <2>1, <2>2 DEF LatestControl, Last, SameHead, SameControls
<1>7. CancelledHead(t)
  <2>1. t.attempts = <<>> <=> s.attempts = <<>>
    BY <1>1 DEF SameHead
  <2> QED BY <1>6, <2>1 DEF HeadInv, SameHead, CancelledHead, CancelConfirmed
<1> QED BY <1>3, <1>4, <1>5, <1>7 DEF HeadInv

(* What only a job that stays open does can break two of them only.        *)
LEMMA OpenHeadHolds ==
    ASSUME NEW t, t.closed = "open", PastHead(t), ActionsHead(t)
    PROVE  HeadInv(t)
BY DEF HeadInv, CompletedHead, CancelledHead

(* A closed job is only reviewed.                                          *)
LEMMA OnlyReviews ==
    ASSUME NEW c, NEW j, NEW action, May(c, j, action), action \notin ReviewOnly
    PROVE  job[j].closed = "open" /\ Guard(job[j], action) /\ Registered(j)
BY DEF May, Holds

(* One revision of one job.                                                *)
LEMMA HeadCommitted ==
    ASSUME HeadsInv, TypeOK', NEW j \in Jobs, NEW t, Commit(j, t), HeadInv(t)
    PROVE  HeadsInv'
<1>1. job'[j] = t /\ \A k \in Jobs \ {j} : job'[k] = job[k]
  BY DEF Commit, HeadsInv, TypeOK
<1>2. ASSUME NEW k \in Jobs, Registered(k)' PROVE HeadInv(job'[k])
  BY <1>1, <1>2 DEF HeadsInv, Registered
<1> QED BY <1>2 DEF HeadsInv, Registered, HeadInv, PastHead, ActionsHead, CompletedHead,
              CancelledHead, CancelConfirmed, HasControl, LatestControl, HostTargetOf, Valid

-----------------------------------------------------------------------------
(* Leases, times and what became of an attempt.                            *)
LEMMA LeaseHeads ==
    ASSUME HeadsInv, NEW c \in Controllers, NEW j \in Jobs,
           \/ \E t \in Tokens, scope \in {"full", "acceptance"}, left \in 1..MaxLease,
                 replied \in BOOLEAN : Claim(c, j, t, scope, left, replied)
           \/ \E left \in 1..MaxLease : Renew(c, j, left)
           \/ Release(c, j)
           \/ \E status \in Statuses : \E kind \in Outcomes[status] : Receipt(c, j, status, kind)
    PROVE  HeadsInv'
<1>1. TypeOK /\ TypeOK' /\ Registered(j) /\ job[j] \in State /\ job'[j] \in State
  BY ClaimType, RenewType, ReleaseType, ReceiptType, RegisteredState
  DEF HeadsInv, Claim, ClaimCommits, Renew, Release, Receipt, May, Holds
<1>2. SUFFICES ASSUME NEW t, Commit(j, t), SameHead(job[j], t) PROVE HeadsInv'
  <2>1. ASSUME NEW l, Commit(j, [job[j] EXCEPT !.lease = l]) PROVE HeadsInv'
    BY <1>1, <1>2, <2>1 DEF State, SameHead, SameControls, SameHost
  <2>2. ASSUME NEW left \in 1..MaxLease, Renew(c, j, left) PROVE HeadsInv'
    BY <1>1, <1>2, <2>2 DEF Renew, State, SameHead, SameControls, SameHost
  <2>3. ASSUME NEW status \in Statuses, NEW kind \in Outcomes[status],
               Receipt(c, j, status, kind)
        PROVE  HeadsInv'
    <3> DEFINE n == Len(job[j].attempts)
               t == [job[j] EXCEPT !.attempts[n].status = status, !.submission = status]
    <3>1. job[j].attempts \in Seq(Attempt) /\ Commit(j, t)
      BY <1>1, <2>3 DEF Receipt, State
    <3>2. Len(t.attempts) = Len(job[j].attempts)
      BY <1>1, <3>1 DEF State
    <3>3. SameHead(job[j], t)
      BY <1>1, <3>2 DEF State, SameHead, SameControls, SameHost
    <3> HIDE DEF t
    <3> QED BY <1>2, <3>1, <3>3
  <2> QED BY <2>1, <2>2, <2>3 DEF Claim, ClaimCommits, Release
<1>3. job'[j] = t
  BY <1>1, <1>2 DEF Commit, TypeOK
<1>4. HeadInv(t)
  BY <1>1, <1>2, <1>3, SameHeadHolds DEF HeadsInv
<1> QED BY <1>1, <1>2, <1>4, HeadCommitted

(* A job's identity, its submission and the host's observations.           *)
LEMMA WorkHeads ==
    ASSUME HeadsInv, NEW c \in Controllers, NEW j \in Jobs,
           \/ \E session \in Sessions \cup {None}, launch \in Profiles \cup {None} :
                 Update(c, j, session, launch)
           \/ \E replied \in BOOLEAN : Begin(c, j, replied)
           \/ \E left \in 1..HostWindow : RecordSettled(c, j, left)
           \/ RecordUnsettled(c, j)
    PROVE  HeadsInv'
<1>1. /\ TypeOK /\ TypeOK' /\ Registered(j) /\ job[j] \in State
      /\ job[j].closed = "open" /\ PastHead(job[j]) /\ ActionsHead(job[j])
  BY UpdateType, BeginType, RecordSettledType, RecordUnsettledType, RegisteredState, OnlyReviews
  DEF HeadsInv, HeadInv, Update, Begin, RecordSettled, RecordUnsettled, May, Holds, ReviewOnly
<1>2. ASSUME NEW t, Commit(j, t), t.closed = "open", t.controls = job[j].controls,
             t.past = job[j].past, t.round = job[j].round, t.notes = job[j].notes
      PROVE  HeadsInv'
  <2>1. PastHead(t) /\ ActionsHead(t)
    BY <1>1, <1>2 DEF PastHead, ActionsHead
  <2> QED BY <1>1, <1>2, <2>1, OpenHeadHolds, HeadCommitted
<1>3. CASE \E session \in Sessions \cup {None}, launch \in Profiles \cup {None} :
               Update(c, j, session, launch)
  BY <1>1, <1>2, <1>3 DEF Update, State
<1>4. CASE \E replied \in BOOLEAN : Begin(c, j, replied)
  BY <1>1, <1>2, <1>4 DEF Begin, State
<1>5. ASSUME NEW host, Commit(j, [job[j] EXCEPT !.host = host]) PROVE HeadsInv'
  BY <1>1, <1>2, <1>5 DEF State
<1>6. CASE \E left \in 1..HostWindow : RecordSettled(c, j, left)
  BY <1>5, <1>6 DEF RecordSettled
<1>7. CASE RecordUnsettled(c, j)
  BY <1>5, <1>7 DEF RecordUnsettled
<1> QED BY <1>3, <1>4, <1>6, <1>7

(* A control is begun on an incident on which none acted.                  *)
LEMMA ControlBeginHeads ==
    ASSUME HeadsInv, NEW c \in Controllers, NEW j \in Jobs, NEW kind \in Kinds,
           NEW i \in inspections[j], ControlBegin(c, j, kind, i)
    PROVE  HeadsInv'
<1> DEFINE control == [kind |-> kind, status |-> "uncertain", identity |-> IdentityOf(j),
                       issue |-> i.issue, age |-> 0, proof |-> MaxAge + 1]
           t == [job[j] EXCEPT !.controls = Append(@, control)]
           n == Len(job[j].controls)
<1>1. /\ TypeOK /\ TypeOK' /\ Registered(j) /\ job[j] \in State
      /\ job[j].closed = "open" /\ PastHead(job[j]) /\ ActionsHead(job[j])
      /\ Commit(j, t)
      /\ i.issue # 0 => Unacted(j, i.issue)
  BY ControlBeginType, RegisteredState, OnlyReviews
  DEF HeadsInv, HeadInv, ControlBegin, May, Holds, ReviewOnly
<1>2. /\ t.closed = "open" /\ t.past = job[j].past /\ t.round = job[j].round
      /\ t.notes = job[j].notes /\ t.controls = Append(job[j].controls, control)
      /\ job[j].controls \in Seq(Control) /\ n \in Nat
  BY <1>1 DEF State
<1>3. /\ DOMAIN t.controls = 1..n + 1 /\ t.controls[n + 1] = control
      /\ \A m \in 1..n : t.controls[m] = job[j].controls[m]
      /\ control.issue = i.issue /\ DOMAIN job[j].controls = 1..n
  BY <1>2
<1> HIDE DEF t, control
<1>4. ActionsHead(t)
  <2> DEFINE Clash(l, m) ==
                 /\ t.controls[l].issue # 0 /\ t.controls[l].issue = t.controls[m].issue
                 /\ t.controls[l].status # "not_sent" /\ t.controls[m].status # "not_sent"
  <2>1. ASSUME NEW l \in 1..n + 1, NEW m \in 1..n + 1, l < m, Clash(l, m) PROVE FALSE
    <3>1. l \in 1..n /\ (m = n + 1 \/ m \in 1..n)
      BY <1>2, <2>1
    <3>2. CASE m = n + 1
      <4>1. /\ i.issue # 0 /\ job[j].controls[l].issue = i.issue
            /\ job[j].controls[l].status # "not_sent"
        BY <1>3, <2>1, <3>1, <3>2
      <4> QED BY <1>1, <1>3, <3>1, <4>1 DEF Unacted
    <3>3. CASE m \in 1..n
      <4>1. l = m
        BY <1>1, <1>3, <2>1, <3>1, <3>3 DEF ActionsHead
      <4> QED BY <1>2, <2>1, <4>1
    <3> QED BY <3>1, <3>2, <3>3
  <2> HIDE DEF Clash
  <2>2. ASSUME NEW l \in 1..n + 1, NEW m \in 1..n + 1, Clash(l, m) PROVE l = m
    <3>1. Clash(m, l)
      BY <2>2 DEF Clash
    <3> QED BY <1>2, <2>1, <2>2, <3>1
  <2> QED BY <1>3, <2>2 DEF ActionsHead, Clash
<1>5. PastHead(t)
  BY <1>1, <1>2 DEF PastHead
<1> QED BY <1>1, <1>2, <1>4, <1>5, OpenHeadHolds, HeadCommitted

(* A receipt never makes one that did not act into one that did.           *)
LEMMA ControlReceiptHeads ==
    ASSUME HeadsInv, NEW c \in Controllers, NEW j \in Jobs,
           NEW status \in {"uncertain", "not_sent", "confirmed"}, NEW age \in 0..MaxAge + 1,
           ControlReceipt(c, j, status, age)
    PROVE  HeadsInv'
<1> DEFINE n == Len(job[j].controls)
           control == Resolved(LatestControl(job[j]), status, age)
           t == [job[j] EXCEPT !.controls[n] = control]
<1>1. /\ TypeOK /\ TypeOK' /\ Registered(j) /\ job[j] \in State
      /\ job[j].closed = "open" /\ PastHead(job[j]) /\ ActionsHead(job[j])
      /\ Commit(j, t) /\ Resolvable(j, status, age) /\ HasControl(job[j])
  BY ControlReceiptType, RegisteredState, OnlyReviews
  DEF HeadsInv, HeadInv, ControlReceipt, May, Holds, ReviewOnly
<1>2. /\ t.closed = "open" /\ t.past = job[j].past /\ t.round = job[j].round
      /\ t.notes = job[j].notes /\ t.controls = [job[j].controls EXCEPT ![n] = control]
      /\ job[j].controls \in Seq(Control) /\ n \in Nat
  BY <1>1 DEF State
<1>3. /\ n \in DOMAIN job[j].controls /\ LatestControl(job[j]) = job[j].controls[n]
      /\ job[j].controls[n] \in Control
  BY <1>1, <1>2 DEF HasControl, LatestControl, Last
<1>4. control.issue = job[j].controls[n].issue /\ job[j].controls[n].status # "not_sent"
  BY <1>1, <1>3 DEF Resolved, Control, Resolvable, Refreshes
<1>5. /\ DOMAIN t.controls = DOMAIN job[j].controls
      /\ \A m \in DOMAIN job[j].controls :
            /\ t.controls[m].issue = job[j].controls[m].issue
            /\ t.controls[m].status # "not_sent" => job[j].controls[m].status # "not_sent"
  <2> HIDE DEF t, control
  <2> QED BY <1>2, <1>3, <1>4
<1> HIDE DEF t
<1>6. ActionsHead(t)
  BY <1>1, <1>5 DEF ActionsHead
<1>7. PastHead(t)
  BY <1>1, <1>2 DEF PastHead
<1> QED BY <1>1, <1>2, <1>6, <1>7, OpenHeadHolds, HeadCommitted

(* The round that is left behind has a response and its verdict.           *)
LEMMA ActivateHeads ==
    ASSUME HeadsInv, NEW c \in Controllers, NEW j \in Jobs, Activate(c, j)
    PROVE  HeadsInv'
<1> DEFINE s == job[j]
           left == [of |-> Answer(j), review |-> ReviewStatus(s, Answer(j))]
           t == NextRound(j)
<1>1. /\ TypeOK /\ TypeOK' /\ Registered(j) /\ s \in State
      /\ s.closed = "open" /\ PastHead(s) /\ ActionsHead(s)
      /\ Commit(j, t) /\ Followable(j)
  BY ActivateType, RegisteredState, OnlyReviews
  DEF HeadsInv, HeadInv, Activate, May, Holds, ReviewOnly
<1>2. /\ t.closed = "open" /\ t.round = s.round + 1 /\ t.notes = s.notes
      /\ t.controls = s.controls /\ t.past = Append(s.past, left)
      /\ s.past \in Seq(Transition) /\ s.round \in Nat
  BY <1>1, BoundsAssumption, SMTT(30) DEF NextRound, State, Rounds
<1>3. /\ left.of = Answer(j) /\ Valid(left.of)
      /\ left.of.status = "success" => left.review \in Verdicts
  BY <1>1 DEF Followable
<1> HIDE DEF left, t
<1>4. /\ Len(t.past) = s.round /\ Len(s.past) = s.round - 1 /\ t.past[s.round] = left
      /\ DOMAIN t.past = 1..s.round /\ DOMAIN s.past = 1..s.round - 1
      /\ \A r \in DOMAIN s.past : t.past[r] = s.past[r]
  <2> DEFINE n == Len(s.past)
  <2>1. n \in Nat /\ DOMAIN s.past = 1..n /\ s.round = n + 1 /\ n = s.round - 1
    BY <1>1, <1>2 DEF PastHead
  <2>2. /\ Len(t.past) = n + 1 /\ t.past[n + 1] = left /\ DOMAIN t.past = 1..n + 1
        /\ \A r \in 1..n : t.past[r] = s.past[r]
    BY <1>2, <2>1
  <2> QED BY <2>1, <2>2
<1>5. PastHead(t)
  <2>1. Len(t.past) = t.round - 1
    BY <1>2, <1>4
  <2>2. ASSUME NEW r \in DOMAIN t.past
        PROVE  /\ Valid(t.past[r].of)
               /\ t.past[r].of.status = "success" => t.past[r].review \in Verdicts
    <3>1. CASE r \in DOMAIN s.past
      BY <1>1, <1>4, <3>1 DEF PastHead
    <3>2. CASE r = s.round
      BY <1>3, <1>4, <3>2
    <3> QED BY <1>2, <1>4, <3>1, <3>2
  <2>3. ASSUME NEW r \in 1..MaxRound, t.notes[r] # None
        PROVE  r < t.round /\ t.notes[r].of = t.past[r].of
    <3>1. r < s.round /\ s.notes[r].of = s.past[r].of
      BY <1>1, <1>2, <2>3 DEF PastHead
    <3>2. r \in DOMAIN s.past
      BY <1>2, <1>4, <3>1, BoundsAssumption
    <3> QED BY <1>2, <1>4, <3>1, <3>2, BoundsAssumption
  <2> QED BY <2>1, <2>2, <2>3 DEF PastHead
<1>6. ActionsHead(t)
  BY <1>1, <1>2 DEF ActionsHead
<1> QED BY <1>1, <1>2, <1>5, <1>6, OpenHeadHolds, HeadCommitted

(* A review of a closed job is of the bytes reviewed before.               *)
LEMMA AcceptHeads ==
    ASSUME HeadsInv, NEW c \in Controllers, NEW j \in Jobs, NEW verdict \in Verdicts,
           Accept(c, j, verdict)
    PROVE  HeadsInv'
<1> DEFINE s == job[j]
           review == [verdict |-> verdict, of |-> Answer(j)]
           t == [s EXCEPT !.acceptance = review]
<1>1. /\ TypeOK /\ TypeOK' /\ Registered(j) /\ s \in State /\ HeadInv(s)
      /\ Commit(j, t) /\ Reviewable(s, Answer(j))
  BY AcceptType, RegisteredState DEF HeadsInv, Accept, May, Holds
<1>2. review \in Review /\ review.of = Answer(j)
  <2>1. Answer(j) \in Response
    BY <1>1, AnswerType DEF Reviewable
  <2> QED BY <2>1 DEF Review
<1>3. review # None
  BY <1>2, NoneAssumption
<1> HIDE DEF review
<1>4. /\ t.acceptance = review /\ t.closed = s.closed /\ t.past = s.past /\ t.round = s.round
      /\ t.notes = s.notes /\ t.controls = s.controls /\ t.attempts = s.attempts
      /\ t.launch = s.launch /\ t.session = s.session /\ t.resources = s.resources
      /\ t.host = s.host
  BY <1>1 DEF State
<1> HIDE DEF t
<1>5. CompletedHead(t)
  BY <1>1, <1>2, <1>3, <1>4 DEF HeadInv, CompletedHead, HostTargetOf, Reviewable
<1>6. PastHead(t) /\ ActionsHead(t)
  BY <1>1, <1>4 DEF HeadInv, PastHead, ActionsHead
<1>7. CancelledHead(t)
  BY <1>1, <1>4 DEF HeadInv, CancelledHead, CancelConfirmed, HasControl, LatestControl
<1> QED BY <1>1, <1>5, <1>6, <1>7, HeadCommitted DEF HeadInv

(* A later review of a past round is of the bytes its transition pinned.   *)
LEMMA AcceptPastHeads ==
    ASSUME HeadsInv, NEW c \in Controllers, NEW j \in Jobs, NEW r \in Rounds,
           NEW verdict \in Verdicts, AcceptPast(c, j, r, verdict)
    PROVE  HeadsInv'
<1> DEFINE s == job[j]
           review == [verdict |-> verdict, of |-> result[j][r]]
           t == [s EXCEPT !.notes[r] = review]
<1>1. /\ TypeOK /\ TypeOK' /\ Registered(j) /\ s \in State /\ HeadInv(s)
      /\ Commit(j, t) /\ r < s.round /\ s.past[r].of = result[j][r]
  BY AcceptPastType, RegisteredState DEF HeadsInv, AcceptPast, Annotatable, May, Holds
<1>2. review.of = result[j][r]
  OBVIOUS
<1> HIDE DEF review
<1>3. /\ t.acceptance = s.acceptance /\ t.closed = s.closed /\ t.past = s.past
      /\ t.round = s.round /\ t.controls = s.controls /\ t.attempts = s.attempts
      /\ t.launch = s.launch /\ t.session = s.session /\ t.resources = s.resources
      /\ t.host = s.host
      /\ \A q \in Rounds : t.notes[q] = IF q = r THEN review ELSE s.notes[q]
  BY <1>1 DEF State
<1> HIDE DEF t
<1>4. PastHead(t)
  BY <1>1, <1>2, <1>3 DEF HeadInv, PastHead, Rounds
<1>5. CompletedHead(t) /\ ActionsHead(t)
  BY <1>1, <1>3 DEF HeadInv, CompletedHead, ActionsHead, HostTargetOf
<1>6. CancelledHead(t)
  BY <1>1, <1>3 DEF HeadInv, CancelledHead, CancelConfirmed, HasControl, LatestControl
<1> QED BY <1>1, <1>4, <1>5, <1>6, HeadCommitted DEF HeadInv

(* A job is closed as completed on one response, as cancelled after a stop *)
(* of what it is now.                                                      *)
LEMMA CloseHeads ==
    ASSUME HeadsInv, NEW c \in Controllers, NEW j \in Jobs,
           NEW outcome \in {"completed", "failed", "cancelled"}, Close(c, j, outcome)
    PROVE  HeadsInv'
<1> DEFINE s == job[j]
           t == [s EXCEPT !.closed = outcome, !.lease = None]
<1>1. /\ TypeOK /\ TypeOK' /\ Registered(j) /\ s \in State /\ HeadInv(s)
      /\ Commit(j, t) /\ Closable(j, outcome) /\ Guard(s, CloseAs[outcome])
  BY CloseType, RegisteredState DEF HeadsInv, Close, May, Holds
<1>2. /\ t.acceptance = s.acceptance /\ t.closed = outcome /\ t.past = s.past
      /\ t.round = s.round /\ t.controls = s.controls /\ t.attempts = s.attempts
      /\ t.launch = s.launch /\ t.session = s.session /\ t.resources = s.resources
      /\ t.host = s.host /\ t.notes = s.notes
  BY <1>1 DEF State
<1> HIDE DEF t
<1>3. PastHead(t) /\ ActionsHead(t)
  BY <1>1, <1>2 DEF HeadInv, PastHead, ActionsHead
<1>4. CompletedHead(t)
  <2> SUFFICES ASSUME outcome = "completed" PROVE CompletedHead(t)
    BY <1>2 DEF CompletedHead
  <2>1. ReadyToComplete(s, Answer(j))
    BY <1>1 DEF Closable
  <2>2. s.acceptance # None /\ s.acceptance.of = Answer(j)
    BY <2>1 DEF ReadyToComplete, ReviewStatus
  <2> QED BY <1>2, <2>1, <2>2 DEF CompletedHead, ReadyToComplete, HostSettled, HostTargetOf
<1>5. CancelledHead(t)
  <2>1. CancelConfirmed(t) => outcome = "cancelled"
    <3>1. CancelConfirmed(t) => CancelConfirmed(s)
      BY <1>2 DEF CancelConfirmed, HasControl, LatestControl
    <3>2. outcome # "cancelled" => CloseAs[outcome] \in Closures \ {CloseAs.cancelled}
      <4>1. CASE outcome = "completed"
        BY <4>1 DEF Closures, CloseAs
      <4>2. CASE outcome = "failed"
        BY <4>2 DEF Closures, CloseAs
      <4> QED BY <4>1, <4>2
    <3> QED BY <1>1, <3>1, <3>2 DEF Guard
  <2>2. ASSUME outcome = "cancelled"
        PROVE  \/ s.attempts = <<>> /\ s.launch = None
               \/ /\ HasControl(s)
                  /\ LatestControl(s).kind \in {"cancel", "interrupt"}
                  /\ LatestControl(s).status = "confirmed"
                  /\ LatestControl(s).identity.attempt = Len(s.attempts)
                  /\ LatestControl(s).identity.round = s.round
    BY <1>1, <2>2 DEF Closable, Cancellable, NeverStarted, StopProven, IdentityOf
  <2> QED BY <1>2, <2>1, <2>2 DEF CancelledHead, HasControl, LatestControl
<1> QED BY <1>1, <1>3, <1>4, <1>5, HeadCommitted DEF HeadInv

(* A job begins with a head that says nothing yet.                         *)
LEMMA RegisterHeads ==
    ASSUME HeadsInv, NEW j \in Jobs, Register(j)
    PROVE  HeadsInv'
<1> DEFINE t == [lease |-> None, round |-> 1, resources |-> recorded[j][1],
                 submission |-> "prepared", attempts |-> <<>>,
                 session |-> None, launch |-> None, controls |-> <<>>,
                 acceptance |-> None, host |-> None, past |-> <<>>,
                 notes |-> [r \in Rounds |-> None], closed |-> "open"]
<1>1. TypeOK' /\ Commit(j, t)
  BY RegisterType DEF HeadsInv, Register
<1>2. PastHead(t) /\ ActionsHead(t) /\ t.closed = "open"
  BY DEF PastHead, ActionsHead, Rounds
<1> HIDE DEF t
<1> QED BY <1>1, <1>2, OpenHeadHolds, HeadCommitted

(* The clock ages leases, observations and the latest control.             *)
LEMMA AgedSame ==
    ASSUME NEW s \in State
    PROVE  Aged(s) \in State /\ SameHead(s, Aged(s))
<1> DEFINE n == Len(s.controls)
           controls == IF s.controls = <<>> THEN s.controls
                       ELSE [s.controls EXCEPT ![n] = OlderControl(Last(s.controls))]
           t == Aged(s)
<1>1. /\ t \in State /\ t.past = s.past /\ t.round = s.round /\ t.notes = s.notes
      /\ t.closed = s.closed /\ t.launch = s.launch /\ t.session = s.session
      /\ t.resources = s.resources /\ t.acceptance = s.acceptance
      /\ t.attempts = s.attempts /\ t.controls = controls /\ t.host = Expiring(s.host)
  BY AgedType DEF Aged, State
<1> HIDE DEF t
<1>2. SameHost(s, t)
  <2>1. CASE s.host = None
    BY <1>1, <2>1 DEF Expiring, SameHost
  <2>2. CASE s.host # None
    <3>1. s.host \in Host
      BY <2>2 DEF State
    <3>2. t.host = [s.host EXCEPT !.left = Sooner(s.host.left)]
      BY <1>1, <2>2, <3>1 DEF Expiring, Host
    <3>3. t.host \in [of : Response, target : HostTarget, left : {Sooner(s.host.left)}]
      BY <3>1, <3>2 DEF Host
    <3>4. t.host # None
      <4>1. Sooner(s.host.left) \in 0..HostWindow
        BY <3>1, BoundsAssumption DEF Sooner, Host
      <4>2. t.host \in Host
        BY <3>3, <4>1 DEF Host
      <4> QED BY <4>2, NoneAssumption
    <3> QED BY <2>2, <3>1, <3>2, <3>4 DEF SameHost, Host
  <2> QED BY <2>1, <2>2
<1>3. SameControls(s, t)
  <2>1. s.controls \in Seq(Control)
    BY DEF State
  <2>2. CASE s.controls = <<>>
    BY <1>1, <2>2 DEF SameControls
  <2>3. CASE s.controls # <<>>
    <3>1. /\ n \in DOMAIN s.controls /\ Last(s.controls) = s.controls[n]
          /\ s.controls[n] \in Control
      BY <2>1, <2>3 DEF Last
    <3> DEFINE older == OlderControl(s.controls[n])
    <3>2. /\ older.kind = s.controls[n].kind /\ older.status = s.controls[n].status
          /\ older.identity = s.controls[n].identity /\ older.issue = s.controls[n].issue
      BY <3>1 DEF OlderControl, Control
    <3>3. t.controls = [s.controls EXCEPT ![n] = older]
      BY <1>1, <2>3, <3>1
    <3> HIDE DEF older
    <3> QED BY <2>1, <3>1, <3>2, <3>3 DEF SameControls
  <2> QED BY <2>2, <2>3
<1> QED BY <1>1, <1>2, <1>3 DEF SameHead, t

(* What ages breaks none of the four.                                      *)
LEMMA TickHeads == HeadsInv /\ Tick => HeadsInv'
<1> SUFFICES ASSUME HeadsInv, Tick PROVE HeadsInv'
  OBVIOUS
<1>1. TypeOK /\ TypeOK'
  BY TickType DEF HeadsInv
<1>2. ASSUME NEW k \in Jobs, Registered(k)' PROVE HeadInv(job'[k])
  <2>1. Registered(k) /\ job'[k] = Aged(job[k])
    BY <1>2 DEF Tick, Registered
  <2>2. job[k] \in State /\ HeadInv(job[k])
    BY <1>1, <2>1, RegisteredState DEF HeadsInv
  <2> QED BY <2>1, <2>2, AgedSame, SameHeadHolds
<1> QED BY <1>1, <1>2
        DEF HeadsInv, Registered, HeadInv, PastHead, ActionsHead, CompletedHead,
            CancelledHead, CancelConfirmed, HasControl, LatestControl, HostTargetOf, Valid

(* Every step keeps what is said of the heads.                             *)
LEMMA HeadsNext == HeadsInv /\ [Next]_vars => HeadsInv'
<1> SUFFICES ASSUME HeadsInv, [Next]_vars PROVE HeadsInv'
  OBVIOUS
<1>0. TypeOK
  BY DEF HeadsInv
<1>1. ASSUME job' = job, TypeOK' PROVE HeadsInv'
  BY <1>1 DEF HeadsInv, Registered, HeadInv, PastHead, ActionsHead, CompletedHead,
              CancelledHead, CancelConfirmed, HasControl, LatestControl, HostTargetOf, Valid
<1>2. CASE UNCHANGED vars
  <2>1. TypeOK' /\ job' = job
    BY <1>0, <1>2 DEF vars, TypeOK
  <2> QED BY <1>1, <2>1
<1>3. ASSUME NEW c \in Controllers, NEW j \in Jobs, Mutate(c, j) PROVE HeadsInv'
  BY <1>3, LeaseHeads, WorkHeads, ControlBeginHeads, ControlReceiptHeads, ActivateHeads,
     AcceptHeads, AcceptPastHeads, CloseHeads
  DEF Mutate
<1>4. ASSUME NEW j \in Jobs, NEW issue \in 0..MaxIssues, Inspect(j, issue) PROVE HeadsInv'
  BY <1>0, <1>1, <1>4, InspectType DEF Inspect
<1>5. ASSUME NEW j \in Jobs, Surroundings(j) PROVE HeadsInv'
  BY <1>0, <1>1, <1>5, SurroundingsType
  DEF Surroundings, Record, Respond, Raise, Subside, Handle
<1>6. ASSUME NEW c \in Controllers, Send(c) \/ GiveUp(c) \/ Crash(c) PROVE HeadsInv'
  BY <1>0, <1>1, <1>6, SendersType DEF Send, GiveUp, Crash
<1> QED BY <1>2, <1>3, <1>4, <1>5, <1>6, RegisterHeads, TickHeads DEF Next

(* In every state what is said of one head holds of each.                  *)
LEMMA HeadsAlways == Spec => []HeadsInv
<1>1. Init => HeadsInv
  BY InitType DEF Init, HeadsInv, Registered
<1> QED BY <1>1, HeadsNext, PTL DEF Spec

(* Every round that was left behind had a response and a verdict on it,    *)
(* and a later review is of that response (activate, transition,           *)
(* record_acceptance).                                                     *)
THEOREM PastIsReviewed == Spec => []PastReviewed
<1>1. HeadsInv => PastReviewed
  BY DEF HeadsInv, HeadInv, PastHead, PastReviewed
<1> QED BY <1>1, HeadsAlways, PTL

(* One attention incident is acted on at most once (controls.begin,        *)
(* receipt).                                                               *)
THEOREM IncidentsActedOnOnce == Spec => []OneActionPerIncident
<1>1. HeadsInv => OneActionPerIncident
  BY DEF HeadsInv, HeadInv, ActionsHead, OneActionPerIncident
<1> QED BY <1>1, HeadsAlways, PTL

(* A completed job was completed on one response (summarize, close).       *)
THEOREM CompletionIsCoherent == Spec => []CompletedCoherent
<1>1. HeadsInv => CompletedCoherent
  BY DEF HeadsInv, HeadInv, CompletedHead, CompletedCoherent
<1> QED BY <1>1, HeadsAlways, PTL

(* A cancelled job was stopped, and a confirmed cancel ends in one         *)
(* (controls.cancellation, guard, close).                                  *)
THEOREM CancellationWasStop == Spec => []CancelledWasStopped
<1>1. HeadsInv => CancelledWasStopped
  BY DEF HeadsInv, HeadInv, CancelledHead, CancelledWasStopped
<1> QED BY <1>1, HeadsAlways, PTL

-----------------------------------------------------------------------------
(* A control that a receipt or a closure may still need.                   *)
Pending(s) == Unresolved(s) \/ CancelConfirmed(s)

Pinned(j) ==
    /\ Unresolved(job[j]) => Open(j)
    /\ Pending(job[j]) =>
           /\ LatestControl(job[j]).identity = IdentityOf(j)
           /\ Target(j) # None

PinnedInv == TypeOK /\ \A j \in Jobs : Registered(j) => Pinned(j)

KeepsIdentity(s, t) ==
    /\ Unresolved(t) => Unresolved(s) /\ t.closed = s.closed
    /\ Pending(t) =>
           /\ Pending(s) /\ LatestControl(t).identity = LatestControl(s).identity
           /\ t.round = s.round /\ t.session = s.session /\ t.launch = s.launch
           /\ Len(t.attempts) = Len(s.attempts)

(* Revisions that differ in times only.                                    *)
LEMMA SameHeadKeeps ==
    ASSUME NEW s \in State, NEW t \in State, SameHead(s, t)
    PROVE  KeepsIdentity(s, t)
<1>1. /\ s.controls \in Seq(Control) /\ t.controls \in Seq(Control)
      /\ Len(t.controls) = Len(s.controls)
  BY DEF State, SameHead, SameControls
<1>2. HasControl(t) <=> HasControl(s)
  BY <1>1 DEF HasControl
<1>3. HasControl(s) =>
          /\ LatestControl(t).kind = LatestControl(s).kind
          /\ LatestControl(t).status = LatestControl(s).status
          /\ LatestControl(t).identity = LatestControl(s).identity
  <2>1. HasControl(s) => Len(s.controls) \in DOMAIN s.controls
    BY <1>1 DEF HasControl
  <2> QED BY <1>1, <2>1 DEF LatestControl, Last, SameHead, SameControls
<1> QED BY <1>2, <1>3 DEF KeepsIdentity, Pending, Unresolved, CancelConfirmed, SameHead

(* A step is harmless if what is pending keeps its job's identity.         *)
LEMMA PinnedKept ==
    ASSUME PinnedInv, TypeOK',
           \A k \in Jobs : Registered(k)' => Pinned(k)' \/ KeepsIdentity(job[k], job'[k]),
           \A k \in Jobs : Registered(k)' /\ ~Pinned(k)' =>
               Registered(k) /\ recorded'[k][job[k].round] \in {recorded[k][job[k].round]}
    PROVE  PinnedInv'
<1> SUFFICES ASSUME NEW k \in Jobs, Registered(k)' PROVE Pinned(k)'
  BY DEF PinnedInv, Pinned, Registered
<1> SUFFICES ASSUME ~Pinned(k)' PROVE FALSE
  OBVIOUS
<1>1. /\ Registered(k) /\ KeepsIdentity(job[k], job'[k])
      /\ recorded'[k][job[k].round] = recorded[k][job[k].round] /\ Pinned(k)
  BY DEF PinnedInv
<1>2. Unresolved(job[k])' => Open(k)'
  BY <1>1 DEF KeepsIdentity, Pinned, Open, Registered
<1>3. Pending(job[k])' => LatestControl(job[k])' = LatestControl(job'[k])
  BY DEF LatestControl
<1>4. ASSUME Pending(job'[k])
      PROVE  LatestControl(job'[k]).identity = IdentityOf(k)' /\ Target(k)' # None
  <2>1. Target(k)' = Target(k) /\ IdentityOf(k)' = IdentityOf(k)
    BY <1>1, <1>4 DEF KeepsIdentity, IdentityOf, Target
  <2> QED BY <1>1, <1>4, <2>1 DEF KeepsIdentity, Pinned
<1> QED BY <1>2, <1>4 DEF Pinned, Unresolved, CancelConfirmed, Pending, HasControl, LatestControl

(* One revision of one job, and no new resources.                          *)
LEMMA PinnedCommitted ==
    ASSUME PinnedInv, TypeOK', NEW j \in Jobs, NEW t, Registered(j), Commit(j, t),
           recorded' = recorded, KeepsIdentity(job[j], t) \/ Pinned(j)'
    PROVE  PinnedInv'
<1>1. job'[j] = t /\ \A k \in Jobs \ {j} : job'[k] = job[k]
  BY DEF Commit, PinnedInv, TypeOK
<1>2. \A k \in Jobs \ {j} : Registered(k)' => Registered(k) /\ KeepsIdentity(job[k], job'[k])
  BY <1>1 DEF Registered, KeepsIdentity
<1> QED BY <1>1, <1>2, PinnedKept

(* What neither resolves a control nor touches its identity.               *)
LEMMA PinnedIdle ==
    ASSUME PinnedInv, TypeOK', NEW j \in Jobs, NEW t, Registered(j), Commit(j, t),
           recorded' = recorded,
           t.controls = job[j].controls, t.round = job[j].round, t.session = job[j].session,
           t.launch = job[j].launch, Len(t.attempts) = Len(job[j].attempts),
           t.closed = job[j].closed \/ ~Unresolved(job[j])
    PROVE  PinnedInv'
<1>1. KeepsIdentity(job[j], t)
  BY DEF KeepsIdentity, Pending, Unresolved, CancelConfirmed, HasControl, LatestControl
<1> QED BY <1>1, PinnedCommitted

(* Leases, reviews, host observations, receipts and closure.               *)
LEMMA QuietPinned ==
    ASSUME PinnedInv, NEW c \in Controllers, NEW j \in Jobs,
           \/ \E t \in Tokens, scope \in {"full", "acceptance"}, left \in 1..MaxLease,
                 replied \in BOOLEAN : Claim(c, j, t, scope, left, replied)
           \/ \E left \in 1..MaxLease : Renew(c, j, left)
           \/ Release(c, j)
           \/ \E status \in Statuses : \E kind \in Outcomes[status] : Receipt(c, j, status, kind)
           \/ \E verdict \in Verdicts : Accept(c, j, verdict)
           \/ \E r \in Rounds, verdict \in Verdicts : AcceptPast(c, j, r, verdict)
           \/ \E left \in 1..HostWindow : RecordSettled(c, j, left)
           \/ RecordUnsettled(c, j)
           \/ \E outcome \in {"completed", "failed", "cancelled"} : Close(c, j, outcome)
    PROVE  PinnedInv'
<1>1. TypeOK /\ Registered(j) /\ job[j] \in State
  BY RegisteredState
  DEF PinnedInv, Claim, ClaimCommits, Renew, Release, Receipt, Accept, AcceptPast,
      RecordSettled, RecordUnsettled, Close, May, Holds
<1>2. ASSUME NEW t \in Tokens, NEW scope \in {"full", "acceptance"}, NEW left \in 1..MaxLease,
             NEW replied \in BOOLEAN, Claim(c, j, t, scope, left, replied)
      PROVE  PinnedInv'
  BY <1>1, <1>2, ClaimType, PinnedIdle DEF Claim, ClaimCommits, State, files
<1>3. ASSUME NEW left \in 1..MaxLease, Renew(c, j, left) PROVE PinnedInv'
  BY <1>1, <1>3, RenewType, PinnedIdle DEF Renew, State, files
<1>4. CASE Release(c, j)
  BY <1>1, <1>4, ReleaseType, PinnedIdle DEF Release, State, files
<1>5. ASSUME NEW status \in Statuses, NEW kind \in Outcomes[status], Receipt(c, j, status, kind)
      PROVE  PinnedInv'
  <2> DEFINE n == Len(job[j].attempts)
             t == [job[j] EXCEPT !.attempts[n].status = status, !.submission = status]
  <2>1. TypeOK' /\ job[j].attempts \in Seq(Attempt) /\ Commit(j, t) /\ recorded' = recorded
    BY <1>1, <1>5, ReceiptType DEF Receipt, State, files
  <2>2. Len(t.attempts) = Len(job[j].attempts)
    BY <1>1, <2>1 DEF State
  <2>3. /\ t.controls = job[j].controls /\ t.round = job[j].round /\ t.closed = job[j].closed
        /\ t.session = job[j].session /\ t.launch = job[j].launch
    BY <1>1 DEF State
  <2> HIDE DEF t
  <2> QED BY <1>1, <2>1, <2>2, <2>3, PinnedIdle
<1>6. ASSUME NEW verdict \in Verdicts, Accept(c, j, verdict) PROVE PinnedInv'
  BY <1>1, <1>6, AcceptType, PinnedIdle DEF Accept, State, files
<1>7. ASSUME NEW r \in Rounds, NEW verdict \in Verdicts, AcceptPast(c, j, r, verdict)
      PROVE  PinnedInv'
  BY <1>1, <1>7, AcceptPastType, PinnedIdle DEF AcceptPast, State, files
<1>8. ASSUME NEW left \in 1..HostWindow, RecordSettled(c, j, left) PROVE PinnedInv'
  BY <1>1, <1>8, RecordSettledType, PinnedIdle DEF RecordSettled, State, files
<1>9. CASE RecordUnsettled(c, j)
  BY <1>1, <1>9, RecordUnsettledType, PinnedIdle DEF RecordUnsettled, State, files
<1>10. ASSUME NEW outcome \in {"completed", "failed", "cancelled"}, Close(c, j, outcome)
       PROVE  PinnedInv'
  <2>1. ~Unresolved(job[j])
    BY <1>10 DEF Close, May, Guard, CloseAs, Closures
  <2> QED BY <1>1, <1>10, <2>1, CloseType, PinnedIdle DEF Close, State, files
<1> QED BY <1>2, <1>3, <1>4, <1>5, <1>6, <1>7, <1>8, <1>9, <1>10

(* The guard keeps new work away from a pending control.                   *)
LEMMA NewWorkPinned ==
    ASSUME PinnedInv, NEW c \in Controllers, NEW j \in Jobs,
           \/ \E session \in Sessions \cup {None}, launch \in Profiles \cup {None} :
                 Update(c, j, session, launch)
           \/ \E replied \in BOOLEAN : Begin(c, j, replied)
           \/ Activate(c, j)
    PROVE  PinnedInv'
<1>1. TypeOK /\ TypeOK' /\ Registered(j) /\ job[j] \in State /\ recorded' = recorded
  BY RegisteredState, UpdateType, BeginType, ActivateType
  DEF PinnedInv, Update, Begin, Activate, May, Holds, files
<1>2. ~Pending(job[j])
  BY DEF Update, Begin, Activate, May, Guard, NewWork, Pending
<1>3. ASSUME NEW t, Commit(j, t), t.controls = job[j].controls PROVE PinnedInv'
  <2>1. KeepsIdentity(job[j], t)
    BY <1>2, <1>3 DEF KeepsIdentity, Pending, Unresolved, CancelConfirmed, HasControl,
                      LatestControl
  <2> QED BY <1>1, <1>3, <2>1, PinnedCommitted
<1>4. CASE \E session \in Sessions \cup {None}, launch \in Profiles \cup {None} :
               Update(c, j, session, launch)
  BY <1>1, <1>3, <1>4 DEF Update, State
<1>5. CASE \E replied \in BOOLEAN : Begin(c, j, replied)
  BY <1>1, <1>3, <1>5 DEF Begin, State
<1>6. CASE Activate(c, j)
  BY <1>1, <1>3, <1>6 DEF Activate, NextRound, State
<1> QED BY <1>4, <1>5, <1>6

(* control-begin pins the identity the job has then.                       *)
LEMMA ControlBeginPinned ==
    ASSUME PinnedInv, NEW c \in Controllers, NEW j \in Jobs, NEW kind \in Kinds,
           NEW i \in inspections[j], ControlBegin(c, j, kind, i)
    PROVE  PinnedInv'
<1> DEFINE control == [kind |-> kind, status |-> "uncertain", identity |-> IdentityOf(j),
                       issue |-> i.issue, age |-> 0, proof |-> MaxAge + 1]
           t == [job[j] EXCEPT !.controls = Append(@, control)]
<1>1. /\ TypeOK /\ TypeOK' /\ Registered(j) /\ job[j] \in State /\ job[j].closed = "open"
      /\ Commit(j, t) /\ Target(j) # None /\ recorded' = recorded
  BY ControlBeginType, RegisteredState, OnlyReviews
  DEF PinnedInv, ControlBegin, TargetUnshared, May, Holds, ReviewOnly, files
<1>2. /\ t.round = job[j].round /\ t.session = job[j].session /\ t.launch = job[j].launch
      /\ t.attempts = job[j].attempts /\ t.closed = "open"
      /\ t.controls = Append(job[j].controls, control) /\ job[j].controls \in Seq(Control)
  BY <1>1 DEF State
<1>3. job'[j] = t /\ Registered(j)'
  <2>1. job'[j] \in State
    BY ControlBeginType DEF PinnedInv
  <2> HIDE DEF t
  <2> QED BY <1>1, <2>1, NoneAssumption DEF Commit, TypeOK, Registered
<1>4. control.identity = IdentityOf(j)
  OBVIOUS
<1> HIDE DEF t, control
<1>5. LatestControl(t) = control
  BY <1>2 DEF LatestControl, Last
<1>6. Target(j)' = Target(j) /\ IdentityOf(j)' = IdentityOf(j)
  BY <1>1, <1>2, <1>3 DEF Target, IdentityOf
<1>7. LatestControl(job[j])' = control
  BY <1>3, <1>5 DEF LatestControl
<1>8. Pinned(j)'
  BY <1>1, <1>2, <1>3, <1>4, <1>6, <1>7 DEF Pinned, Open
<1> QED BY <1>1, <1>8, PinnedCommitted

(* A receipt resolves a control and does not make one pending.             *)
LEMMA ControlReceiptPinned ==
    ASSUME PinnedInv, NEW c \in Controllers, NEW j \in Jobs,
           NEW status \in {"uncertain", "not_sent", "confirmed"}, NEW age \in 0..MaxAge + 1,
           ControlReceipt(c, j, status, age)
    PROVE  PinnedInv'
<1> DEFINE n == Len(job[j].controls)
           control == Resolved(LatestControl(job[j]), status, age)
           t == [job[j] EXCEPT !.controls[n] = control]
<1>1. /\ TypeOK /\ TypeOK' /\ Registered(j) /\ job[j] \in State /\ recorded' = recorded
      /\ Commit(j, t) /\ Resolvable(j, status, age) /\ HasControl(job[j])
  BY ControlReceiptType, RegisteredState
  DEF PinnedInv, ControlReceipt, May, Holds, files
<1>2. /\ t.round = job[j].round /\ t.session = job[j].session /\ t.launch = job[j].launch
      /\ t.attempts = job[j].attempts /\ t.closed = job[j].closed
      /\ t.controls = [job[j].controls EXCEPT ![n] = control]
      /\ job[j].controls \in Seq(Control) /\ n \in Nat
  BY <1>1 DEF State
<1>3. /\ n \in DOMAIN job[j].controls /\ LatestControl(job[j]) = job[j].controls[n]
      /\ job[j].controls[n] \in Control
  BY <1>1, <1>2 DEF HasControl, LatestControl, Last
<1>4. /\ control.identity = LatestControl(job[j]).identity
      /\ control.kind = LatestControl(job[j]).kind /\ control.status = status
      /\ \/ LatestControl(job[j]).status = "uncertain"
         \/ LatestControl(job[j]).status = "confirmed" /\ status = "confirmed"
  BY <1>1, <1>3 DEF Resolved, Control, Resolvable, Refreshes
<1>5. LatestControl(t) = control
  <2> HIDE DEF t, control
  <2> QED BY <1>2, <1>3 DEF LatestControl, Last
<1> HIDE DEF t, control
<1>6. KeepsIdentity(job[j], t)
  BY <1>1, <1>2, <1>4, <1>5 DEF KeepsIdentity, Pending, Unresolved, CancelConfirmed
<1> QED BY <1>1, <1>6, PinnedCommitted

(* resources.json is published once, so the target of a pinned round stays.*)
LEMMA RecordPinned ==
    ASSUME PinnedInv, NEW j \in Jobs, NEW r \in Rounds, NEW t \in Targets, Record(j, r, t)
    PROVE  PinnedInv'
<1>1. TypeOK /\ TypeOK' /\ job' = job
  BY SurroundingsType DEF PinnedInv, Surroundings, Record
<1>2. ASSUME NEW k \in Jobs, Registered(k)' PROVE Pinned(k)'
  <2>1. Registered(k) /\ Pinned(k)
    BY <1>1, <1>2 DEF PinnedInv, Registered
  <2>2. job[k] \in State
    BY <1>1, <2>1, RegisteredState
  <2>3. Target(k) # None => Target(k)' = Target(k)
    BY <1>1, <2>2 DEF Record, Target, TypeOK, State
  <2> QED BY <1>1, <2>1, <2>3
          DEF Pinned, Pending, Unresolved, CancelConfirmed, HasControl, LatestControl,
              IdentityOf, Open, Registered
<1> QED BY <1>1, <1>2 DEF PinnedInv

(* Every step keeps what is pinned.                                        *)
LEMMA PinnedNext == PinnedInv /\ [Next]_vars => PinnedInv'
<1> SUFFICES ASSUME PinnedInv, [Next]_vars PROVE PinnedInv'
  OBVIOUS
<1>0. TypeOK
  BY DEF PinnedInv
<1>1. ASSUME job' = job, recorded' = recorded, TypeOK' PROVE PinnedInv'
  BY <1>1 DEF PinnedInv, Pinned, Pending, Unresolved, CancelConfirmed, HasControl,
              LatestControl, IdentityOf, Target, Open, Registered
<1>2. CASE UNCHANGED vars
  <2>1. TypeOK' /\ job' = job /\ recorded' = recorded
    BY <1>0, <1>2 DEF vars, TypeOK
  <2> QED BY <1>1, <2>1
<1>3. ASSUME NEW c \in Controllers, NEW j \in Jobs, Mutate(c, j) PROVE PinnedInv'
  BY <1>3, QuietPinned, NewWorkPinned, ControlBeginPinned, ControlReceiptPinned DEF Mutate
<1>4. ASSUME NEW j \in Jobs, NEW issue \in 0..MaxIssues, Inspect(j, issue) PROVE PinnedInv'
  BY <1>0, <1>1, <1>4, InspectType DEF Inspect, files
<1>5. ASSUME NEW j \in Jobs, Surroundings(j) PROVE PinnedInv'
  BY <1>0, <1>1, <1>5, SurroundingsType, RecordPinned
  DEF Surroundings, Respond, Raise, Subside, Handle
<1>6. ASSUME NEW c \in Controllers, Send(c) \/ GiveUp(c) \/ Crash(c) PROVE PinnedInv'
  BY <1>0, <1>1, <1>6, SendersType DEF Send, GiveUp, Crash, files
<1>7. ASSUME NEW j \in Jobs, Register(j) PROVE PinnedInv'
  <2>1. TypeOK' /\ recorded' = recorded /\ job'[j].controls = <<>>
        /\ \A k \in Jobs \ {j} : job'[k] = job[k]
    BY <1>0, <1>7, RegisterType DEF Register, Commit, TypeOK, files
  <2>2. Pinned(j)'
    BY <2>1 DEF Pinned, Pending, Unresolved, CancelConfirmed, HasControl
  <2>3. \A k \in Jobs \ {j} : Registered(k)' => Registered(k) /\ KeepsIdentity(job[k], job'[k])
    BY <2>1 DEF Registered, KeepsIdentity
  <2> QED BY <2>1, <2>2, <2>3, PinnedKept
<1>8. CASE Tick
  <2>1. TypeOK' /\ recorded' = recorded
    BY <1>0, <1>8, TickType DEF Tick, files
  <2>2. ASSUME NEW k \in Jobs, Registered(k)'
        PROVE  Registered(k) /\ KeepsIdentity(job[k], job'[k])
    <3>1. Registered(k) /\ job'[k] = Aged(job[k])
      BY <1>8, <2>2 DEF Tick, Registered
    <3>2. job[k] \in State
      BY <1>0, <3>1, RegisteredState
    <3> QED BY <3>1, <3>2, AgedSame, SameHeadKeeps
  <2> QED BY <2>1, <2>2, PinnedKept
<1> QED BY <1>2, <1>3, <1>4, <1>5, <1>6, <1>7, <1>8 DEF Next

(* While a control is unresolved its job stays open and keeps the identity *)
(* the control was pinned to (controls.guard).                             *)
THEOREM IdentityIsHeld == Spec => []ControlledIdentityHeld
<1>1. Init => PinnedInv
  BY InitType DEF Init, PinnedInv, Registered
<1>2. PinnedInv => ControlledIdentityHeld
  BY DEF PinnedInv, Pinned, Pending, ControlledIdentityHeld
<1> QED BY <1>1, <1>2, PinnedNext, PTL DEF Spec

-----------------------------------------------------------------------------
(* What closure leaves of a head.                                          *)
Frozen(s, t) ==
    /\ Decided(t) = Decided(s)
    /\ s.acceptance # None => t.acceptance.of = s.acceptance.of

(* A revision that changes the lease, the reviews and times only.          *)
LEMMA ReviewsFreeze ==
    ASSUME NEW s, NEW t, t.round = s.round, t.resources = s.resources,
           t.submission = s.submission, t.attempts = s.attempts, t.session = s.session,
           t.launch = s.launch, t.past = s.past, t.closed = s.closed,
           t.host = None <=> s.host = None, DOMAIN t.controls = DOMAIN s.controls,
           \A n \in DOMAIN s.controls : t.controls[n].status = s.controls[n].status,
           s.acceptance # None => t.acceptance.of = s.acceptance.of
    PROVE  Frozen(s, t)
<1>1. [n \in DOMAIN t.controls |-> t.controls[n].status]
        = [n \in DOMAIN s.controls |-> s.controls[n].status]
  OBVIOUS
<1>2. (t.host # None) = (s.host # None)
  OBVIOUS
<1> QED BY <1>1, <1>2 DEF Frozen, Decided

(* After closure a mutation is a claim, a review, or of the lease.         *)
LEMMA MutateFreezes ==
    ASSUME TypeOK, NEW c \in Controllers, NEW j \in Jobs, Mutate(c, j), Registered(j), ~Open(j)
    PROVE  Frozen(job[j], job'[j]) /\ \A k \in Jobs \ {j} : job'[k] = job[k]
<1>1. job[j] \in State /\ job[j].closed # "open"
  BY RegisteredState DEF Open
<1>2. ASSUME NEW t, Commit(j, t),
             t.round = job[j].round, t.resources = job[j].resources,
             t.submission = job[j].submission, t.attempts = job[j].attempts,
             t.session = job[j].session, t.launch = job[j].launch, t.past = job[j].past,
             t.closed = job[j].closed, t.host = job[j].host, t.controls = job[j].controls,
             job[j].acceptance # None => t.acceptance.of = job[j].acceptance.of
      PROVE  Frozen(job[j], job'[j]) /\ \A k \in Jobs \ {j} : job'[k] = job[k]
  <2>1. Frozen(job[j], t)
    BY <1>2, ReviewsFreeze
  <2> QED BY <1>2, <2>1 DEF Commit, TypeOK
<1>3. ASSUME NEW t \in Tokens, NEW scope \in {"full", "acceptance"}, NEW left \in 1..MaxLease,
             NEW replied \in BOOLEAN, Claim(c, j, t, scope, left, replied)
      PROVE  Frozen(job[j], job'[j]) /\ \A k \in Jobs \ {j} : job'[k] = job[k]
  BY <1>1, <1>2, <1>3 DEF Claim, ClaimCommits, State
<1>4. ASSUME NEW left \in 1..MaxLease, Renew(c, j, left)
      PROVE  Frozen(job[j], job'[j]) /\ \A k \in Jobs \ {j} : job'[k] = job[k]
  BY <1>1, <1>2, <1>4 DEF Renew, State
<1>5. ASSUME Release(c, j)
      PROVE  Frozen(job[j], job'[j]) /\ \A k \in Jobs \ {j} : job'[k] = job[k]
  BY <1>1, <1>2, <1>5 DEF Release, State
<1>6. ASSUME NEW verdict \in Verdicts, Accept(c, j, verdict)
      PROVE  Frozen(job[j], job'[j]) /\ \A k \in Jobs \ {j} : job'[k] = job[k]
  <2> DEFINE t == [job[j] EXCEPT !.acceptance = [verdict |-> verdict, of |-> Answer(j)]]
  <2>1. job[j].acceptance # None => job[j].acceptance.of = Answer(j)
    BY <1>1, <1>6 DEF Accept, Reviewable
  <2>2. /\ t.round = job[j].round /\ t.resources = job[j].resources
        /\ t.submission = job[j].submission /\ t.attempts = job[j].attempts
        /\ t.session = job[j].session /\ t.launch = job[j].launch /\ t.past = job[j].past
        /\ t.closed = job[j].closed /\ t.host = job[j].host
        /\ t.controls = job[j].controls /\ t.acceptance.of = Answer(j)
    BY <1>1 DEF State
  <2>3. Commit(j, t)
    BY <1>6 DEF Accept
  <2> HIDE DEF t
  <2> QED BY <1>2, <2>1, <2>2, <2>3
<1>7. ASSUME NEW r \in Rounds, NEW verdict \in Verdicts, AcceptPast(c, j, r, verdict)
      PROVE  Frozen(job[j], job'[j]) /\ \A k \in Jobs \ {j} : job'[k] = job[k]
  BY <1>1, <1>2, <1>7 DEF AcceptPast, State
<1>8. ASSUME NEW action, May(c, j, action), action \notin ReviewOnly PROVE FALSE
  BY <1>1, <1>8, OnlyReviews
<1>9. ~\E session \in Sessions \cup {None}, launch \in Profiles \cup {None} :
            Update(c, j, session, launch)
  BY <1>8 DEF ReviewOnly, Update
<1>10. ~\E replied \in BOOLEAN : Begin(c, j, replied)
  BY <1>8 DEF ReviewOnly, Begin
<1>11. ~\E status \in Statuses : \E kind \in Outcomes[status] : Receipt(c, j, status, kind)
  BY <1>8 DEF ReviewOnly, Receipt
<1>12. ~Activate(c, j)
  BY <1>8 DEF ReviewOnly, Activate
<1>13. ~\E kind \in Kinds : \E i \in inspections[j] : ControlBegin(c, j, kind, i)
  BY <1>8 DEF ReviewOnly, ControlBegin
<1>14. ~\E status \in {"uncertain", "not_sent", "confirmed"}, age \in 0..MaxAge + 1 :
             ControlReceipt(c, j, status, age)
  BY <1>8 DEF ReviewOnly, ControlReceipt
<1>15. ~RecordUnsettled(c, j) /\ ~\E left \in 1..HostWindow : RecordSettled(c, j, left)
  BY <1>8 DEF ReviewOnly, RecordSettled, RecordUnsettled
<1>16. ~\E outcome \in {"completed", "failed", "cancelled"} : Close(c, j, outcome)
  <2>1. \A outcome \in {"completed", "failed", "cancelled"} : CloseAs[outcome] \notin ReviewOnly
    <3>1. /\ CloseAs["completed"] = "close completed" /\ CloseAs["failed"] = "close failed"
          /\ CloseAs["cancelled"] = "close cancelled"
      BY DEF CloseAs
    <3> QED BY <3>1 DEF ReviewOnly
  <2> QED BY <1>8, <2>1 DEF Close
<1> QED
  BY <1>3, <1>4, <1>5, <1>6, <1>7, <1>9, <1>10, <1>11, <1>12, <1>13, <1>14, <1>15, <1>16
  DEF Mutate

(* Every step leaves the closed jobs frozen.                               *)
LEMMA FreezeStep ==
    ASSUME TypeOK, Next, NEW j \in Jobs, Registered(j), ~Open(j)
    PROVE  Frozen(job[j], job'[j])
<1>1. ASSUME job'[j] = job[j] PROVE Frozen(job[j], job'[j])
  BY <1>1 DEF Frozen
<1>2. ASSUME NEW c \in Controllers, NEW k \in Jobs, Mutate(c, k)
      PROVE  Frozen(job[j], job'[j])
  <2>1. CASE k = j
    BY <1>2, <2>1, MutateFreezes
  <2>2. CASE k # j
    <3>1. job'[j] = job[j]
      BY <1>2, <2>2
      DEF TypeOK, Mutate, Commit, Claim, ClaimCommits, Renew, Release, Update, Begin, Receipt,
          Activate, ControlBegin, ControlReceipt, Accept, AcceptPast, RecordSettled,
          RecordUnsettled, Close
    <3> QED BY <1>1, <3>1
  <2> QED BY <2>1, <2>2
<1>3. ASSUME NEW k \in Jobs, Register(k) PROVE Frozen(job[j], job'[j])
  BY <1>1, <1>3 DEF Register, Commit, TypeOK, Registered
<1>4. CASE Tick
  <2>1. job'[j] = Aged(job[j]) /\ job[j] \in State
    BY <1>4, RegisteredState DEF Tick, Registered
  <2>2. /\ SameHead(job[j], Aged(job[j])) /\ Aged(job[j]) \in State
        /\ Aged(job[j]).submission = job[j].submission
        /\ Aged(job[j]).attempts = job[j].attempts
    BY <2>1, AgedSame DEF Aged, State
  <2>3. DOMAIN Aged(job[j]).controls = DOMAIN job[j].controls
    BY <2>1, <2>2 DEF SameHead, SameControls, State
  <2> QED BY <2>1, <2>2, <2>3, ReviewsFreeze DEF SameHead, SameHost, SameControls
<1> QED
  BY <1>1, <1>2, <1>3, <1>4
  DEF Next, Inspect, Surroundings, Record, Respond, Raise, Subside, Handle, Send, GiveUp, Crash

(* After closure only ownership and reviews change, and a review is of the *)
(* bytes that were decided on (expected, change, claim, record_acceptance).*)
THEOREM ClosureFreezes == Spec => ClosedFrozen
<1>1. TypeOK /\ [Next]_vars =>
          [\A j \in Jobs : Registered(j) /\ ~Open(j) => Frozen(job[j], job'[j])]_vars
  BY FreezeStep
<1> QED BY <1>1, TypeCorrect, PTL DEF Spec, ClosedFrozen, Frozen
===============================================================================
