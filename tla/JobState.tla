------------------------------ MODULE JobState ------------------------------
(***************************************************************************)
(* The records of the submission index (scripts/jobs.py) and the files the *)
(* index reads, with the read-only operators every mutation is built from. *)
(* The operations are in Controls, Completion and JobIndex.                *)
(*                                                                         *)
(* A mutation runs under the index lock on the head revision of one job    *)
(* and commits one new revision, so here it is one atomic step on job[j];  *)
(* module IndexStore models the lock, the revision files and the crashes   *)
(* that justify it. A caller whose revision is stale, or whose evidence    *)
(* file cannot be read, is refused without an effect, that is, takes no    *)
(* step.                                                                   *)
(*                                                                         *)
(* Time is relative: an absolute expiry is kept as the time left until it, *)
(* an absolute observation time as its age. "expires_at > now" is left > 0 *)
(* and "0 <= now - observed_at <= MAX_AGE" is age <= MaxAge.               *)
(***************************************************************************)
EXTENDS Integers, FiniteSets, SequencesExt

CONSTANTS
    Controllers,    \* processes that mutate the index
    Jobs,           \* job identifiers
    Targets,        \* terminal targets: mode, tmux selector, session and pane
    Sessions,       \* native session identities
    Profiles,       \* launch records: argv and profile
    Bodies,         \* contents of a response
    Answers,        \* bound: which of the response statuses agents publish
    Tokens,         \* lease tokens
    None,           \* JSON null, a missing key or a missing file
    MaxLease,       \* longest lease, in clock ticks
    MaxAge,         \* age at which an inspection or stop proof is still fresh
    HostWindow,     \* longest validity of a host observation
    MaxRound,       \* bound: rounds per job
    MaxAttempts,    \* bound: submission attempts per job
    MaxControls,    \* bound: controls per job
    MaxIssues,      \* bound: attention incidents per job
    MaxInspections  \* bound: unexpired inspections per job

(* Lengths and bounds are numbers.                                         *)
ASSUME BoundsAssumption ==
    /\ Answers \subseteq {"success", "error", "blocked", "invalid"}
    /\ MaxLease \in Nat \ {0} /\ MaxAge \in Nat /\ HostWindow \in Nat \ {0}
    /\ MaxRound \in Nat \ {0} /\ MaxAttempts \in Nat /\ MaxControls \in Nat
    /\ MaxIssues \in Nat /\ MaxInspections \in Nat

VARIABLES
    job,          \* job[j]: the head revision of j, or None before register
    recorded,     \* recorded[j][r]: the target in round r's resources.json
    result,       \* result[j][r]: the response at round r's result_path
    attention,    \* attention[j]: the watch's current attention incident
    handled,      \* handled[j]: incidents whose event review is "handled"
    inspections,  \* inspections[j]: control inspections that are not stale
    token,        \* token[c][j]: the last lease token c was answered for j
    duty,         \* duty[c]: the attempt c was told to send and has not sent
    delivered     \* <<j, n>> once the input of j's attempt n reached a target

vars == <<job, recorded, result, attention, handled, inspections, token, duty,
          delivered>>
files == <<recorded, result, attention, handled>>
world == <<duty, delivered>>

Rounds == 1..MaxRound
Published == {"success", "error", "blocked"}
Response == [status : Answers, body : Bodies]
Statuses == {"uncertain", "accepted", "rejected"}
Kinds == {"deny", "interrupt", "cancel"}
Verdicts == {"accepted", "rejected"}

Lease == [token : Tokens, left : 0..MaxLease, scope : {"full", "acceptance"}]
Attempt == [round : Rounds, status : Statuses]
Identity == [round : Rounds, target : Targets \cup {None},
             session : Sessions \cup {None}, launch : Profiles \cup {None},
             attempt : Nat]
Control == [kind : Kinds, status : {"uncertain", "not_sent", "confirmed"},
            identity : Identity, issue : 0..MaxIssues,
            age : 0..MaxAge + 1, proof : 0..MaxAge + 1]
Review == [verdict : Verdicts, of : Response]
HostTarget == [resources : Targets \cup {None}, session : Sessions \cup {None},
               launch : Profiles \cup {None}]
Host == [of : Response, target : HostTarget, left : 0..HostWindow]
Transition == [of : Response, review : Verdicts \cup {"not_applicable", "invalid"}]

(* host is the latest settled observation; a missing one and an unsettled  *)
(* one are both None, for nothing tells them apart.                        *)
State == [lease : Lease \cup {None},
          round : Rounds,
          resources : Targets \cup {None},
          submission : Statuses \cup {"prepared"},
          attempts : Seq(Attempt),
          session : Sessions \cup {None},
          launch : Profiles \cup {None},
          controls : Seq(Control),
          acceptance : Review \cup {None},
          host : Host \cup {None},
          past : Seq(Transition),
          notes : [Rounds -> Review \cup {None}],
          closed : {"open", "completed", "failed", "cancelled"}]

(* Null is not a value of any other kind.                                  *)
ASSUME NoneAssumption ==
    /\ None \notin Targets \cup Sessions \cup Profiles \cup Tokens
    /\ None \notin State \cup Lease \cup Review \cup Host \cup Response
    /\ None \notin Jobs \X Nat

Inspection == [identity : Identity, issue : 0..MaxIssues, age : 0..MaxAge]
Incident == [issue : 0..MaxIssues, round : Rounds, live : BOOLEAN]

(* The state has its type. In particular no lease ever lasts longer than   *)
(* MaxLease from now, however often it is renewed: a crashed controller    *)
(* does not keep the others out for longer (claim, renew, duration).       *)
TypeOK ==
    /\ job \in [Jobs -> State \cup {None}]
    /\ recorded \in [Jobs -> [Rounds -> Targets \cup {None}]]
    /\ result \in [Jobs -> [Rounds -> Response \cup {None}]]
    /\ attention \in [Jobs -> Incident]
    /\ handled \in [Jobs -> SUBSET (1..MaxIssues)]
    /\ inspections \in [Jobs -> SUBSET Inspection]
    /\ token \in [Controllers -> [Jobs -> Tokens \cup {None}]]
    /\ duty \in [Controllers -> (Jobs \X (Nat \ {0})) \cup {None}]
    /\ delivered \subseteq Jobs \X (Nat \ {0})

-----------------------------------------------------------------------------
Registered(j) == job[j] # None
Open(j) == Registered(j) /\ job[j].closed = "open"

(* What the active round's files say now.                                  *)
Target(j) == recorded[j][job[j].round]
Answer(j) == result[j][job[j].round]
Valid(response) == response # None /\ response.status \in Published

(* The identity a control is pinned to: round, transport, native session,  *)
(* launch profile and the latest attempt.                                  *)
IdentityOf(j) ==
    [round |-> job[j].round, target |-> Target(j), session |-> job[j].session,
     launch |-> job[j].launch, attempt |-> Len(job[j].attempts)]

(* One committed revision replaces the head of one job.                    *)
Commit(j, state) == job' = [job EXCEPT ![j] = state]

(* The caller presents the token of a lease that has not expired.          *)
Holds(c, j) ==
    /\ Registered(j)
    /\ job[j].lease # None
    /\ job[j].lease.token = token[c][j]
    /\ job[j].lease.left > 0
=============================================================================
