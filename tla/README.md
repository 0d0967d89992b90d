# kumi: a TLA+ model of the agent orchestrator

kumi coordinates coding agents that run in terminals. A *controller* (a person
or an agent with the orchestrator skill) starts agents, sends them one request
per round, watches their terminals, answers or stops them, reviews what they
publish and closes the job. Nothing in kumi runs as a server: every command of
`src/skills/agent-orchestrator/scripts/` is a short process that works on
private files, and everything several controllers know of each other is in
those files. What can go wrong is therefore in the order in which processes
read, commit, send, crash and come back, and that is what is modelled here.

Paths below are relative to `src/skills/agent-orchestrator/scripts/`.

## 1. Inventory

| Part | State | Operations | Interacts with |
|---|---|---|---|
| submission index, `jobs.py` | one chain of immutable revisions per job: lease, round, resources, submission status, attempts, native identity, launch, monitor, deadline, controls, completion, closure | register, claim, renew, release, update, begin, receipt, activate, close, recover | the round's files, controls, completion, round history |
| index storage, `jobs.py` | `INDEX/.lock`, `INDEX/<job>/<revision>.json`, `job-index.json` beside the request | locked, load, save | every mutation |
| controls, `controls.py` | latest control in the head, the older ones in older revisions; published inspections | inspect, begin, receipt, guard, cancellation, review | the observer's events and state, event reviews, the terminal |
| completion, `completion.py` | acceptance and host observation in the head, annotations of old rounds | record acceptance, record host, summarize | the response file, round history |
| round history, `round_history.py` | the transition in the revision that activated a round | select, transition | the revision files |
| round protocol, `protocol.py` | request, resources, response and digest files, each published once | prepare, follow up, record, publish, validate | everything |
| observer, `watch.py` | `watch.json`, `state.json`, `events/`, `evidence/`, `observer.json`, `.lock`; `publication.json` per round | init, sweep, poll, run, events, wait | terminals, response files, reviews, controls |
| event reviews, `reviews.py` | a chain of receipts per event | record review, review status, pending | events, controls |
| runs, `runs.py` | a directory with `run.json`, the index, the rounds and watches, and one member file per round and watch | create, track and attach requests, attach watches, check the index, recover | index, rounds, watches, reviews |
| supervision, `supervision.py`, `supervision_audit.py` | none of its own | check (what it grants is a time until which to work) | recover of a run, observer, index |
| recovery delta, `recovery_delta.py` | `cursor.json`, `contents.json` | recover since a cursor | runs |
| usage ledger, `usage.py`, `usage_corrections.py` | records per job, chains of corrections | record, correct, report | metering sources |
| delivery capture, `delivery.py` | a snapshot: manifest, digest and a copy of a tree; attempts with logs and result | capture, verify, inspect, compare | the working tree, the commands of a plan |
| session registry, `registry.py`, `sessions.py` | session records with parents | put, show, list | runs |
| output wait, `wait_output.py` | none (the caller keeps the cursor) | wait for a pattern in a log | terminal logs |
| metering, `metering.py`, `usage_sources.py`, `native_usage.py` | an immutable plan | checkpoint: import calls, audit | usage ledger, logs of other programs, runs |
| readers (`native_stores.py`, `hermes_*.py`, `capabilities.py`, `pages.py`), the Hermes plugin, `install.sh` | none | parse, list, copy | other programs |

What is hard, per part (each hazard is listed at its line in PROJECT.json):

* *submission index*: controllers that crash, lose replies or are paused past
  their lease; an input that may or may not have been sent; two jobs on one
  terminal; rounds, attempts and interventions that overlap. Correct means: an
  input is sent at most once, only the present owner mutates, a known outcome
  does not change, a closed job stays as it was decided.
* *index storage*: reads without the lock, crashes between two file operations,
  one job registered in two indexes. Correct means: one growing history per job.
* *controls*: the world changes between inspection, intent and receipt. Correct
  means: an intent stays resolvable, a dialog is answered once, a stop proves
  only what it stopped.
* *completion*: files are replaced after they were reviewed, observations
  expire. Correct means: one set of bytes was reviewed, observed and completed.
* *observer and reviews*: a crash between evidence, event and state; several
  watches of one round; a waiter that races with the observer's end; reminders
  that are coalesced. Correct means: no change is lost, a reader with a cursor
  misses nothing, nothing is taken as reviewed that nobody reviewed.
* *recovery delta*: two files, replies that are lost, several consumers of one
  cursor. Correct means: a consumer that follows its token knows the run.
* *usage ledger*: concurrent and repeated corrections. Correct means: what was
  accepted can be loaded again.
* *round history*: earlier rounds are found in revisions that later reviews and
  an older program also wrote. Correct means: each is found as its activation
  left it, with the review that was made since.
* *runs*: rounds and watches are made of several files by processes that fail
  or die, and are listed by a recovery that reads for a while. Correct means:
  what is there is listed, or the recovery says that it is not complete.
* *supervision*: a check of five reads of things that go on. Correct means:
  what it grants is true of all of them while the work lasts.
* *delivery*: trees and copies that change while they are read. Correct means:
  a snapshot was the tree at one moment, and what passes was run in it.
* *output wait*: lines cut by reads and by time-outs, a log that is replaced.
  Correct means: every matching line is returned once.
* *metering*: a log and a ledger that both change between the reads of a
  checkpoint. Correct means: totals called complete are those of the log.

## 2. Modules

`JobState` declares the state; `Controls`, `Completion` and `JobIndex` extend it
in that order and hold the operations. A mutation of the index is one atomic
step there: it runs under the index lock on the head and commits one revision
or nothing. `IndexStore` is the reason why that is sound: it models the same
mutations as the file operations they consist of, with the lock, the lock-free
reads and crashes between any two of them, and shows that they implement
`JobLog`, whose steps are atomic.

`Signals` is the pure part of the observer (what an observation changes in the
record of a target, and which events it asks for); `Watch` is the process around
it. The other nine modules (`Reviews` to `Metering` in the table) are each a
component with its callers, by itself. They share no file and no lock with each
other, or only files that the one finds as the other left them: a run lists
rounds whatever is in them, a checkpoint meets other writers of the ledger as
changes by hand. `MCRecords` is therefore their sum, not their product: in each
of its behaviours one of them moves, and steps of two of them are not
interleaved.

| Module | Models | Correspondence |
|---|---|---|
| `JobState` | the head revision and the files beside it | `job[j]` is the latest revision (None before register); `recorded`, `result`: `resources.json` and the response of each round; `attention`, `handled`: what `controls.event_context` reads of the watch and its reviews; `inspections`: published inspections that are not stale; `token`, `duty`: what a controller process knows; `delivered`: inputs that reached a target |
| `Controls` | `controls.py`, the guard of `jobs.change` | `Inspect`, `ControlBegin`, `ControlReceipt`, `Guard`, `May`, `Cancellable` |
| `Completion` | `completion.py`, parts of `round_history.py` | `Accept`, `AcceptPast`, `RecordSettled`, `RecordUnsettled`, `ReadyToComplete` |
| `JobIndex` | `jobs.py`, and the world around it | `Register`, `Claim`, `Renew`, `Release`, `Update`, `Begin`, `Receipt`, `Activate`, `Close`; `Record`, `Respond`, `Raise`, `Subside`, `Handle` are the other programs; `Send`, `GiveUp`, `Crash` the controllers; `Tick` the clock |
| `SubmissionPromise` | abstract | what a user of the index may rely on for the input of a round |
| `IndexStore` | `locked`, `load`, `save`, `register`, the scan of `begin` | one action per file operation; `seen` is the revision the caller read without the lock |
| `JobLog` | abstract | per index one growing history of every job, each job in one index, targets not shared |
| `Signals` | `signals`, `track_publication`'s change test and the record of a target in `watch.py` | `Observed(snapshot, record, late, fresh)` is `signals`: the new record and the kinds of events; `Later` ages a record |
| `Watch` | `sweep`, `collect`, `run_observer`, `read_events`, `wait_events`, `locked` of `watch.py` | `ReadFile` and `Collect` are a read in its thread, `Process`, `PublishEvidence`, `PublishEvent`, `SaveState` the sweep; `PinnedElsewhere` is another watch; `Wait` to `Advance` a consumer |
| `Reviews` | `reviews.py` | `ListEvents`, `ReadReceipts`, `Decide`: `pending_items` without a lock, and the caller's decision; `RecordReview`: `record_review` under the lock |
| `RecoveryDelta` | `recovery_delta.py` | `Recover` is everything up to the first write, `SaveContents` and `SaveCursor` are `save_cursor`, `Apply` and `Lose` what becomes of the reply |
| `UsageLedger` | `record_usage`, `usage_corrections.py` | `RecordUsage`, `Correct`, `Repeat` under the ledger's lock, `ReadHistory` without |
| `Delivery` | `delivery.py` | `ListFiles`, `Look`, `OpenFile`, `CloseFile` are `inventory` and `copy_tree`, file by file; `PublishSnapshot`, `SealSnapshot` and `PublishResult`, `SealResult` are `sealed`; `RunCommand` is `execute` with the comparison after it; `Passes` is what `inspect` reads back; `WriteFile` and `Touch...` are everybody else |
| `WaitOutput` | `wait_output.py` | `OpenLog`, `CheckPath`, `ReadChunk` are the loop; `TimeOut` and `Replaced` its other ends; `WriteByte`, `Rotate` the program that writes the log |
| `RoundHistory` | `round_history.py`, and of `completion.py` and `jobs.py` what adds revisions | `Select` is `select`, `Transferable` and the receipt in `ActivateNext` are `transition`; `legacy` is a job still mutated by the program that left no receipts |
| `Runs` | `runs.py`, `prepare` (initial rounds and `--previous`) of `protocol.py`, `init_watch` of `watch.py` | `BeginRound` to `EndRound` are a preparation file by file, `AttachRequest` and `AttachWatch` the attachments; `InventoryJobs`, `ReadMembers`, `ReadWatches`, `ListDirectories` are `recover` |
| `Supervision` | `supervision.py` | `BeginCheck` to `ReadLifetime` are `check`, one action per read; `working` is the block of work it granted; `UpdateJob`, `FollowUp`, `RecordResources`, `StartObserver`, `LookAtTarget`, `EndObserver`, `HandleItem` the others, `SecondPasses` the clock |
| `Metering` | `metering.py`, `usage_sources.py`, `import_data` of `native_usage.py`, `summarize_manifest` of `usage.py` | `Preflight`, `BeginImport`, `RecordCall`, `AuditLog`, `CheckLedger`, `Summarize` are `checkpoint`, one action per read or record; `StartTurn`, `LogCall` the host program, `EditLedger` corrections by hand |
| `MCJobIndex`, `MCIndexStore`, `MCWatch`, `MCRecords` | model values, symmetry, combined bounds | |
| `JobIndexProofs`, `SubmissionProofs` | theorems about `JobIndex` | section 5 |
| `IndexStoreProofs` | theorems about `IndexStore` | section 5 |
| `WatchProofs` | theorems about `Watch` and `Signals` | section 5 |
| `RunProofs` | theorems about `RoundHistory`, `Metering`, `UsageLedger`, `Runs` and `Delivery` | one section each; they share names of no variable and no lemma but those of `Extrema` |
| `SupervisionProofs` | theorems about `Supervision`, `RecoveryDelta`, `Reviews` and `WaitOutput` | likewise |
| `RecordsProofs` | theorems about `MCRecords` | the theorems of its components, stated of the module that the run checks |
| `Extrema` | lemmas | the least and the greatest of a set of numbers exist and are what `Min` and `Max` choose |

Abstractions that hold throughout. Time is relative: an expiry is the time left,
an observation time its age, so that the clock may run for ever in finitely many
states. A response, session, launch record or target is a value that can only
be compared; equal values are equal hashes. A refused call is a step not taken.
The evidence files a controller must cite can only refuse and are left out; what
they claim of the terminal is taken to be true in one place, `EvidenceTrue`:
`target_active` needs the input to have arrived, `not_sent` needs it not to have
arrived and nobody left who may still send it. That is the assumption the
skill's documents put on the controller ("confirm the old controller has stopped
sending"), and at-most-once input is only claimed under it.

Of the observer: a sweep is shorter than a tick of the clock; a screen is its
agent state, the dialog recognized on it (or none) and its text, so that how a
dialog is recognized in the text is left out; `observer.json`, which supervision
alone reads, is left out; reads fail in two ways, of the file and of the
terminal. An uuid is the least number not in use. In `RecoveryDelta` a token is
replaced by what is asked of it, whether it is still the cursor's; the rows and
files of a run are chosen anew by every recovery, which covers every way in
which they may have changed. In `UsageLedger` a revision hash is the number of
the correction it is the hash of.

A tree is one directory of files, and a file's stat the number of the last write
to it: `Delivery` relies on `st_mtime_ns` and `st_ctime_ns` telling writes
apart, as the code does. A log has two kinds of bytes, one that completes a
pattern and one that ends a line, and what was written stays (the precondition
in `wait_output`'s docstring). In `Runs` a file is there or not, for it is
published once and compared with what it is made from; attach-request is of
rounds whose preparer is gone, as its help text says; a watch may be put
anywhere, also among those of a run it does not belong to. In `Supervision` the
job has one watch of its round, its target is recorded or not (whether its head
has a copy too, which a next round must keep, is left out: a job whose head has
none goes through the same states), and a failed read and an agent that is dead
or unknown are one flag. In `Metering` a recorded call is in its owner's round
with the log's counters, or differs in the round, or in the counters; a turn
that the plan does not bind has no owner, so that its calls are in nobody's
wrong round. A dry run is the one audit it makes: its trial imports record
nothing and can only withhold totals. The readers of other programs' logs
understand them or fail.

## 3. Runs

| Run | Question | Bounds, and what they let happen |
|---|---|---|
| `submission` | Is an input sent at most once, can only the owner mutate, is the index right about what was sent? | one job, 2 rounds, 3 attempts, 2 controllers, 3 tokens: takeover after expiry, rejected and repeated attempts in either round, crash before and after sending, a lost reply of begin and claim |
| `targets` | Do two jobs ever use one terminal? | 2 jobs, 1 target, 2 rounds: registration before and after allocation, follow-up, closure |
| `stops` | Is an intervention never stuck, a cancelled job really stopped, a dialog acted on once? | 2 controls, 2 rounds, and (constraint `OneConcern`) one of: a launch, an attempt, 2 attention incidents |
| `completion` | Are review, host observation and closure of one response, and does a job always find an owner again? | 2 bodies, 1 session, 2 rounds, host window of a tick, two tokens; fair clock and claims |
| `recorded_target` | Does begin reject a recorded target, as `references/submission.md` says? | 2 jobs, 1 target; violated |
| `store` | Are the file operations a history per job, in one index, and is a target reserved once? (Its type invariant is a part of `StoreInv`, which is proved; the refinement says of every file what it contains.) | 2 processes, 2 jobs, 2 indexes, 3 revisions, 1 crash |
| `store_retry` | Can a crashed registration be repeated, as `jobs.py` says? | 1 process, 1 crash; violated |
| `watch_ui` | Is what the observer noticed published, and is the current incident one occurrence? | one terminal with 2 agent states, a dialog and 2 texts, 2 changes of it or of its readability, a deadline, 1 crash |
| `watch_readers` | Does a consumer skip an event, or think the observer's last ones do not exist? | 2 targets read in any order, 1 consumer with pages of one event, 1 change, 1 crash, any number of stops and starts |
| `watch_live` | Are results those of the first publication, and are a lasting difference and a lasting dialog reported? | 1 target, 3 contents of the response, 1 dialog, 2 changes, both kinds of failing reads, 1 crash; fair observer |
| `watch_unknown` | Does an unknown screen surface in bounded time, as `references/supervision.md` says? | 1 target, 2 texts, a dialog, 1 change; violated |
| `records` | Does each of nine components keep its promise: nothing leaves the review queue unseen and a decision is recorded once; a consumer of deltas is up to date and in turn; the ledger can be loaded; a snapshot is one instant and what passes was run in it; a matching line is returned once; an earlier round is found; a recovery is complete; work is covered; totals are the log's? | see below. A behaviour is of one component |

The bounds of `records`:

| Component | Bounds, and what they let happen |
|---|---|
| reviews | 2 reviewers, 4 events and receipts, reminders of 2 issues: both append to one chain, and a reminder arrives between listing and decision |
| delta | 2 consumers, 2 rows, pages of one, 2 filters, any number of crashes and lost replies |
| ledger | 2 clerks, 2 calls, 2 attributions, 2 corrections |
| delivery | 2 files, 2 contents, 2 writes during a capture, 2 commands, 1 change of a copy: a file is changed and restored within a scan or between the scans, a file appears or vanishes while it is copied |
| wait | 2 logs of one name, 5 bytes, reads of 2: lines are cut anywhere, two matches in one read, a rotation between any two steps |
| history | 2 successes and the error, 5 revisions: two activations, each by either program, with reviews of the active and the earlier round between and after |
| runs | 1 run and a place outside, 2 rounds, 1 watch: a follow-up is prepared, tracked and activated while a recovery runs, with a roll-back or a death after every file |
| supervision | work of 2, successes stale at 2, renewal at 1, leases of 2: the target is recorded before, after or without a launch, an observer ends, is replaced or runs out within the check and within the work |
| metering | 2 checkpoints, 2 turns of which the plan binds one, 2 calls of a turn, 1 change by hand: both import the same calls, one dies, a turn nobody owns appears |

Why the bounds are enough. The properties relate at most two controllers, two
attempts of a round, two jobs or two controls, and a fault (crash, lost reply,
takeover) at one point between them; a third of each adds no new relation. The
exception is the submission run, which has three attempts so that an attempt of
the second round follows two of the first. Token values are reused once nobody
knows them, so three are enough for two controllers. `MaxLease`, `MaxAge` and
`HostWindow` of one or two ticks let a thing be fresh, old and expired.
`OneConcern` keeps three questions apart that share only the guard: a control of
a launch, of a prompt and of an incident; the guard itself is met in each.
`MaxChanges` of a watch counts changes of the world: two let a dialog, a screen
or a response come and go, or a blind interval begin and end beside it, with
crashes at every point of every sweep between. `watch_readers` needs one change
only, for the events of one sweep already fill several pages. Two rows and pages
of one are the least with a queue, and two reminders with a third event beside
them the least with a group. A second run adds nothing to `Runs`, whose places
are compared only with the round's own; a third round would only repeat the
follow-up. A checkpoint makes one pass over the ledger, so that one change by hand
at any point of it is every way in which a pass can be wrong. The theorems of section 5 remove the bounds
altogether for the properties they state.

Fairness is stated in the two `FairSpec`s. In `JobIndex` the clock runs (weak
fairness of `Tick`), and someone who wants an open job keeps claiming it and not
every claim's reply is lost (strong fairness of a claim with reply: claims are
enabled only while no lease is live, so weak fairness would not do). In `Watch`
the clock runs, and a controller renews the observer, whose process takes its
steps. Nothing is assumed of consumers, reviewers, agents or terminals: kumi
has no scheduler, and a controller that does nothing is legal. Liveness is
claimed of nothing else.

## 4. What disagrees with the documents

* `store_retry`: a registration that crashes between creating the job directory
  (`jobs.py:145`) and publishing revision 1 (`jobs.py:146`) cannot be repeated:
  `jobs.py:177` refuses an empty directory, although `jobs.py:163-164` promises
  the repetition and `jobs.py:122` recommends it. Until somebody removes the
  directory, every `begin` and `control-begin` in the index fails on it too.
* `recorded_target`: `begin` compares its target with the `resources` field of
  the other jobs' heads (`jobs.py:266`), which is null for a job registered
  before its terminal was recorded and not begun yet. The documentation
  (`references/submission.md:164-165`) says a recorded target is rejected. The
  weaker `TargetExclusive` (no two open jobs that both submitted share a target)
  holds.
* `watch_unknown`: when a dialog vanishes and the agent's state stays, `signals`
  restarts the reminder and takes the screen it sees then as surfaced
  (`watch.py:325-327`), although no event shows it. If the screen stays, it never
  surfaces; `references/supervision.md:202-203` gives a bound on the delay.

Two more behaviours of the observer are worth knowing and contradict no sentence
of the documents, so that no run claims them. A waiter tries the observer's lock
(`watch.py:418`); an observer that is started in that moment fails with "already
running" (`watch.py:67`) and must be started again. And a crash between the
event of a blind read (`watch.py:387`) and the state that records it
(`watch.py:391`) loses the blind interval: after a restart with a dialog in
sight again the old incident goes on, although `references/supervision.md:231-232`
lets a recovered read create a new one. `IncidentUnbroken` is therefore stated
of behaviours in which the observer did not crash.

Two limits of the new components belong here too. If somebody attaches a round
while its preparation still runs and the preparation then fails, its directory
is removed (`protocol.py:321`) and a member file points at nothing, which the
comment at `protocol.py:325-326` wants to avoid; the next recovery reports it as
an error. `Runs` follows the help text of attach-request, which is for rounds
whose preparer is gone. And a change of the ledger by hand between the audit's
comparison (`usage_sources.py:272`) and its summary (`usage_sources.py:299`) may
escape a checkpoint; `references/metering.md:119-120` says that an audit is "not a
global atomic snapshot", and `TotalsAreOfTheLog` is stated without such a change.

## 5. Proofs

`JobIndexProofs` proves `TypeCorrect` (Spec => []TypeOK), with one lemma per
action: among the rest that no lease ever reaches further than `MaxLease` from now,
however often it is renewed. Then it proves all that the runs check of the index
but submission:

- `OwnersAreFenced` ([]OneUsableToken): no two controllers know the same token of
  a job (`TokensDiffer`), because a claim's is fresh and a crash forgets them.
- `TargetsAreExclusive` ([]TargetExclusive): `TargetInv` adds that a job that
  tried to submit has a target, so that activate, which compares only a target
  that is there, keeps it.
- `PastIsReviewed`, `IncidentsActedOnOnce`, `CompletionIsCoherent` and
  `CancellationWasStop` each speak of one head at a time; `HeadsInv` is their
  conjunction. `SameHeadHolds` treats what changes only times and outcomes of
  attempts, `OpenHeadHolds` what only an open job does, and one lemma per action
  the rest.
- `IdentityIsHeld` ([]ControlledIdentityHeld): `PinnedInv` adds that the target
  of a pending control's round is recorded, since a target is published once.
- `ClosureFreezes` (ClosedFrozen, of every step): what a closed job's May admits
  is a claim, a review, or of the lease.

`SubmissionProofs` proves `SubmissionInvariant` (Spec =>
[]SubmissionInv) and from it `InputAtMostOnce` (Spec => []AtMostOneInput). The
assumptions are `BoundsAssumption` (bounds are numbers) and `NoneAssumption`
(null is no other value); nothing is assumed of the number of controllers, jobs,
rounds, attempts or tokens.

`AtMostOneInput` is not inductive: it says nothing of an input that is still to
be sent, nor of what begin looks at. `SubmissionInv` adds (a) that the head's
submission status is that of the last attempt of the active round, and that all
earlier attempts of a round are rejected before a later one is begun
(`SubmissionAgrees`), (b) that attempts are ordered by round (`RoundsOrdered`),
and (c) that every input that arrived or that a controller may still send
belongs to an attempt that is not rejected (`Backed`). Begin needs (a) and (b)
to conclude that every earlier attempt of the round is rejected, and then (c)
that none of their inputs arrived. Most actions do not touch attempts, rounds or
statuses: `QuietStep` treats them all at once.

`IndexKeepsPromise` (Spec => KeepsPromise) proves the refinement itself. What the
promise knows of a round is decided by the attempts alone (`KnownFromAttempts`),
and by the one that is not rejected if there is one (`OneDecides`); with
`SubmissionInv` begin is then a `Try`, a receipt a `Learn` or a stutter, sending an
`Arrive`, and everything else a stutter, activate included. `AttemptsBounded`
keeps the attempts inside the promise's.

`IndexStoreProofs` proves `StoreCorrect` (Spec => []StoreInv) and from it
`OneAuthority` ([]SingleAuthority), `CommitsAreInformed` (NoBlindCommit, of every
step) and `StorePromised` (Spec => ImplementsLog), the refinement of `JobLog`,
from `StoreAssumption` (bounds are numbers, and `None` is no target, index or
process). `SingleAuthority` and the
refinement say nothing of an operation on its way. `StoreInv` adds, of every
process by itself (`Sound`), what its operation has established by each step:
that it has the lock of the index from the first file it writes to the last
(`Holding`), that what it read is a prefix of what is there (`SeenIsThere`),
that a registration has the binding (`Registering`), that a change is made from
the head (`Changing`) and that what begin has scanned is free of its target
(`Cleared`). What a process relies on is protected by the lock it has or only
ever grows, so that a step of another process leaves it alone
(`OthersStaySound`). The last of the five is why a target is not shared although
begin reads the other jobs one after the other: all of them are read, and can be
written, under the same lock.

`WatchProofs` proves `WatchCorrect` (Spec => []WatchInv) and from it every safety
property that the runs check of the observer: `WatchTypes`, `NumbersAreFree`,
`OneResultIsReported`, `CursorsSkipNothing`, `StoppedMeansDrained`,
`SavedMeansReported`, `IncidentsAreReported` and `IncidentsAreUnbroken`, for any
targets, contents, dialogs, consumers and bounds. Assumed are `WatchAssumption`
(bounds are numbers, and the targets are finitely many, as in a `watch.json`) and
`NoneAssumption` (`None` is no state, output or receipt). None of the eight is
inductive: they speak of `state.json`, the events and the consumers, and what the
observer has in between, its memory and a queue of events to publish, decides
what the files will say next. `WatchInv` adds:

- `Numbered`: the numbers taken are finitely many, and an event whose evidence is
  written has its number, of which no event is published yet;

- `SnapshotsOK` and `RecordsOK`: what a read shows beside the receipt it was
  compared with, and what a record of a target says together;
- `AllAccounted`: what the saved record knows was told by an event, and what the
  record in memory knows was told or is in the queue. The record that `signals`
  returns and the events it asks for are accounted for together; this lemma
  about the pure function is what carries the sweep;
- `PinnedResults`: what a queued or published result shows is the receipt;
- `Incidents`: an issue of a target has at most one event; the incident that a
  record has open has such an event, which shows its dialog, or, for the record
  in memory, one in the queue, and then no event of that issue is out yet;
- `UnbrokenNow`: while nobody has crashed, no event after the one of the open
  incident shows a blind read, whether the record is the one in memory (during a
  sweep) or the saved one;
- `ConsumerOK`: a page and the cursor have all the events up to where the
  consumer looked, and, if it has tested the lock and is yet to look at the
  files, what a stopped observer left is still to come.

A crash forgets memory, queue and reads (`AtRestKept`), and what is left is what
`WatchInv` says of the files. Consumers touch no file of the observer
(`ConsumerStepKeeps`, `DirectoryKept`).

`RunProofs` proves, last, `SnapshotIsTrue` (DeliverySpec =>
[]SnapshotIsOneInstant) and `PassIsTrue` (DeliverySpec => []PassIsOfSnapshot),
from `DeliveryAssumption` (bounds are numbers) and `MissingAssumption` (null is
not a snapshot). Both properties speak only of what is published. `DeliveryInv` says
what each pass of a capture knows: in the first scan a file whose stat is still
the one that was kept is what was read (`Scanned`); from the end of that scan on
what was not written since is as it was then (`Kept`); and the second scan finds
out, file by file, that nothing was (`Rescanned`, `Taken`). For a verification it
says that a copy in which a command or anybody else wrote differs in a stat
(`Verified`). The argument rests on stats that only grow.

In `RunProofs`, `EarlierRoundsAreFound` (HistorySpec => []HistoryFound) is
proved from `HistoryInv`, which adds that the rounds of the revisions only go
up, one activation at a time (`RoundsGoUp`), that the revision before an
activation is the last one of its round and the activation's receipt names both
(`Departed`), and that a review made later is of the bytes the receipt pinned,
or of those of the review before (`LaterFits`). The lemma `SelectFinds` is the
replay itself: what it returns for any round and any revision.

Also in `RunProofs`, `TotalsAreRight` (MeteringSpec => []TotalsAreOfTheLog) is
proved from `MeteringInv`, which adds what a checkpoint has established on its
way to a claim (`Established`), and that a call is of a turn of its log
(`OfItsTurns`), so that in a log without unowned turns every call has an owner;
another checkpoint can only record what the log
says and undoes none of it, a change by hand is what `disturbed` excuses.

`LedgersAreReadable` (LedgerSpec => []LedgerReadable), there too, rests on the
lemma that the revision of a call is the last correction of it (`RevisionIsLast`)
and stays so when the chain grows (`SameChain`). `LedgerReadable` is all but
inductive; `LedgerInv` adds that the calls of a manifest that a clerk keeps, to
send it again, were recorded.

`RecoveriesMissNothing` (RunSpec => []RecoveryComplete) follows from two facts that
every step has (`OnlyAdded`): a directory that is gone never comes back, and a
tracked round stays tracked. The second needs that a preparation which can
still be rolled back has not been tracked, because it writes its files in order
(`OrderOK`; `NextInOrder`). `RunInv` then says of a recovery on its way that what it
saw existed and that the round of its job, a member of the run (`IndexOK`), is
among the members it read after the index; read in the other order, it need not
be.

`SupervisionProofs` proves `GrantedWorkIsCovered` (SupervisionSpec =>
[]WorkIsCovered). A second later there is less of every lease, so that
`SupervisionInv` says that everything lasts as long as the work (`Lasting`), and
what the reads of a check have established by each step (`ItemsSeen`,
`ClosedSeen`, `SuccessSeen`, `MonitorSeen`). The heart of it is `BudgetLeaves`: no
lease and no success ends before the budget does.

In `SupervisionProofs`, `DeliveredIsKnown` (DeltaSpec => []ViewIsDelivered) is
proved with no assumption on the constants. `ViewIsDelivered` says nothing of a
recovery that runs or of a reply on its way; `DeltaInv` adds (`WillHold`) that
the cursor a recovery will save, and the cursor whose token a reply carries, say
exactly what the reader's view will be once it applies the reply, and
(`CursorShape`) which fields a recovery has. `Recover` needs `ViewIsDelivered`
itself, for a recovery that goes on from the reader's token. The lock of the
cursor is not needed: the token alone keeps consumers apart.

`LastReplyIsAll` (DeltaSpec => CaughtUp) and `QueuedKeepTheirTurn` (DeltaSpec =>
TurnKept) are proved from `DeltaAssumption`: rows are numbered and finitely
many, a page has room for one. They do need the lock, and what the queue
contains. `QueueInv` says (`Promised`) that a running recovery's queue has no row
twice and keeps the turns of the cursor's queue as it is now, which nobody
replaces while the recovery has the lock; that one whose reply is the last will
have delivered all it found; and that a reader whose reply is still on its way
has not the cursor's token, so that the reply is what gives it one. Three lemmas
are about the queue as a sequence: `InOrderLists` (`InOrder` lists a finite set of
numbers, each once and in their order), `QueueKeepsTurn` (what waited and is
still a change comes first, in its order, and nothing is in the queue twice) and
`RestKeeps` (what is left after a page keeps its turn). `InOrder` is written as a
function on `1..Cardinality(S)` rather than with the sorting and selecting
operators of the libraries, which are recursive and which the provers cannot
expand.

`RecordsProofs` states the theorems about the nine components of the module that
the run checks, `MCRecords`, in which only one component moves (the lemma
`EachByItself`; it says nothing of two that move at once): `RecordsAreCorrect`
collects the invariants and action properties of the run, and `RecordsHaveTypes`
(Spec => []TypeOK) the types. The types of reviews, delta, ledger, deliveries,
output wait, history, runs and metering are parts of the invariants named here.
That of `Supervision` is not: `GrantedWorkIsCovered` needs only that times are
numbers. It is proved in `SupervisionProofs` from `TypeInv`, which adds
(`Elapsing`) that a job which has not changed since it was read has no more left
of its lease than it was leased for, less the time since; otherwise what the
check reckons back to its own time could be longer than any lease.

`DecisionsOnce` (ReviewSpec => []RecordedOnce) and `NothingLeavesUnseen`
(ReviewSpec => LeavesOnlyIfShown) are proved from `ReviewInv`: what was read of
an event is no newer than what it has (`ScanOK`), what was written is still
there (`WrittenOK`), and an item stands for every older reminder of its issue
that nobody has settled meanwhile (`ItemOK`). The lemma `OutstandingWait` says
what `pending_items` shows: every event that waits, itself or by one that stands
for it.

`MatchesAreReturned` (WaitSpec => []EveryMatchReturned) is proved for files and reads
of any size from `WaitAssumption`. `WaitInv` says where a running wait is: at the
start of a line of its file, with no match between the cursor it began at and
there, and with a buffer that follows it in the file (`Positioned`). Its heart is
`StretchMatches`: of a stretch of a log that begins with a line, the complete
lines and their matches are those of the log; a growing log is the case in
which the stretch begins with the log (`GrowthKeeps`).

`Extrema` proves that a non-empty set of numbers has a least and, below a bound, a
greatest member, from the well-foundedness of the order and without induction
over an operator; the shortest lease, the last revision, the next event and the
first match are such members.

Every invariant named above was checked by TLC on the instances of section 3
before it was proved.

Only model-checked: liveness, which is out of the proof system's reach
(`EventuallyOwned`, `DialogAnnounced`, `ChangeReported`). All other properties of
the runs that pass are theorems.

## 6. Not modelled, and the plan

Not modelled: wording, paging, validation of individual fields (they decide
between "valid" and "refused", and both occur), parsers of other programs'
files, the terminal itself, legacy records. The session registry
(`registry.py`, `sessions.py`) keeps immutable records that are only added,
under one lock, each after its parent: no order of steps decides anything in it.
`supervision_audit.py`, the Hermes readers, `capabilities.py` and `pages.py` are
reports of what one read finds; the Hermes plugin appends one record per call of
its host; the installer copies files.

Of the plan only liveness for every value of the constants is left, which the
proof system cannot prove; section 3 checks it on small instances.
