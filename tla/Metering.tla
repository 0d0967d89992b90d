------------------------------- MODULE Metering -------------------------------
(***************************************************************************)
(* A checkpoint of a metering plan (scripts/metering.py, usage_sources.py, *)
(* import_data of native_usage.py, summarize_manifest of usage.py): the    *)
(* calls of one session's log are recorded in the ledger, one by one, and  *)
(* then the log and the ledger are read again, one after the other, to say *)
(* whether the totals are complete. The log grows meanwhile, other         *)
(* checkpoints record the same calls, and people record and correct calls  *)
(* by hand.                                                                *)
(*                                                                         *)
(* The log is parsed by the readers of its host, which either understand   *)
(* it or fail. Of a recorded call it matters whether it is in its owner's  *)
(* round and has the counters of the log ("right"), or not; a turn that    *)
(* the plan does not bind has no owner, so its calls are in no wrong       *)
(* round. The plan is immutable; the run's inventory and the lineage of    *)
(* sessions, which can only refuse a checkpoint or add an issue, are left  *)
(* out, as is what the report of a failed checkpoint says.                 *)
(***************************************************************************)
EXTENDS Integers, FiniteSets

CONSTANTS
    Meters,       \* processes that make checkpoints
    Turns,        \* native turns that the log may get
    Bound,        \* those that the plan binds to a round
    Selected,     \* those that the plan imports
    MaxCalls,     \* bound: calls of a turn
    MaxEdits      \* bound: changes of the ledger by hand

ASSUME MeteringAssumption ==
    /\ Selected \subseteq Bound /\ Bound \subseteq Turns
    /\ MaxCalls \in Nat /\ MaxEdits \in Nat

VARIABLES
    native,      \* the log: its turns and calls
    ledger,      \* ledger[c]: what is recorded of call c
    meter,       \* meter[p]: the checkpoint that p makes, or made last
    edits        \* how often the ledger was changed by hand

meteringVars == <<native, ledger, meter, edits>>

NativeCalls == Turns \X (1..MaxCalls)
Log == [turns : SUBSET Turns, calls : SUBSET NativeCalls]
Records == {"none", "right", "miscounted", "misfiled"}
Ledger == [NativeCalls -> Records]
Meter == [step : {"done", "preflight", "import", "record", "audit", "check", "summary"},
          read : Log, todo : SUBSET NativeCalls, errors : BOOLEAN, issues : BOOLEAN,
          claims : BOOLEAN, counted : Ledger, disturbed : BOOLEAN]

MeteringTypeOK ==
    /\ native \in Log /\ ledger \in Ledger
    /\ meter \in [Meters -> Meter] /\ edits \in 0..MaxEdits

NoLog == [turns |-> {}, calls |-> {}]
NoRecords == [c \in NativeCalls |-> "none"]
NewMeter == [step |-> "done", read |-> NoLog, todo |-> {}, errors |-> FALSE, issues |-> FALSE,
             claims |-> FALSE, counted |-> NoRecords, disturbed |-> FALSE]

MeteringInit ==
    /\ native = NoLog /\ ledger = NoRecords
    /\ meter = [p \in Meters |-> NewMeter] /\ edits = 0

-----------------------------------------------------------------------------
(* The host program writes its log: the last turn has all later calls.     *)
StartTurn(t) ==
    /\ t \notin native.turns
    /\ native' = [native EXCEPT !.turns = @ \cup {t}]
    /\ UNCHANGED <<ledger, meter, edits>>

LogCall(t, n) ==
    /\ t \in native.turns /\ <<t, n>> \notin native.calls
    /\ n = 1 \/ <<t, n - 1>> \in native.calls
    /\ native' = [native EXCEPT !.calls = @ \cup {<<t, n>>}]
    /\ UNCHANGED <<ledger, meter, edits>>

(* record_usage or a correction, by hand.                                  *)
EditLedger(c, record) ==
    /\ edits < MaxEdits /\ record \notin {"none", ledger[c]}
    /\ edits' = edits + 1
    /\ ledger' = [ledger EXCEPT ![c] = record]
    /\ meter' = [p \in Meters |->
           [meter[p] EXCEPT !.disturbed = @ \/ meter[p].step = "summary"]]
    /\ UNCHANGED native

Becomes(p, next) ==
    /\ meter' = [meter EXCEPT ![p] = next]
    /\ UNCHANGED <<native, edits>>

(* checkpoint of a registered plan; the last one is on file. A dry run has *)
(* one audit, the first, and records nothing; what the imports then find   *)
(* wrong can only withhold its totals.                                     *)
BeginCheckpoint(p, dry_run) ==
    /\ meter[p].step = "done"
    /\ Becomes(p, [NewMeter EXCEPT !.step = IF dry_run THEN "audit" ELSE "preflight"])
    /\ UNCHANGED ledger

(* A call of a turn with an owner is recorded in another's round.          *)
Misfiled(c) == c[1] \in Bound /\ ledger[c] = "misfiled"

(* The first audit: with an error, or a call in the wrong round, nothing   *)
(* is imported and that audit's totals are withheld. A log may be          *)
(* unreadable for a moment, and bound turns must be in it.                 *)
Preflight(p, readable) ==
    LET passes == /\ readable /\ Bound \subseteq native.turns
                  /\ \A c \in native.calls : ~Misfiled(c)
    IN  /\ meter[p].step = "preflight"
        /\ Becomes(p, IF passes THEN [meter[p] EXCEPT !.step = "import"]
                        ELSE NewMeter)
        /\ UNCHANGED ledger

(* import_data reads the log; every selected turn must have calls.         *)
BeginImport(p, readable) ==
    LET calls == {c \in native.calls : c[1] \in Selected}
        usable == readable /\ \A t \in Selected : \E c \in calls : c[1] = t
    IN  /\ meter[p].step = "import"
        /\ Becomes(p, IF usable THEN [meter[p] EXCEPT !.step = "record", !.todo = calls]
                        ELSE [meter[p] EXCEPT !.step = "audit", !.errors = TRUE])
        /\ UNCHANGED ledger

(* It records call after call. One that is there already is a duplicate if *)
(* it is the same, and otherwise the end of this import; what it recorded  *)
(* before stays.                                                           *)
RecordCall(p, c) ==
    /\ meter[p].step = "record" /\ c \in meter[p].todo
    /\ IF ledger[c] \in {"none", "right"}
         THEN /\ ledger' = [ledger EXCEPT ![c] = "right"]
              /\ Becomes(p, [meter[p] EXCEPT !.todo = @ \ {c}])
         ELSE /\ Becomes(p, [meter[p] EXCEPT !.step = "audit", !.todo = {}, !.errors = TRUE])
              /\ UNCHANGED ledger

EndImport(p) ==
    /\ meter[p].step = "record" /\ meter[p].todo = {}
    /\ Becomes(p, [meter[p] EXCEPT !.step = "audit"])
    /\ UNCHANGED ledger

(* The process dies; what is in the ledger stays.                          *)
Die(p) ==
    /\ meter[p].step # "done"
    /\ Becomes(p, NewMeter)
    /\ UNCHANGED ledger

(* audit_data reads the log: a turn that nobody owns, or that has no calls *)
(* yet, is an issue ...                                                    *)
AuditLog(p, readable) ==
    /\ meter[p].step = "audit"
    /\ Becomes(p,
           IF readable /\ Bound \subseteq native.turns
             THEN [meter[p] EXCEPT !.step = "check", !.read = native,
                      !.issues = \/ native.turns # Bound
                                 \/ \E t \in Bound : \A c \in native.calls : c[1] # t]
             ELSE NewMeter)
    /\ UNCHANGED ledger

(* A plausible bug: the counters are not compared with the log's.          *)
MisrecordedByRound(c) == Misfiled(c)

(* ... as is a call that is recorded otherwise than the log has it ...     *)
Misrecorded(c) == ledger[c] = "miscounted" \/ Misfiled(c)

CheckLedger(p) ==
    /\ meter[p].step = "check"
    /\ Becomes(p, [meter[p] EXCEPT !.step = "summary",
                      !.issues = @ \/ \E c \in meter[p].read.calls : Misrecorded(c)])
    /\ UNCHANGED ledger

(* ... and then summarize_manifest reads the ledger again. The totals are  *)
(* given if the calls it has are those of the log, and nothing was wrong.  *)
Summarize(p) ==
    /\ meter[p].step = "summary"
    /\ Becomes(p,
           IF /\ ~meter[p].errors /\ ~meter[p].issues
              /\ {c \in NativeCalls : ledger[c] # "none"} = meter[p].read.calls
             THEN [meter[p] EXCEPT !.step = "done", !.claims = TRUE, !.counted = ledger]
             ELSE NewMeter)
    /\ UNCHANGED ledger

MeteringNext ==
    \/ \E t \in Turns : StartTurn(t) \/ \E n \in 1..MaxCalls : LogCall(t, n)
    \/ \E c \in NativeCalls, record \in Records : EditLedger(c, record)
    \/ \E p \in Meters :
           \/ EndImport(p) \/ Die(p) \/ CheckLedger(p) \/ Summarize(p)
           \/ \E dry_run \in BOOLEAN : BeginCheckpoint(p, dry_run)
           \/ \E c \in NativeCalls : RecordCall(p, c)
           \/ \E readable \in BOOLEAN :
                  Preflight(p, readable) \/ BeginImport(p, readable) \/ AuditLog(p, readable)

MeteringSpec == MeteringInit /\ [][MeteringNext]_meteringVars

-----------------------------------------------------------------------------
(* A checkpoint that gives totals counted every call that the log had when *)
(* the audit read it, in its owner's round and with its counters, and none *)
(* besides, whatever was logged, recorded, corrected or left over from a   *)
(* checkpoint that died (metering.checkpoint, usage_sources.audit_data);   *)
(* only what is changed by hand between the audit's last two reads of the  *)
(* ledger may escape it.                                                   *)
TotalsAreOfTheLog ==
    \A p \in Meters :
        meter[p].claims /\ ~meter[p].disturbed =>
            /\ meter[p].read.turns = Bound
            /\ meter[p].counted = [c \in NativeCalls |->
                   IF c \in meter[p].read.calls THEN "right" ELSE "none"]
=============================================================================
