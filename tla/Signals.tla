------------------------------- MODULE Signals -------------------------------
(***************************************************************************)
(* What one observation of a target becomes (scripts/watch.py: signals):   *)
(* the events to publish and the new record of the target. It is a         *)
(* function of the snapshot and the old record alone.                      *)
(*                                                                         *)
(* A snapshot has the response file's content, the publication receipt     *)
(* with the content compared to it, the faults of the read, and the        *)
(* terminal's state, recognized dialog and remaining text (None if it      *)
(* could not be read). Equal values are equal digests. Times are ages in   *)
(* ticks, kept up to the largest age they are compared with.               *)
(***************************************************************************)
EXTENDS Integers, Sequences

CONSTANTS
    Targets,         \* watched rounds
    Valid, Malformed,\* contents of a response file
    States,          \* the agent states in use
    Dialogs,         \* recognizable dialogs
    Texts,           \* the rest of the screen
    None,
    ReviewInterval,  \* first delay of a reminder of a changed screen
    MaxDelay,        \* largest such delay: max(300 s, ReviewInterval)
    StallAfter

ASSUME SignalsAssumption ==
    /\ ReviewInterval \in Nat \ {0} /\ MaxDelay \in Nat /\ MaxDelay >= ReviewInterval
    /\ StallAfter \in Nat \ {0}
    /\ States \subseteq {"working", "idle", "done", "blocked", "unknown", "dead"}
    /\ None \notin Valid \cup Malformed \cup Dialogs \cup Texts

(* What is at the result path: validate_result decides what is valid.      *)
Contents == Valid \cup Malformed \cup {None}
Faults == {"file", "transport"}
Screen == [dialog : Dialogs \cup {None}, text : Texts]

(* What observe reads of a terminal, of herdr or tmux.                     *)
UI == [state : States, screen : Screen]
Receipt == [first : Valid, current : Contents]
Snapshot == [result : Contents, publication : Receipt \cup {None},
             fault : SUBSET Faults, ui : UI \cup {None}]

Record == [result_key : Contents \X (Receipt \cup {None}),
           publication_changed : BOOLEAN,
           error : SUBSET Faults,
           state : States \cup {None},
           attention_key : Dialogs \cup {None}, attention_issue : Nat,
           blocked : BOOLEAN,
           fallback_issue : Nat, fallback_delay : 1..MaxDelay,
           screen_key : Screen \cup {None}, changed : 0..StallAfter, stalled : BOOLEAN,
           surfaced_key : Screen \cup {None}, surfaced : 0..MaxDelay,
           deadline_reported : BOOLEAN]

(* A target nothing is recorded of yet.                                    *)
NewRecord ==
    [result_key |-> <<None, None>>, publication_changed |-> FALSE, error |-> {},
     state |-> None, attention_key |-> None, attention_issue |-> 0,
     blocked |-> FALSE, fallback_issue |-> 0, fallback_delay |-> ReviewInterval,
     screen_key |-> None, changed |-> 0, stalled |-> FALSE,
     surfaced_key |-> None, surfaced |-> 0, deadline_reported |-> FALSE]

Optional(condition, kind) == IF condition THEN <<kind>> ELSE <<>>

(* A plausible bug: a response that disappeared is not a changed one.      *)
DiffersIfPresent(receipt) ==
    receipt # None /\ receipt.current \notin {None, receipt.first}

Differs(receipt) == receipt # None /\ receipt.current # receipt.first

-----------------------------------------------------------------------------
(* The response: new bytes, and any difference from the first publication  *)
(* or the return from one.                                                 *)
ResultEvents(snap, old) ==
    LET suspicious == /\ snap.publication # None
                      /\ Differs(snap.publication) \/ old.publication_changed
    IN  IF <<snap.result, snap.publication>> = old.result_key THEN <<>>
        ELSE Optional(suspicious, "result_changed")
          \o Optional(~suspicious /\ snap.result \in Valid, "result")
          \o Optional(~suspicious /\ snap.result \in Malformed, "invalid_result")

(* A failed read does not establish that the file disappeared.             *)
ResultRecord(snap, old) ==
    IF snap.result = None /\ snap.publication = None /\ snap.fault # {} THEN old
    ELSE [old EXCEPT !.result_key = <<snap.result, snap.publication>>,
                     !.publication_changed = Differs(snap.publication)]

ErrorEvents(snap, old) ==
    Optional(snap.fault # old.error,
             IF snap.fault # {} THEN "observation_error" ELSE "observation_recovered")

-----------------------------------------------------------------------------
(* A plausible bug: a blind interval does not end the dialog seen before.  *)
BlindedRemembers(old) ==
    [old EXCEPT !.blocked = FALSE, !.fallback_issue = 0]

(* A blind interval cannot prove that the same dialog stayed.              *)
Blinded(old) ==
    [old EXCEPT !.attention_key = None, !.blocked = FALSE, !.fallback_issue = 0]

(* A new screen restarts the stall timer.                                  *)
Redrawn(ui, old) ==
    IF ui.screen = old.screen_key THEN old
    ELSE [old EXCEPT !.screen_key = ui.screen, !.changed = 0, !.stalled = FALSE]

BlockedUnseen(ui) == ui.state = "blocked" /\ ui.screen.dialog = None
NewDialog(ui, old) == ui.screen.dialog # old.attention_key
Restarts(ui, old) ==
    ui.state # old.state \/ NewDialog(ui, old) \/ old.fallback_issue = 0

Reissued(s, ui, id) ==
    [s EXCEPT !.fallback_issue = id, !.fallback_delay = ReviewInterval,
              !.surfaced_key = ui.screen, !.surfaced = 0]

(* A plausible bug: a dialog that comes again is taken for the old one.    *)
IncidentKept(ui, old, id) ==
    IF old.attention_issue = 0 /\ ui.screen.dialog # None THEN id ELSE old.attention_issue

(* A dialog that was not there at the last look is a new incident.         *)
Incident(ui, old, id) ==
    IF NewDialog(ui, old) /\ ui.screen.dialog # None THEN id ELSE old.attention_issue

(* The record after the state, the dialog and a restarted reminder.        *)
Attended(ui, old, id) ==
    LET s == [old EXCEPT
                 !.state = ui.state,
                 !.blocked = BlockedUnseen(ui),
                 !.attention_key = ui.screen.dialog,
                 !.attention_issue = Incident(ui, old, id)]
    IN  IF Restarts(ui, old) THEN Reissued(s, ui, id) ELSE s

ReminderDue(s) == s.screen_key # s.surfaced_key /\ s.surfaced >= s.fallback_delay

(* A plausible bug: the delay doubles without a limit.                     *)
RemindedEverLater(s) ==
    IF ReminderDue(s)
      THEN [s EXCEPT !.surfaced_key = s.screen_key, !.surfaced = 0, !.fallback_delay = 2 * @]
      ELSE s

(* A reminder of a changed screen doubles the time to the next one, up to  *)
(* the largest delay.                                                      *)
Reminded(s) ==
    IF ReminderDue(s)
      THEN [s EXCEPT !.surfaced_key = s.screen_key, !.surfaced = 0,
                     !.fallback_delay = IF 2 * @ > MaxDelay THEN MaxDelay ELSE 2 * @]
      ELSE s

StallDue(ui, s) ==
    ui.state \in {"working", "unknown"} /\ s.changed >= StallAfter /\ ~s.stalled

(* The events of a readable terminal, given the record redrawn from it.    *)
UIEvents(ui, old, id) ==
    LET s == Attended(ui, old, id) IN
       Optional(ui.state # old.state, "state_changed")
    \o Optional(NewDialog(ui, old) /\ ui.screen.dialog # None, "attention")
    \o Optional(BlockedUnseen(ui) /\ ~old.blocked, "review_due")
    \o Optional(ReminderDue(s), "review_due")
    \o Optional(StallDue(ui, s), "stalled")

UIRecord(ui, old, id) ==
    LET s == Reminded(Attended(ui, old, id))
    IN  [s EXCEPT !.stalled = @ \/ StallDue(ui, s)]

-----------------------------------------------------------------------------
(* signals: kinds is what to publish, new the record; late says whether    *)
(* the deadline has passed, id is a fresh issue identity.                  *)
Observed(snap, old, late, id) ==
    LET filed == [ResultRecord(snap, old) EXCEPT !.error = snap.fault]
        seen == IF snap.ui = None THEN Blinded(filed) ELSE Redrawn(snap.ui, filed)
        deadline == late /\ ~old.deadline_reported
    IN  [kinds |-> ResultEvents(snap, old) \o ErrorEvents(snap, old)
                     \o (IF snap.ui = None THEN <<>> ELSE UIEvents(snap.ui, seen, id))
                     \o Optional(deadline, "deadline"),
         new |-> [(IF snap.ui = None THEN seen ELSE UIRecord(snap.ui, seen, id))
                     EXCEPT !.deadline_reported = @ \/ deadline]]

(* The issue an event belongs to.                                          *)
IssueOf(kind, record) ==
    CASE kind = "attention" -> record.attention_issue
      [] kind = "review_due" -> record.fallback_issue
      [] OTHER -> 0

(* One tick later.                                                         *)
Later(record) ==
    [record EXCEPT !.changed = IF @ < StallAfter THEN @ + 1 ELSE @,
                   !.surfaced = IF @ < MaxDelay THEN @ + 1 ELSE @]
=============================================================================
