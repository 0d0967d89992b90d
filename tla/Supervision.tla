----------------------------- MODULE Supervision -----------------------------
(***************************************************************************)
(* A controller checks its run before a block of work of its own           *)
(* (scripts/supervision.py). The check reads the jobs, the open items and  *)
(* the health of the watch, takes the time, and reads the job again and    *)
(* the observer's lifetime record: five reads, between which the job's     *)
(* other controllers, the observer and the clock go on. What it grants is  *)
(* a time until which to work.                                             *)
(*                                                                         *)
(* One job and one watch of its round; the monitor of another watch or     *)
(* round is as good as none. A failed read of the agent and an agent that  *)
(* is dead or unknown are one flag. Times are relative: what is left of a  *)
(* lease, the age of a success; one that was never made is too old. The    *)
(* fixed limit of 30 seconds is at least WorkSeconds.                      *)
(***************************************************************************)
EXTENDS Integers, FiniteSetsExt

CONSTANTS
    WorkSeconds,   \* the longest block of work
    Stale,         \* max_age: a success of that age does not count
    RenewBefore,   \* what an expiry must leave for its renewal
    Extent         \* bound: what a monitor or an observer is leased for

ASSUME SupervisionAssumption ==
    /\ WorkSeconds \in Nat \ {0} /\ Stale \in Nat \ {0}
    /\ RenewBefore \in Nat \ {0} /\ Extent \in Nat

VARIABLES
    head,       \* the job, as far as supervision reads it
    observer,   \* observer.json, the observer's lock, its health and its item
    checking    \* the check that runs and what it has read, or what it granted

supervisionVars == <<head, observer, checking>>

Left == -WorkSeconds..Extent
Ages == 0..Stale + 1

(* underway: it was launched or submitted. recorded: the active round has  *)
(* its resources.json. Whether the head has a copy too, which a next round *)
(* must keep, is left out: without one the job may be in the same states.  *)
JobHead == [closed : BOOLEAN, underway : BOOLEAN, recorded : BOOLEAN, held : BOOLEAN,
            monitor : Left]
Observer == [state : {"running", "stopped", "killed"}, left : Left, success : Ages,
             failing : BOOLEAN, item : {"none", "new", "old"}]
Checking == [step : {"idle", "jobs", "items", "health", "time", "job", "lifetime", "working"},
             closed : BOOLEAN, open : BOOLEAN, success : Ages, monitor : Left,
             elapsed : 0..WorkSeconds, until : 0..WorkSeconds,
             changed : BOOLEAN,      \* the job has another revision than the one seen
             replaced : BOOLEAN,     \* the observer has another record than the one seen
             future : BOOLEAN]       \* its record is of a time after the check's

SupervisionTypeOK == head \in JobHead /\ observer \in Observer /\ checking \in Checking

NoCheck == [step |-> "idle", closed |-> FALSE, open |-> FALSE, success |-> 0, monitor |-> 0,
            elapsed |-> 0, until |-> 0, changed |-> FALSE, replaced |-> FALSE, future |-> FALSE]

NewJob == [closed |-> FALSE, underway |-> FALSE, recorded |-> FALSE, held |-> FALSE,
           monitor |-> 0]

SupervisionInit ==
    /\ head = NewJob
    /\ observer = [state |-> "killed", left |-> 0, success |-> Stale + 1, failing |-> FALSE,
                   item |-> "none"]
    /\ checking = NoCheck

-----------------------------------------------------------------------------
(* activate: a launch stays, the submission starts anew, and the new round *)
(* has the same target or none yet.                                        *)
FollowUp ==
    \E launched \in {FALSE, head.underway}, recorded \in {FALSE, head.recorded} :
        head' = [head EXCEPT !.underway = launched, !.recorded = recorded, !.monitor = 0]

(* The job's controllers: launch, begin, a new or no monitor, a control    *)
(* that is begun or resolved, a follow-up, closure.                        *)
UpdateJob ==
    /\ ~head.closed
    /\ \/ head' = [head EXCEPT !.underway = TRUE]
       \/ \E left \in {0, Extent} : head' = [head EXCEPT !.monitor = left]
       \/ head' = [head EXCEPT !.held = ~@]
       \/ FollowUp
       \/ head' = [NewJob EXCEPT !.closed = TRUE]
    /\ checking' = [checking EXCEPT !.changed = checking.step \notin {"idle", "jobs"}]
    /\ UNCHANGED observer

(* protocol.record publishes resources.json, which is no revision of the   *)
(* job. For a closed job nothing depends on it.                            *)
RecordResources ==
    /\ ~head.closed /\ ~head.recorded
    /\ head' = [head EXCEPT !.recorded = TRUE]
    /\ UNCHANGED <<observer, checking>>

(* run_observer writes its lifetime, looks again and again, and stops or   *)
(* is killed; its next run replaces the record.                            *)
StartObserver ==
    /\ observer.state # "running"
    /\ observer' = [observer EXCEPT !.state = "running", !.left = Extent]
    /\ checking' = [checking EXCEPT !.replaced = checking.step = "working",
                                    !.future = checking.elapsed > 0 /\ checking.step # "working"]
    /\ UNCHANGED head

LookAtTarget(success) ==
    /\ observer.state = "running" /\ observer.left > 0
    /\ \E item \in {observer.item, "new"} :
           /\ observer.item = "old" => item = "old"
           /\ observer' = [observer EXCEPT !.success = IF success THEN 0 ELSE @,
                                           !.failing = ~success, !.item = item]
    /\ UNCHANGED <<head, checking>>

EndObserver(state) ==
    /\ observer.state = "running"
    /\ observer' = [observer EXCEPT !.state = state]
    /\ UNCHANGED <<head, checking>>

HandleItem ==
    /\ observer.item # "none"
    /\ observer' = [observer EXCEPT !.item = "none"]
    /\ UNCHANGED <<head, checking>>

Older(age) == Min({Stale + 1, age + 1})
Less(left) == Max({-WorkSeconds, left - 1})

(* The clock. What a check has read of the past ages until it takes its    *)
(* time; one that then goes on for longer than the work would grants none. *)
SecondPasses ==
    /\ head' = [head EXCEPT !.monitor = IF head.closed THEN @ ELSE Less(@)]
    /\ observer' = [observer EXCEPT !.left = Less(@), !.success = Older(@)]
    /\ checking' = CASE checking.step = "time" -> [checking EXCEPT !.success = Older(@)]
                     [] checking.step \in {"job", "lifetime"} ->
                          IF checking.elapsed < WorkSeconds
                            THEN [checking EXCEPT !.elapsed = @ + 1] ELSE NoCheck
                     [] checking.step = "working" ->
                          IF checking.until > 0 THEN [checking EXCEPT !.until = @ - 1] ELSE NoCheck
                     [] OTHER -> checking

-----------------------------------------------------------------------------
(* check: recover reads the inventory, then of the watch the items that    *)
(* are open, then its lock and its health. An item is old from now on.     *)
BeginCheck ==
    /\ checking.step \in {"idle", "working"}
    /\ checking' = [NoCheck EXCEPT !.step = "jobs"]
    /\ observer' = [observer EXCEPT !.item = IF @ = "new" THEN "old" ELSE @]
    /\ UNCHANGED head

At(step, next) ==
    /\ checking.step = step
    /\ checking' = next
    /\ UNCHANGED <<head, observer>>

InventoryJob == At("jobs", [checking EXCEPT !.step = "items", !.closed = head.closed])
CountOpen == At("items", [checking EXCEPT !.step = "health", !.open = observer.item # "none"])
TakeTime == At("time", [checking EXCEPT !.step = "job"])

(* An observer that does not run, or fails, counts like no success.        *)
ReadHealth ==
    At("health", [checking EXCEPT !.step = "time",
           !.success = IF observer.state # "running" \/ observer.failing THEN Stale
                         ELSE observer.success])

(* At the check's time there was more left of a lease than now.            *)
AtCheck(left) == left + checking.elapsed

Grant(budget) ==
    IF checking.open \/ budget < checking.elapsed THEN NoCheck
    ELSE [checking EXCEPT !.step = "working", !.until = budget - checking.elapsed,
                          !.elapsed = 0, !.success = 0, !.monitor = 0, !.future = FALSE]

Longest == Min({WorkSeconds, Stale})

(* coverage_for, as far as the job decides it: it must be the revision the *)
(* inventory had, and a job under way, or with a target, needs both its    *)
(* target and its monitor. A closed job needs nothing, one that is neither *)
(* under way nor has a target no watch.                                    *)
LoadJob ==
    At("job",
       IF checking.closed THEN Grant(Longest)
       ELSE IF checking.changed \/ head.held THEN NoCheck
       ELSE IF ~head.underway /\ ~head.recorded THEN Grant(Longest)
       ELSE IF ~head.recorded \/ AtCheck(head.monitor) <= RenewBefore THEN NoCheck
       ELSE [checking EXCEPT !.step = "lifetime", !.monitor = AtCheck(head.monitor)])

(* A plausible bug: the work may go on until something has expired.        *)
BudgetToExpiry(monitor, lifetime, success) ==
    Min({Longest, monitor, lifetime, Stale - success})

(* What is left of the shortest, with time for a renewal.                  *)
Budget(monitor, lifetime, success) ==
    Min({Longest, monitor - RenewBefore, lifetime - RenewBefore, Stale - success})

(* observer_expiry and the rest of coverage_for.                           *)
ReadLifetime ==
    At("lifetime",
       IF \/ observer.state = "stopped" \/ checking.future
          \/ AtCheck(observer.left) <= RenewBefore \/ checking.success >= Stale
         THEN NoCheck
         ELSE Grant(Budget(checking.monitor, AtCheck(observer.left), checking.success)))

SupervisionNext ==
    \/ UpdateJob \/ RecordResources \/ HandleItem \/ SecondPasses
    \/ StartObserver
    \/ \E b \in BOOLEAN : LookAtTarget(b)
    \/ \E s \in {"stopped", "killed"} : EndObserver(s)
    \/ BeginCheck \/ InventoryJob \/ CountOpen \/ ReadHealth \/ TakeTime \/ LoadJob \/ ReadLifetime

SupervisionSpec == SupervisionInit /\ [][SupervisionNext]_supervisionVars

-----------------------------------------------------------------------------
(* While a controller works on what a check granted, nothing is open that  *)
(* was open when the check began; and a job that is under way and has not  *)
(* changed since has a monitor and, unless it was replaced, an observer's  *)
(* lease that leave time for a renewal, no control that needs attention,   *)
(* and a success that is not too old (supervision.check).                  *)
WorkIsCovered ==
    checking.step = "working" =>
        /\ observer.item # "old"
        /\ ~checking.changed /\ ~head.closed =>
              /\ ~head.held
              /\ head.underway =>
                    /\ head.monitor >= RenewBefore /\ observer.success <= Stale
                    /\ ~checking.replaced => observer.left >= RenewBefore
=============================================================================
