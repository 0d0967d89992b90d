-------------------------------- MODULE Watch --------------------------------
(***************************************************************************)
(* One watch directory (scripts/watch.py): an observer reads the response  *)
(* file and the terminal of every target in threads of its own, publishes  *)
(* evidence and event files for what changed and saves state.json after    *)
(* each target; it may die between any two of these steps and is started   *)
(* again. Other watches observe the same rounds and share their            *)
(* publication receipts. Consumers wait for events with a cursor of their  *)
(* own and try the observer's lock to learn whether one runs.              *)
(*                                                                         *)
(* A sweep takes less than a tick of the clock: the ages it compares are   *)
(* counted in sweeps and more. observer.json, which only supervision       *)
(* reads, and the times of reads are left out.                             *)
(***************************************************************************)
EXTENDS Signals, FiniteSets, FiniteSetsExt

CONSTANTS
    Consumers,   \* controllers that read events with a cursor
    Limit,       \* events per page
    HasDeadline,
    Failures,    \* what makes reads fail in turn: sets of "file", "transport"
    MaxChanges,  \* bound: changes of files and terminals
    MaxCrashes   \* bound: crashes of the observer

ASSUME WatchAssumption ==
    /\ IsFiniteSet(Targets)
    /\ Limit \in Nat \ {0} /\ MaxChanges \in Nat /\ MaxCrashes \in Nat
    /\ HasDeadline \in BOOLEAN /\ Failures \subseteq SUBSET Faults

VARIABLES
    result, publication, ui, fault, late, changes,   \* the watched rounds
    state,      \* state.json: the last number and a record per target
    evidence,   \* numbers of the evidence files
    events,     \* events[n]: the event file n, with what its evidence shows
    phase,      \* the observer: off, started, sweeping or swept
    memory,     \* its copy of the state, during a sweep
    reads,      \* reads[t]: how far the read of t is
    out,        \* what it is publishing
    crashes,
    consumer,   \* consumer[x]: what x has still to look at, saw and was told;
                \* due is history: what was there when it found the lock free
    cursor,     \* cursor[x]: the number x saved
    handled     \* handled[x]: the events x has handled

world == <<result, publication, ui, fault, late, changes>>
disk == <<state, evidence, events>>
process == <<phase, memory, reads, out, crashes>>
readers == <<consumer, cursor, handled>>
vars == <<world, disk, process, readers>>

State == [cursor : Nat, targets : [Targets -> Record]]
Kinds == {"result", "result_changed", "invalid_result", "observation_error",
          "observation_recovered", "state_changed", "attention", "review_due",
          "stalled", "deadline"}
Event == [target : Targets, kind : Kinds, issue : Nat, shows : Snapshot]
Read == [step : {"todo", "raw", "read", "processed"}, raw : Contents,
         snapshot : Snapshot \cup {None}]
Output == [target : Targets, snapshot : Snapshot, queue : Seq(Kinds), written : BOOLEAN]
Consumer == [looks : Seq({"lock", "files"}), active : BOOLEAN, holds : BOOLEAN,
             page : SUBSET (Nat \ {0}), upto : Nat, due : SUBSET (Nat \ {0}),
             reason : {"none", "waiting", "events", "observer_stopped", "timeout"}]

(* None is apart from what it stands for the absence of.                   *)
ASSUME NoneAssumption == None \notin State \cup Output \cup Receipt

Unread == [step |-> "todo", raw |-> None, snapshot |-> None]
AtRest == [looks |-> <<>>, active |-> FALSE, holds |-> FALSE, page |-> {}, upto |-> 0,
           due |-> {}, reason |-> "none"]

(* The state has its type. In particular the delay of a reminder never     *)
(* grows beyond MaxDelay, however often the screen was reported, and every *)
(* event file has its evidence file, through crashes (signals, sweep).     *)
TypeOK ==
    /\ result \in [Targets -> Contents]
    /\ publication \in [Targets -> Valid \cup {None}]
    /\ ui \in [Targets -> UI]
    /\ fault \in [Targets -> SUBSET Faults]
    /\ late \in BOOLEAN /\ changes \in 0..MaxChanges /\ crashes \in 0..MaxCrashes
    /\ state \in State
    /\ evidence \subseteq Nat \ {0}
    /\ DOMAIN events \subseteq evidence
    /\ \A n \in DOMAIN events : events[n] \in Event
    /\ phase \in {"off", "started", "sweep", "swept"}
    /\ memory \in State \cup {None}
    /\ phase = "sweep" <=> memory # None
    /\ reads \in [Targets -> Read]
    /\ out \in Output \cup {None}
    /\ consumer \in [Consumers -> Consumer]
    /\ cursor \in [Consumers -> Nat]
    /\ handled \in [Consumers -> SUBSET (Nat \ {0})]

Init ==
    /\ result = [t \in Targets |-> None]
    /\ publication = [t \in Targets |-> None]
    /\ ui \in [Targets -> UI]
    /\ fault = [t \in Targets |-> {}]
    /\ late = FALSE /\ changes = 0
    /\ state = [cursor |-> 0, targets |-> [t \in Targets |-> NewRecord]]
    /\ evidence = {} /\ events = <<>>
    /\ phase = "off" /\ memory = None /\ out = None
    /\ reads = [t \in Targets |-> Unread]
    /\ crashes = 0
    /\ consumer = [x \in Consumers |-> AtRest]
    /\ cursor = [x \in Consumers |-> 0]
    /\ handled = [x \in Consumers |-> {}]

-----------------------------------------------------------------------------
(* What is watched. A response is published, replaced or removed.          *)
Change == changes < MaxChanges /\ changes' = changes + 1

Respond(t) ==
    /\ Change
    /\ \E content \in Contents \ {result[t]} : result' = [result EXCEPT ![t] = content]
    /\ UNCHANGED <<publication, ui, fault, late, disk, process, readers>>

Redraw(t) ==
    /\ Change
    /\ \E view \in UI \ {ui[t]} : ui' = [ui EXCEPT ![t] = view]
    /\ UNCHANGED <<result, publication, fault, late, disk, process, readers>>

Break(t) ==
    /\ Change
    /\ \E set \in (Failures \cup {{}}) \ {fault[t]} : fault' = [fault EXCEPT ![t] = set]
    /\ UNCHANGED <<result, publication, ui, late, disk, process, readers>>

DeadlinePasses ==
    /\ HasDeadline /\ ~late
    /\ late' = TRUE
    /\ UNCHANGED <<result, publication, ui, fault, changes, disk, process, readers>>

(* The observer of another watch is the first to see a valid response.     *)
PinnedElsewhere(t) ==
    /\ publication[t] = None
    /\ result[t] \in Valid
    /\ publication' = [publication EXCEPT ![t] = result[t]]
    /\ UNCHANGED <<result, ui, fault, late, changes, disk, process, readers>>

Tick ==
    /\ phase # "sweep"
    /\ state' = [state EXCEPT !.targets = [t \in Targets |-> Later(state.targets[t])]]
    /\ UNCHANGED <<world, evidence, events, process, readers>>

-----------------------------------------------------------------------------
(* The observer. A start that finds the lock taken, exclusively or for a   *)
(* consumer's test, fails and leaves everything as it is.                  *)
Locked == phase # "off"
Testing == \E x \in Consumers : consumer[x].holds

Start ==
    /\ ~Locked /\ ~Testing
    /\ phase' = "started"
    /\ UNCHANGED <<world, disk, memory, reads, out, crashes, readers>>

(* A plausible bug: numbers used after the state was saved are forgotten.  *)
ResumeFromState == state

(* A restart reserves every number that has evidence or an event.          *)
Resume == [state EXCEPT !.cursor = Max({@} \cup evidence \cup DOMAIN events)]

BeginSweep ==
    /\ phase \in {"started", "swept"}
    /\ phase' = "sweep"
    /\ memory' = Resume
    /\ reads' = [t \in Targets |-> Unread]
    /\ UNCHANGED <<world, disk, out, crashes, readers>>

(* collect, in a thread of its own: the bytes of the response first ...    *)
ReadFile(t) ==
    /\ phase = "sweep" /\ reads[t].step = "todo"
    /\ reads' = [reads EXCEPT ![t].step = "raw", ![t].raw = result[t]]
    /\ UNCHANGED <<world, disk, phase, memory, out, crashes, readers>>

(* A plausible bug: the receipt is replaced by what was observed last.     *)
PinnedLast(t, raw) == IF raw \in Valid THEN raw ELSE publication[t]

(* track_publication: the first valid bytes any watch observed.            *)
Pinned(t, raw) ==
    IF raw \in Valid /\ publication[t] = None THEN raw ELSE publication[t]

(* ... then the receipt, and the terminal. Each may fail by itself.        *)
Collect(t) ==
    /\ phase = "sweep" /\ reads[t].step = "raw"
    /\ LET raw == reads[t].raw
           readable == "file" \notin fault[t]
           first == IF readable THEN Pinned(t, raw) ELSE publication[t]
       IN  /\ publication' = [publication EXCEPT ![t] = first]
           /\ reads' = [reads EXCEPT ![t] =
                [step |-> "read", raw |-> None, snapshot |->
                   [result |-> IF readable THEN raw ELSE None,
                    publication |-> IF readable /\ first # None
                                      THEN [first |-> first, current |-> raw] ELSE None,
                    fault |-> fault[t],
                    ui |-> IF "transport" \in fault[t] THEN None ELSE ui[t]]]]
    /\ UNCHANGED <<result, ui, fault, late, changes, disk,
                   phase, memory, out, crashes, readers>>

(* A uuid: an issue identity that no file and no record has.               *)
Issues(s) == UNION {{s.targets[t].attention_issue, s.targets[t].fallback_issue} : t \in Targets}
Known == Issues(state) \cup Issues(memory) \cup {events[n].issue : n \in DOMAIN events}
Fresh == Min((1..Cardinality(Known) + 1) \ Known)

(* The sweep takes up a completed read.                                    *)
Process(t) ==
    /\ phase = "sweep" /\ out = None /\ reads[t].step = "read"
    /\ LET snap == reads[t].snapshot
           seen == Observed(snap, memory.targets[t], late, Fresh)
       IN  /\ memory' = [memory EXCEPT !.targets[t] = seen.new]
           /\ out' = [target |-> t, snapshot |-> snap, queue |-> seen.kinds,
                      written |-> FALSE]
    /\ reads' = [reads EXCEPT ![t] = [Unread EXCEPT !.step = "processed"]]
    /\ UNCHANGED <<world, disk, phase, crashes, readers>>

(* The observer ends, by itself or not, and its lock is free.              *)
Ends ==
    /\ phase' = "off" /\ memory' = None /\ out' = None
    /\ reads' = [t \in Targets |-> Unread]

(* The next number; a file that is there already ends the observer.        *)
PublishEvidence ==
    /\ phase = "sweep" /\ out # None /\ out.queue # <<>> /\ ~out.written
    /\ LET number == memory.cursor + 1 IN
       IF number \in evidence
         THEN Ends /\ UNCHANGED evidence
         ELSE /\ evidence' = evidence \cup {number}
              /\ memory' = [memory EXCEPT !.cursor = number]
              /\ out' = [out EXCEPT !.written = TRUE]
              /\ UNCHANGED <<phase, reads>>
    /\ UNCHANGED <<world, state, events, crashes, readers>>

PublishEvent ==
    /\ phase = "sweep" /\ out # None /\ out.written
    /\ LET kind == Head(out.queue) IN
       events' = [n \in DOMAIN events \cup {memory.cursor} |->
           IF n # memory.cursor THEN events[n]
           ELSE [target |-> out.target, kind |-> kind, shows |-> out.snapshot,
                 issue |-> IssueOf(kind, memory.targets[out.target])]]
    /\ out' = [out EXCEPT !.queue = Tail(@), !.written = FALSE]
    /\ UNCHANGED <<world, state, evidence, phase, memory, reads, crashes,
                   readers>>

(* A plausible bug: the state is saved before the events are published.    *)
ReportedAlready == TRUE

(* Everything of this target is published.                                 *)
Reported == out.queue = <<>>

(* state.json after each target; after the last one the sweep is over.     *)
SaveState ==
    /\ phase = "sweep" /\ out # None /\ Reported
    /\ state' = memory
    /\ out' = None
    /\ IF \A t \in Targets : reads[t].step = "processed"
         THEN phase' = "swept" /\ memory' = None
         ELSE UNCHANGED <<phase, memory>>
    /\ UNCHANGED <<world, evidence, events, reads, crashes, readers>>

Stop ==
    /\ phase = "swept"
    /\ Ends
    /\ UNCHANGED <<world, disk, crashes, readers>>

Crash ==
    /\ Locked
    /\ crashes < MaxCrashes
    /\ crashes' = crashes + 1
    /\ Ends
    /\ UNCHANGED <<world, disk, readers>>

-----------------------------------------------------------------------------
(* Consumers: wait_events, then handling, then saving the cursor.          *)
Unseen(x) == {n \in DOMAIN events : n > cursor[x]}

(* read_events: the first Limit events after the cursor, and the cursor    *)
(* after them.                                                             *)
Page(x) == {n \in Unseen(x) : Cardinality({m \in Unseen(x) : m <= n}) <= Limit}

(* A plausible bug: the returned cursor is that of the newest event.       *)
PageEndsNewest(x) == Max({cursor[x]} \cup Unseen(x))

PageEnd(x) == Max({cursor[x]} \cup Page(x))

(* A plausible bug: the lock is tested after the files were listed.        *)
LooksFilesFirst == <<"files", "lock">>

(* One round of waiting tests the lock first.                              *)
Looks == <<"lock", "files">>

Wait(x) ==
    /\ consumer[x] = AtRest
    /\ consumer' = [consumer EXCEPT ![x].looks = Looks, ![x].reason = "waiting"]
    /\ UNCHANGED <<world, disk, process, cursor, handled>>

(* observer_active: a shared lock, held for a moment or not to be had.     *)
LookLock(x) ==
    /\ consumer[x].looks # <<>> /\ Head(consumer[x].looks) = "lock"
    /\ ~consumer[x].holds
    /\ consumer' = [consumer EXCEPT ![x].active = Locked, ![x].holds = ~Locked,
                                    ![x].due = IF Locked THEN {} ELSE Unseen(x),
                                    ![x].looks = Tail(@)]
    /\ UNCHANGED <<world, disk, process, cursor, handled>>

LetGo(x) ==
    /\ consumer[x].holds
    /\ consumer' = [consumer EXCEPT ![x].holds = FALSE]
    /\ UNCHANGED <<world, disk, process, cursor, handled>>

LookFiles(x) ==
    /\ consumer[x].looks # <<>> /\ Head(consumer[x].looks) = "files"
    /\ ~consumer[x].holds
    /\ consumer' = [consumer EXCEPT ![x].page = Page(x), ![x].upto = PageEnd(x),
                                    ![x].looks = Tail(@)]
    /\ UNCHANGED <<world, disk, process, cursor, handled>>

(* The caller is told; or the wait goes on, if it has not timed out.       *)
Tell(x) ==
    LET seen == consumer[x] IN
    /\ seen.reason = "waiting" /\ seen.looks = <<>> /\ ~seen.holds
    /\ \/ \E reason \in {"events", "observer_stopped", "timeout"} :
             /\ reason = "events" <=> seen.page # {}
             /\ reason = "observer_stopped" <=> seen.page = {} /\ ~seen.active
             /\ consumer' = [consumer EXCEPT ![x].reason = reason]
       \/ /\ seen.page = {} /\ seen.active
          /\ consumer' = [consumer EXCEPT ![x] = AtRest]
    /\ UNCHANGED <<world, disk, process, cursor, handled>>

(* The page is handled and then the cursor is saved, unless the consumer   *)
(* dies in between.                                                        *)
Advance(x) ==
    /\ consumer[x].reason \notin {"none", "waiting"}
    /\ handled' = [handled EXCEPT ![x] = @ \cup consumer[x].page]
    /\ cursor' \in {cursor, [cursor EXCEPT ![x] = consumer[x].upto]}
    /\ consumer' = [consumer EXCEPT ![x] = AtRest]
    /\ UNCHANGED <<world, disk, process>>

-----------------------------------------------------------------------------
Environment ==
    \/ \E t \in Targets : Respond(t) \/ Redraw(t) \/ Break(t) \/ PinnedElsewhere(t)
    \/ DeadlinePasses \/ Tick

Observe ==
    \/ Start \/ BeginSweep
    \/ \E t \in Targets : ReadFile(t) \/ Collect(t) \/ Process(t)
    \/ PublishEvidence \/ PublishEvent \/ SaveState

Consume(x) == Wait(x) \/ LookLock(x) \/ LetGo(x) \/ LookFiles(x) \/ Tell(x) \/ Advance(x)

Next ==
    \/ Environment
    \/ Observe \/ Stop \/ Crash
    \/ \E x \in Consumers : Consume(x)

Spec == Init /\ [][Next]_vars

(* The clock runs and the observer is renewed and works.                   *)
FairSpec ==
    /\ Spec
    /\ WF_vars(Tick)
    /\ WF_vars(Start) /\ WF_vars(BeginSweep)
    /\ \A t \in Targets : WF_vars(ReadFile(t)) /\ WF_vars(Collect(t)) /\ WF_vars(Process(t))
    /\ WF_vars(PublishEvidence) /\ WF_vars(PublishEvent) /\ WF_vars(SaveState)

-----------------------------------------------------------------------------
Reports(t, kinds, shows(_)) ==
    \E n \in DOMAIN events :
        events[n].target = t /\ events[n].kind \in kinds /\ shows(events[n].shows)

(* Whatever state.json says was noticed has been published as an event,    *)
(* although the two are written one after the other and the observer may   *)
(* die in between: nothing is taken as known that no reader can know       *)
(* (sweep, signals).                                                       *)
SavedIsReported ==
    \A t \in Targets :
        LET r == state.targets[t] IN
        /\ r.result_key[1] # None =>
               Reports(t, {"result", "result_changed", "invalid_result"},
                       LAMBDA s : <<s.result, s.publication>> = r.result_key)
        /\ r.publication_changed =>
               Reports(t, {"result_changed"}, LAMBDA s : s.publication = r.result_key[2])
        /\ r.error # {} => Reports(t, {"observation_error"}, LAMBDA s : s.fault = r.error)
        /\ r.state # None => Reports(t, {"state_changed"}, LAMBDA s : s.ui.state = r.state)
        /\ r.deadline_reported => Reports(t, {"deadline"}, LAMBDA s : TRUE)

(* An incident that state.json shows as current, and that controls accept  *)
(* an answer to, has exactly one event, which shows the dialog.            *)
IncidentReported ==
    \A t \in Targets :
        LET r == state.targets[t]
            of == {n \in DOMAIN events : events[n].target = t /\ events[n].kind = "attention"
                                           /\ events[n].issue = r.attention_issue}
        IN  r.attention_key # None =>
               /\ Cardinality(of) = 1
               /\ \A n \in of : events[n].shows.ui.screen.dialog = r.attention_key

(* A plain "result" event shows the bytes of the publication receipt, so   *)
(* that all watches of a round report the same response as its result, and *)
(* any other bytes as a change (track_publication, signals).               *)
ResultIsPinned ==
    \A n \in DOMAIN events :
        events[n].kind = "result" => events[n].shows.result = publication[events[n].target]

(* The current incident was never out of sight while the observer lived:   *)
(* no blind read of its target was reported after its event, so that an    *)
(* answer given to it is not given to another dialog (signals,             *)
(* controls.event_context).                                                *)
IncidentUnbroken ==
    crashes = 0 /\ phase # "sweep" =>
        \A t \in Targets, m, n \in DOMAIN events :
            LET r == state.targets[t]
                announced == /\ r.attention_key # None
                             /\ events[m].target = t /\ events[m].kind = "attention"
                             /\ events[m].issue = r.attention_issue
            IN  announced /\ events[n].target = t /\ n > m =>
                    "transport" \notin events[n].shows.fault

(* The next number is free, also after crashes that left evidence without  *)
(* an event or events that state.json does not know of: the observer never *)
(* dies of a file that is there already (sweep).                           *)
NumbersReserved ==
    phase = "sweep" => \A n \in evidence \cup DOMAIN events : n <= memory.cursor

(* A consumer that saves the cursor it was given, after handling what came *)
(* with it, skips no event, whatever it crashes and repeats (read_events). *)
NothingSkipped ==
    \A x \in Consumers : \A n \in DOMAIN events : n <= cursor[x] => n \in handled[x]

(* A consumer that is told the observer stopped has seen all the events an *)
(* observer left behind that had stopped when the lock was tested          *)
(* (wait_events).                                                          *)
StoppedIsDrained ==
    \A x \in Consumers : consumer[x].reason = "observer_stopped" => consumer[x].due = {}

(* A dialog that stays on a readable screen is current in state.json in    *)
(* the end, and so has its event (IncidentReported), whatever crashed.     *)
DialogAnnounced ==
    \A t \in Targets :
        <>[]("transport" \notin fault[t] =>
               state.targets[t].attention_key = ui[t].screen.dialog)

(* A response that is not the one first published, and stays so, is        *)
(* reported as changed in the end, whichever watch saw the first one.      *)
ChangeReported ==
    \A t \in Targets :
        <>[](/\ publication[t] # None /\ result[t] # publication[t]
             /\ "file" \notin fault[t]
             => Reports(t, {"result_changed"}, LAMBDA s : s.result = result[t]))

(* supervision.md: unknown UI surfaces after the largest delay of a        *)
(* reminder, plus observation, at the latest.                              *)
UnknownSurfaces ==
    \A t \in Targets :
        <>[]("transport" \notin fault[t] =>
               Reports(t, Kinds, LAMBDA s : s.ui # None /\ s.ui.screen = ui[t].screen))
=============================================================================
