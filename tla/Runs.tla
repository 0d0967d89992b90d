--------------------------------- MODULE Runs ---------------------------------
(***************************************************************************)
(* Runs: the directories in which the rounds, watches and jobs of one task *)
(* are kept, and the registry of what belongs to them (scripts/runs.py,    *)
(* prepare of protocol.py, init_watch of watch.py). A round is prepared    *)
(* file by file and then tracked with a reference beside the request and a *)
(* member file in the run; a watch is attached alike. Every preparation    *)
(* may fail or die between two files, and whoever finds the rest repeats   *)
(* the attachment. A recovery reads all of it, one registry after the      *)
(* other, while others go on.                                              *)
(*                                                                         *)
(* A file is there or not, for its contents are checked against what it is *)
(* made from, and nothing rewrites it. A watch has one target. One job is  *)
(* followed, others are prepared beside it. Attach-request is of rounds    *)
(* "reconciled" (its help text): their preparer is gone.                   *)
(***************************************************************************)
EXTENDS Integers, FiniteSetsExt, SequencesExt

CONSTANTS
    Storages,    \* runs
    Outside,     \* a parent directory of no run
    MaxRequests, \* bound: rounds prepared
    MaxWatches   \* bound: watches initialized

ASSUME RunAssumption ==
    /\ Outside \notin Storages
    /\ MaxRequests \in Nat /\ MaxWatches \in Nat

VARIABLES
    rounds,     \* rounds[r]: where, for which run, after which round, its files
    watches,    \* watches[w]: where, its target, its files
    indexed,    \* the job: in whose index, and its rounds in their order
    recovery    \* the recovery that runs, or the last one

runVars == <<rounds, watches, indexed, recovery>>

RoundIds == 1..MaxRequests
WatchIds == 1..MaxWatches
Places == Storages \cup {Outside}
RoundFiles == {"request", "prompt", "run-ref", "member"}
Round == [place : Places, tracks : BOOLEAN, previous : 0..MaxRequests, there : BOOLEAN,
          files : SUBSET RoundFiles, preparing : BOOLEAN]
WatchDir == [place : Places, target : RoundIds, files : SUBSET {"manifest", "member"},
             starting : BOOLEAN]
Artifacts == RoundIds \X {"round"} \cup WatchIds \X {"watch"}
Recovery == [of : Storages, done : 0..4, was : SUBSET Artifacts,
             active : 0..MaxRequests, rounds : SUBSET RoundIds, watches : SUBSET WatchIds,
             errors : BOOLEAN]

RunTypeOK ==
    /\ rounds \in Seq(Round) /\ Len(rounds) <= MaxRequests
    /\ watches \in Seq(WatchDir) /\ Len(watches) <= MaxWatches
    /\ indexed.index \in Places /\ indexed.rounds \in Seq(RoundIds)
    /\ recovery \in Recovery

(* Nothing found; also what is kept of a recovery that ended with errors.  *)
NoRecovery(s) ==
    [of |-> s, done |-> 4, was |-> {}, active |-> 0, rounds |-> {}, watches |-> {}, errors |-> FALSE]

RunInit ==
    /\ rounds = <<>> /\ watches = <<>>
    /\ indexed = [index |-> Outside, rounds |-> <<>>]
    /\ recovery \in {NoRecovery(s) : s \in Storages}

-----------------------------------------------------------------------------
(* run_for_request: a request inside a run must be tracked by it, with     *)
(* reference and member; one outside has no run.                           *)
Member(r) ==
    /\ rounds[r].there /\ {"request", "run-ref", "member"} \subseteq rounds[r].files
    /\ rounds[r].place \in Storages

Unmanaged(r) ==
    /\ rounds[r].there /\ "request" \in rounds[r].files
    /\ rounds[r].place = Outside

(* round_storage and prepare, up to the new directory: an initial round    *)
(* goes into a run, which tracks it, or outside. A follow-up inherits the  *)
(* run; that of a round outside is not tracked wherever it is put.         *)
BeginRound(place, previous) ==
    /\ Len(rounds) < MaxRequests
    /\ previous \in 0..Len(rounds)
    /\ previous # 0 => Unmanaged(previous) \/ (Member(previous) /\ place = rounds[previous].place)
    /\ rounds' = Append(rounds,
           [place |-> place, previous |-> previous, there |-> TRUE, files |-> {}, preparing |-> TRUE,
            tracks |-> place \in Storages /\ (previous = 0 \/ rounds[previous].place = place)])
    /\ UNCHANGED <<watches, indexed, recovery>>

(* What a preparation writes, in this order, the last two in               *)
(* track_request; with the prompt go the resources of a follow-up.         *)
NextRoundFile(r) ==
    <<"request", "prompt", "run-ref", "member">>[Cardinality(rounds[r].files) + 1]

WriteRoundFile(r) ==
    /\ rounds[r].preparing /\ RoundFiles \ rounds[r].files # {}
    /\ NextRoundFile(r) \in {"run-ref", "member"} => rounds[r].tracks
    /\ rounds' = [rounds EXCEPT ![r].files = @ \cup {NextRoundFile(r)}]
    /\ UNCHANGED <<watches, indexed, recovery>>

(* A preparation that fails before it is tracked removes its directory.    *)
RollBack(r) ==
    /\ rounds[r].preparing /\ ~({"request", "prompt"} \subseteq rounds[r].files)
    /\ rounds' = [rounds EXCEPT ![r].preparing = FALSE, ![r].there = FALSE, ![r].files = {}]
    /\ UNCHANGED <<watches, indexed, recovery>>

(* It returns, or it died, or tracking failed.                             *)
EndRound(r) ==
    /\ rounds[r].preparing
    /\ rounds' = [rounds EXCEPT ![r].preparing = FALSE]
    /\ UNCHANGED <<watches, indexed, recovery>>

(* attach-request, publish_once by publish_once: what is there is kept.    *)
AttachRequest(r) ==
    /\ rounds[r].there /\ ~rounds[r].preparing
    /\ "request" \in rounds[r].files /\ rounds[r].place \in Storages
    /\ \E file \in {"run-ref", "member"} \ rounds[r].files :
           /\ file = "member" => "run-ref" \in rounds[r].files
           /\ rounds' = [rounds EXCEPT ![r].files = @ \cup {file}]
    /\ UNCHANGED <<watches, indexed, recovery>>

-----------------------------------------------------------------------------
(* check_index: the index of a run has its members, another none of a run. *)
MayIndex(r, index) ==
    IF index = Outside THEN Unmanaged(r) ELSE Member(r) /\ rounds[r].place = index

RegisterRound(r, index) ==
    /\ indexed.rounds = <<>> /\ rounds[r].previous = 0
    /\ MayIndex(r, index)
    /\ indexed' = [index |-> index, rounds |-> <<r>>]
    /\ UNCHANGED <<rounds, watches, recovery>>

ActivateRound(r) ==
    /\ indexed.rounds # <<>> /\ rounds[r].previous = Last(indexed.rounds)
    /\ MayIndex(r, indexed.index)
    /\ indexed' = [indexed EXCEPT !.rounds = Append(@, r)]
    /\ UNCHANGED <<rounds, watches, recovery>>

(* init_watch and watch_storage: in the run of its target or, with --root, *)
(* anywhere, also among the watches of a run it does not belong to. Only   *)
(* the watch of a run's own round is attached.                             *)
BeginWatch(r, place) ==
    /\ Len(watches) < MaxWatches
    /\ Member(r) \/ Unmanaged(r)
    /\ watches' = Append(watches, [place |-> place, target |-> r, files |-> {}, starting |-> TRUE])
    /\ UNCHANGED <<rounds, indexed, recovery>>

PublishManifest(w) ==
    /\ watches[w].starting
    /\ watches' = [watches EXCEPT ![w].files = {"manifest"}]
    /\ UNCHANGED <<rounds, indexed, recovery>>

EndWatch(w) ==
    /\ watches[w].starting
    /\ watches' = [watches EXCEPT ![w].starting = FALSE]
    /\ UNCHANGED <<rounds, indexed, recovery>>

(* attach_watch, by init_watch or repeated by anyone.                      *)
AttachWatch(w) ==
    /\ "manifest" \in watches[w].files /\ Member(watches[w].target)
    /\ watches' = [watches EXCEPT ![w].files = @ \cup {"member"}, ![w].starting = FALSE]
    /\ UNCHANGED <<rounds, indexed, recovery>>

-----------------------------------------------------------------------------
DirectoriesOf(s) ==
    {<<r, "round">> : r \in {x \in DOMAIN rounds : rounds[x].there /\ rounds[x].place = s}}
    \cup {<<w, "watch">> : w \in {x \in DOMAIN watches : watches[x].place = s}}

BeginRecovery ==
    /\ recovery.done = 4
    /\ recovery' = [NoRecovery(recovery.of) EXCEPT !.done = 0, !.was = DirectoriesOf(recovery.of)]
    /\ UNCHANGED <<rounds, watches, indexed>>

(* recover reads the index, then the registries, then the directories.     *)
InventoryJobs ==
    /\ recovery.done = 0
    /\ recovery' = [recovery EXCEPT !.done = @ + 1,
           !.active = IF indexed.index = recovery.of /\ indexed.rounds # <<>>
                        THEN Last(indexed.rounds) ELSE 0]
    /\ UNCHANGED <<rounds, watches, indexed>>

ReadMembers ==
    LET members == {r \in DOMAIN rounds : "member" \in rounds[r].files /\ rounds[r].place = recovery.of}
    IN  /\ recovery.done = 1
        /\ recovery' = [recovery EXCEPT !.done = @ + 1, !.rounds = members,
               !.errors = @ \/ \E r \in members : ~Member(r)]
        /\ UNCHANGED <<rounds, watches, indexed>>

ReadWatches ==
    LET members == {w \in DOMAIN watches : /\ "member" \in watches[w].files
                                           /\ rounds[watches[w].target].place = recovery.of}
    IN  /\ recovery.done = 2
        /\ recovery' = [recovery EXCEPT !.done = @ + 1, !.watches = members,
               !.errors = @ \/ \E w \in members : ~Member(watches[w].target)]
        /\ UNCHANGED <<rounds, watches, indexed>>

Listed == recovery.rounds \X {"round"} \cup recovery.watches \X {"watch"}

(* A plausible bug: a round with a reference is taken as registered.       *)
UnregisteredUnreferenced(found) ==
    {a \in found \ Listed : a[2] = "round" => "run-ref" \notin rounds[a[1]].files}

(* A directory that no registry knows is an error, whatever it contains.   *)
Unregistered(found) == found \ Listed

ListDirectories ==
    /\ recovery.done = 3
    /\ recovery' = IF recovery.errors \/ Unregistered(DirectoriesOf(recovery.of)) # {}
                      THEN [NoRecovery(recovery.of) EXCEPT !.errors = TRUE]
                      ELSE [recovery EXCEPT !.done = 4]
    /\ UNCHANGED <<rounds, watches, indexed>>

RunNext ==
    \/ \E place \in Places, previous \in 0..MaxRequests : BeginRound(place, previous)
    \/ \E r \in DOMAIN rounds :
           \/ WriteRoundFile(r) \/ RollBack(r) \/ EndRound(r) \/ AttachRequest(r) \/ ActivateRound(r)
           \/ \E place \in Places : RegisterRound(r, place) \/ BeginWatch(r, place)
    \/ \E w \in DOMAIN watches : PublishManifest(w) \/ EndWatch(w) \/ AttachWatch(w)
    \/ BeginRecovery \/ InventoryJobs \/ ReadMembers \/ ReadWatches \/ ListDirectories

RunSpec == RunInit /\ [][RunNext]_runVars

-----------------------------------------------------------------------------
(* A recovery that calls itself complete has listed every round and watch  *)
(* that was there when it began and still is, however far its preparation  *)
(* came, and the round its job is in, though rounds are prepared, tracked  *)
(* and activated meanwhile (runs.recover, check_index).                    *)
RecoveryComplete ==
    recovery.done = 4 /\ ~recovery.errors =>
        /\ recovery.was \cap DirectoriesOf(recovery.of) \subseteq Listed
        /\ recovery.active # 0 => recovery.active \in recovery.rounds
=============================================================================
