------------------------------- MODULE Delivery -------------------------------
(***************************************************************************)
(* Snapshots of a working tree and checks of them (scripts/delivery.py).   *)
(* A capture scans the tree, copies it and scans it again, file by file,   *)
(* while writers go on; what it publishes counts once its digest is        *)
(* published too. A verification runs commands in a copy of the snapshot   *)
(* and publishes a result, which inspect reads back. Commands are not      *)
(* confined: the copies, the snapshot's store and the logs may be changed  *)
(* by them, or by anyone, at any time.                                     *)
(*                                                                         *)
(* The tree is one directory of files, all in scope; a file's stat is the  *)
(* number of the last write to it, so that every write is told from every  *)
(* other (st_ino, st_mtime_ns and st_ctime_ns do so at the clock's grain). *)
(* A private copy that was just made is scanned in one step. The response, *)
(* the request and the baseline can only refuse a capture or describe it.  *)
(***************************************************************************)
EXTENDS Integers, Functions, FiniteSetsExt

CONSTANTS
    MaxPath,       \* bound: files, numbered in the order of their names
    Contents,      \* contents of a file
    Missing,       \* no file, no capture, no snapshot, no attempt
    MaxWrites,     \* bound: writes to the tree during one capture
    MaxCommands,   \* commands of the plan
    MaxTouches     \* bound: changes to copies that are under verification

ASSUME DeliveryAssumption ==
    /\ MaxPath \in Nat /\ MaxWrites \in Nat /\ MaxTouches \in Nat
    /\ MaxCommands \in Nat \ {0}

VARIABLES
    tree,       \* tree[f]: the content of f in the working tree
    stat,       \* stat[f]: the last write to f, stat[0] that to the directory
    capture,    \* the capture that runs
    instant,    \* history: the tree at the end of the capture's first scan
    snapshot,   \* the published manifest with the copy beside it
    attempt,    \* the latest verification of the snapshot
    touches     \* how often a copy was changed

deliveryVars == <<tree, stat, capture, instant, snapshot, attempt, touches>>

Paths == 1..MaxPath
Tree == [Paths -> Contents \cup {Missing}]
Stats == [0..MaxPath -> Nat]
Capture == [pass : {"scan", "copy", "rescan", "seal"}, listed : BOOLEAN,
            todo : SUBSET Paths, looked : BOOLEAN, opened : Nat \cup {Missing},
            files : Tree, stats : Stats, before : Tree, stable : Stats, copied : Tree]
Snapshot == [files : Tree, store : Tree, sealed : BOOLEAN]

ASSUME MissingAssumption == Missing \notin Snapshot

Attempt == [records : 0..MaxCommands, zeros : 0..MaxCommands, source : Tree,
            stats : Stats, unchanged : BOOLEAN, after : Tree, passed : BOOLEAN,
            logs : BOOLEAN, stage : {"running", "recorded", "sealed"},
            disturbed : BOOLEAN]

DeliveryTypeOK ==
    /\ tree \in Tree /\ stat \in Stats /\ instant \in Tree
    /\ capture \in Capture \cup {Missing}
    /\ snapshot \in Snapshot \cup {Missing}
    /\ attempt \in Attempt \cup {Missing}
    /\ touches \in 0..MaxTouches

Present(files) == {f \in Paths : files[f] # Missing}
NoFiles == [f \in Paths |-> Missing]
Unwritten == [f \in 0..MaxPath |-> 0]

DeliveryInit ==
    /\ tree \in Tree
    /\ stat = Unwritten /\ instant = NoFiles
    /\ capture = Missing /\ snapshot = Missing /\ attempt = Missing /\ touches = 0

-----------------------------------------------------------------------------
(* A writer creates, changes, rewrites or removes a file while it is       *)
(* captured.                                                               *)
WriteFile(f, content) ==
    /\ capture # Missing
    /\ Max(Range(stat)) < MaxWrites
    /\ tree[f] # Missing \/ content # Missing
    /\ LET number == Max(Range(stat)) + 1
           listing == (tree[f] = Missing) # (content = Missing)
       IN  stat' = [stat EXCEPT ![f] = number, ![0] = IF listing THEN number ELSE @]
    /\ tree' = [tree EXCEPT ![f] = content]
    /\ UNCHANGED <<capture, instant, snapshot, attempt, touches>>

(* A scan starts with the stat of the directory.                           *)
Starting(pass) ==
    [pass |-> pass, listed |-> pass \in {"copy", "seal"}, todo |-> {}, looked |-> FALSE,
     opened |-> Missing, files |-> NoFiles, stats |-> [Unwritten EXCEPT ![0] = stat[0]],
     before |-> NoFiles, stable |-> Unwritten, copied |-> NoFiles]

(* Every capture has a directory of its own; the one before is not looked  *)
(* at any more, and the writes are counted anew.                           *)
BeginCapture ==
    /\ capture = Missing
    /\ stat' = Unwritten
    /\ capture' = [Starting("scan") EXCEPT !.stats = Unwritten]
    /\ instant' = NoFiles /\ snapshot' = Missing /\ attempt' = Missing /\ touches' = 0
    /\ UNCHANGED tree

(* inventory: the directory is listed, and of each file found there first  *)
(* the stat is kept for the comparison at the end ...                      *)
ListFiles ==
    /\ capture # Missing /\ ~capture.listed
    /\ capture' = [capture EXCEPT !.listed = TRUE, !.todo = Present(tree)]
    /\ UNCHANGED <<tree, stat, instant, snapshot, attempt, touches>>

NextFile == Min(capture.todo)

Look ==
    /\ capture # Missing /\ capture.pass \in {"scan", "rescan"}
    /\ capture.todo # {} /\ ~capture.looked
    /\ tree[NextFile] # Missing
    /\ capture' = [capture EXCEPT !.looked = TRUE, !.stats[NextFile] = stat[NextFile]]
    /\ UNCHANGED <<tree, stat, instant, snapshot, attempt, touches>>

(* ... and then the file is read, as it is for the copy, between two more  *)
(* stats that must be equal (file_record).                                 *)
OpenFile ==
    /\ capture # Missing /\ capture.todo # {} /\ capture.opened = Missing
    /\ capture.pass # "copy" => capture.looked
    /\ tree[NextFile] # Missing
    /\ capture' = [capture EXCEPT !.opened = stat[NextFile]]
    /\ UNCHANGED <<tree, stat, instant, snapshot, attempt, touches>>

CloseFile ==
    /\ capture # Missing /\ capture.opened # Missing
    /\ stat[NextFile] = capture.opened
    /\ capture.pass = "copy" => tree[NextFile] = capture.before[NextFile]
    /\ capture' = [capture EXCEPT
           !.files[NextFile] = IF capture.pass = "copy" THEN @ ELSE tree[NextFile],
           !.copied[NextFile] = IF capture.pass = "copy" THEN tree[NextFile] ELSE @,
           !.todo = @ \ {NextFile}, !.looked = FALSE, !.opened = Missing]
    /\ UNCHANGED <<tree, stat, instant, snapshot, attempt, touches>>

Walked == capture # Missing /\ capture.listed /\ capture.todo = {}

(* copy_tree copies what the first scan found.                             *)
StartCopy ==
    /\ Walked /\ capture.pass = "scan"
    /\ capture' = [Starting("copy") EXCEPT
           !.todo = Present(capture.files), !.before = capture.files, !.stable = capture.stats]
    /\ instant' = tree
    /\ UNCHANGED <<tree, stat, snapshot, attempt, touches>>

Rescan ==
    /\ Walked /\ capture.pass = "copy"
    /\ capture' = [Starting("rescan") EXCEPT
           !.before = capture.before, !.stable = capture.stable, !.copied = capture.copied]
    /\ UNCHANGED <<tree, stat, instant, snapshot, attempt, touches>>

(* A plausible bug: a file that was changed and changed back is accepted.  *)
StableByContent == capture.files = capture.before /\ capture.before = capture.copied

(* Nothing was written from the first scan's look at it to the second's.   *)
Stable ==
    /\ capture.files = capture.before /\ capture.before = capture.copied
    /\ capture.stats = capture.stable

(* sealed: the manifest is published, and then its digest.                 *)
PublishSnapshot ==
    /\ Walked /\ capture.pass = "rescan"
    /\ Stable
    /\ snapshot' = [files |-> capture.copied, store |-> capture.copied, sealed |-> FALSE]
    /\ capture' = Starting("seal")
    /\ UNCHANGED <<tree, stat, instant, attempt, touches>>

SealSnapshot ==
    /\ capture # Missing /\ capture.pass = "seal"
    /\ snapshot' = [snapshot EXCEPT !.sealed = TRUE]
    /\ capture' = Missing
    /\ UNCHANGED <<tree, stat, instant, attempt, touches>>

(* A capture that is refused, or dies, leaves its directory behind.        *)
Abandon ==
    /\ capture # Missing
    /\ capture' = Missing
    /\ UNCHANGED <<tree, stat, instant, snapshot, attempt, touches>>

-----------------------------------------------------------------------------
(* load_snapshot and check: the stored copy is what the manifest says.     *)
StoreValid ==
    /\ snapshot # Missing /\ snapshot.sealed
    /\ snapshot.store = snapshot.files

(* verify, up to its first command: a fresh copy, and the stats of it. It  *)
(* may be a new attempt after one that died.                               *)
BeginVerify ==
    /\ StoreValid
    /\ attempt' = [records |-> 0, zeros |-> 0, source |-> snapshot.files,
                   stats |-> Unwritten, unchanged |-> TRUE, after |-> snapshot.files,
                   passed |-> FALSE, logs |-> TRUE, stage |-> "running", disturbed |-> FALSE]
    /\ UNCHANGED <<tree, stat, capture, instant, snapshot, touches>>

Verifying == attempt # Missing /\ attempt.stage = "running"

(* The plan ends after its last command, or the first that failed or       *)
(* changed the copy.                                                       *)
Ended ==
    \/ attempt.records = MaxCommands
    \/ ~attempt.unchanged
    \/ attempt.zeros < attempt.records

(* A plausible bug: the copy's stats are not compared.                     *)
SourceUnchangedInContent == attempt.source = snapshot.files

SourceUnchanged == attempt.source = snapshot.files /\ attempt.stats = Unwritten

(* execute, and the scan of the copy after it; a command exits with zero,  *)
(* or otherwise, or not in time, or does not start.                        *)
RunCommand(zero) ==
    /\ Verifying /\ ~Ended
    /\ attempt' = [attempt EXCEPT
           !.records = @ + 1, !.zeros = @ + (IF zero THEN 1 ELSE 0),
           !.unchanged = @ /\ SourceUnchanged, !.after = attempt.source]
    /\ UNCHANGED <<tree, stat, capture, instant, snapshot, touches>>

(* The verdict, published with the artifacts that were found; the digest   *)
(* follows.                                                                *)
PublishResult(artifacts) ==
    /\ Verifying /\ Ended
    /\ attempt' = [attempt EXCEPT !.stage = "recorded",
           !.passed = /\ attempt.unchanged /\ StoreValid /\ artifacts
                      /\ attempt.records = MaxCommands /\ attempt.zeros = attempt.records]
    /\ UNCHANGED <<tree, stat, capture, instant, snapshot, touches>>

SealResult ==
    /\ attempt # Missing /\ attempt.stage = "recorded"
    /\ attempt' = [attempt EXCEPT !.stage = "sealed"]
    /\ UNCHANGED <<tree, stat, capture, instant, snapshot, touches>>

(* A command, or anyone else, changes the copy, the store or the logs.     *)
TouchCopy(f, content) ==
    /\ attempt # Missing /\ touches < MaxTouches
    /\ attempt' = [attempt EXCEPT !.source[f] = content, !.stats[f] = @ + 1,
                                  !.disturbed = @ \/ (Verifying /\ ~Ended)]
    /\ touches' = touches + 1
    /\ UNCHANGED <<tree, stat, capture, instant, snapshot>>

TouchStore(f, content) ==
    /\ attempt # Missing /\ touches < MaxTouches
    /\ snapshot' = [snapshot EXCEPT !.store[f] = content]
    /\ touches' = touches + 1
    /\ UNCHANGED <<tree, stat, capture, instant, attempt>>

TouchLogs ==
    /\ attempt # Missing /\ touches < MaxTouches
    /\ attempt' = [attempt EXCEPT !.logs = FALSE]
    /\ touches' = touches + 1
    /\ UNCHANGED <<tree, stat, capture, instant, snapshot>>

(* inspect: what is read back passes if both manifests have their digests, *)
(* and the store, the logs and the copy are as they were recorded.         *)
Passes ==
    /\ attempt # Missing /\ attempt.stage = "sealed" /\ attempt.passed
    /\ StoreValid
    /\ attempt.logs /\ attempt.source = attempt.after

DeliveryNext ==
    \/ \E f \in Paths, content \in Contents \cup {Missing} :
           WriteFile(f, content) \/ TouchCopy(f, content) \/ TouchStore(f, content)
    \/ BeginCapture \/ ListFiles \/ Look \/ OpenFile \/ CloseFile \/ StartCopy \/ Rescan
    \/ PublishSnapshot \/ SealSnapshot \/ Abandon
    \/ BeginVerify \/ \E b \in BOOLEAN : RunCommand(b) \/ PublishResult(b)
    \/ SealResult \/ TouchLogs

DeliverySpec == DeliveryInit /\ [][DeliveryNext]_deliveryVars

-----------------------------------------------------------------------------
(* A snapshot that can be used is the tree as it was at one moment, the    *)
(* end of the first scan, whatever was written, rewritten or restored      *)
(* while it was read (capture, sealed).                                    *)
SnapshotIsOneInstant ==
    snapshot # Missing /\ snapshot.sealed => snapshot.files = instant

(* What inspect calls passed did pass: every command of the plan exited    *)
(* with zero, in a copy of the snapshot that nothing wrote to from the     *)
(* first command to the end of the last, also nothing that wrote back what *)
(* was there (verify, inspect).                                            *)
PassIsOfSnapshot ==
    Passes =>
        /\ attempt.zeros = MaxCommands /\ ~attempt.disturbed
        /\ attempt.source = instant /\ snapshot.store = instant
=============================================================================
