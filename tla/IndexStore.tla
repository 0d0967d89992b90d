----------------------------- MODULE IndexStore -----------------------------
(***************************************************************************)
(* How a mutation of the submission index is carried out                   *)
(* (scripts/jobs.py: locked, load, save, register and the shared part of   *)
(* claim and change): a process takes the index's file lock without        *)
(* waiting, binds or loads the job, scans the other jobs when it reserves  *)
(* a target, makes the job's directory and publishes one revision file     *)
(* that must not exist. It may die between any two of these steps, which   *)
(* frees the lock and nothing else.                                        *)
(*                                                                         *)
(* Of a revision's contents only what the scan reads is kept: the target   *)
(* in its resources, whether an attempt was begun and whether it is open.  *)
(***************************************************************************)
EXTENDS Integers, SequencesExt

CONSTANTS
    Processes,     \* controllers
    Indexes,       \* index directories, each with its own lock
    Jobs,
    Targets,
    None,
    MaxRevision,   \* bound: revisions of one job
    MaxCrashes     \* bound: crashes

ASSUME StoreAssumption ==
    None \notin Targets \cup Indexes \cup Processes
        /\ MaxRevision \in Nat /\ MaxCrashes \in Nat

VARIABLES
    binding,     \* binding[j]: the index named in job-index.json, or None
    directory,   \* directory[i]: the jobs that have a directory in index i
    revisions,   \* revisions[i][j]: the contents of its revision files, each a record
                 \* of its target, or None, and of whether it is begun and open
    lock,        \* lock[i]: the process that holds INDEX/.lock, or None
    pc,          \* pc[p]: where p is in its operation: idle, bind, look, load, scan, mkdir,
                 \* publish or reply
    op,          \* op[p]: what p was asked to do: kind, index, job and target
    seen,        \* seen[p]: the revision p last read, and of what
    draft,       \* draft[p]: the revision p is about to publish, and its number
    unscanned,   \* unscanned[p]: the other jobs p has still to look at
    crashes

vars == <<binding, directory, revisions, lock, pc, op, seen, draft, unscanned, crashes>>
disk == <<binding, directory, revisions>>
local == <<op, seen, draft, unscanned, crashes>>

Init ==
    /\ binding = [j \in Jobs |-> None]
    /\ directory = [i \in Indexes |-> {}]
    /\ revisions = [i \in Indexes |-> [j \in Jobs |-> <<>>]]
    /\ lock = [i \in Indexes |-> None]
    /\ pc = [p \in Processes |-> "idle"]
    /\ op = [p \in Processes |-> None]
    /\ seen = [p \in Processes |-> None]
    /\ draft = [p \in Processes |-> None]
    /\ unscanned = [p \in Processes |-> {}]
    /\ crashes = 0

-----------------------------------------------------------------------------
Files(p) == revisions[op[p].index][op[p].job]
Goto(p, step) == pc' = [pc EXCEPT ![p] = step]

(* The operation ends, with or without an effect; the lock is released.    *)
Return(p) ==
    /\ pc' = [pc EXCEPT ![p] = "idle"]
    /\ lock' = [lock EXCEPT ![op[p].index] = None]
    /\ op' = [op EXCEPT ![p] = None]
    /\ draft' = [draft EXCEPT ![p] = None]
    /\ unscanned' = [unscanned EXCEPT ![p] = {}]

(* recover: reads the head without the lock.                               *)
Recover(p, i, j) ==
    /\ pc[p] = "idle"
    /\ revisions[i][j] # <<>>
    /\ seen' = [seen EXCEPT ![p] = [index |-> i, job |-> j, revision |-> Len(revisions[i][j])]]
    /\ UNCHANGED <<disk, lock, pc, op, draft, unscanned, crashes>>

(* A plausible bug: the lock is taken whether or not it is free.           *)
StartUnlocked(p, o, step) ==
    /\ pc[p] = "idle"
    /\ lock' = [lock EXCEPT ![o.index] = p]
    /\ op' = [op EXCEPT ![p] = o]
    /\ Goto(p, step)

(* locked: a busy lock is an error, so the operation does not start.       *)
Start(p, o, step) ==
    /\ pc[p] = "idle"
    /\ lock[o.index] = None
    /\ lock' = [lock EXCEPT ![o.index] = p]
    /\ op' = [op EXCEPT ![p] = o]
    /\ Goto(p, step)

StartRegister(p, i, j, t) ==
    /\ Start(p, [kind |-> "register", index |-> i, job |-> j, target |-> t], "bind")
    /\ UNCHANGED <<disk, seen, draft, unscanned, crashes>>

StartChange(p, kind, t) ==
    /\ seen[p] # None
    /\ seen[p].revision < MaxRevision
    /\ Start(p, [kind |-> kind, index |-> seen[p].index, job |-> seen[p].job, target |-> t],
             "load")
    /\ UNCHANGED <<disk, seen, draft, unscanned, crashes>>

(* A plausible bug: a job bound to another index is registered here too.   *)
BindAnywhere(p) ==
    /\ pc[p] = "bind"
    /\ binding' = IF binding[op[p].job] = None
                    THEN [binding EXCEPT ![op[p].job] = op[p].index] ELSE binding
    /\ Goto(p, "look")
    /\ UNCHANGED <<directory, revisions, lock, local>>

(* register: job-index.json is published once and must name this index.    *)
Bind(p) ==
    /\ pc[p] = "bind"
    /\ IF binding[op[p].job] \in {None, op[p].index}
         THEN /\ binding' = [binding EXCEPT ![op[p].job] = op[p].index]
              /\ Goto(p, "look")
              /\ UNCHANGED <<lock, local>>
         ELSE Return(p) /\ UNCHANGED <<binding, seen, crashes>>
    /\ UNCHANGED <<directory, revisions>>

(* register: a registered job is returned as it is; a directory without    *)
(* revisions is refused.                                                   *)
Look(p) ==
    /\ pc[p] = "look"
    /\ IF Files(p) # <<>>
         THEN /\ seen' = [seen EXCEPT ![p] = [index |-> op[p].index, job |-> op[p].job,
                                              revision |-> Len(Files(p))]]
              /\ Return(p)
       ELSE IF op[p].job \in directory[op[p].index]
         THEN Return(p) /\ UNCHANGED seen
         ELSE /\ draft' = [draft EXCEPT ![p] =
                     [number |-> 1, content |->
                        [target |-> op[p].target, begun |-> FALSE, open |-> TRUE]]]
              /\ Goto(p, "mkdir")
              /\ UNCHANGED <<lock, op, seen, unscanned>>
    /\ UNCHANGED <<disk, crashes>>

(* The revision after the head that was loaded.                            *)
Drafted(p) ==
    LET head == Last(Files(p)) IN
    [number |-> Len(Files(p)) + 1,
     content |-> IF op[p].kind = "begin"
                   THEN [head EXCEPT !.target = op[p].target, !.begun = TRUE]
                   ELSE [head EXCEPT !.open = FALSE]]

(* A plausible bug: the caller's revision is not compared with the head's. *)
LoadAnyRevision(p) ==
    /\ pc[p] = "load"
    /\ IF Last(Files(p)).open
         THEN /\ draft' = [draft EXCEPT ![p] = Drafted(p)]
              /\ unscanned' = [unscanned EXCEPT ![p] =
                     IF op[p].kind = "begin" THEN directory[op[p].index] \ {op[p].job} ELSE {}]
              /\ Goto(p, "scan")
              /\ UNCHANGED <<lock, op>>
         ELSE Return(p)
    /\ UNCHANGED <<disk, seen, crashes>>

(* load and expected: the head must be the revision the caller read, and   *)
(* open. Only begin goes on to look at the other directories.              *)
Load(p) ==
    /\ pc[p] = "load"
    /\ IF Len(Files(p)) = seen[p].revision /\ Last(Files(p)).open
         THEN /\ draft' = [draft EXCEPT ![p] = Drafted(p)]
              /\ unscanned' = [unscanned EXCEPT ![p] =
                     IF op[p].kind = "begin" THEN directory[op[p].index] \ {op[p].job} ELSE {}]
              /\ Goto(p, "scan")
              /\ UNCHANGED <<lock, op>>
         ELSE Return(p)
    /\ UNCHANGED <<disk, seen, crashes>>

(* begin looks at one other job: an unreadable one (no revisions) and an   *)
(* open one that names the target both stop it.                            *)
Scan(p, k) ==
    /\ pc[p] = "scan"
    /\ k \in unscanned[p]
    /\ LET other == revisions[op[p].index][k] IN
       IF other # <<>> /\ (Last(other).open => Last(other).target # op[p].target)
         THEN /\ unscanned' = [unscanned EXCEPT ![p] = @ \ {k}]
              /\ UNCHANGED <<lock, pc, op, draft>>
         ELSE Return(p)
    /\ UNCHANGED <<disk, seen, crashes>>

Scanned(p) ==
    /\ pc[p] = "scan"
    /\ unscanned[p] = {}
    /\ Goto(p, "mkdir")
    /\ UNCHANGED <<disk, lock, local>>

(* save: the directory first (exist_ok), then the revision file.           *)
Mkdir(p) ==
    /\ pc[p] = "mkdir"
    /\ directory' = [directory EXCEPT ![op[p].index] = @ \cup {op[p].job}]
    /\ Goto(p, "publish")
    /\ UNCHANGED <<binding, revisions, lock, local>>

(* protocol.publish of the next revision: os.link fails if the file is     *)
(* there.                                                                  *)
Publish(p) ==
    /\ pc[p] = "publish"
    /\ IF draft[p].number = Len(Files(p)) + 1
         THEN /\ revisions' = [revisions EXCEPT ![op[p].index][op[p].job] =
                                   Append(@, draft[p].content)]
              /\ Goto(p, "reply")
              /\ UNCHANGED <<lock, local>>
         ELSE Return(p) /\ UNCHANGED <<revisions, seen, crashes>>
    /\ UNCHANGED <<binding, directory>>

(* The reply carries the new revision to the caller.                       *)
Reply(p) ==
    /\ pc[p] = "reply"
    /\ seen' = [seen EXCEPT ![p] = [index |-> op[p].index, job |-> op[p].job,
                                    revision |-> Len(Files(p))]]
    /\ Return(p)
    /\ UNCHANGED <<disk, crashes>>

(* A process dies in its operation: the kernel frees the lock, the files   *)
(* stay, what it knew is gone.                                             *)
Crash(p) ==
    /\ pc[p] # "idle"
    /\ crashes < MaxCrashes
    /\ crashes' = crashes + 1
    /\ seen' = [seen EXCEPT ![p] = None]
    /\ Return(p)
    /\ UNCHANGED disk

Next ==
    \E p \in Processes :
        \/ \E i \in Indexes, j \in Jobs : Recover(p, i, j)
        \/ \E i \in Indexes, j \in Jobs, t \in Targets \cup {None} : StartRegister(p, i, j, t)
        \/ \E t \in Targets : StartChange(p, "begin", t)
        \/ StartChange(p, "close", None)
        \/ Bind(p) \/ Look(p) \/ Load(p)
        \/ \E k \in Jobs : Scan(p, k)
        \/ Scanned(p) \/ Mkdir(p) \/ Publish(p) \/ Reply(p) \/ Crash(p)

Spec == Init /\ [][Next]_vars

-----------------------------------------------------------------------------
(* However registrations of one job in several indexes interleave and      *)
(* crash, only one index ever holds revisions of it (register).            *)
SingleAuthority ==
    \A i \in Indexes, j \in Jobs : revisions[i][j] # <<>> => binding[j] = i

(* A revision is only ever committed by a process that had read the one it *)
(* follows, although it read it before it had the lock (expected, save).   *)
NoBlindCommit ==
    [][\A i \in Indexes, j \in Jobs :
           revisions[i][j] # <<>> /\ revisions'[i][j] # revisions[i][j] =>
               \E p \in Processes :
                   /\ lock[i] = p
                   /\ seen[p] = [index |-> i, job |-> j, revision |-> Len(revisions[i][j])]]_vars

(* The revision files are the histories JobLog promises (register, save,   *)
(* begin).                                                                 *)
Promise == INSTANCE JobLog WITH history <- revisions
ImplementsLog == Promise!Spec

(* jobs.py says of a lost registration, or a crash in it, that it can be   *)
(* repeated, and of a job without a revision: "retry registration".        *)
RegistrationRepeatable ==
    \A i \in Indexes, j \in Jobs :
        lock[i] = None /\ binding[j] = i /\ revisions[i][j] = <<>> => j \notin directory[i]
=============================================================================
