-------------------------- MODULE IndexStoreProofs --------------------------
(***************************************************************************)
(* Proofs about IndexStore, for any processes, indexes, jobs, targets and  *)
(* bounds: one authority for a job, no commit on an unread revision, and   *)
(* the refinement of JobLog.                                               *)
(*                                                                         *)
(* The inductive invariant says of every process, by itself, what its      *)
(* operation has established so far (Sound). What a process relies on is   *)
(* either protected by the lock it holds or only ever grows, so a step of  *)
(* another process leaves it alone (OthersStaySound); what is left to      *)
(* prove of an action is what it does to its own process and to the disk.  *)
(***************************************************************************)
EXTENDS IndexStore, TLAPS

Operation == [kind : {"register", "begin", "close"}, index : Indexes, job : Jobs,
              target : Targets \cup {None}]
Reading == [index : Indexes, job : Jobs, revision : Nat]
Draft == [number : Nat, content : Promise!Revision]
Steps == {"idle", "bind", "look", "load", "scan", "mkdir", "publish", "reply"}

StoreTypeOK ==
    /\ binding \in [Jobs -> Indexes \cup {None}]
    /\ directory \in [Indexes -> SUBSET Jobs]
    /\ revisions \in [Indexes -> [Jobs -> Seq(Promise!Revision)]]
    /\ lock \in [Indexes -> Processes \cup {None}]
    /\ pc \in [Processes -> Steps]
    /\ op \in [Processes -> Operation \cup {None}]
    /\ seen \in [Processes -> Reading \cup {None}]
    /\ draft \in [Processes -> Draft \cup {None}]
    /\ unscanned \in [Processes -> SUBSET Jobs]
    /\ crashes \in 0..MaxCrashes

Busy(p) == pc[p] # "idle"

(* A process in an operation holds the lock of the operation's index.      *)
Holding(p) == Busy(p) => op[p] \in Operation /\ lock[op[p].index] = p

(* What was read is there: a history never shrinks.                        *)
SeenIsThere(p) ==
    seen[p] # None =>
        /\ seen[p] \in Reading
        /\ seen[p].revision \in 1..Len(revisions[seen[p].index][seen[p].job])

(* A registration that passed job-index.json is bound to its index, and    *)
(* what it drafts is the first revision.                                   *)
Registering(p) ==
    /\ pc[p] \in {"bind", "look"} => op[p].kind = "register"
    /\ pc[p] \in {"look", "mkdir", "publish"} /\ op[p].kind = "register" =>
           binding[op[p].job] = op[p].index
    /\ pc[p] \in {"mkdir", "publish"} /\ op[p].kind = "register" =>
           /\ Files(p) = <<>>
           /\ draft[p] = [number |-> 1, content |->
                 [target |-> op[p].target, begun |-> FALSE, open |-> TRUE]]
    /\ pc[p] = "reply" => Files(p) # <<>>

(* A change is made of the revision that was read, while it is the head.   *)
Changing(p) ==
    /\ pc[p] \in {"load", "scan"} => op[p].kind # "register"
    /\ Busy(p) /\ op[p].kind = "begin" => op[p].target \in Targets
    /\ Busy(p) /\ op[p].kind # "register" =>
           seen[p] # None /\ seen[p].index = op[p].index /\ seen[p].job = op[p].job
    /\ pc[p] \in {"scan", "mkdir", "publish"} /\ op[p].kind # "register" =>
           /\ Len(Files(p)) = seen[p].revision
           /\ Last(Files(p)).open
           /\ draft[p] = Drafted(p)

(* The jobs a begin has looked at do not occupy its target, nor do those   *)
(* without a directory.                                                    *)
Cleared(p) ==
    pc[p] \in {"scan", "mkdir", "publish"} /\ op[p].kind = "begin" =>
        \A k \in Jobs \ {op[p].job} :
            Promise!Occupies(revisions[op[p].index][k], op[p].target) =>
                pc[p] = "scan" /\ k \in unscanned[p]

(* The directory is there before the revision.                             *)
Placed(p) == pc[p] = "publish" => op[p].job \in directory[op[p].index]

Sound(p) ==
    /\ Holding(p) /\ SeenIsThere(p) /\ Placed(p)
    /\ Registering(p) /\ Changing(p) /\ Cleared(p)

Listed == \A i \in Indexes, j \in Jobs : revisions[i][j] # <<>> => j \in directory[i]

StoreInv ==
    /\ StoreTypeOK /\ Listed /\ SingleAuthority
    /\ \A p \in Processes : Sound(p)

-----------------------------------------------------------------------------
(* The head of a history is one of its revisions.                          *)
LEMMA HeadTyped ==
    ASSUME NEW S, NEW h \in Seq(S), h # <<>>
    PROVE  Last(h) \in S /\ Len(h) \in Nat \ {0}
BY DEF Last

(* After a revision is appended it is the head.                            *)
LEMMA HeadAppended ==
    ASSUME NEW S, NEW h \in Seq(S), NEW r \in S
    PROVE  /\ Append(h, r) \in Seq(S) /\ Append(h, r) # <<>>
           /\ Len(Append(h, r)) = Len(h) + 1
           /\ Last(Append(h, r)) = r
BY DEF Last

(* A begin or close drafts a revision of the next number.                  *)
LEMMA DraftedTyped ==
    ASSUME StoreTypeOK, NEW p \in Processes, op[p] \in Operation, Files(p) # <<>>,
           op[p].kind = "begin" => op[p].target \in Targets
    PROVE  Drafted(p) \in Draft
<1>1. Files(p) \in Seq(Promise!Revision)
  BY DEF StoreTypeOK, Files, Operation
<1>2. Last(Files(p)) \in Promise!Revision /\ Len(Files(p)) \in Nat
  BY <1>1, HeadTyped
<1> DEFINE head == Last(Files(p))
<1>3. /\ [head EXCEPT !.open = FALSE] \in Promise!Revision
      /\ \A t \in Targets : [head EXCEPT !.target = t, !.begun = TRUE] \in Promise!Revision
  BY <1>2 DEF Promise!Revision
<1>4. Drafted(p).content \in Promise!Revision /\ Drafted(p).number = Len(Files(p)) + 1
  BY <1>3 DEF Drafted
<1>5. Drafted(p) = [number |-> Drafted(p).number, content |-> Drafted(p).content]
  BY DEF Drafted
<1>6. QED
  BY <1>2, <1>4, <1>5 DEF Draft

(* Two processes in operations work on different indexes.                  *)
LEMMA Exclusive ==
    ASSUME NEW p \in Processes, NEW q \in Processes, p # q,
           Sound(p), Sound(q), Busy(p), Busy(q)
    PROVE  op[p].index # op[q].index
BY DEF Sound, Holding

-----------------------------------------------------------------------------
(* What a step leaves alone of another process and of what its lock        *)
(* protects.                                                               *)
Untouched(q) ==
    /\ pc'[q] = pc[q] /\ op'[q] = op[q] /\ seen'[q] = seen[q]
    /\ draft'[q] = draft[q] /\ unscanned'[q] = unscanned[q]
    /\ Busy(q) =>
         LET i == op[q].index IN
         /\ lock'[i] = lock[i] /\ directory'[i] = directory[i] /\ revisions'[i] = revisions[i]
         /\ binding[op[q].job] = i => binding'[op[q].job] = i

Grows == \A i \in Indexes, j \in Jobs :
            revisions[i][j] # <<>> => /\ revisions'[i][j] # <<>>
                                      /\ Len(revisions'[i][j]) >= Len(revisions[i][j])

(* A process keeps what it has established while others work.              *)
LEMMA OthersStaySound ==
    ASSUME StoreTypeOK, StoreTypeOK', NEW q \in Processes, Sound(q), Untouched(q), Grows
    PROVE  Sound(q)'
<1> DEFINE i == op[q].index
           j == op[q].job
<1>1. ASSUME Busy(q) PROVE Files(q)' = Files(q) /\ Drafted(q)' = Drafted(q)
  BY <1>1 DEF Untouched, Files, Drafted
<1>2. Busy(q)' <=> Busy(q)
  BY DEF Busy, Untouched
<1>3. Holding(q)'
  BY <1>2 DEF Sound, Holding, Untouched
<1>4. SeenIsThere(q)'
  <2>1. SUFFICES ASSUME seen[q] # None
                 PROVE  seen[q].revision \in 1..Len(revisions'[seen[q].index][seen[q].job])
    BY DEF Untouched, SeenIsThere, Sound
  <2>2. /\ seen[q] \in Reading
        /\ seen[q].revision \in 1..Len(revisions[seen[q].index][seen[q].job])
    BY <2>1 DEF Sound, SeenIsThere
  <2>3. /\ revisions[seen[q].index][seen[q].job] \in Seq(Promise!Revision)
        /\ revisions'[seen[q].index][seen[q].job] \in Seq(Promise!Revision)
    BY <2>2 DEF StoreTypeOK, Reading
  <2>4. /\ revisions[seen[q].index][seen[q].job] # <<>>
        /\ seen[q].index \in Indexes /\ seen[q].job \in Jobs
    BY <2>2, <2>3 DEF Reading
  <2>5. Len(revisions'[seen[q].index][seen[q].job]) >= Len(revisions[seen[q].index][seen[q].job])
    BY <2>4 DEF Grows
  <2> DEFINE old == Len(revisions[seen[q].index][seen[q].job])
             new == Len(revisions'[seen[q].index][seen[q].job])
  <2>6. old \in Nat
    BY <2>3, SMTT(30)
  <2>7. new \in Nat
    BY <2>3, SMTT(30)
  <2>8. new >= old
    BY <2>5
  <2>9. seen[q].revision \in 1..old
    BY <2>2
  <2> HIDE DEF old, new
  <2>10. seen[q].revision \in 1..new
    BY <2>6, <2>7, <2>8, <2>9
  <2>11. QED
    BY <2>10 DEF new
<1>5. Placed(q)'
  BY DEF Sound, Placed, Untouched, Busy
<1>6. Registering(q)'
  BY <1>1, <1>2 DEF Sound, Registering, Untouched, Busy
<1>7. Changing(q)'
  BY <1>1, <1>2 DEF Sound, Changing, Untouched, Busy
<1>8. Cleared(q)'
  BY DEF Sound, Cleared, Untouched, Busy
<1> QED
  BY <1>3, <1>4, <1>5, <1>6, <1>7, <1>8 DEF Sound

(* A process that is done has only what it read to answer for.             *)
LEMMA IdleIsSound ==
    ASSUME NEW p \in Processes, pc'[p] = "idle", SeenIsThere(p)'
    PROVE  Sound(p)'
BY DEF Sound, Holding, Placed, Registering, Changing, Cleared, Busy

(* What is left to prove of a step: its own process, and the disk.         *)
LEMMA StepKeeps ==
    ASSUME StoreInv, NEW p \in Processes, StoreTypeOK', Listed', SingleAuthority', Grows,
           Sound(p)', \A q \in Processes \ {p} : Untouched(q)
    PROVE  StoreInv'
BY OthersStaySound DEF StoreInv

(* A step that leaves the disk alone.                                      *)
LEMMA DiskKept ==
    ASSUME StoreInv, UNCHANGED disk
    PROVE  Listed' /\ SingleAuthority' /\ Grows
<1>1. \A i \in Indexes, j \in Jobs : Len(revisions[i][j]) \in Nat
  BY DEF StoreInv, StoreTypeOK
<1>2. QED
  BY <1>1 DEF StoreInv, disk, Listed, SingleAuthority, Grows

(* An operation that ends and has published nothing.                       *)
LEMMA ReturnKeeps ==
    ASSUME StoreInv, NEW p \in Processes, Busy(p), Return(p), UNCHANGED disk,
           crashes' \in 0..MaxCrashes, seen' \in [Processes -> Reading \cup {None}],
           \A q \in Processes \ {p} : seen'[q] = seen[q],
           SeenIsThere(p)'
    PROVE  StoreInv'
<1>1. op[p] \in Operation
  BY DEF StoreInv, Sound, Holding
<1>2. StoreTypeOK'
  BY <1>1 DEF StoreInv, StoreTypeOK, Return, disk, Operation, Steps
<1>3. Listed' /\ SingleAuthority' /\ Grows
  BY DiskKept
<1>4. ASSUME NEW q \in Processes \ {p} PROVE Untouched(q)
  <2>1. Busy(q) => op[p].index # op[q].index
    BY Exclusive DEF StoreInv
  <2>2. Busy(q) => lock'[op[q].index] = lock[op[q].index]
    BY <2>1, <1>1 DEF StoreInv, StoreTypeOK, Return, Sound, Holding, Operation
  <2>3. QED
    BY <2>2 DEF Untouched, Return, disk, StoreInv, StoreTypeOK
<1>5. Sound(p)'
  <2>1. pc'[p] = "idle"
    BY DEF Return, StoreInv, StoreTypeOK
  <2>2. QED
    BY <2>1, IdleIsSound
<1>6. QED
  BY <1>2, <1>3, <1>4, <1>5, StepKeeps

(* An operation that ends and has learned nothing.                         *)
LEMMA QuitKeeps ==
    ASSUME StoreInv, NEW p \in Processes, Busy(p), Return(p), UNCHANGED <<disk, seen, crashes>>
    PROVE  StoreInv'
<1>1. SeenIsThere(p)'
  BY DEF StoreInv, Sound, SeenIsThere, disk
<1>2. QED
  BY <1>1, ReturnKeeps DEF StoreInv, StoreTypeOK

(* A step of the operation of a process that keeps the lock and the disk.  *)
LEMMA WorkKeeps ==
    ASSUME StoreInv, NEW p \in Processes, UNCHANGED <<disk, lock, op, seen, crashes>>,
           StoreTypeOK', Sound(p)',
           \A q \in Processes \ {p} : /\ pc'[q] = pc[q] /\ draft'[q] = draft[q]
                                      /\ unscanned'[q] = unscanned[q]
    PROVE  StoreInv'
<1>1. Listed' /\ SingleAuthority' /\ Grows
  BY DiskKept
<1>2. \A q \in Processes \ {p} : Untouched(q)
  BY DEF Untouched, disk
<1>3. QED
  BY <1>1, <1>2, StepKeeps

-----------------------------------------------------------------------------
(* A recovery notes the head that is there.                                *)
LEMMA RecoverKeeps ==
    ASSUME StoreInv, NEW p \in Processes, NEW i \in Indexes, NEW j \in Jobs, Recover(p, i, j)
    PROVE  StoreInv'
<1>1. revisions[i][j] \in Seq(Promise!Revision) /\ revisions[i][j] # <<>>
  BY DEF StoreInv, StoreTypeOK, Recover
<1>2. Len(revisions[i][j]) \in Nat \ {0}
  BY <1>1
<1>3. seen'[p] \in Reading /\ SeenIsThere(p)'
  BY <1>2 DEF Recover, disk, SeenIsThere, Reading, StoreInv, StoreTypeOK
<1>4. StoreTypeOK'
  BY <1>2, <1>3 DEF StoreInv, StoreTypeOK, Recover, disk, Reading
<1>5. Listed' /\ SingleAuthority' /\ Grows
  BY DiskKept DEF Recover
<1>6. \A q \in Processes \ {p} : Untouched(q)
  BY DEF Recover, Untouched, disk, StoreInv, StoreTypeOK
<1>7. Sound(p)'
  <2>1. pc'[p] = "idle"
    BY DEF Recover
  <2>2. QED
    BY <1>3, <2>1, IdleIsSound
<1>8. QED
  BY <1>4, <1>5, <1>6, <1>7, StepKeeps

(* An operation starts with the lock and with what the process has read.   *)
LEMMA StartKeeps ==
    ASSUME StoreInv, NEW p \in Processes, NEW o \in Operation, NEW step \in {"bind", "load"},
           Start(p, o, step), UNCHANGED <<disk, seen, draft, unscanned, crashes>>,
           step = "bind" => o.kind = "register",
           step = "load" =>
               /\ o.kind # "register" /\ (o.kind = "begin" => o.target \in Targets)
               /\ seen[p] # None /\ seen[p].index = o.index /\ seen[p].job = o.job
    PROVE  StoreInv'
<1> USE StoreAssumption
<1>1. /\ pc'[p] = step /\ op'[p] = o /\ lock'[o.index] = p /\ o.index \in Indexes
      /\ lock[o.index] = None /\ lock' = [lock EXCEPT ![o.index] = p]
      /\ pc' = [pc EXCEPT ![p] = step] /\ op' = [op EXCEPT ![p] = o]
  BY DEF Start, Goto, StoreInv, StoreTypeOK, Operation
<1>2. StoreTypeOK'
  BY <1>1 DEF StoreInv, StoreTypeOK, disk, Steps
<1>3. Listed' /\ SingleAuthority' /\ Grows
  BY DiskKept
<1>4. ASSUME NEW q \in Processes \ {p} PROVE Untouched(q)
  <2>1. Busy(q) => op[q].index # o.index
    BY <1>1 DEF StoreInv, Sound, Holding
  <2>2. Busy(q) => lock'[op[q].index] = lock[op[q].index]
    BY <2>1, <1>1
  <2>3. QED
    BY <2>2, <1>1 DEF Untouched, disk, StoreInv, StoreTypeOK
<1>5. Holding(p)' /\ Placed(p)' /\ Cleared(p)' /\ Registering(p)' /\ Changing(p)'
  BY <1>1 DEF Holding, Placed, Cleared, Registering, Changing, Busy
<1>6. SeenIsThere(p)'
  BY DEF StoreInv, Sound, SeenIsThere, disk
<1>7. QED
  BY <1>2, <1>3, <1>4, <1>5, <1>6, StepKeeps DEF Sound

(* A registration asks for nothing but a free lock.                        *)
LEMMA RegisterKeeps ==
    ASSUME StoreInv, NEW p \in Processes, NEW i \in Indexes, NEW j \in Jobs,
           NEW t \in Targets \cup {None}, StartRegister(p, i, j, t)
    PROVE  StoreInv'
<1> DEFINE o == [kind |-> "register", index |-> i, job |-> j, target |-> t]
<1>1. o \in Operation
  BY DEF Operation
<1>2. QED
  BY <1>1, StartKeeps DEF StartRegister

(* A change is of the job that was read.                                   *)
LEMMA ChangeKeeps ==
    ASSUME StoreInv, NEW p \in Processes, NEW kind \in {"begin", "close"},
           NEW t \in Targets \cup {None}, kind = "begin" => t \in Targets,
           StartChange(p, kind, t)
    PROVE  StoreInv'
<1> DEFINE o == [kind |-> kind, index |-> seen[p].index, job |-> seen[p].job, target |-> t]
<1>1. seen[p] \in Reading
  BY DEF StoreInv, StoreTypeOK, StartChange
<1>2. o \in Operation
  BY <1>1 DEF Operation, Reading
<1>3. QED
  BY <1>2, StartKeeps DEF StartChange

(* The binding of a job is set once, and then names the index of whoever   *)
(* goes on.                                                                *)
LEMMA BindKeeps ==
    ASSUME StoreInv, NEW p \in Processes, Bind(p)
    PROVE  StoreInv'
<1> USE StoreAssumption
<1>1. /\ op[p] \in Operation /\ op[p].kind = "register" /\ Busy(p)
      /\ op[p].index \in Indexes /\ op[p].job \in Jobs
  BY DEF StoreInv, Sound, Holding, Registering, Bind, Busy, Operation
<1>2. CASE binding[op[p].job] \notin {None, op[p].index}
  BY <1>1, <1>2, QuitKeeps DEF Bind, disk
<1>3. CASE binding[op[p].job] \in {None, op[p].index}
  <2>1. /\ binding' = [binding EXCEPT ![op[p].job] = op[p].index]
        /\ pc' = [pc EXCEPT ![p] = "look"]
        /\ UNCHANGED <<directory, revisions, lock, op, seen, draft, unscanned, crashes>>
    BY <1>3 DEF Bind, Goto, local
  <2>2. /\ pc'[p] = "look" /\ binding'[op[p].job] = op[p].index
        /\ \A j \in Jobs, i \in Indexes : binding[j] = i => binding'[j] = i
    BY <1>1, <1>3, <2>1 DEF StoreInv, StoreTypeOK
  <2>3. StoreTypeOK'
    BY <1>1, <2>1 DEF StoreInv, StoreTypeOK, Steps
  <2>4. Listed' /\ SingleAuthority'
    BY <2>1, <2>2 DEF StoreInv, Listed, SingleAuthority
  <2>5. Grows
    BY <2>1 DEF Grows, StoreInv, StoreTypeOK
  <2>6. \A q \in Processes \ {p} : Untouched(q)
    <3> TAKE q \in Processes \ {p}
    <3>1. Busy(q) => op[q].index \in Indexes /\ op[q].job \in Jobs
      BY DEF StoreInv, Sound, Holding, Operation
    <3>2. QED
      BY <2>1, <2>2, <3>1 DEF Untouched, StoreInv, StoreTypeOK
  <2>7. Sound(p)'
    <3>1. Holding(p)' /\ SeenIsThere(p)'
      BY <1>1, <2>1 DEF StoreInv, Sound, Holding, SeenIsThere, Busy
    <3>2. Placed(p)' /\ Registering(p)' /\ Changing(p)' /\ Cleared(p)'
      BY <1>1, <2>1, <2>2 DEF Placed, Registering, Changing, Cleared, Busy
    <3>3. QED
      BY <3>1, <3>2 DEF Sound
  <2>8. QED
    BY <2>3, <2>4, <2>5, <2>6, <2>7, StepKeeps
<1>4. QED
  BY <1>2, <1>3

(* A registration drafts the first revision of an unknown job.             *)
LEMMA LookKeeps ==
    ASSUME StoreInv, NEW p \in Processes, Look(p)
    PROVE  StoreInv'
<1>1. /\ op[p] \in Operation /\ op[p].kind = "register" /\ Busy(p)
      /\ op[p].index \in Indexes /\ op[p].job \in Jobs /\ binding[op[p].job] = op[p].index
  BY DEF StoreInv, Sound, Holding, Registering, Look, Busy, Operation
<1>2. Files(p) \in Seq(Promise!Revision)
  BY <1>1 DEF StoreInv, StoreTypeOK, Files
<1>3. CASE Files(p) # <<>>
  <2> DEFINE read == [index |-> op[p].index, job |-> op[p].job, revision |-> Len(Files(p))]
  <2>1. Len(Files(p)) \in Nat \ {0}
    BY <1>2, <1>3
  <2>2. seen' = [seen EXCEPT ![p] = read] /\ Return(p) /\ UNCHANGED <<disk, crashes>>
    BY <1>3 DEF Look
  <2>3. read \in Reading
    BY <1>1, <2>1 DEF Reading
  <2>4. seen' \in [Processes -> Reading \cup {None}] /\ seen'[p] = read
    BY <2>2, <2>3 DEF StoreInv, StoreTypeOK
  <2>5. SeenIsThere(p)'
    BY <2>1, <2>2, <2>3, <2>4 DEF SeenIsThere, Files, disk
  <2>6. QED
    BY <1>1, <2>2, <2>4, <2>5, ReturnKeeps DEF StoreInv, StoreTypeOK
<1>4. CASE Files(p) = <<>> /\ op[p].job \in directory[op[p].index]
  BY <1>1, <1>4, QuitKeeps DEF Look
<1>5. CASE Files(p) = <<>> /\ op[p].job \notin directory[op[p].index]
  <2> DEFINE first == [number |-> 1, content |->
                         [target |-> op[p].target, begun |-> FALSE, open |-> TRUE]]
  <2>1. /\ draft' = [draft EXCEPT ![p] = first] /\ pc' = [pc EXCEPT ![p] = "mkdir"]
        /\ UNCHANGED <<disk, lock, op, seen, unscanned, crashes>>
    BY <1>5 DEF Look, Goto
  <2>2. first \in Draft
    BY <1>1 DEF Draft, Promise!Revision, Operation
  <2>3. StoreTypeOK' /\ draft'[p] = first /\ pc'[p] = "mkdir"
    BY <2>1, <2>2 DEF StoreInv, StoreTypeOK, disk, Steps
  <2>4. Sound(p)'
    <3>1. Holding(p)' /\ SeenIsThere(p)'
      BY <1>1, <2>1 DEF StoreInv, Sound, Holding, SeenIsThere, Busy, disk
    <3>2. Placed(p)' /\ Registering(p)' /\ Changing(p)' /\ Cleared(p)'
      BY <1>1, <1>5, <2>1, <2>3 DEF Placed, Registering, Changing, Cleared, Busy, Files, disk
    <3>3. QED
      BY <3>1, <3>2 DEF Sound
  <2>5. QED
    BY <2>1, <2>3, <2>4, WorkKeeps DEF StoreInv, StoreTypeOK
<1>6. QED
  BY <1>3, <1>4, <1>5

(* What a process that has begun a change knows of its job: the head it    *)
(* read is there.                                                          *)
LEMMA ChangeKnows ==
    ASSUME StoreInv, NEW p \in Processes, Busy(p), op[p].kind # "register"
    PROVE  /\ op[p] \in Operation /\ op[p].index \in Indexes /\ op[p].job \in Jobs
           /\ op[p].kind \in {"begin", "close"}
           /\ Files(p) \in Seq(Promise!Revision) /\ Files(p) # <<>>
           /\ Drafted(p) \in Draft
           /\ seen[p] \in Reading /\ seen[p].index = op[p].index /\ seen[p].job = op[p].job
           /\ binding[op[p].job] = op[p].index
<1>1. /\ op[p] \in Operation /\ op[p].index \in Indexes /\ op[p].job \in Jobs
      /\ op[p].kind \in {"begin", "close"}
  BY DEF StoreInv, Sound, Holding, Operation
<1>2. /\ seen[p] \in Reading /\ seen[p].index = op[p].index /\ seen[p].job = op[p].job
      /\ seen[p].revision \in 1..Len(Files(p))
      /\ op[p].kind = "begin" => op[p].target \in Targets
  BY DEF StoreInv, Sound, Changing, SeenIsThere, Files
<1>3. Files(p) \in Seq(Promise!Revision)
  BY <1>1 DEF StoreInv, StoreTypeOK, Files
<1>4. Files(p) # <<>>
  BY <1>2, <1>3
<1>5. Drafted(p) \in Draft
  BY <1>1, <1>2, <1>4, DraftedTyped DEF StoreInv
<1>6. binding[op[p].job] = op[p].index
  BY <1>1, <1>4 DEF StoreInv, SingleAuthority, Files
<1>7. QED
  BY <1>1, <1>2, <1>3, <1>4, <1>5, <1>6

(* A change drafts the revision after the head that it read.               *)
LEMMA LoadKeeps ==
    ASSUME StoreInv, NEW p \in Processes, Load(p)
    PROVE  StoreInv'
<1>1. Busy(p) /\ op[p].kind # "register"
  BY DEF StoreInv, Sound, Changing, Load, Busy
<1> DEFINE goes == Len(Files(p)) = seen[p].revision /\ Last(Files(p)).open
           others == IF op[p].kind = "begin" THEN directory[op[p].index] \ {op[p].job} ELSE {}
<1>2. CASE ~ goes
  BY <1>1, <1>2, QuitKeeps DEF Load
<1>3. CASE goes
  <2>1. /\ draft' = [draft EXCEPT ![p] = Drafted(p)] /\ pc' = [pc EXCEPT ![p] = "scan"]
        /\ unscanned' = [unscanned EXCEPT ![p] = others]
        /\ UNCHANGED <<disk, lock, op, seen, crashes>>
    BY <1>3 DEF Load, Goto
  <2>2. /\ op[p] \in Operation /\ op[p].index \in Indexes /\ op[p].job \in Jobs
        /\ Drafted(p) \in Draft
    BY <1>1, ChangeKnows
  <2>3. others \in SUBSET Jobs
    BY <2>2 DEF StoreInv, StoreTypeOK
  <2>4. /\ StoreTypeOK' /\ draft'[p] = Drafted(p) /\ pc'[p] = "scan"
        /\ unscanned'[p] = others
    BY <2>1, <2>2, <2>3 DEF StoreInv, StoreTypeOK, disk, Steps
  <2>5. Files(p)' = Files(p) /\ Drafted(p)' = Drafted(p)
    BY <2>1 DEF Files, Drafted, disk
  <2>6. Holding(p)' /\ SeenIsThere(p)'
    BY <1>1, <2>1 DEF StoreInv, Sound, Holding, SeenIsThere, Busy, disk
  <2>7. Placed(p)' /\ Registering(p)'
    BY <1>1, <2>1, <2>4 DEF Placed, Registering
  <2>8. Changing(p)'
    BY <1>1, <1>3, <2>1, <2>4, <2>5 DEF Changing, Busy, StoreInv, Sound
  <2>9. Cleared(p)'
    <3>1. ASSUME op[p].kind = "begin", NEW k \in Jobs \ {op[p].job},
                 Promise!Occupies(revisions[op[p].index][k], op[p].target)
          PROVE  k \in unscanned'[p]
      <4>1. revisions[op[p].index][k] # <<>>
        BY <3>1 DEF Promise!Occupies, Promise!Active
      <4>2. QED
        BY <3>1, <4>1, <2>2, <2>4 DEF StoreInv, Listed
    <3>2. QED
      BY <2>1, <2>4, <3>1 DEF Cleared, disk
  <2>10. QED
    BY <2>1, <2>4, <2>6, <2>7, <2>8, <2>9, WorkKeeps DEF Sound, StoreInv, StoreTypeOK
<1>4. QED
  BY <1>2, <1>3

(* Another job is found not to occupy the target.                          *)
LEMMA ScanKeeps ==
    ASSUME StoreInv, NEW p \in Processes, NEW k \in Jobs, Scan(p, k)
    PROVE  StoreInv'
<1>1. Busy(p) /\ op[p].kind # "register" /\ pc[p] = "scan"
  BY DEF StoreInv, Sound, Changing, Scan, Busy
<1> DEFINE other == revisions[op[p].index][k]
           goes == other # <<>> /\ (Last(other).open => Last(other).target # op[p].target)
<1>2. CASE ~ goes
  BY <1>1, <1>2, QuitKeeps DEF Scan
<1>3. CASE goes
  <2>1. /\ unscanned' = [unscanned EXCEPT ![p] = @ \ {k}]
        /\ UNCHANGED <<disk, lock, pc, op, draft, seen, crashes>>
    BY <1>3 DEF Scan
  <2>2. StoreTypeOK' /\ unscanned'[p] = unscanned[p] \ {k}
    BY <2>1 DEF StoreInv, StoreTypeOK, disk
  <2>3. Files(p)' = Files(p) /\ Drafted(p)' = Drafted(p)
    BY <2>1 DEF Files, Drafted, disk
  <2>4. Holding(p)' /\ SeenIsThere(p)' /\ Placed(p)' /\ Registering(p)' /\ Changing(p)'
    BY <2>1, <2>3 DEF StoreInv, Sound, Holding, SeenIsThere, Placed, Registering, Changing,
                      Busy, disk
  <2>5. ~ Promise!Occupies(other, op[p].target)
    BY <1>3 DEF Promise!Occupies, Promise!Active, Promise!Last, Last
  <2>6. Cleared(p)'
    <3>1. ASSUME op[p].kind = "begin", NEW l \in Jobs \ {op[p].job},
                 Promise!Occupies(revisions[op[p].index][l], op[p].target)
          PROVE  l \in unscanned'[p]
      <4>1. l \in unscanned[p]
        BY <1>1, <3>1 DEF Cleared, StoreInv, Sound
      <4>2. l # k
        BY <2>5, <3>1
      <4>3. QED
        BY <2>2, <4>1, <4>2
    <3>2. QED
      BY <1>1, <2>1, <3>1 DEF Cleared, disk
  <2>7. QED
    BY <2>1, <2>2, <2>4, <2>6, WorkKeeps DEF Sound, StoreInv, StoreTypeOK
<1>4. QED
  BY <1>2, <1>3

(* With nothing left to look at, no other job occupies the target.         *)
LEMMA ScannedKeeps ==
    ASSUME StoreInv, NEW p \in Processes, Scanned(p)
    PROVE  StoreInv'
<1>1. /\ Busy(p) /\ op[p].kind # "register" /\ pc[p] = "scan"
      /\ unscanned[p] = {} /\ pc' = [pc EXCEPT ![p] = "mkdir"]
      /\ UNCHANGED <<disk, lock, op, seen, draft, unscanned, crashes>>
  BY DEF StoreInv, Sound, Changing, Scanned, Busy, Goto, local
<1>2. StoreTypeOK' /\ pc'[p] = "mkdir"
  BY <1>1 DEF StoreInv, StoreTypeOK, disk, Steps
<1>3. Files(p)' = Files(p) /\ Drafted(p)' = Drafted(p)
  BY <1>1 DEF Files, Drafted, disk
<1>4. Holding(p)' /\ SeenIsThere(p)' /\ Placed(p)' /\ Registering(p)' /\ Changing(p)'
  BY <1>1, <1>2, <1>3 DEF StoreInv, Sound, Holding, SeenIsThere, Placed, Registering, Changing,
                          Busy, disk
<1>5. Cleared(p)'
  BY <1>1, <1>2 DEF Cleared, StoreInv, Sound, disk
<1>6. QED
  BY <1>1, <1>2, <1>4, <1>5, WorkKeeps DEF Sound, StoreInv, StoreTypeOK

(* The directory is there before the revision.                             *)
LEMMA MkdirKeeps ==
    ASSUME StoreInv, NEW p \in Processes, Mkdir(p)
    PROVE  StoreInv'
<1>1. /\ Busy(p) /\ pc[p] = "mkdir" /\ pc' = [pc EXCEPT ![p] = "publish"]
      /\ directory' = [directory EXCEPT ![op[p].index] = @ \cup {op[p].job}]
      /\ UNCHANGED <<binding, revisions, lock, op, seen, draft, unscanned, crashes>>
  BY DEF Mkdir, Busy, Goto, local
<1>2. op[p] \in Operation /\ op[p].index \in Indexes /\ op[p].job \in Jobs
  BY <1>1 DEF StoreInv, Sound, Holding, Operation
<1>3. /\ StoreTypeOK' /\ pc'[p] = "publish" /\ op[p].job \in directory'[op[p].index]
      /\ \A i \in Indexes : directory[i] \subseteq directory'[i]
  BY <1>1, <1>2 DEF StoreInv, StoreTypeOK, Steps
<1>4. Listed' /\ SingleAuthority'
  BY <1>1, <1>3 DEF StoreInv, Listed, SingleAuthority
<1>5. Grows
  BY <1>1 DEF Grows, StoreInv, StoreTypeOK
<1>6. ASSUME NEW q \in Processes \ {p} PROVE Untouched(q)
  <2>1. Busy(q) => op[p].index # op[q].index
    BY <1>1, Exclusive DEF StoreInv
  <2>2. Busy(q) => op[q].index \in Indexes
    BY DEF StoreInv, Sound, Holding, Operation
  <2>3. Busy(q) => directory'[op[q].index] = directory[op[q].index]
    BY <1>1, <1>2, <2>1, <2>2 DEF StoreInv, StoreTypeOK
  <2>4. QED
    BY <1>1, <2>3 DEF Untouched, StoreInv, StoreTypeOK
<1>7. Files(p)' = Files(p) /\ Drafted(p)' = Drafted(p)
  BY <1>1 DEF Files, Drafted
<1>8. Holding(p)' /\ SeenIsThere(p)' /\ Registering(p)' /\ Changing(p)'
  BY <1>1, <1>3, <1>7 DEF StoreInv, Sound, Holding, SeenIsThere, Registering, Changing, Busy
<1>9. Placed(p)' /\ Cleared(p)'
  BY <1>1, <1>3 DEF StoreInv, Sound, Placed, Cleared
<1>10. QED
  BY <1>3, <1>4, <1>5, <1>6, <1>8, <1>9, StepKeeps DEF Sound

(* What is about to be published: of a registration the first revision of  *)
(* the job, of a change the one made of the head.                          *)
LEMMA PublisherKnows ==
    ASSUME StoreInv, NEW p \in Processes, pc[p] = "publish"
    PROVE  /\ op[p] \in Operation /\ op[p].index \in Indexes /\ op[p].job \in Jobs
           /\ binding[op[p].job] = op[p].index
           /\ draft[p].number = Len(Files(p)) + 1
           /\ draft[p].content \in Promise!Revision
           /\ Files(p) \in Seq(Promise!Revision)
<1>1. op[p] \in Operation /\ op[p].index \in Indexes /\ op[p].job \in Jobs
  BY DEF StoreInv, Sound, Holding, Busy, Operation
<1>2. Files(p) \in Seq(Promise!Revision)
  BY <1>1 DEF StoreInv, StoreTypeOK, Files
<1>3. CASE op[p].kind = "register"
  <2>1. /\ binding[op[p].job] = op[p].index /\ Files(p) = <<>>
        /\ draft[p] = [number |-> 1, content |->
                 [target |-> op[p].target, begun |-> FALSE, open |-> TRUE]]
    BY <1>3 DEF StoreInv, Sound, Registering
  <2>2. draft[p].content \in Promise!Revision
    BY <1>1, <2>1 DEF Promise!Revision, Operation
  <2>3. QED
    BY <1>1, <1>2, <2>1, <2>2
<1>4. CASE op[p].kind # "register"
  <2>1. draft[p] = Drafted(p)
    BY <1>4 DEF StoreInv, Sound, Changing
  <2>2. Drafted(p) \in Draft /\ binding[op[p].job] = op[p].index
    BY <1>4, ChangeKnows DEF Busy
  <2>3. Drafted(p).content \in Promise!Revision /\ Drafted(p).number = Len(Files(p)) + 1
    BY <2>2 DEF Draft, Drafted
  <2>4. QED
    BY <1>1, <1>2, <2>1, <2>2, <2>3
<1>5. QED
  BY <1>3, <1>4

(* The file of the next revision is never there: a publication succeeds.   *)
LEMMA PublishAppends ==
    ASSUME StoreInv, NEW p \in Processes, Publish(p)
    PROVE  /\ revisions' = [revisions EXCEPT ![op[p].index][op[p].job] =
                                Append(@, draft[p].content)]
           /\ pc' = [pc EXCEPT ![p] = "reply"]
           /\ UNCHANGED <<binding, directory, lock, op, seen, draft, unscanned, crashes>>
<1>1. draft[p].number = Len(Files(p)) + 1
  BY PublisherKnows DEF Publish
<1>2. QED
  BY <1>1 DEF Publish, Goto, local

(* The drafted revision becomes the head of its job.                       *)
LEMMA PublishKeeps ==
    ASSUME StoreInv, NEW p \in Processes, Publish(p)
    PROVE  StoreInv'
<1> DEFINE i == op[p].index
           j == op[p].job
           new == draft[p].content
<1>1. /\ pc[p] = "publish" /\ Busy(p) /\ pc' = [pc EXCEPT ![p] = "reply"]
      /\ revisions' = [revisions EXCEPT ![i][j] = Append(@, new)]
      /\ UNCHANGED <<binding, directory, lock, op, seen, draft, unscanned, crashes>>
  BY PublishAppends DEF Publish, Busy
<1>2. /\ op[p] \in Operation /\ i \in Indexes /\ j \in Jobs /\ binding[j] = i
      /\ new \in Promise!Revision /\ revisions[i][j] \in Seq(Promise!Revision)
  BY <1>1, PublisherKnows DEF Files
<1>3. /\ Append(revisions[i][j], new) \in Seq(Promise!Revision)
      /\ Append(revisions[i][j], new) # <<>>
      /\ Len(Append(revisions[i][j], new)) = Len(revisions[i][j]) + 1
  BY <1>2, HeadAppended
<1>4. /\ revisions' \in [Indexes -> [Jobs -> Seq(Promise!Revision)]]
      /\ revisions'[i][j] = Append(revisions[i][j], new)
      /\ \A k \in Indexes : k # i => revisions'[k] = revisions[k]
      /\ \A k \in Jobs : k # j => revisions'[i][k] = revisions[i][k]
  BY <1>1, <1>2, <1>3 DEF StoreInv, StoreTypeOK
<1> HIDE DEF i, j, new
<1>5. StoreTypeOK'
  <2>1. pc' \in [Processes -> Steps]
    BY <1>1 DEF StoreInv, StoreTypeOK, Steps
  <2>2. QED
    BY <1>1, <1>4, <2>1 DEF StoreInv, StoreTypeOK
<1>6. Grows
  <2> SUFFICES ASSUME NEW k \in Indexes, NEW l \in Jobs, revisions[k][l] # <<>>
               PROVE  /\ revisions'[k][l] # <<>>
                      /\ Len(revisions'[k][l]) >= Len(revisions[k][l])
    BY DEF Grows
  <2>1. CASE k = i /\ l = j
    <3>1. Len(revisions[i][j]) \in Nat
      BY <1>2
    <3>2. QED
      BY <1>3, <1>4, <2>1, <3>1
  <2>2. CASE ~ (k = i /\ l = j)
    <3>1. revisions'[k][l] = revisions[k][l]
      BY <1>4, <2>2
    <3>2. revisions[k][l] \in Seq(Promise!Revision)
      BY DEF StoreInv, StoreTypeOK
    <3>3. Len(revisions[k][l]) \in Nat
      BY <3>2
    <3>4. QED
      BY <3>1, <3>3
  <2>3. QED
    BY <2>1, <2>2
<1>7. Listed' /\ SingleAuthority'
  <2>1. j \in directory[i]
    BY <1>1 DEF StoreInv, Sound, Placed, i, j
  <2>2. ASSUME NEW k \in Indexes, NEW l \in Jobs, revisions'[k][l] # <<>>
        PROVE  l \in directory'[k] /\ binding'[l] = k
    <3>1. CASE k = i /\ l = j
      BY <1>1, <1>2, <2>1, <3>1
    <3>2. CASE ~ (k = i /\ l = j)
      <4>1. revisions'[k][l] = revisions[k][l]
        BY <1>4, <3>2
      <4>2. QED
        BY <1>1, <2>2, <4>1 DEF StoreInv, Listed, SingleAuthority
    <3>3. QED
      BY <3>1, <3>2
  <2>3. QED
    BY <2>2 DEF Listed, SingleAuthority
<1>8. ASSUME NEW q \in Processes \ {p} PROVE Untouched(q)
  <2>1. Busy(q) => op[q].index # i /\ op[q].index \in Indexes
    BY <1>1, Exclusive DEF StoreInv, i, Sound, Holding, Operation
  <2>2. Busy(q) => revisions'[op[q].index] = revisions[op[q].index]
    BY <1>4, <2>1
  <2>3. QED
    BY <1>1, <2>2 DEF Untouched, StoreInv, StoreTypeOK
<1>9. Sound(p)'
  <2>1. pc'[p] = "reply"
    BY <1>1 DEF StoreInv, StoreTypeOK
  <2>2. Holding(p)' /\ Placed(p)' /\ Cleared(p)'
    BY <1>1, <2>1 DEF StoreInv, Sound, Holding, Placed, Cleared, Busy
  <2>3. Registering(p)'
    BY <1>1, <1>3, <1>4, <2>1 DEF Registering, Files, i, j
  <2>4. Changing(p)'
    BY <1>1, <2>1 DEF StoreInv, Sound, Changing, Busy
  <2>5. SeenIsThere(p)'
    <3> DEFINE read == revisions[seen[p].index][seen[p].job]
    <3>1. SUFFICES ASSUME seen[p] # None
                   PROVE  seen[p].revision \in 1..Len(revisions'[seen[p].index][seen[p].job])
      BY <1>1 DEF SeenIsThere, StoreInv, Sound
    <3>2. seen[p] \in Reading /\ seen[p].revision \in 1..Len(read)
      BY <3>1 DEF StoreInv, Sound, SeenIsThere
    <3>3. seen[p].index \in Indexes /\ seen[p].job \in Jobs
      BY <3>2 DEF Reading
    <3>4. CASE seen[p].index = i /\ seen[p].job = j
      <4>1. Len(revisions[i][j]) \in Nat
        BY <1>2
      <4>2. QED
        BY <1>3, <1>4, <3>2, <3>4, <4>1
    <3>5. CASE ~ (seen[p].index = i /\ seen[p].job = j)
      <4>1. revisions'[seen[p].index][seen[p].job] = read
        BY <1>4, <3>3, <3>5
      <4>2. QED
        BY <3>2, <4>1
    <3>6. QED
      BY <3>4, <3>5
  <2>6. QED
    BY <2>2, <2>3, <2>4, <2>5 DEF Sound
<1>10. QED
  BY <1>5, <1>6, <1>7, <1>8, <1>9, StepKeeps

(* The reply tells of the head that was published.                         *)
LEMMA ReplyKeeps ==
    ASSUME StoreInv, NEW p \in Processes, Reply(p)
    PROVE  StoreInv'
<1> DEFINE read == [index |-> op[p].index, job |-> op[p].job, revision |-> Len(Files(p))]
<1>1. /\ Busy(p) /\ Files(p) # <<>> /\ op[p].index \in Indexes /\ op[p].job \in Jobs
  BY DEF StoreInv, Sound, Holding, Registering, Reply, Busy, Operation
<1>2. Files(p) \in Seq(Promise!Revision)
  BY <1>1 DEF StoreInv, StoreTypeOK, Files
<1>3. Len(Files(p)) \in Nat \ {0}
  BY <1>1, <1>2
<1>4. seen' = [seen EXCEPT ![p] = read] /\ Return(p) /\ UNCHANGED <<disk, crashes>>
  BY DEF Reply
<1>5. read \in Reading
  BY <1>1, <1>3 DEF Reading
<1>6. seen' \in [Processes -> Reading \cup {None}] /\ seen'[p] = read
  BY <1>4, <1>5 DEF StoreInv, StoreTypeOK
<1>7. SeenIsThere(p)'
  BY <1>3, <1>4, <1>5, <1>6 DEF SeenIsThere, Files, disk
<1>8. QED
  BY <1>1, <1>4, <1>6, <1>7, ReturnKeeps DEF StoreInv, StoreTypeOK

(* A crash frees the lock, leaves the files and forgets what was read.     *)
LEMMA CrashKeeps ==
    ASSUME StoreInv, NEW p \in Processes, Crash(p)
    PROVE  StoreInv'
<1>1. Busy(p) /\ Return(p) /\ UNCHANGED disk
  BY DEF Crash, Busy
<1>2. crashes' \in 0..MaxCrashes
  BY StoreAssumption DEF Crash, StoreInv, StoreTypeOK
<1>3. seen' \in [Processes -> Reading \cup {None}] /\ seen'[p] = None
  BY DEF Crash, StoreInv, StoreTypeOK
<1>4. QED
  BY <1>1, <1>2, <1>3, ReturnKeeps DEF Crash, SeenIsThere, StoreInv, StoreTypeOK

-----------------------------------------------------------------------------
(* Nothing is stored and nothing runs at first.                            *)
LEMMA StoreInitially == Init => StoreInv
<1> SUFFICES ASSUME Init PROVE StoreInv
  OBVIOUS
<1>1. StoreTypeOK
  BY StoreAssumption DEF Init, StoreTypeOK, Steps
<1>2. Listed /\ SingleAuthority
  BY DEF Init, Listed, SingleAuthority
<1>3. ASSUME NEW p \in Processes PROVE Sound(p)
  BY DEF Init, Sound, Holding, SeenIsThere, Placed, Registering, Changing, Cleared, Busy
<1>4. QED
  BY <1>1, <1>2, <1>3 DEF StoreInv

(* The steps of the operations, one by one.                                *)
LEMMA StoreStep == StoreInv /\ [Next]_vars => StoreInv'
<1> SUFFICES ASSUME StoreInv, [Next]_vars PROVE StoreInv'
  OBVIOUS
<1>1. CASE UNCHANGED vars
  <2>1. StoreTypeOK' /\ Listed' /\ SingleAuthority'
    BY <1>1 DEF vars, StoreInv, StoreTypeOK, Listed, SingleAuthority
  <2>2. \A p \in Processes : Sound(p)'
    BY <1>1, ZenonT(60) DEF vars, StoreInv, Sound, Holding, SeenIsThere, Placed, Registering, Changing,
                Cleared, Busy, Files, Drafted
  <2>3. QED
    BY <2>1, <2>2 DEF StoreInv
<1>2. ASSUME NEW p \in Processes, NEW i \in Indexes, NEW j \in Jobs,
             NEW t \in Targets \cup {None}, Recover(p, i, j) \/ StartRegister(p, i, j, t)
      PROVE  StoreInv'
  BY <1>2, RecoverKeeps, RegisterKeeps
<1>3. ASSUME NEW p \in Processes, NEW t \in Targets, StartChange(p, "begin", t)
      PROVE  StoreInv'
  BY <1>3, ChangeKeeps
<1>4. ASSUME NEW p \in Processes, StartChange(p, "close", None)
      PROVE  StoreInv'
  BY <1>4, ChangeKeeps
<1>5. ASSUME NEW p \in Processes,
             \/ Bind(p) \/ Look(p) \/ Load(p) \/ \E k \in Jobs : Scan(p, k)
             \/ Scanned(p) \/ Mkdir(p) \/ Publish(p) \/ Reply(p) \/ Crash(p)
      PROVE  StoreInv'
  BY <1>5, BindKeeps, LookKeeps, LoadKeeps, ScanKeeps, ScannedKeeps, MkdirKeeps,
     PublishKeeps, ReplyKeeps, CrashKeeps
<1>6. QED
  BY <1>1, <1>2, <1>3, <1>4, <1>5 DEF Next

(* The storage of the indexes is always as the invariant says.             *)
THEOREM StoreCorrect == Spec => []StoreInv
<1>1. Init => StoreInv
  BY StoreInitially
<1>2. StoreInv /\ [Next]_vars => StoreInv'
  BY StoreStep
<1>3. QED
  BY <1>1, <1>2, PTL DEF Spec

(* However registrations of one job in several indexes interleave and      *)
(* crash, only the index the job is bound to holds revisions of it.        *)
THEOREM OneAuthority == Spec => []SingleAuthority
<1>1. StoreInv => SingleAuthority
  BY DEF StoreInv
<1>2. QED
  BY <1>1, StoreCorrect, PTL

-----------------------------------------------------------------------------
(* What NoBlindCommit says of one step.                                    *)
CommitIsInformed ==
    \A i \in Indexes, j \in Jobs :
        revisions[i][j] # <<>> /\ revisions'[i][j] # revisions[i][j] =>
            \E p \in Processes :
                /\ lock[i] = p
                /\ seen[p] = [index |-> i, job |-> j, revision |-> Len(revisions[i][j])]

(* Only a publication changes a history.                                   *)
LEMMA OnlyPublishWrites ==
    ASSUME StoreInv, [Next]_vars, revisions' # revisions
    PROVE  \E p \in Processes : Publish(p)
BY DEF Next, vars, Recover, StartRegister, StartChange, Bind, Look, Load, Scan, Scanned, Mkdir,
       Reply, Crash, disk

(* A publication that follows a revision follows the one its process read. *)
LEMMA PublishIsInformed ==
    ASSUME StoreInv, NEW p \in Processes, Publish(p)
    PROVE  CommitIsInformed
<1> DEFINE i == op[p].index
           j == op[p].job
<1>1. /\ pc[p] = "publish" /\ Busy(p)
      /\ revisions' = [revisions EXCEPT ![i][j] = Append(@, draft[p].content)]
  BY PublishAppends DEF Publish, Busy
<1>2. i \in Indexes /\ j \in Jobs /\ lock[i] = p
  BY <1>1 DEF StoreInv, Sound, Holding, Operation
<1>3. SUFFICES ASSUME NEW k \in Indexes, NEW l \in Jobs, revisions[k][l] # <<>>,
                      revisions'[k][l] # revisions[k][l]
               PROVE  /\ lock[k] = p
                      /\ seen[p] = [index |-> k, job |-> l, revision |-> Len(revisions[k][l])]
  BY DEF CommitIsInformed
<1>4. k = i /\ l = j
  BY <1>1, <1>2, <1>3 DEF StoreInv, StoreTypeOK
<1>5. op[p].kind # "register"
  BY <1>1, <1>3, <1>4 DEF StoreInv, Sound, Registering, Files
<1>6. /\ seen[p] \in Reading /\ seen[p].index = i /\ seen[p].job = j
      /\ seen[p].revision = Len(revisions[i][j])
  BY <1>1, <1>5, ChangeKnows DEF StoreInv, Sound, Changing, Files
<1>7. QED
  BY <1>2, <1>4, <1>6 DEF Reading

(* A revision is only ever committed by a process that had read the one it *)
(* follows, although it read it before it had the lock (expected, save).   *)
THEOREM CommitsAreInformed == Spec => NoBlindCommit
<1>1. StoreInv /\ [Next]_vars => [CommitIsInformed]_vars
  <2> SUFFICES ASSUME StoreInv, [Next]_vars, vars' # vars PROVE CommitIsInformed
    OBVIOUS
  <2>1. CASE revisions' = revisions
    BY <2>1 DEF CommitIsInformed
  <2>2. CASE revisions' # revisions
    BY <2>2, OnlyPublishWrites, PublishIsInformed
  <2>3. QED
    BY <2>1, <2>2
<1>2. QED
  BY <1>1, StoreCorrect, PTL DEF Spec, NoBlindCommit, CommitIsInformed

-----------------------------------------------------------------------------
(* A publication is a step of the history JobLog promises: the first       *)
(* revision in the only index, a reservation of a free target, or an end.  *)
LEMMA PublishIsPromised ==
    ASSUME StoreInv, NEW p \in Processes, Publish(p)
    PROVE  Promise!Next
<1> DEFINE i == op[p].index
           j == op[p].job
           head == Last(revisions[i][j])
<1>1. /\ pc[p] = "publish" /\ Busy(p) /\ Files(p) = revisions[i][j]
      /\ revisions' = [revisions EXCEPT ![i][j] = Append(@, draft[p].content)]
  BY PublishAppends DEF Publish, Busy, Files
<1>2. /\ i \in Indexes /\ j \in Jobs /\ op[p].target \in Targets \cup {None}
      /\ op[p].kind \in {"register", "begin", "close"} /\ binding[j] = i
  BY <1>1, PublisherKnows DEF Operation
<1>3. CASE op[p].kind = "register"
  <2> DEFINE first == [target |-> op[p].target, begun |-> FALSE, open |-> TRUE]
  <2>1. revisions[i][j] = <<>> /\ draft[p] = [number |-> 1, content |-> first]
    BY <1>1, <1>3 DEF StoreInv, Sound, Registering
  <2> HIDE DEF first
  <2>2. draft[p].content = first
    BY <2>1
  <2>3. \A other \in Indexes : revisions[other][j] = <<>>
    BY <1>2, <2>1 DEF StoreInv, SingleAuthority
  <2>4. Promise!Create(i, j)
    BY <1>1, <1>2, <2>2, <2>3 DEF Promise!Create, Promise!Grow, first
  <2>5. QED
    BY <1>2, <2>4 DEF Promise!Next
<1>4. ASSUME op[p].kind # "register"
      PROVE  /\ Promise!Active(revisions[i][j]) /\ Promise!Last(revisions[i][j]) = head
             /\ draft[p].content =
                   IF op[p].kind = "begin"
                     THEN [head EXCEPT !.target = op[p].target, !.begun = TRUE]
                     ELSE [head EXCEPT !.open = FALSE]
  <2>1. draft[p] = Drafted(p) /\ head.open /\ revisions[i][j] # <<>>
    BY <1>1, <1>4, ChangeKnows DEF StoreInv, Sound, Changing
  <2>2. Promise!Last(revisions[i][j]) = head
    BY DEF Promise!Last, Last
  <2>3. Promise!Active(revisions[i][j])
    BY <2>1, <2>2 DEF Promise!Active
  <2> DEFINE next == IF op[p].kind = "begin"
                       THEN [head EXCEPT !.target = op[p].target, !.begun = TRUE]
                       ELSE [head EXCEPT !.open = FALSE]
  <2>4. Drafted(p) = [number |-> Len(Files(p)) + 1, content |-> next]
    BY <1>1 DEF Drafted
  <2> HIDE DEF next
  <2>5. draft[p].content = next
    BY <2>1, <2>4
  <2>6. QED
    BY <2>2, <2>3, <2>5 DEF next
<1>5. CASE op[p].kind = "begin"
  <2> DEFINE t == op[p].target
  <2>1. t \in Targets
    BY <1>1, <1>5 DEF StoreInv, Sound, Changing
  <2>2. \A k \in Jobs \ {j} : ~ Promise!Occupies(revisions[i][k], t)
    BY <1>1, <1>5 DEF StoreInv, Sound, Cleared
  <2>3. Promise!Reserve(i, j, t)
    BY <1>1, <1>4, <1>5, <2>2 DEF Promise!Reserve, Promise!Grow
  <2>4. QED
    BY <1>2, <2>1, <2>3 DEF Promise!Next
<1>6. CASE op[p].kind = "close"
  <2>1. Promise!Finish(i, j)
    BY <1>1, <1>4, <1>6 DEF Promise!Finish, Promise!Grow
  <2>2. QED
    BY <1>2, <2>1 DEF Promise!Next
<1>7. QED
  BY <1>2, <1>3, <1>5, <1>6

(* The revision files are the histories JobLog promises: one index for a   *)
(* job, each revision made from the one before, and no two open jobs of an *)
(* index that both began on a target (register, save, begin).              *)
THEOREM StorePromised == Spec => ImplementsLog
<1>1. Init => Promise!Init
  BY DEF Init, Promise!Init
<1>2. StoreInv /\ [Next]_vars => [Promise!Next]_revisions
  BY OnlyPublishWrites, PublishIsPromised
<1>3. QED
  BY <1>1, <1>2, StoreCorrect, PTL DEF Spec, ImplementsLog, Promise!Spec
=============================================================================
