---------------------------- MODULE RecoveryDelta ----------------------------
(***************************************************************************)
(* Incremental recovery of a run (scripts/recovery_delta.py). A recovery   *)
(* computes the rows of the run's jobs (those of its watches are treated   *)
(* in the same way), compares them with what its cursor file says was      *)
(* delivered, returns a page of the differences and replaces the content   *)
(* cache and the cursor, two files, under the cursor's lock. A reader      *)
(* applies the page to its view and resumes with the token of the last     *)
(* reply it got; processes die and replies are lost.                       *)
(*                                                                         *)
(* Equal rows are equal digests. The run's state is not kept: the rows and *)
(* files of it that a recovery finds, and whether it can read them all,    *)
(* are chosen by each. Tokens are uuids: what matters of a token is        *)
(* whether it is the cursor's, which no other one becomes later.           *)
(***************************************************************************)
EXTENDS Integers, FiniteSets, SequencesExt

CONSTANTS
    Readers,     \* consumers that share the cursor
    Rows,        \* identities of rows; their order is that of the numbers
    Versions,    \* what a row says
    Filters,     \* sets of rows: all of them, or one job's
    PageSize,
    Files,       \* contents of the files that a recovery reads
    Absent

ASSUME DeltaAssumption ==
    /\ Rows \subseteq Nat /\ IsFiniteSet(Rows) /\ Filters \subseteq SUBSET Rows
    /\ PageSize \in Nat \ {0}
    /\ Absent \notin Versions \cup Files

VARIABLES
    contents,     \* contents.json
    cursor,       \* cursor.json
    call,         \* call[r]: the recovery that r runs or awaits the reply of
    view,         \* view[r]: the rows as r knows them
    held          \* the readers whose last token is the cursor's

deltaVars == <<contents, cursor, call, view, held>>

Table == [Rows -> Versions \cup {Absent}]
Cursor == [filter : Filters, delivered : Table, pending : Seq(Rows), cache : Files]
Running == [step : {"contents", "cursor"}, new : Cursor, reset : BOOLEAN,
            page : SUBSET Rows, found : Table, last : BOOLEAN]
Reply == [step : {"reply"}, fresh : BOOLEAN, reset : BOOLEAN,
          page : SUBSET Rows, found : Table, last : BOOLEAN]
Empty == [k \in Rows |-> Absent]

Runs(r) == call[r] # Absent /\ call[r].step # "reply"
Awaits(r) == call[r] # Absent /\ call[r].step = "reply"

(* One recovery at a time has the lock, and one reader the cursor's token  *)
(* or the reply with it.                                                   *)
DeltaTypeOK ==
    /\ contents \in Files \cup {Absent}
    /\ cursor \in Cursor \cup {Absent}
    /\ call \in [Readers -> Running \cup Reply \cup {Absent}]
    /\ view \in [Readers -> Table] /\ held \subseteq Readers
    /\ \A r, s \in Readers : r # s => ~(Runs(r) /\ Runs(s))
    /\ \A r, s \in held \cup {t \in Readers : Awaits(t) /\ call[t].fresh} : r = s

DeltaInit ==
    /\ contents = Absent /\ cursor = Absent
    /\ call = [r \in Readers |-> Absent]
    /\ view = [r \in Readers |-> Empty]
    /\ held = {}

-----------------------------------------------------------------------------
(* load_cursor: the two files must be a pair.                              *)
Usable == cursor # Absent /\ cursor.cache = contents

(* A plausible bug: the reader's token is not compared.                    *)
ResetsUnlessUsable(r, filter) == ~Usable \/ cursor.filter # filter

(* The cursor is not used if it is no pair, of another filter, or not the  *)
(* one the reader got last.                                                *)
Resets(r, filter) == ~Usable \/ cursor.filter # filter \/ r \notin held

(* A plausible bug: what was removed is no change.                         *)
ChangedIfFound(delivered, found, complete) ==
    {k \in Rows : found[k] # Absent /\ found[k] # delivered[k]}

(* changes: a row is only removed if everything could be read.             *)
Changed(delivered, found, complete) ==
    {k \in Rows : found[k] # delivered[k] /\ (found[k] = Absent => complete)}

(* The numbers in S, the least one first.                                  *)
InOrder(S) ==
    [n \in 1..Cardinality(S) |-> CHOOSE k \in S : Cardinality({l \in S : l <= k}) = n]

(* A plausible bug: what waits is sorted with what is new.                 *)
QueueSorted(pending, changed) == InOrder(changed)

(* What waited keeps its turn, if it is still a change.                    *)
Queue(pending, changed) ==
    LET kept == InOrder({i \in DOMAIN pending : pending[i] \in changed})
    IN  [n \in DOMAIN kept |-> pending[kept[n]]] \o InOrder(changed \ ToSet(pending))

(* A plausible bug: recoveries do not exclude each other.                  *)
Unlocked == TRUE

(* cursor_lock is taken without waiting.                                   *)
LockFree == \A s \in Readers : ~Runs(s)

(* recover, up to the first write: the cache is written if it is not the   *)
(* one the cursor names. Of what was found the page goes into the reply;   *)
(* the last reply is compared with all of it.                              *)
Recover(r, filter, found, files, complete) ==
    /\ call[r] = Absent /\ LockFree
    /\ \A k \in Rows \ filter : found[k] = Absent
    /\ LET reset == Resets(r, filter)
           delivered == IF reset THEN Empty ELSE cursor.delivered
           pending == IF reset THEN <<>> ELSE cursor.pending
           queue == Queue(pending, Changed(delivered, found, complete))
           page == {queue[i] : i \in {j \in DOMAIN queue : j <= PageSize}}
           last == Len(queue) <= PageSize /\ complete
       IN  call' = [call EXCEPT ![r] =
             [step |-> IF ~reset /\ cursor.cache = files THEN "cursor" ELSE "contents",
              new |-> [filter |-> filter,
                       delivered |-> [k \in Rows |-> IF k \in page THEN found[k]
                                                     ELSE delivered[k]],
                       pending |-> SubSeq(queue, PageSize + 1, Len(queue)),
                       cache |-> files],
              reset |-> reset, page |-> page, last |-> last,
              found |-> [k \in Rows |-> IF k \in page \/ last THEN found[k] ELSE Absent]]]
    /\ UNCHANGED <<contents, cursor, view, held>>

(* save_cursor: each file is replaced atomically, the cache first.         *)
SaveContents(r) ==
    /\ Runs(r) /\ call[r].step = "contents"
    /\ contents' = call[r].new.cache
    /\ call' = [call EXCEPT ![r].step = "cursor"]
    /\ UNCHANGED <<cursor, view, held>>

(* The cursor has a token of its own now, which only the reply has.        *)
SaveCursor(r) ==
    /\ Runs(r) /\ call[r].step = "cursor"
    /\ cursor' = call[r].new
    /\ held' = {}
    /\ call' = [s \in Readers |->
           IF s = r THEN [step |-> "reply", fresh |-> TRUE, reset |-> call[r].reset,
                          page |-> call[r].page, found |-> call[r].found,
                          last |-> call[r].last]
           ELSE IF Awaits(s) THEN [call[s] EXCEPT !.fresh = FALSE] ELSE call[s]]
    /\ UNCHANGED <<contents, view>>

(* The reader gets the reply, applies it and keeps the token.              *)
Apply(r) ==
    /\ Awaits(r)
    /\ view' = [view EXCEPT ![r] = [k \in Rows |->
           IF k \in call[r].page THEN call[r].found[k]
           ELSE IF call[r].reset THEN Absent ELSE view[r][k]]]
    /\ held' = IF call[r].fresh THEN held \cup {r} ELSE held \ {r}
    /\ call' = [call EXCEPT ![r] = Absent]
    /\ UNCHANGED <<contents, cursor>>

(* The process dies between two writes, or its reply is lost.              *)
Lose(r) ==
    /\ call[r] # Absent
    /\ call' = [call EXCEPT ![r] = Absent]
    /\ UNCHANGED <<contents, cursor, view, held>>

DeltaNext ==
    \E r \in Readers :
        \/ \E filter \in Filters, found \in Table, files \in Files, complete \in BOOLEAN :
               Recover(r, filter, found, files, complete)
        \/ SaveContents(r) \/ SaveCursor(r) \/ Apply(r) \/ Lose(r)

DeltaSpec == DeltaInit /\ [][DeltaNext]_deltaVars

-----------------------------------------------------------------------------
(* A reader that has the cursor's token has the view the cursor says it    *)
(* has: what it is sent next are the differences from what it knows,       *)
(* whatever crashed, was lost or was read by others (recover).             *)
ViewIsDelivered == \A r \in held : view[r] = cursor.delivered

(* A reader that applies a reply that says nothing more is to come, of a   *)
(* recovery that could read everything, knows exactly the rows that this   *)
(* recovery found, even if others recovered meanwhile (more_job_changes).  *)
CaughtUp ==
    [][\A r \in Readers :
           /\ Awaits(r) /\ call'[r] = Absent /\ call[r].last
           /\ r \in held' \/ view'[r] # view[r]
           => view'[r] = call[r].found]_deltaVars

(* recovery-delta.md: "Already queued identities keep their turn when      *)
(* earlier rows change again". With every reply that does not start anew   *)
(* the row at the head of the queue is served or is no change any more,    *)
(* and no row gets one before it that was not before it: whatever changes  *)
(* meanwhile, a row waits for as many replies as it has rows before it.    *)
Before(queue, k) == {queue[i] : i \in {j \in DOMAIN queue : \E l \in DOMAIN queue :
                                          j < l /\ queue[l] = k}}
Keeps(old, new) ==
    \A k \in ToSet(old) \cap ToSet(new) :
        k # Head(old) /\ Before(new, k) \subseteq Before(old, k)
TurnKept ==
    [][cursor # Absent /\ cursor' # cursor
           /\ (\E r \in Readers : Runs(r) /\ cursor' = call[r].new /\ ~call[r].reset)
       => Keeps(cursor.pending, cursor'.pending)]_deltaVars
=============================================================================
