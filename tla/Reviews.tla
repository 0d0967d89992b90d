------------------------------- MODULE Reviews -------------------------------
(***************************************************************************)
(* The review queue of a watch (scripts/reviews.py). The observer posts    *)
(* events; every event has a chain of receipts, each made from the one     *)
(* before it. A reviewer reads the queue, event by event and without a     *)
(* lock, takes one item of it and records a receipt for its event; its     *)
(* reply may be lost, and it then records the same receipt again.          *)
(*                                                                         *)
(* A note, with the outcome evidence, is a value; what an event shows, its *)
(* age and the history of related reviews, which decide nothing, are left  *)
(* out. One job and round: the queue never relates two of them.            *)
(***************************************************************************)
EXTENDS Integers, SequencesExt

CONSTANTS
    Reviewers,
    Issues,        \* identities of attention and reminder occurrences
    Notes,
    Blank,
    MaxFiles       \* bound: events and receipts

ASSUME ReviewAssumption == MaxFiles \in Nat

VARIABLES
    posted,     \* the events, by number
    receipts,   \* receipts[n]: the receipts of event n
    scan,       \* scan[p]: the events p lists and the receipts it read so far
    item,       \* item[p]: the item p took, and the receipt it wants to record
    written     \* written[p]: history, how often p wrote that receipt

reviewVars == <<posted, receipts, scan, item, written>>

(* An attention event is one of several kinds that are shown by            *)
(* themselves; those that never are (of a working agent) are left out. Of  *)
(* the issues only those of reminders matter.                              *)
Posted == [kind : {"review_due"}, issue : Issues] \cup [kind : {"attention"}, issue : {Blank}]
Receipt == [status : {"open", "waiting_user", "handled"}, note : Notes]
Latest == [revision : Nat, status : {"open", "waiting_user", "handled"}]
Scan == [total : Nat, read : Seq(Latest)]
Item == [seq : Nat \ {0}, expected : Nat, stands : SUBSET (Nat \ {0}), receipt : Receipt]

ReviewTypeOK ==
    /\ posted \in Seq(Posted)
    /\ receipts \in Seq(Seq(Receipt)) /\ Len(receipts) = Len(posted)
    /\ scan \in [Reviewers -> Scan \cup {Blank}]
    /\ item \in [Reviewers -> Item \cup {Blank}]
    /\ written \in [Reviewers -> Nat]
    /\ \A p \in Reviewers : item[p] # Blank => item[p].seq \in item[p].stands

ReviewInit ==
    /\ posted = <<>> /\ receipts = <<>>
    /\ scan = [p \in Reviewers |-> Blank]
    /\ item = [p \in Reviewers |-> Blank]
    /\ written = [p \in Reviewers |-> 0]

-----------------------------------------------------------------------------
(* latest_review: no receipt is an open review of revision 0.              *)
LatestReview(n) ==
    [revision |-> Len(receipts[n]),
     status |-> IF receipts[n] = <<>> THEN "open" ELSE Last(receipts[n]).status]

(* A plausible bug: reminders of all issues are one group.                 *)
SameReminder(m, n) == posted[m].kind = "review_due" /\ posted[n].kind = "review_due"

Grouped(m, n) ==
    /\ posted[m].kind = "review_due" /\ posted[n].kind = "review_due"
    /\ posted[m].issue = posted[n].issue

(* pending_items, of what was read of each event: the events that stand    *)
(* for themselves, those that wait for the user, and of each group of      *)
(* reminders those without a receipt that no later receipt covers.         *)
Explicit(read) ==
    {n \in DOMAIN read : /\ read[n].status = "open"
                         /\ read[n].revision > 0 \/ posted[n].kind # "review_due"}

Waiting(read) == {n \in DOMAIN read : read[n].status = "waiting_user"}

Covered(read, n) ==
    \E m \in DOMAIN read : m > n /\ Grouped(m, n) /\ read[m].revision > 0

Reminders(read) ==
    {n \in DOMAIN read : /\ posted[n].kind = "review_due" /\ read[n].revision = 0
                         /\ ~Covered(read, n)}

(* The newest reminder of a group is shown for all of them.                *)
Shown(read) ==
    Explicit(read) \cup Waiting(read)
        \cup {n \in Reminders(read) : \A m \in Reminders(read) : Grouped(m, n) => m <= n}

Stands(read, n) ==
    IF n \in Reminders(read) THEN {m \in Reminders(read) : Grouped(m, n)} ELSE {n}

Outstanding(read) == UNION {Stands(read, n) : n \in Shown(read)}

-----------------------------------------------------------------------------
Published == Len(posted) + Len(FlattenSeq(receipts))

(* The observer.                                                           *)
Post(event) ==
    /\ Published < MaxFiles
    /\ posted' = Append(posted, event)
    /\ receipts' = Append(receipts, <<>>)
    /\ UNCHANGED <<scan, item, written>>

(* pending_items lists the event files once ...                            *)
ListEvents(p) ==
    /\ scan[p] = Blank /\ item[p] = Blank /\ posted # <<>>
    /\ scan' = [scan EXCEPT ![p] = [total |-> Len(posted), read |-> <<>>]]
    /\ UNCHANGED <<posted, receipts, item, written>>

(* ... and reads the receipts of one after the other.                      *)
ReadReceipts(p) ==
    /\ scan[p] # Blank /\ Len(scan[p].read) < scan[p].total
    /\ scan' = [scan EXCEPT ![p].read = Append(@, LatestReview(Len(@) + 1))]
    /\ UNCHANGED <<posted, receipts, item, written>>

(* The reviewer takes an item and decides, or nothing is to be done.       *)
Decide(p) ==
    /\ scan[p] # Blank /\ Len(scan[p].read) = scan[p].total
    /\ LET read == scan[p].read IN
       \/ \E n \in Shown(read), status \in {"open", "waiting_user", "handled"}, note \in Notes :
              item' = [item EXCEPT ![p] =
                  [seq |-> n, expected |-> read[n].revision, stands |-> Stands(read, n),
                   receipt |-> [status |-> status, note |-> note]]]
       \/ Shown(read) = {} /\ UNCHANGED item
    /\ scan' = [scan EXCEPT ![p] = Blank]
    /\ UNCHANGED <<posted, receipts, written>>

(* A plausible bug: the expected revision is not compared.                 *)
AppendableAnywhere(p) == TRUE

Appendable(p) == Len(receipts[item[p].seq]) = item[p].expected

(* The receipt that the same call wrote, or another call just like it.     *)
Repeats(p) ==
    LET chain == receipts[item[p].seq] IN
    Len(chain) = item[p].expected + 1 /\ Last(chain) = item[p].receipt

(* record_review, under the review lock. The reviewer keeps the item: the  *)
(* reply may not arrive, and it tries again.                               *)
RecordReview(p) ==
    /\ item[p] # Blank
    /\ ~Repeats(p) /\ Appendable(p)
    /\ Published < MaxFiles
    /\ receipts' = [receipts EXCEPT ![item[p].seq] = Append(@, item[p].receipt)]
    /\ written' = [written EXCEPT ![p] = @ + 1]
    /\ UNCHANGED <<posted, scan, item>>

(* It got the reply, or a refusal, or leaves it at that.                   *)
LayDown(p) ==
    /\ item[p] # Blank
    /\ item' = [item EXCEPT ![p] = Blank]
    /\ written' = [written EXCEPT ![p] = 0]
    /\ UNCHANGED <<posted, receipts, scan>>

ReviewNext ==
    \/ \E event \in Posted : Post(event)
    \/ \E p \in Reviewers :
           ListEvents(p) \/ ReadReceipts(p) \/ Decide(p) \/ RecordReview(p) \/ LayDown(p)

ReviewSpec == ReviewInit /\ [][ReviewNext]_reviewVars

-----------------------------------------------------------------------------
Current == [n \in DOMAIN posted |-> LatestReview(n)]

(* What a reviewer's receipt takes out of the queue: the item it took and  *)
(* the older reminders of the same issue that the item stood for. No event *)
(* of another issue, and none that was published since the reviewer        *)
(* looked, goes with it (pending_items).                                   *)
LeavesOnlyIfShown ==
    [][receipts' # receipts /\ posted' = posted =>
           \E p \in Reviewers :
               /\ item[p] # Blank
               /\ receipts'[item[p].seq] # receipts[item[p].seq]
               /\ \A n \in Outstanding(Current) \ Outstanding(Current') :
                      n \in item[p].stands /\ posted[n] = posted[item[p].seq]]_reviewVars

(* A decision is recorded at most once, however often its reply is lost    *)
(* and it is recorded again among other reviewers' receipts                *)
(* (record_review).                                                        *)
RecordedOnce == \A p \in Reviewers : written[p] <= 1
=============================================================================
