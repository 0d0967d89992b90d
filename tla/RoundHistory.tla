---------------------------- MODULE RoundHistory ----------------------------
(***************************************************************************)
(* The earlier rounds of a job, found in its revisions                     *)
(* (scripts/round_history.py). Every revision is a snapshot of the job and *)
(* is never rewritten, so a round's snapshot is the last revision that had *)
(* it active; later reviews of it are kept beside, in the head. Activation *)
(* leaves a receipt of what it checked; the program before this one did    *)
(* not, and its revisions are still read.                                  *)
(*                                                                         *)
(* Rounds are numbered in the order of activation. A response is a success *)
(* with some bytes or an error, which needs no review. Jobs stay open, and *)
(* a mutation is one step (IndexStore says why).                           *)
(***************************************************************************)
EXTENDS Integers, SequencesExt, FiniteSetsExt

CONSTANTS
    Successes,       \* success responses
    Error,           \* the error response
    Unknown,         \* no response, no review, no receipt
    MaxHistory       \* bound: revisions

ASSUME HistoryAssumption ==
    /\ MaxHistory \in Nat \ {0}
    /\ Error \notin Successes /\ Unknown \notin Successes \cup {Error}

VARIABLES
    history,     \* history[n]: revision n
    response,    \* response[r]: what is at the result path of round r
    legacy,      \* the job is still mutated by the older program
    departures   \* history: departures[r]: what activate left of round r

historyVars == <<history, response, legacy, departures>>

HistoryRounds == 1..MaxHistory
Judgement == [verdict : {"accepted", "rejected"}, of : Successes]
Receipts == [from : HistoryRounds, revision : 1..MaxHistory, of : Successes \cup {Error},
             status : {"accepted", "rejected", "not_applicable", "invalid"}]
Entry == [event : {"register", "activate", "change"}, round : HistoryRounds,
          acceptance : Judgement \cup {Unknown},
          annotations : [HistoryRounds -> Judgement \cup {Unknown}],
          receipt : Receipts \cup {Unknown}]

HistoryTypeOK ==
    /\ history \in Seq(Entry) /\ Len(history) \in 1..MaxHistory
    /\ response \in [HistoryRounds -> Successes \cup {Error, Unknown}]
    /\ legacy \in BOOLEAN
    /\ Len(departures) = Last(history).round - 1

HistoryInit ==
    /\ history = <<[event |-> "register", round |-> 1, acceptance |-> Unknown,
                    annotations |-> [r \in HistoryRounds |-> Unknown], receipt |-> Unknown]>>
    /\ response = [r \in HistoryRounds |-> Unknown]
    /\ legacy \in BOOLEAN
    /\ departures = <<>>

-----------------------------------------------------------------------------
Newest == Last(history)

SaveRevision(entry) ==
    /\ Len(history) < MaxHistory
    /\ history' = Append(history, entry)

(* A plausible bug: the round's first snapshot is taken for its last.      *)
FirstSnapshot(having) == Min(having)

LastSnapshot(having) == Max(having)

(* select, for a caller who loaded revision `head`: the revisions are read *)
(* from the first on. The round was active in a run of them, and the first *)
(* one after it must be its activation, with a receipt that names both, or *)
(* none. An annotation of the head stands for the snapshot's review.       *)
Select(head, r) ==
    LET having == {n \in 1..head : history[n].round = r}
        others == {n \in 1..head : history[n].round # r /\ \E m \in having : m < n}
        receipt == history[Min(others)].receipt
        unbroken ==
            /\ having # {} /\ others # {} /\ Max(having) < Min(others)
            /\ history[Min(others)].event = "activate"
            /\ receipt # Unknown => receipt.from = r /\ receipt.revision = Min(others)
        annotation == history[head].annotations[r]
    IN  IF ~unbroken
          THEN [found |-> FALSE]
          ELSE [found |-> TRUE, receipt |-> receipt,
                acceptance |-> IF annotation # Unknown THEN annotation
                                 ELSE history[LastSnapshot(having)].acceptance]

(* acceptance_summary of the active round.                                 *)
SummaryStatus(entry) ==
    LET now == response[entry.round] IN
    IF entry.acceptance = Unknown
      THEN IF now = Error THEN "not_applicable" ELSE "missing"
      ELSE IF entry.acceptance.of = now THEN entry.acceptance.verdict ELSE "invalid"

(* record_acceptance of the active round: a snapshot of its own.           *)
ReviewActive(verdict) ==
    /\ response[Newest.round] \in Successes
    /\ SaveRevision([Newest EXCEPT !.event = "change",
           !.acceptance = [verdict |-> verdict, of |-> response[Newest.round]]])
    /\ UNCHANGED <<response, legacy, departures>>

(* record_acceptance of an earlier round: a revision of the active one,    *)
(* for the bytes that the activation pinned, or the review before.         *)
ReviewEarlier(r, verdict) ==
    LET selected == Select(Len(history), r) IN
    /\ r < Newest.round /\ response[r] \in Successes /\ selected.found
    /\ IF selected.receipt # Unknown
         THEN selected.receipt.of = response[r]
         ELSE selected.acceptance # Unknown => selected.acceptance.of = response[r]
    /\ SaveRevision([Newest EXCEPT !.event = "change",
           !.annotations[r] = [verdict |-> verdict, of |-> response[r]]])
    /\ UNCHANGED <<response, legacy, departures>>

(* Any other mutation; the first may be the current program's.             *)
ChangeJob ==
    /\ SaveRevision([Newest EXCEPT !.event = "change"])
    /\ legacy' \in {legacy, FALSE}
    /\ UNCHANGED <<response, departures>>

(* transition: there is a response, and a success has a review of its      *)
(* bytes.                                                                  *)
Transferable(entry) ==
    /\ response[entry.round] # Unknown
    /\ response[entry.round] \in Successes => SummaryStatus(entry) \in {"accepted", "rejected"}

(* activate, which starts the next round without a review; the older one   *)
(* checked nothing and kept no receipt.                                    *)
ActivateNext ==
    LET receipt == IF legacy THEN Unknown
                     ELSE [from |-> Newest.round, revision |-> Len(history) + 1,
                           of |-> response[Newest.round], status |-> SummaryStatus(Newest)]
    IN  /\ ~legacy => Transferable(Newest)
        /\ SaveRevision([Newest EXCEPT !.event = "activate", !.round = @ + 1,
               !.acceptance = Unknown, !.receipt = receipt])
        /\ departures' = Append(departures, [at |-> Len(history), receipt |-> receipt])
    /\ UNCHANGED <<response, legacy>>

(* The agent of a round responds, or writes its response again; a round is *)
(* activated before it is submitted.                                       *)
Rewrite(r, now) ==
    /\ r <= Newest.round /\ response[r] # now
    /\ response' = [response EXCEPT ![r] = now]
    /\ UNCHANGED <<history, legacy, departures>>

HistoryNext ==
    \/ \E v \in {"accepted", "rejected"} :
           ReviewActive(v) \/ \E r \in HistoryRounds : ReviewEarlier(r, v)
    \/ ChangeJob \/ ActivateNext
    \/ \E r \in HistoryRounds, now \in Successes \cup {Error} : Rewrite(r, now)

HistorySpec == HistoryInit /\ [][HistoryNext]_historyVars

-----------------------------------------------------------------------------
(* From any revision a caller may have loaded, every earlier round is      *)
(* found: with the receipt that its activation left, or none if the older  *)
(* program activated, and with the review it had then, unless one that the *)
(* caller's revision knows was made later, of the same bytes if any were   *)
(* pinned (round_history.select, completion.record_acceptance).            *)
HistoryFound ==
    \A head \in 1..Len(history) : \A r \in 1..(history[head].round - 1) :
        LET selected == Select(head, r)
            before == history[departures[r].at].acceptance
            later == history[head].annotations[r]
        IN  /\ selected.found
            /\ selected.receipt = departures[r].receipt
            /\ selected.acceptance = IF later = Unknown THEN before ELSE later
            /\ later # Unknown =>
                   IF selected.receipt # Unknown THEN later.of = selected.receipt.of
                   ELSE before # Unknown => later.of = before.of
=============================================================================
