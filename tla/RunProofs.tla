------------------------------ MODULE RunProofs ------------------------------
(***************************************************************************)
(* What is kept of a run: the revisions of a job, the turns of a metering, *)
(* the usage ledger, the registries, and the snapshots of what was         *)
(* delivered with the checks of them. None of them knows of the others;    *)
(* each is proved of its own specification, for all values of the          *)
(* constants. The argument of every part precedes it.                      *)
(***************************************************************************)
EXTENDS RoundHistory, Metering, UsageLedger, Runs, Delivery, Extrema, FiniteSetTheorems

-----------------------------------------------------------------------------
(***************************************************************************)
(* Every earlier round is found in the revisions (RoundHistory), for any   *)
(* number of revisions and any responses. HistoryFound is not inductive:   *)
(* HistoryInv adds that rounds only go up, one at a time, that the         *)
(* revision which ended a round is followed by its activation, and that a  *)
(* later review is of what the activation pinned.                          *)
(***************************************************************************)

(* Fields and numbers.                                                     *)
HistoryShape ==
    /\ history \in Seq(Entry) /\ Len(history) \in 1..MaxHistory
    /\ response \in [HistoryRounds -> Successes \cup {Error, Unknown}]
    /\ legacy \in BOOLEAN

(* Rounds are activated one after the other, each by a revision.           *)
RoundsGoUp ==
    /\ \A m, n \in 1..Len(history) : m <= n => history[m].round <= history[n].round
    /\ \A n \in 1..Len(history) : history[n].round <= n

(* What activate left of an earlier round is the last revision that had it *)
(* active, followed by the activation with its receipt.                    *)
IsDeparture(r, at, receipt) ==
    /\ at \in 1..(Len(history) - 1)
    /\ history[at].round = r
    /\ history[at + 1].round = r + 1 /\ history[at + 1].event = "activate"
    /\ history[at + 1].receipt = receipt
    /\ receipt # Unknown => receipt.from = r /\ receipt.revision = at + 1

Departed ==
    /\ departures \in Seq([at : Nat, receipt : Receipts \cup {Unknown}])
    /\ Len(departures) = Newest.round - 1
    /\ \A r \in 1..Len(departures) : IsDeparture(r, departures[r].at, departures[r].receipt)

(* A later review is of an earlier round, and of the bytes pinned for it.  *)
Fitting(r, later) ==
    LET before == history[departures[r].at].acceptance
    IN  IF departures[r].receipt # Unknown THEN later.of = departures[r].receipt.of
        ELSE before # Unknown => later.of = before.of

LaterFits ==
    \A n \in 1..Len(history) : \A r \in HistoryRounds :
        LET later == history[n].annotations[r]
        IN  later # Unknown => r < history[n].round /\ Fitting(r, later)

HistoryInv == HistoryShape /\ RoundsGoUp /\ Departed /\ LaterFits

-----------------------------------------------------------------------------
(* The revisions and their rounds.                                         *)
LEMMA RevisionsOrdered ==
    ASSUME HistoryInv
    PROVE  /\ Len(history) \in 1..MaxHistory /\ MaxHistory \in Nat /\ Len(history) \in Nat
           /\ \A n \in 1..Len(history) :
                 /\ history[n] \in Entry
                 /\ history[n].round \in Nat /\ history[n].round <= n
           /\ \A m, n \in 1..Len(history) : m <= n => history[m].round <= history[n].round
           /\ Newest = history[Len(history)] /\ Len(history) \in 1..Len(history)
<1>1. /\ history \in Seq(Entry) /\ Len(history) \in 1..MaxHistory /\ MaxHistory \in Nat
      /\ Newest = history[Len(history)]
  BY HistoryAssumption DEF HistoryInv, HistoryShape, Newest, Last
<1>2. \A n \in 1..Len(history) : history[n] \in Entry
  BY <1>1
<1>3. \A n \in 1..Len(history) : history[n].round \in Nat
  BY <1>1, <1>2 DEF Entry, HistoryRounds
<1> QED BY <1>1, <1>2, <1>3 DEF HistoryInv, RoundsGoUp

(* The revision that ended a round is the last that had it active, and the *)
(* next one the first of those after it: what the replay returns.          *)
LEMMA SelectFinds ==
    ASSUME HistoryInv, NEW head \in 1..Len(history), NEW r \in 1..(history[head].round - 1)
    PROVE  LET annotation == history[head].annotations[r]
           IN  /\ r \in 1..Len(departures)
               /\ Select(head, r) =
                     [found |-> TRUE, receipt |-> departures[r].receipt,
                      acceptance |-> IF annotation # Unknown THEN annotation
                                       ELSE history[departures[r].at].acceptance]
<1> DEFINE at == departures[r].at
           receipt == departures[r].receipt
           having == {n \in 1..head : history[n].round = r}
           others == {n \in 1..head : history[n].round # r /\ \E m \in having : m < n}
<1>1. /\ Len(history) \in Nat /\ head \in 1..Len(history)
      /\ \A n \in 1..Len(history) : history[n] \in Entry /\ history[n].round \in Nat
      /\ \A m, n \in 1..Len(history) : m <= n => history[m].round <= history[n].round
  BY RevisionsOrdered
<1>2. r \in 1..Len(departures) /\ IsDeparture(r, at, receipt)
  <2>1. history[head].round <= history[Len(history)].round
    BY <1>1
  <2>2. Len(departures) = history[Len(history)].round - 1
    BY DEF HistoryInv, Departed, Newest, Last
  <2>3. r \in 1..Len(departures)
    BY <1>1, <2>1, <2>2
  <2> QED BY <2>3 DEF HistoryInv, Departed
<1>3. /\ at \in 1..(Len(history) - 1) /\ r \in Nat
      /\ history[at].round = r /\ history[at + 1].round = r + 1
  BY <1>2 DEF IsDeparture
<1> HIDE DEF at, receipt
<1>4. at < head
  <2> SUFFICES ASSUME head <= at PROVE FALSE
    BY <1>1, <1>3
  <2>1. history[head].round <= history[at].round
    BY <1>1, <1>3
  <2> QED BY <1>1, <1>3, <2>1
<1>5. at \in having /\ \A n \in having : n <= at
  <2>1. ASSUME NEW n \in having, at < n PROVE FALSE
    <3>1. n \in 1..Len(history) /\ at + 1 \in 1..Len(history) /\ at + 1 <= n
      BY <1>1, <1>3, <2>1
    <3>2. history[at + 1].round <= history[n].round
      BY <1>1, <3>1
    <3> QED BY <1>3, <3>2
  <2> QED BY <1>1, <1>3, <1>4, <2>1
<1>6. at + 1 \in others /\ \A n \in others : at + 1 <= n
  <2>1. ASSUME NEW n \in others, n <= at PROVE FALSE
    <3>1. PICK m \in having : m < n
      OBVIOUS
    <3>2. m \in 1..Len(history) /\ n \in 1..Len(history) /\ at \in 1..Len(history)
      BY <1>1, <1>3
    <3>3. history[m].round <= history[n].round /\ history[n].round <= history[at].round
      BY <1>1, <2>1, <3>1, <3>2
    <3>4. history[m].round = r /\ history[n].round # r /\ history[n].round \in Nat
      BY <1>1, <3>2
    <3> QED BY <1>3, <3>3, <3>4
  <2>2. at + 1 \in 1..head /\ at < at + 1 /\ at \in having
    BY <1>1, <1>3, <1>4, <1>5
  <2> QED BY <1>1, <1>3, <2>1, <2>2
<1> HIDE DEF having, others
<1>7. Max(having) = at
  <2>1. head \in Nat /\ having \in SUBSET (0..head)
    BY <1>1 DEF having
  <2>2. Max(having) \in having /\ at <= Max(having)
    BY <1>5, <2>1, MaxIsGreatest
  <2> QED BY <1>3, <1>5, <2>1, <2>2
<1>8. Min(others) = at + 1
  <2>1. others \in SUBSET Nat
    BY <1>1 DEF others
  <2>2. Min(others) \in others /\ Min(others) <= at + 1
    BY <1>6, <2>1, MinIsLeast
  <2> DEFINE least == Min(others)
  <2>3. least \in others /\ least <= at + 1
    BY <2>2
  <2> HIDE DEF least
  <2>4. least \in Nat /\ at + 1 <= least
    BY <1>6, <2>1, <2>3
  <2>5. least = at + 1
    BY <1>3, <2>3, <2>4
  <2> QED BY <2>5 DEF least
<1>9. /\ having # {} /\ others # {} /\ Max(having) < Min(others)
      /\ history[Min(others)].event = "activate"
      /\ history[Min(others)].receipt = receipt
      /\ receipt # Unknown => receipt.from = r /\ receipt.revision = Min(others)
  BY <1>2, <1>3, <1>5, <1>6, <1>7, <1>8 DEF IsDeparture
<1> QED BY <1>2, <1>7, <1>9 DEF Select, LastSnapshot, at, receipt, having, others

-----------------------------------------------------------------------------
(* One revision more, of the same round or the next.                       *)
LEMMA RevisionAdded ==
    ASSUME HistoryInv, NEW entry \in Entry, SaveRevision(entry),
           entry.round \in {Newest.round, Newest.round + 1}
    PROVE  /\ history' \in Seq(Entry) /\ Len(history') \in 1..MaxHistory
           /\ Len(history') = Len(history) + 1
           /\ \A n \in 1..Len(history) : history'[n] = history[n]
           /\ history'[Len(history')] = entry /\ Newest' = entry
           /\ RoundsGoUp'
<1>1. /\ history \in Seq(Entry) /\ Len(history) \in 1..MaxHistory /\ MaxHistory \in Nat
      /\ Len(history) < MaxHistory /\ history' = Append(history, entry)
      /\ Newest = history[Len(history)]
  BY HistoryAssumption DEF HistoryInv, HistoryShape, SaveRevision, Newest, Last
<1>2. /\ history' \in Seq(Entry) /\ Len(history') = Len(history) + 1
      /\ Len(history') \in 1..MaxHistory
      /\ \A n \in 1..Len(history) : history'[n] = history[n]
      /\ history'[Len(history')] = entry
  BY <1>1
<1>3. Newest' = entry
  BY <1>2 DEF Newest, Last
<1>4. RoundsGoUp'
  <2>1. \A n \in 1..Len(history) : /\ history[n].round \in Nat
                                   /\ history[n].round <= Newest.round
                                   /\ history[n].round <= n
    BY RevisionsOrdered
  <2>2. entry.round \in Nat /\ Newest.round \in Nat /\ Newest.round <= Len(history)
    BY <1>1, <2>1 DEF Entry, HistoryRounds
  <2>3. \A n \in 1..Len(history') : n \in 1..Len(history) \/ n = Len(history')
    BY <1>1, <1>2
  <2>4. \A n \in 1..Len(history') : history'[n].round <= n
    BY <1>1, <1>2, <2>1, <2>2, <2>3
  <2>5. ASSUME NEW m \in 1..Len(history'), NEW n \in 1..Len(history'), m <= n
        PROVE  history'[m].round <= history'[n].round
    <3>1. CASE n \in 1..Len(history)
      <4>1. m \in 1..Len(history)
        BY <1>1, <1>2, <2>5, <3>1
      <4> QED BY <1>2, <2>5, <3>1, <4>1 DEF HistoryInv, RoundsGoUp
    <3>2. CASE n = Len(history')
      BY <1>1, <1>2, <2>1, <2>2, <2>3, <3>2
    <3> QED BY <2>3, <3>1, <3>2
  <2> QED BY <2>4, <2>5 DEF RoundsGoUp
<1> QED BY <1>2, <1>3, <1>4

(* What was a departure is one still.                                      *)
LEMMA DeparturesLast ==
    ASSUME HistoryInv, Len(history') = Len(history) + 1,
           \A n \in 1..Len(history) : history'[n] = history[n],
           NEW r \in 1..Len(departures), departures'[r] = departures[r]
    PROVE  /\ IsDeparture(r, departures[r].at, departures[r].receipt)'
           /\ history'[departures[r].at].acceptance = history[departures[r].at].acceptance
<1> DEFINE at == departures[r].at
           receipt == departures[r].receipt
<1>1. Len(history) \in Nat /\ at \in 1..Len(history) - 1 /\ IsDeparture(r, at, receipt)
  BY RevisionsOrdered DEF HistoryInv, Departed, IsDeparture
<1>2. /\ at \in 1..Len(history) /\ at + 1 \in 1..Len(history)
      /\ at \in 1..Len(history') - 1
      /\ history'[at] = history[at] /\ history'[at + 1] = history[at + 1]
  BY <1>1
<1>3. at' = at /\ receipt' = receipt
  OBVIOUS
<1> HIDE DEF at, receipt
<1>4. IsDeparture(r, at, receipt)'
  BY <1>1, <1>2, <1>3 DEF IsDeparture
<1> QED BY <1>2, <1>4 DEF at, receipt

(* The bytes that were pinned for an earlier round are still the same.     *)
LEMMA LaterStillFits ==
    ASSUME HistoryInv, NEW entry \in Entry, SaveRevision(entry),
           entry.round \in {Newest.round, Newest.round + 1},
           \A r \in 1..Len(departures) : departures'[r] = departures[r],
           \A r \in HistoryRounds : entry.annotations[r] # Unknown =>
               r < Newest.round /\ Fitting(r, entry.annotations[r])
    PROVE  LaterFits'
<1>1. /\ Len(history') = Len(history) + 1 /\ Len(history) \in Nat
      /\ \A n \in 1..Len(history) : history'[n] = history[n]
      /\ history'[Len(history')] = entry
  BY RevisionAdded, RevisionsOrdered
<1>2. ASSUME NEW r \in HistoryRounds, r < Newest.round, NEW later, Fitting(r, later)
      PROVE  Fitting(r, later)'
  <2>1. r \in 1..Len(departures) /\ IsDeparture(r, departures[r].at, departures[r].receipt)
    <3>1. r \in 1..MaxHistory /\ MaxHistory \in Nat /\ Newest.round \in Nat
      BY RevisionsOrdered DEF HistoryRounds
    <3>2. r \in 1..Len(departures)
      BY <1>2, <3>1 DEF HistoryInv, Departed
    <3> QED BY <3>2 DEF HistoryInv, Departed
  <2>2. history'[departures[r].at].acceptance = history[departures[r].at].acceptance
    BY <1>1, <2>1, DeparturesLast
  <2>3. departures'[r] = departures[r]
    BY <2>1
  <2> QED BY <1>2, <2>2, <2>3 DEF Fitting
<1> SUFFICES ASSUME NEW n \in 1..Len(history'), NEW r \in HistoryRounds,
                    history'[n].annotations[r] # Unknown
             PROVE  /\ r < history'[n].round
                    /\ Fitting(r, history[n].annotations[r])'
  BY DEF LaterFits
<1>3. CASE n \in 1..Len(history)
  <2> DEFINE later == history[n].annotations[r]
  <2>1. /\ history'[n] = history[n] /\ r < history[n].round /\ Fitting(r, later)
    BY <1>1, <1>3 DEF HistoryInv, LaterFits
  <2>2. r < Newest.round
    <3>1. history[n].round <= Newest.round /\ history[n].round \in Nat /\ Newest.round \in Nat
      BY <1>3, RevisionsOrdered
    <3>2. r \in Nat
      BY RevisionsOrdered DEF HistoryRounds
    <3> QED BY <2>1, <3>1, <3>2
  <2>3. /\ later' = later
    BY <2>1
  <2> HIDE DEF later
  <2>4. Fitting(r, later)'
    BY <1>2, <2>1, <2>2, <2>3 DEF Fitting
  <2> QED BY <2>1, <2>4 DEF later
<1>4. CASE n = Len(history')
  <2> DEFINE later == entry.annotations[r]
  <2>1. history'[n] = entry /\ r < Newest.round /\ Fitting(r, later)
    BY <1>1, <1>4
  <2>2. r < entry.round
    <3>1. Newest.round \in Nat /\ r \in Nat
      BY RevisionsOrdered DEF HistoryRounds
    <3> QED BY <2>1, <3>1
  <2>3. Fitting(r, later)'
    BY <1>2, <2>1
  <2> QED BY <2>1, <2>2, <2>3 DEF Fitting
<1> QED BY <1>1, <1>3, <1>4

(* A revision that activates nothing.                                      *)
LEMMA SameRoundHolds ==
    ASSUME HistoryInv, NEW entry \in Entry, SaveRevision(entry), entry.round = Newest.round,
           UNCHANGED <<response, departures>>, legacy' \in BOOLEAN,
           \A r \in HistoryRounds : entry.annotations[r] # Unknown =>
               r < Newest.round /\ Fitting(r, entry.annotations[r])
    PROVE  HistoryInv'
<1>1. /\ history' \in Seq(Entry) /\ Len(history') \in 1..MaxHistory /\ RoundsGoUp'
      /\ Len(history') = Len(history) + 1 /\ Newest' = entry
      /\ \A n \in 1..Len(history) : history'[n] = history[n]
  BY RevisionAdded
<1>2. LaterFits'
  BY LaterStillFits
<1>3. Departed'
  <2>1. /\ departures' \in Seq([at : Nat, receipt : Receipts \cup {Unknown}])
        /\ Len(departures') = Newest'.round - 1 /\ departures' = departures
    BY <1>1 DEF HistoryInv, Departed
  <2>2. ASSUME NEW r \in 1..Len(departures)
        PROVE  IsDeparture(r, departures[r].at, departures[r].receipt)'
    <3>1. IsDeparture(r, departures[r].at, departures[r].receipt)
      BY DEF HistoryInv, Departed
    <3> QED BY <1>1, <2>1, <3>1, DeparturesLast
  <2> QED BY <2>1, <2>2 DEF Departed
<1>4. HistoryShape'
  BY <1>1 DEF HistoryInv, HistoryShape
<1> QED BY <1>1, <1>2, <1>3, <1>4 DEF HistoryInv

-----------------------------------------------------------------------------
(* In the beginning nothing has been reviewed.                             *)
LEMMA HistoryInitHolds == HistoryInit => HistoryInv
<1> SUFFICES ASSUME HistoryInit PROVE HistoryInv
  OBVIOUS
<1> DEFINE first == [event |-> "register", round |-> 1, acceptance |-> Unknown,
                     annotations |-> [r \in HistoryRounds |-> Unknown], receipt |-> Unknown]
<1>1. /\ history = <<first>> /\ departures = <<>> /\ legacy \in BOOLEAN
      /\ response = [r \in HistoryRounds |-> Unknown]
      /\ MaxHistory \in Nat \ {0}
  BY HistoryAssumption DEF HistoryInit
<1>2. first \in Entry /\ first.round = 1 /\ \A r \in HistoryRounds : first.annotations[r] = Unknown
  BY <1>1 DEF Entry, HistoryRounds
<1> HIDE DEF first
<1>3. /\ history \in Seq(Entry) /\ Len(history) = 1 /\ history[1] = first /\ Newest = first
      /\ \A n \in 1..Len(history) : n = 1
  BY <1>1, <1>2 DEF Newest, Last
<1>4. HistoryShape
  BY <1>1, <1>3 DEF HistoryShape
<1>5. RoundsGoUp
  BY <1>2, <1>3 DEF RoundsGoUp
<1>6. Departed
  BY <1>1, <1>2, <1>3 DEF Departed
<1>7. LaterFits
  BY <1>2, <1>3 DEF LaterFits
<1> QED BY <1>4, <1>5, <1>6, <1>7 DEF HistoryInv

(* The newest revision, and what it says of earlier rounds.                *)
LEMMA NewestIsEntry ==
    ASSUME HistoryInv
    PROVE  /\ Newest \in Entry
           /\ \A r \in HistoryRounds : Newest.annotations[r] # Unknown =>
                  r < Newest.round /\ Fitting(r, Newest.annotations[r])
BY RevisionsOrdered DEF HistoryInv, LaterFits

(* A review of the active round says nothing of others.                    *)
LEMMA ReviewActiveHolds ==
    ASSUME HistoryInv, NEW verdict \in {"accepted", "rejected"}, ReviewActive(verdict)
    PROVE  HistoryInv'
<1> DEFINE review == [verdict |-> verdict, of |-> response[Newest.round]]
           entry == [Newest EXCEPT !.event = "change", !.acceptance = review]
<1>1. /\ SaveRevision(entry) /\ UNCHANGED <<response, legacy, departures>>
      /\ response[Newest.round] \in Successes /\ legacy \in BOOLEAN
  BY DEF ReviewActive, HistoryInv, HistoryShape
<1>2. review \in Judgement
  BY <1>1 DEF Judgement
<1> HIDE DEF review
<1>3. /\ entry \in Entry /\ entry.round = Newest.round
      /\ entry.annotations = Newest.annotations
  BY <1>2, NewestIsEntry DEF Entry
<1> HIDE DEF entry
<1> QED BY <1>1, <1>3, NewestIsEntry, SameRoundHolds

(* Neither does any other change of the job.                               *)
LEMMA ChangeJobHolds == HistoryInv /\ ChangeJob => HistoryInv'
<1> SUFFICES ASSUME HistoryInv, ChangeJob PROVE HistoryInv'
  OBVIOUS
<1> DEFINE entry == [Newest EXCEPT !.event = "change"]
<1>1. SaveRevision(entry) /\ UNCHANGED <<response, departures>> /\ legacy' \in BOOLEAN
  BY DEF ChangeJob, HistoryInv, HistoryShape
<1>2. entry \in Entry /\ entry.round = Newest.round /\ entry.annotations = Newest.annotations
  BY NewestIsEntry DEF Entry
<1> HIDE DEF entry
<1> QED BY <1>1, <1>2, NewestIsEntry, SameRoundHolds

(* A review of an earlier round is of what the replay found for it, which  *)
(* is what was pinned.                                                     *)
LEMMA ReviewEarlierHolds ==
    ASSUME HistoryInv, NEW r \in HistoryRounds, NEW verdict \in {"accepted", "rejected"},
           ReviewEarlier(r, verdict)
    PROVE  HistoryInv'
<1> DEFINE review == [verdict |-> verdict, of |-> response[r]]
           entry == [Newest EXCEPT !.event = "change", !.annotations[r] = review]
           selected == Select(Len(history), r)
           before == history[departures[r].at].acceptance
           annotation == Newest.annotations[r]
<1>1. /\ SaveRevision(entry) /\ UNCHANGED <<response, legacy, departures>>
      /\ response[r] \in Successes /\ legacy \in BOOLEAN /\ r < Newest.round
      /\ IF selected.receipt # Unknown THEN selected.receipt.of = response[r]
           ELSE selected.acceptance # Unknown => selected.acceptance.of = response[r]
  BY DEF ReviewEarlier, HistoryInv, HistoryShape
<1>2. review \in Judgement /\ review.of = response[r]
  BY <1>1 DEF Judgement
<1>3. /\ selected.receipt = departures[r].receipt
      /\ selected.acceptance = IF annotation # Unknown THEN annotation ELSE before
  <2>1. /\ Len(history) \in 1..Len(history) /\ Newest = history[Len(history)]
        /\ r \in 1..(history[Len(history)].round - 1)
    BY <1>1, RevisionsOrdered DEF HistoryRounds
  <2> QED BY <2>1, SelectFinds
<1> HIDE DEF selected
<1>4. annotation # Unknown => Fitting(r, annotation)
  BY NewestIsEntry
<1>5. Fitting(r, review)
  <2> HIDE DEF review, annotation
  <2> QED BY <1>1, <1>2, <1>3, <1>4 DEF Fitting
<1> HIDE DEF review, before
<1>6. /\ entry \in Entry /\ entry.round = Newest.round
      /\ \A s \in HistoryRounds :
            entry.annotations[s] = IF s = r THEN review ELSE Newest.annotations[s]
  BY <1>2, NewestIsEntry DEF Entry
<1> HIDE DEF entry
<1>7. ASSUME NEW s \in HistoryRounds, entry.annotations[s] # Unknown
      PROVE  s < Newest.round /\ Fitting(s, entry.annotations[s])
  <2>1. CASE s = r
    BY <1>1, <1>5, <1>6, <2>1
  <2>2. CASE s # r
    BY <1>6, <1>7, <2>2, NewestIsEntry
  <2> QED BY <2>1, <2>2
<1> QED BY <1>1, <1>6, <1>7, SameRoundHolds

(* The receipt of an activation is of the response the round had.          *)
LEMMA ReceiptFits ==
    ASSUME HistoryInv, Transferable(Newest), Len(history) < MaxHistory
    PROVE  [from |-> Newest.round, revision |-> Len(history) + 1,
            of |-> response[Newest.round], status |-> SummaryStatus(Newest)] \in Receipts
<1>1. /\ Newest \in Entry /\ Newest.round \in HistoryRounds
      /\ response[Newest.round] \in Successes \cup {Error}
  BY NewestIsEntry DEF Entry, HistoryInv, HistoryShape, Transferable
<1>2. Len(history) + 1 \in 1..MaxHistory
  BY RevisionsOrdered
<1>3. SummaryStatus(Newest) \in {"accepted", "rejected", "not_applicable", "invalid"}
  <2>1. CASE response[Newest.round] \in Successes
    BY <2>1 DEF Transferable
  <2>2. CASE response[Newest.round] = Error
    <3>1. Newest.acceptance # Unknown => Newest.acceptance \in Judgement
      BY <1>1 DEF Entry
    <3>2. Newest.acceptance # Unknown => Newest.acceptance.verdict \in {"accepted", "rejected"}
      BY <3>1 DEF Judgement
    <3> QED BY <2>2, <3>2 DEF SummaryStatus
  <2> QED BY <1>1, <2>1, <2>2
<1> QED BY <1>1, <1>2, <1>3 DEF Receipts

(* An activation leaves the newest revision as the departure of its round. *)
LEMMA ActivateNextHolds == HistoryInv /\ ActivateNext => HistoryInv'
<1> SUFFICES ASSUME HistoryInv, ActivateNext PROVE HistoryInv'
  OBVIOUS
<1> DEFINE receipt == IF legacy THEN Unknown
                        ELSE [from |-> Newest.round, revision |-> Len(history) + 1,
                              of |-> response[Newest.round], status |-> SummaryStatus(Newest)]
           entry == [Newest EXCEPT !.event = "activate", !.round = @ + 1,
                         !.acceptance = Unknown, !.receipt = receipt]
           last == [at |-> Len(history), receipt |-> receipt]
<1>1. /\ SaveRevision(entry) /\ departures' = Append(departures, last)
      /\ UNCHANGED <<response, legacy>> /\ Len(history) < MaxHistory
      /\ ~legacy => Transferable(Newest)
  BY DEF ActivateNext, SaveRevision
<1>2. /\ receipt \in Receipts \cup {Unknown}
      /\ receipt # Unknown => receipt.from = Newest.round /\ receipt.revision = Len(history) + 1
  <2>1. CASE legacy
    BY <2>1
  <2>2. CASE ~legacy
    <3> DEFINE kept == [from |-> Newest.round, revision |-> Len(history) + 1,
                        of |-> response[Newest.round], status |-> SummaryStatus(Newest)]
    <3>1. receipt = kept /\ kept.from = Newest.round /\ kept.revision = Len(history) + 1
      BY <2>2
    <3>2. kept \in Receipts
      BY <1>1, <2>2, ReceiptFits
    <3> HIDE DEF kept, receipt
    <3> QED BY <3>1, <3>2
  <2> QED BY <2>1, <2>2
<1> HIDE DEF receipt
<1>3. /\ Newest.round \in Nat /\ Newest.round + 1 \in HistoryRounds
      /\ Newest = history[Len(history)] /\ Len(history) \in Nat /\ Len(history) \in 1..Len(history)
  BY <1>1, RevisionsOrdered DEF HistoryRounds
<1>4. /\ entry \in Entry /\ entry.round = Newest.round + 1 /\ entry.receipt = receipt
      /\ entry.event = "activate" /\ entry.annotations = Newest.annotations
  BY <1>2, <1>3, NewestIsEntry DEF Entry
<1> HIDE DEF entry
<1>5. /\ history' \in Seq(Entry) /\ Len(history') \in 1..MaxHistory /\ RoundsGoUp'
      /\ Len(history') = Len(history) + 1 /\ Newest' = entry /\ history'[Len(history')] = entry
      /\ \A n \in 1..Len(history) : history'[n] = history[n]
  BY <1>1, <1>4, RevisionAdded
<1>6. /\ last \in [at : Nat, receipt : Receipts \cup {Unknown}]
      /\ last.at = Len(history) /\ last.receipt = receipt
  BY <1>2, <1>3
<1> HIDE DEF last
<1>7. /\ departures' \in Seq([at : Nat, receipt : Receipts \cup {Unknown}])
      /\ Len(departures) = Newest.round - 1 /\ Len(departures') = Newest.round
      /\ \A r \in 1..Len(departures) : departures'[r] = departures[r]
      /\ departures'[Newest.round] = last
      /\ \A r \in 1..Len(departures') : r \in 1..Len(departures) \/ r = Newest.round
  BY <1>1, <1>3, <1>6 DEF HistoryInv, Departed
<1>8. LaterFits'
  BY <1>1, <1>4, <1>7, NewestIsEntry, LaterStillFits
<1>9. Departed'
  <2>1. Len(departures') = Newest'.round - 1
    BY <1>3, <1>4, <1>5, <1>7
  <2>2. ASSUME NEW r \in 1..Len(departures)
        PROVE  IsDeparture(r, departures[r].at, departures[r].receipt)'
    BY <1>5, <1>7, DeparturesLast
  <2>3. ASSUME NEW r, r = Newest.round
        PROVE  IsDeparture(r, departures[r].at, departures[r].receipt)'
    <3>1. /\ departures'[r].at = Len(history) /\ departures'[r].receipt = receipt
          /\ Len(history) \in 1..Len(history') - 1
          /\ history'[Len(history)] = Newest /\ history'[Len(history) + 1] = entry
      BY <1>3, <1>5, <1>6, <1>7, <2>3
    <3> QED BY <1>2, <1>4, <2>3, <3>1 DEF IsDeparture
  <2> QED BY <1>7, <2>1, <2>2, <2>3 DEF Departed
<1>10. HistoryShape'
  <2>1. response' = response /\ legacy' = legacy /\ HistoryShape
    BY <1>1 DEF HistoryInv
  <2> QED BY <1>5, <2>1 DEF HistoryShape
<1> QED BY <1>5, <1>8, <1>9, <1>10 DEF HistoryInv

(* No revision is of a response as it is now.                              *)
LEMMA RewriteHolds ==
    ASSUME HistoryInv, NEW r \in HistoryRounds, NEW now \in Successes \cup {Error}, Rewrite(r, now)
    PROVE  HistoryInv'
BY DEF Rewrite, HistoryInv, HistoryShape, RoundsGoUp, Departed, IsDeparture, LaterFits, Fitting,
       Newest, Last

-----------------------------------------------------------------------------
(* Every step keeps HistoryInv.                                            *)
LEMMA HistoryNextHolds == HistoryInv /\ [HistoryNext]_historyVars => HistoryInv'
<1> SUFFICES ASSUME HistoryInv, [HistoryNext]_historyVars PROVE HistoryInv'
  OBVIOUS
<1>1. CASE UNCHANGED historyVars
  BY <1>1 DEF historyVars, HistoryInv, HistoryShape, RoundsGoUp, Departed, IsDeparture,
              LaterFits, Fitting, Newest, Last
<1> QED
  BY <1>1, ReviewActiveHolds, ReviewEarlierHolds, ChangeJobHolds, ActivateNextHolds, RewriteHolds
  DEF HistoryNext

(***************************************************************************)
(* From any revision a caller may have loaded, every earlier round is      *)
(* found, with the receipt its activation left and the review that counts  *)
(* (round_history.select).                                                 *)
(***************************************************************************)
THEOREM EarlierRoundsAreFound == HistorySpec => []HistoryFound
<1>1. HistoryInv => HistoryFound
  <2> SUFFICES ASSUME HistoryInv, NEW head \in 1..Len(history),
                      NEW r \in 1..(history[head].round - 1)
               PROVE  LET selected == Select(head, r)
                          before == history[departures[r].at].acceptance
                          later == history[head].annotations[r]
                      IN  /\ selected.found
                          /\ selected.receipt = departures[r].receipt
                          /\ selected.acceptance = IF later = Unknown THEN before ELSE later
                          /\ later # Unknown =>
                                 IF selected.receipt # Unknown THEN later.of = selected.receipt.of
                                 ELSE before # Unknown => later.of = before.of
    BY DEF HistoryFound
  <2> DEFINE later == history[head].annotations[r]
  <2>1. r \in HistoryRounds
    <3>1. history[head].round \in 1..MaxHistory /\ MaxHistory \in Nat
      BY RevisionsOrdered DEF Entry, HistoryRounds
    <3> QED BY <3>1 DEF HistoryRounds
  <2>2. later # Unknown => Fitting(r, later)
    BY <2>1 DEF HistoryInv, LaterFits
  <2>3. Select(head, r) = [found |-> TRUE, receipt |-> departures[r].receipt,
                           acceptance |-> IF later # Unknown THEN later
                                            ELSE history[departures[r].at].acceptance]
    BY SelectFinds
  <2> HIDE DEF later
  <2> QED BY <2>2, <2>3 DEF Fitting, later
<1> QED BY <1>1, HistoryInitHolds, HistoryNextHolds, PTL DEF HistorySpec

-----------------------------------------------------------------------------
(***************************************************************************)
(* Totals that a checkpoint gives are those of the log (Metering), for any *)
(* number of processes, turns, calls and changes by hand, and whatever the *)
(* plan binds and selects. TotalsAreOfTheLog is not inductive: it speaks   *)
(* only of what was claimed. MeteringInv adds what a checkpoint on its way *)
(* to the claim has established and nobody but a hand may undo.            *)
(***************************************************************************)

(* Every call of a log is of one of its turns.                             *)
OfItsTurns(log) == \A c \in log.calls : c[1] \in log.turns

(* After the log was read without an issue, its turns are the bound ones;  *)
(* after the ledger was compared too, no call of the log is misrecorded,   *)
(* for the imports of other checkpoints only add what is right.            *)
Established(p) ==
    /\ meter[p].step \in {"check", "summary"} => OfItsTurns(meter[p].read)
    /\ meter[p].step \in {"check", "summary"} /\ ~meter[p].issues =>
           meter[p].read.turns = Bound
    /\ meter[p].step = "summary" /\ ~meter[p].issues /\ ~meter[p].disturbed =>
           \A c \in meter[p].read.calls : ~Misrecorded(c)

Claimed(p) ==
    meter[p].claims =>
        /\ meter[p].step = "done"
        /\ ~meter[p].disturbed =>
               /\ meter[p].read.turns = Bound
               /\ meter[p].counted = [c \in NativeCalls |->
                      IF c \in meter[p].read.calls THEN "right" ELSE "none"]

MeteringInv ==
    /\ MeteringTypeOK
    /\ OfItsTurns(native)
    /\ \A p \in Meters : Established(p) /\ Claimed(p)

(* A checkpoint that begins, or was refused, has the fields of any.        *)
LEMMA NewMeterType == NewMeter \in Meter /\ NoLog \in Log /\ NoRecords \in Ledger
<1>1. NoLog \in Log
  BY DEF NoLog, Log
<1>2. NoRecords \in Ledger
  BY DEF NoRecords, Ledger, Records
<1> QED BY <1>1, <1>2 DEF NewMeter, Meter

(* Nothing is read, recorded or claimed at first.                          *)
LEMMA MeteringInitHolds == MeteringInit => MeteringInv
<1> SUFFICES ASSUME MeteringInit PROVE MeteringInv
  OBVIOUS
<1>1. NewMeter \in Meter
  BY NewMeterType
<1>2. MeteringTypeOK
  BY <1>1, NewMeterType, MeteringAssumption DEF MeteringInit, MeteringTypeOK
<1>3. \A p \in Meters : meter[p].step = "done" /\ ~meter[p].claims
  BY DEF MeteringInit, NewMeter
<1>4. OfItsTurns(native)
  BY DEF MeteringInit, NoLog, OfItsTurns
<1> QED BY <1>2, <1>3, <1>4 DEF MeteringInv, Established, Claimed

(* A step of one checkpoint that leaves the ledger as it is has to be      *)
(* looked at for that checkpoint only.                                     *)
LEMMA StepHolds ==
    ASSUME MeteringInv, NEW p \in Meters, NEW next \in Meter, Becomes(p, next), ledger' = ledger,
           \/ next.step = "done" /\ ~next.claims
           \/ /\ next.step # "done" /\ ~next.claims
              /\ next.step \in {"check", "summary"} => OfItsTurns(next.read)
              /\ next.step \in {"check", "summary"} /\ ~next.issues => next.read.turns = Bound
              /\ next.step = "summary" /\ ~next.issues /\ ~next.disturbed =>
                     \A c \in next.read.calls : ~Misrecorded(c)
           \/ /\ next.step = "done" /\ next.claims
              /\ ~next.disturbed =>
                     /\ next.read.turns = Bound
                     /\ next.counted = [c \in NativeCalls |->
                            IF c \in next.read.calls THEN "right" ELSE "none"]
    PROVE  MeteringInv'
<1>1. /\ meter \in [Meters -> Meter]
      /\ meter' = [meter EXCEPT ![p] = next] /\ UNCHANGED <<native, edits, ledger>>
  BY DEF MeteringInv, MeteringTypeOK, Becomes
<1>2. MeteringTypeOK'
  BY <1>1 DEF MeteringInv, MeteringTypeOK
<1>3. ASSUME NEW q \in Meters PROVE Established(q)' /\ Claimed(q)'
  <2>1. CASE q = p
    BY <1>1, <2>1 DEF Established, Claimed, Misrecorded, Misfiled, OfItsTurns
  <2>2. CASE q # p
    BY <1>1, <2>2 DEF MeteringInv, Established, Claimed, Misrecorded, Misfiled, OfItsTurns
  <2> QED BY <2>1, <2>2
<1>4. OfItsTurns(native)'
  BY <1>1 DEF MeteringInv, OfItsTurns
<1> QED BY <1>2, <1>3, <1>4 DEF MeteringInv

(* The log grows (the host program).                                       *)
LEMMA LogHolds ==
    ASSUME MeteringInv, NEW t \in Turns,
           StartTurn(t) \/ \E n \in 1..MaxCalls : LogCall(t, n)
    PROVE  MeteringInv'
<1>1. UNCHANGED <<ledger, meter, edits>>
  BY DEF StartTurn, LogCall
<1>2. native' \in Log
  <2>1. native \in Log
    BY DEF MeteringInv, MeteringTypeOK
  <2>2. CASE StartTurn(t)
    BY <2>1, <2>2 DEF StartTurn, Log
  <2>3. ASSUME NEW n \in 1..MaxCalls, LogCall(t, n) PROVE native' \in Log
    <3>1. <<t, n>> \in NativeCalls
      BY DEF NativeCalls
    <3> QED BY <2>1, <2>3, <3>1 DEF LogCall, Log
  <2> QED BY <2>2, <2>3
<1>3. OfItsTurns(native)'
  <2>1. native \in Log /\ OfItsTurns(native)
    BY DEF MeteringInv, MeteringTypeOK
  <2>2. CASE StartTurn(t)
    BY <2>1, <2>2 DEF StartTurn, Log, OfItsTurns
  <2>3. ASSUME NEW n \in 1..MaxCalls, LogCall(t, n) PROVE OfItsTurns(native)'
    BY <2>1, <2>3 DEF LogCall, Log, OfItsTurns
  <2> QED BY <2>2, <2>3
<1> QED
  BY <1>1, <1>2, <1>3
  DEF MeteringInv, MeteringTypeOK, Established, Claimed, Misrecorded, Misfiled, OfItsTurns

(* A change by hand marks the checkpoints that have compared the ledger.   *)
LEMMA EditHolds ==
    ASSUME MeteringInv, NEW c \in NativeCalls, NEW record \in Records, EditLedger(c, record)
    PROVE  MeteringInv'
<1>1. /\ meter \in [Meters -> Meter] /\ ledger \in Ledger
      /\ meter' = [p \in Meters |->
             [meter[p] EXCEPT !.disturbed = @ \/ meter[p].step = "summary"]]
      /\ ledger' = [ledger EXCEPT ![c] = record]
      /\ edits' = edits + 1 /\ edits < MaxEdits /\ native' = native
  BY DEF MeteringInv, MeteringTypeOK, EditLedger
<1>2. ASSUME NEW p \in Meters
      PROVE  /\ meter'[p] \in Meter
             /\ meter'[p].step = meter[p].step /\ meter'[p].issues = meter[p].issues
             /\ meter'[p].read = meter[p].read /\ meter'[p].claims = meter[p].claims
             /\ meter'[p].counted = meter[p].counted
             /\ meter[p].disturbed => meter'[p].disturbed
             /\ meter[p].step = "summary" => meter'[p].disturbed
  BY <1>1 DEF Meter
<1>3. MeteringTypeOK'
  <2>1. meter' \in [Meters -> Meter]
    BY <1>1, <1>2
  <2>2. ledger' \in Ledger
    BY <1>1 DEF Ledger
  <2>3. edits' \in 0..MaxEdits
    BY <1>1, MeteringAssumption DEF MeteringInv, MeteringTypeOK
  <2> QED BY <1>1, <2>1, <2>2, <2>3 DEF MeteringInv, MeteringTypeOK
<1>4. OfItsTurns(native)'
  BY <1>1 DEF MeteringInv, OfItsTurns
<1>5. ASSUME NEW p \in Meters PROVE Established(p)' /\ Claimed(p)'
  <2>1. Established(p) /\ Claimed(p)
    BY DEF MeteringInv
  <2>2. OfItsTurns(meter'[p].read) = OfItsTurns(meter[p].read)
    BY <1>2
  <2>3. Established(p)'
    BY <1>2, <2>1, <2>2 DEF Established, OfItsTurns
  <2>4. Claimed(p)'
    BY <1>2, <2>1 DEF Claimed
  <2> QED BY <2>3, <2>4
<1> QED BY <1>3, <1>4, <1>5 DEF MeteringInv

(* A record is added only where there is none, and it is right.            *)
LEMMA RecordHolds ==
    ASSUME MeteringInv, NEW p \in Meters, NEW c \in NativeCalls, RecordCall(p, c)
    PROVE  MeteringInv'
<1>1. meter[p] \in Meter /\ meter \in [Meters -> Meter] /\ ledger \in Ledger
  BY DEF MeteringInv, MeteringTypeOK
<1>2. CASE ledger[c] \in {"none", "right"}
  <2> DEFINE next == [meter[p] EXCEPT !.todo = @ \ {c}]
  <2>1. /\ ledger' = [ledger EXCEPT ![c] = "right"]
        /\ meter' = [meter EXCEPT ![p] = next] /\ UNCHANGED <<native, edits>>
        /\ meter[p].step = "record"
    BY <1>2 DEF RecordCall, Becomes
  <2>2. /\ next \in Meter /\ next.step = "record"
        /\ next.claims = meter[p].claims /\ next.disturbed = meter[p].disturbed
    BY <1>1, <2>1 DEF Meter
  <2>3. ~meter[p].claims
    BY <2>1 DEF MeteringInv, Claimed
  <2>4. MeteringTypeOK'
    BY <1>1, <2>1, <2>2 DEF MeteringInv, MeteringTypeOK, Ledger, Records
  <2>5. \A d \in NativeCalls : ~Misrecorded(d) => ~Misrecorded(d)'
    BY <1>1, <2>1 DEF Misrecorded, Misfiled, Ledger
  <2>6. ASSUME NEW q \in Meters PROVE Established(q)' /\ Claimed(q)'
    <3>1. CASE q = p
      BY <1>1, <2>1, <2>2, <2>3, <3>1 DEF Established, Claimed
    <3>2. CASE q # p
      <4>1. meter'[q] = meter[q] /\ meter[q].read.calls \subseteq NativeCalls
        BY <1>1, <2>1, <3>2 DEF Meter, Log
      <4> QED BY <2>5, <4>1 DEF MeteringInv, Established, Claimed, OfItsTurns
    <3> QED BY <3>1, <3>2
  <2> QED BY <2>1, <2>4, <2>6 DEF MeteringInv, OfItsTurns
<1>3. CASE ledger[c] \notin {"none", "right"}
  <2> DEFINE next == [meter[p] EXCEPT !.step = "audit", !.todo = {}, !.errors = TRUE]
  <2>1. Becomes(p, next) /\ ledger' = ledger /\ meter[p].step = "record"
    BY <1>3 DEF RecordCall
  <2>2. next \in Meter /\ next.step = "audit" /\ ~next.claims
    BY <1>1, <2>1 DEF Meter, MeteringInv, Claimed
  <2> QED
    BY <2>1, <2>2, StepHolds DEF MeteringInv
<1> QED BY <1>2, <1>3

(* A checkpoint claims nothing before it is done.                          *)
LEMMA NoClaimYet ==
    ASSUME MeteringInv, NEW p \in Meters, meter[p].step # "done"
    PROVE  meter[p] \in Meter /\ ~meter[p].claims
BY DEF MeteringInv, MeteringTypeOK, Claimed

(* Begin, refusal, the imports up to the audit, and death read nothing     *)
(* that counts.                                                            *)
LEMMA EarlyHolds ==
    ASSUME MeteringInv, NEW p \in Meters, NEW readable \in BOOLEAN,
           \/ \E dry_run \in BOOLEAN : BeginCheckpoint(p, dry_run)
           \/ EndImport(p) \/ Die(p)
           \/ Preflight(p, readable) \/ BeginImport(p, readable)
    PROVE  MeteringInv'
<1> DEFINE calls == {c \in native.calls : c[1] \in Selected}
<1>1. /\ ledger' = ledger
      /\ \/ Becomes(p, NewMeter)
         \/ \E step \in {"audit", "preflight"} : Becomes(p, [NewMeter EXCEPT !.step = step])
         \/ /\ meter[p].step # "done"
            /\ \/ Becomes(p, [meter[p] EXCEPT !.step = "import"])
               \/ Becomes(p, [meter[p] EXCEPT !.step = "record", !.todo = calls])
               \/ Becomes(p, [meter[p] EXCEPT !.step = "audit", !.errors = TRUE])
               \/ Becomes(p, [meter[p] EXCEPT !.step = "audit"])
  BY DEF BeginCheckpoint, EndImport, Die, Preflight, BeginImport
<1>2. PICK next : /\ Becomes(p, next) /\ next \in Meter /\ ~next.claims
                  /\ next.step \in {"done", "preflight", "import", "record", "audit"}
  <2>1. NewMeter \in Meter /\ ~NewMeter.claims /\ NewMeter.step = "done"
    BY NewMeterType DEF NewMeter
  <2>2. calls \subseteq NativeCalls
    BY DEF MeteringInv, MeteringTypeOK, Log
  <2>3. meter[p].step # "done" => meter[p] \in Meter /\ ~meter[p].claims
    BY NoClaimYet
  <2> HIDE DEF calls
  <2>4. CASE Becomes(p, NewMeter)
    BY <2>1, <2>4
  <2>5. ASSUME NEW step \in {"audit", "preflight"}
        PROVE  /\ [NewMeter EXCEPT !.step = step] \in Meter
               /\ ~[NewMeter EXCEPT !.step = step].claims
               /\ [NewMeter EXCEPT !.step = step].step = step
    BY <2>1 DEF Meter
  <2>6. CASE \E step \in {"audit", "preflight"} : Becomes(p, [NewMeter EXCEPT !.step = step])
    BY <2>5, <2>6
  <2>7. CASE meter[p].step # "done"
    <3> DEFINE importing == [meter[p] EXCEPT !.step = "import"]
               recording == [meter[p] EXCEPT !.step = "record", !.todo = calls]
               failed == [meter[p] EXCEPT !.step = "audit", !.errors = TRUE]
               auditing == [meter[p] EXCEPT !.step = "audit"]
    <3>1. \A next \in {importing, recording, failed, auditing} :
              /\ next \in Meter /\ ~next.claims
              /\ next.step \in {"import", "record", "audit"}
      BY <2>2, <2>3, <2>7 DEF Meter
    <3> HIDE DEF importing, recording, failed, auditing
    <3> QED BY <1>1, <2>4, <2>6, <3>1 DEF importing, recording, failed, auditing
  <2> QED BY <1>1, <2>4, <2>6, <2>7
<1> QED BY <1>1, <1>2, StepHolds

(* Without an issue the log's turns are the bound ones ...                 *)
LEMMA AuditHolds ==
    ASSUME MeteringInv, NEW p \in Meters, NEW readable \in BOOLEAN, AuditLog(p, readable)
    PROVE  MeteringInv'
<1> DEFINE issues == \/ native.turns # Bound
                     \/ \E t \in Bound : \A c \in native.calls : c[1] # t
           next == [meter[p] EXCEPT !.step = "check", !.read = native, !.issues = issues]
<1>1. /\ ledger' = ledger /\ meter[p].step = "audit"
      /\ Becomes(p, NewMeter) \/ Becomes(p, next)
  BY DEF AuditLog
<1>2. NewMeter \in Meter /\ ~NewMeter.claims /\ NewMeter.step = "done"
  BY NewMeterType DEF NewMeter
<1>3. /\ next \in Meter /\ ~next.claims /\ next.step = "check"
      /\ OfItsTurns(next.read)
      /\ ~next.issues => next.read.turns = Bound
  <2>1. /\ meter[p] \in Meter /\ ~meter[p].claims /\ native \in Log /\ issues \in BOOLEAN
        /\ OfItsTurns(native)
    BY <1>1, NoClaimYet DEF MeteringInv, MeteringTypeOK
  <2>2. ~issues => native.turns = Bound
    OBVIOUS
  <2> HIDE DEF issues
  <2> QED BY <2>1, <2>2 DEF Meter
<1> HIDE DEF next
<1> QED BY <1>1, <1>2, <1>3, StepHolds

(* ... and then no call of it is misrecorded ...                           *)
LEMMA CheckHolds ==
    ASSUME MeteringInv, NEW p \in Meters, CheckLedger(p)
    PROVE  MeteringInv'
<1> DEFINE bad == \E c \in meter[p].read.calls : Misrecorded(c)
           next == [meter[p] EXCEPT !.step = "summary", !.issues = @ \/ bad]
<1>1. ledger' = ledger /\ meter[p].step = "check" /\ Becomes(p, next)
  BY DEF CheckLedger
<1>2. /\ meter[p] \in Meter /\ ~meter[p].claims /\ bad \in BOOLEAN
      /\ OfItsTurns(meter[p].read)
      /\ ~meter[p].issues => meter[p].read.turns = Bound
      /\ ~bad => \A c \in meter[p].read.calls : ~Misrecorded(c)
  BY <1>1, NoClaimYet DEF MeteringInv, Established
<1>3. /\ next \in Meter /\ ~next.claims /\ next.step = "summary"
      /\ OfItsTurns(next.read)
      /\ ~next.issues => /\ next.read.turns = Bound
                         /\ \A c \in next.read.calls : ~Misrecorded(c)
  <2> HIDE DEF bad
  <2> QED BY <1>2 DEF Meter
<1> HIDE DEF next
<1> QED BY <1>1, <1>3, StepHolds

(* ... so that what it is recorded as, if it is, is right.                 *)
LEMMA SummarizeHolds ==
    ASSUME MeteringInv, NEW p \in Meters, Summarize(p)
    PROVE  MeteringInv'
<1> DEFINE next == [meter[p] EXCEPT !.step = "done", !.claims = TRUE, !.counted = ledger]
           complete == /\ ~meter[p].issues
                       /\ {c \in NativeCalls : ledger[c] # "none"} = meter[p].read.calls
<1>1. /\ ledger' = ledger /\ meter[p].step = "summary"
      /\ Becomes(p, NewMeter) \/ (complete /\ Becomes(p, next))
  BY DEF Summarize
<1>2. NewMeter \in Meter /\ ~NewMeter.claims /\ NewMeter.step = "done"
  BY NewMeterType DEF NewMeter
<1>3. meter[p] \in Meter /\ ledger \in Ledger
  BY DEF MeteringInv, MeteringTypeOK
<1>4. complete /\ ~meter[p].disturbed =>
          /\ meter[p].read.turns = Bound
          /\ ledger = [c \in NativeCalls |->
                 IF c \in meter[p].read.calls THEN "right" ELSE "none"]
  <2> SUFFICES ASSUME complete, ~meter[p].disturbed
               PROVE  /\ meter[p].read.turns = Bound
                      /\ \A c \in NativeCalls :
                             ledger[c] = IF c \in meter[p].read.calls THEN "right" ELSE "none"
    BY <1>3 DEF Ledger
  <2>1. \A c \in meter[p].read.calls : c[1] \in Bound /\ ~Misrecorded(c)
    BY <1>1 DEF MeteringInv, Established, OfItsTurns
  <2>2. ASSUME NEW c \in NativeCalls
        PROVE  ledger[c] = IF c \in meter[p].read.calls THEN "right" ELSE "none"
    BY <1>3, <2>1, <2>2 DEF Misrecorded, Misfiled, Ledger, Records
  <2> QED BY <1>1, <2>2 DEF MeteringInv, Established
<1>5. /\ next \in Meter /\ next.claims /\ next.step = "done"
      /\ next.counted = ledger /\ next.read = meter[p].read
      /\ next.disturbed = meter[p].disturbed
  BY <1>3 DEF Meter
<1> HIDE DEF next, complete
<1> QED BY <1>1, <1>2, <1>4, <1>5, StepHolds

(* Every step keeps MeteringInv.                                           *)
LEMMA MeteringNextHolds == MeteringInv /\ [MeteringNext]_meteringVars => MeteringInv'
<1> SUFFICES ASSUME MeteringInv, [MeteringNext]_meteringVars PROVE MeteringInv'
  OBVIOUS
<1>1. CASE \E t \in Turns : StartTurn(t) \/ \E n \in 1..MaxCalls : LogCall(t, n)
  BY <1>1, LogHolds
<1>2. CASE \E c \in NativeCalls, record \in Records : EditLedger(c, record)
  BY <1>2, EditHolds
<1>3. ASSUME NEW p \in Meters, \E c \in NativeCalls : RecordCall(p, c) PROVE MeteringInv'
  BY <1>3, RecordHolds
<1>4. ASSUME NEW p \in Meters, CheckLedger(p) \/ Summarize(p) PROVE MeteringInv'
  BY <1>4, CheckHolds, SummarizeHolds
<1>5. ASSUME NEW p \in Meters,
             \/ EndImport(p) \/ Die(p)
             \/ \E dry_run \in BOOLEAN : BeginCheckpoint(p, dry_run)
             \/ \E readable \in BOOLEAN :
                    Preflight(p, readable) \/ BeginImport(p, readable) \/ AuditLog(p, readable)
      PROVE  MeteringInv'
  BY <1>5, EarlyHolds, AuditHolds
<1>6. CASE UNCHANGED meteringVars
  BY <1>6
  DEF meteringVars, MeteringInv, MeteringTypeOK, Established, Claimed, Misrecorded, Misfiled,
      OfItsTurns
<1> QED BY <1>1, <1>2, <1>3, <1>4, <1>5, <1>6 DEF MeteringNext

(***************************************************************************)
(* Totals that a checkpoint gives are those of the log it read: every call *)
(* in its owner's round with the log's counters, and no other, whatever    *)
(* other checkpoints recorded and wherever they died                       *)
(* (metering.checkpoint, usage_sources.audit_data).                        *)
(***************************************************************************)
THEOREM TotalsAreRight == MeteringSpec => []TotalsAreOfTheLog
<1>1. MeteringInv => TotalsAreOfTheLog
  BY DEF MeteringInv, Claimed, TotalsAreOfTheLog
<1> QED BY <1>1, MeteringInitHolds, MeteringNextHolds, PTL DEF MeteringSpec

-----------------------------------------------------------------------------
(***************************************************************************)
(* The chain of corrections is readable (UsageLedger), for any sets of     *)
(* clerks, calls and corrections. LedgerReadable is nearly inductive;      *)
(* LedgerInv adds that the calls a clerk prepared a correction of were     *)
(* recorded, for it commits the correction later, and that no record       *)
(* disappears.                                                             *)
(***************************************************************************)

(* What the clerks keep was recorded, and stays so.                        *)
LedgerInv ==
    /\ LedgerTypeOK /\ LedgerReadable
    /\ \A p \in Clerks : manifest[p] # Nothing => AllFound(manifest[p].samples)

-----------------------------------------------------------------------------
(* The revision of a call is the last correction of it.                    *)
LEMMA RevisionIsLast ==
    ASSUME NEW n \in Nat, NEW c \in Calls
    PROVE  /\ RevisionAt(n, c) \in 0..n
           /\ RevisionAt(n, c) # 0 => chain[RevisionAt(n, c)].samples[c] # Nothing
           /\ \A i \in 1..n : chain[i].samples[c] # Nothing => i <= RevisionAt(n, c)
<1> DEFINE S == {0} \cup {i \in 1..n : chain[i].samples[c] # Nothing}
<1>1. S \in SUBSET (0..n) /\ S # {}
  OBVIOUS
<1>2. Max(S) \in S /\ \A k \in S : k <= Max(S)
  BY <1>1, MaxIsGreatest
<1>3. RevisionAt(n, c) = Max(S)
  BY DEF RevisionAt
<1> DEFINE m == Max(S)
<1>4. RevisionAt(n, c) = m /\ m \in S /\ \A k \in S : k <= m
  BY <1>2, <1>3
<1> HIDE DEF m
<1>5. QED
  BY <1>4

(* A revision of 0 is that of a call that was never corrected.             *)
LEMMA NeverCorrected ==
    ASSUME NEW n \in Nat, NEW c \in Calls, \A i \in 1..n : chain[i].samples[c] = Nothing
    PROVE  RevisionAt(n, c) = 0
BY RevisionIsLast

(* Where no correction is made the revisions and what they say stay.       *)
LEMMA SameChain ==
    ASSUME chain' = chain
    PROVE  /\ \A n, c : RevisionAt(n, c)' = RevisionAt(n, c)
           /\ \A c : Revision(c)' = Revision(c)
           /\ base' = base => Effective' = Effective
           /\ base' = base /\ LedgerReadable => LedgerReadable'
<1>1. \A n, c : RevisionAt(n, c)' = RevisionAt(n, c)
  BY DEF RevisionAt
<1>2. \A c : Revision(c)' = Revision(c)
  BY <1>1 DEF Revision
<1>3. base' = base => Effective' = Effective
  BY <1>2 DEF Effective
<1>4. base' = base /\ LedgerReadable => LedgerReadable'
  BY <1>1, <1>3 DEF LedgerReadable, Consistent
<1>5. QED
  BY <1>1, <1>2, <1>3, <1>4

(* The ledger begins empty.                                                *)
LEMMA LedgerInitHolds == LedgerInit => LedgerInv
<1> SUFFICES ASSUME LedgerInit PROVE LedgerInv
  OBVIOUS
<1>1. /\ base = [c \in Calls |-> Nothing] /\ chain = <<>>
      /\ known = [p \in Clerks |-> [c \in Calls |-> 0]]
      /\ manifest = [p \in Clerks |-> Nothing]
  BY DEF LedgerInit
<1>2. Len(chain) = 0 /\ DOMAIN chain = {} /\ chain \in Seq(Manifest)
  BY <1>1
<1>3. LedgerTypeOK
  BY <1>1, <1>2, LedgerAssumption DEF LedgerTypeOK, Revisions
<1>4. \A c \in Calls : Revision(c) = 0
  BY <1>2, NeverCorrected DEF Revision
<1>5. \A c \in Calls : Effective[c] = Nothing
  BY <1>1, <1>4 DEF Effective
<1>6. LedgerReadable
  BY <1>2, <1>5 DEF LedgerReadable, Consistent
<1>7. QED
  BY <1>1, <1>3, <1>6 DEF LedgerInv

(* A new call is recorded: it agrees with what the others say now.         *)
LEMMA RecordUsageHolds ==
    ASSUME LedgerInv, NEW c \in Calls, NEW sample \in Sample, RecordUsage(c, sample)
    PROVE  LedgerInv'
<1>1. /\ base[c] = Nothing /\ Consistent([Effective EXCEPT ![c] = sample])
      /\ base' = [base EXCEPT ![c] = sample]
      /\ chain' = chain /\ known' = known /\ manifest' = manifest
  BY DEF RecordUsage, Recordable
<1>2. /\ base \in [Calls -> Sample \cup {Nothing}]
      /\ chain \in Seq(Manifest) /\ Len(chain) \in Nat /\ DOMAIN chain = 1..Len(chain)
      /\ \A n \in DOMAIN chain, d \in Calls : chain[n].samples[d] # Nothing => base[d] # Nothing
  BY DEF LedgerInv, LedgerTypeOK
<1>3. base' \in [Calls -> Sample \cup {Nothing}] /\ base'[c] = sample
  BY <1>1, <1>2
<1>4. \A d \in Calls : base[d] # Nothing => base'[d] # Nothing
  BY <1>1, <1>2
<1>5. LedgerTypeOK'
  BY <1>1, <1>3, <1>4 DEF LedgerInv, LedgerTypeOK
<1>6. \A n, d : RevisionAt(n, d)' = RevisionAt(n, d)
  BY <1>1, SameChain
<1>7. \A d : Revision(d)' = Revision(d)
  BY <1>1, SameChain
<1>8. Revision(c) = 0
  BY <1>1, <1>2, NeverCorrected DEF Revision
<1>9. Effective' = [Effective EXCEPT ![c] = sample]
  <2>1. Effective' = [d \in Calls |-> IF Revision(d) = 0 THEN base'[d]
                                      ELSE chain[Revision(d)].samples[d]]
    BY <1>1, <1>7 DEF Effective
  <2>2. QED
    BY <1>1, <1>2, <1>8, <2>1 DEF Effective
<1>10. Consistent(Effective)'
  BY <1>1, <1>9 DEF Consistent
<1>11. LedgerReadable'
  BY <1>1, <1>6, <1>10 DEF LedgerInv, LedgerReadable
<1>12. \A p \in Clerks : manifest'[p] # Nothing => AllFound(manifest[p].samples)'
  BY <1>1, <1>4 DEF LedgerInv, AllFound
<1>13. QED
  BY <1>5, <1>11, <1>12 DEF LedgerInv

(* A correction becomes the last revision of what it corrects.             *)
LEMMA CommitHolds ==
    ASSUME LedgerInv, NEW m \in Manifest, Commit(m), AllFound(m.samples), base' = base
    PROVE  /\ chain' \in Seq(Manifest) /\ Len(chain') <= MaxCorrections
           /\ \A n \in DOMAIN chain', c \in Calls :
                  chain'[n].samples[c] # Nothing => base'[c] # Nothing
           /\ LedgerReadable'
<1>1. /\ chain \in Seq(Manifest) /\ Len(chain) \in Nat /\ DOMAIN chain = 1..Len(chain)
      /\ Len(chain) <= MaxCorrections
      /\ \A n \in DOMAIN chain, c \in Calls : chain[n].samples[c] # Nothing => base[c] # Nothing
  BY DEF LedgerInv, LedgerTypeOK
<1>2. CASE chain' = chain
  BY <1>1, <1>2, SameChain DEF LedgerInv
<1>3. CASE chain' # chain
  <2> PICK k \in Nat : k = Len(chain) + 1
    BY <1>1
  <2>1. /\ ~ Used(m.id) /\ Replaceable(m)
        /\ Len(chain) < MaxCorrections /\ chain' = Append(chain, m)
    BY <1>3 DEF Commit
  <2>2. /\ chain' \in Seq(Manifest) /\ Len(chain') = k /\ DOMAIN chain' = 1..k
        /\ chain'[k] = m /\ \A i \in 1..Len(chain) : chain'[i] = chain[i]
        /\ k \in Nat \ {0} /\ k - 1 = Len(chain)
    BY <1>1, <2>1
  <2>3. Len(chain') <= MaxCorrections
    BY <1>1, <2>1, <2>2, LedgerAssumption
  <2>4. \A c \in Calls : m.samples[c] # Nothing => base[c] # Nothing
    BY DEF AllFound
  <2>5. \A n \in DOMAIN chain', c \in Calls : chain'[n].samples[c] # Nothing => base'[c] # Nothing
    BY <1>1, <2>2, <2>4
  <2>6. \A n \in 0..Len(chain) : \A c \in Calls : RevisionAt(n, c)' = RevisionAt(n, c)
    <3>1. SUFFICES ASSUME NEW n \in 0..Len(chain), NEW c \in Calls
                   PROVE  {i \in 1..n : chain'[i].samples[c] # Nothing}
                            = {i \in 1..n : chain[i].samples[c] # Nothing}
      BY DEF RevisionAt
    <3>2. 1..n \subseteq 1..Len(chain)
      BY <1>1
    <3>3. QED
      BY <2>2, <3>2
  <2>7. ASSUME NEW c \in Calls
        PROVE  Revision(c)' = IF m.samples[c] # Nothing THEN k ELSE Revision(c)
    <3>1. Revision(c)' = RevisionAt(k, c)'
      BY <2>2 DEF Revision
    <3> DEFINE S == {0} \cup {i \in 1..k : chain'[i].samples[c] # Nothing}
               T == {0} \cup {i \in 1..Len(chain) : chain[i].samples[c] # Nothing}
    <3>2. RevisionAt(k, c)' = Max(S) /\ Revision(c) = Max(T)
      BY <1>1, <2>2 DEF RevisionAt, Revision
    <3>3. CASE m.samples[c] = Nothing
      <4>1. S = T
        BY <1>1, <2>2, <3>3
      <4>2. QED
        BY <3>1, <3>2, <3>3, <4>1
    <3>4. CASE m.samples[c] # Nothing
      <4>1. S \in SUBSET (0..k) /\ S # {} /\ k \in S /\ k \in Nat
        BY <2>2, <3>4
      <4>2. Max(S) \in S /\ \A i \in S : i <= Max(S)
        BY <4>1, MaxIsGreatest
      <4>3. Max(S) \in 0..k /\ k <= Max(S)
        BY <4>1, <4>2
      <4> DEFINE max == Max(S)
      <4> HIDE DEF S
      <4>4. max \in 0..k /\ k <= max
        BY <4>3
      <4> HIDE DEF max
      <4>5. max = k
        BY <2>2, <4>4
      <4>6. QED
        BY <3>1, <3>2, <3>4, <4>5 DEF max
    <3>5. QED
      BY <3>3, <3>4
  <2>8. ASSUME NEW c \in Calls
        PROVE  Effective'[c] = IF m.samples[c] = Nothing THEN Effective[c] ELSE m.samples[c]
    <3>1. Revision(c) \in 0..Len(chain)
      BY <1>1, RevisionIsLast DEF Revision
    <3>2. Effective'[c] = IF Revision(c)' = 0 THEN base[c] ELSE chain'[Revision(c)'].samples[c]
      BY DEF Effective
    <3>3. Effective[c] = IF Revision(c) = 0 THEN base[c] ELSE chain[Revision(c)].samples[c]
      BY DEF Effective
    <3>4. CASE m.samples[c] = Nothing
      <4>1. Revision(c)' = Revision(c)
        BY <2>7, <3>4
      <4>2. Revision(c) # 0 => chain'[Revision(c)] = chain[Revision(c)]
        BY <1>1, <2>2, <3>1
      <4>3. QED
        BY <3>2, <3>3, <3>4, <4>1, <4>2
    <3>5. CASE m.samples[c] # Nothing
      BY <2>2, <2>7, <3>2, <3>5
    <3>6. QED
      BY <3>4, <3>5
  <2>9. Consistent(Effective)'
    <3> DEFINE e == [c \in Calls |-> IF m.samples[c] = Nothing THEN Effective[c] ELSE m.samples[c]]
    <3>1. Consistent(e)
      BY <2>1 DEF Replaceable
    <3>2. \A c \in Calls : Effective'[c] = e[c]
      BY <2>8
    <3> HIDE DEF e
    <3>3. QED
      BY <3>1, <3>2 DEF Consistent
  <2>10. ASSUME NEW n \in DOMAIN chain', NEW c \in Calls, chain'[n].samples[c] # Nothing
         PROVE  chain'[n].expected[c] = RevisionAt(n - 1, c)'
    <3>1. CASE n = k
      <4>1. chain'[n].expected[c] = Revision(c)
        BY <2>1, <2>2, <2>10, <3>1 DEF Replaceable
      <4>2. n - 1 = Len(chain) /\ Len(chain) \in 0..Len(chain)
        BY <1>1, <2>2, <3>1
      <4>3. \A i \in 0..Len(chain) : i = Len(chain) => RevisionAt(i, c)' = Revision(c)
        BY <2>6 DEF Revision
      <4>4. QED
        BY <4>1, <4>2, <4>3
    <3>2. CASE n # k
      <4>1. n \in 1..Len(chain) /\ n - 1 \in 0..Len(chain)
        BY <1>1, <2>2, <3>2
      <4>2. chain[n].expected[c] = RevisionAt(n - 1, c)
        BY <1>1, <2>2, <2>10, <4>1 DEF LedgerInv, LedgerReadable
      <4>3. RevisionAt(n - 1, c)' = RevisionAt(n - 1, c)
        BY <2>6, <4>1
      <4>4. QED
        BY <2>2, <4>1, <4>2, <4>3
    <3>3. QED
      BY <3>1, <3>2
  <2>11. \A i, j \in DOMAIN chain' : chain'[i].id = chain'[j].id => i = j
    <3>1. \A i \in DOMAIN chain : chain[i].id # m.id
      BY <2>1 DEF Used
    <3>2. \A i, j \in DOMAIN chain : chain[i].id = chain[j].id => i = j
      BY DEF LedgerInv, LedgerReadable
    <3>3. QED
      BY <1>1, <2>2, <3>1, <3>2
  <2>12. LedgerReadable'
    BY <2>9, <2>10, <2>11 DEF LedgerReadable
  <2>13. QED
    BY <2>2, <2>3, <2>5, <2>12
<1>4. QED
  BY <1>2, <1>3

(* Every step keeps the ledger readable.                                   *)
LEMMA LedgerNextHolds == LedgerInv /\ [LedgerNext]_ledgerVars => LedgerInv'
<1> SUFFICES ASSUME LedgerInv, [LedgerNext]_ledgerVars PROVE LedgerInv'
  OBVIOUS
<1>1. /\ LedgerTypeOK /\ manifest \in [Clerks -> Manifest \cup {Nothing}]
      /\ known \in [Clerks -> Revisions] /\ chain \in Seq(Manifest) /\ Len(chain) \in Nat
  BY DEF LedgerInv, LedgerTypeOK
<1>2. ASSUME NEW p \in Clerks, ReadHistory(p) PROVE LedgerInv'
  <2>1. /\ base' = base /\ chain' = chain /\ manifest' = manifest
        /\ known' = [known EXCEPT ![p] = [c \in Calls |-> Revision(c)]]
    BY <1>2 DEF ReadHistory
  <2>2. \A c \in Calls : Revision(c) \in Nat
    BY <1>1, RevisionIsLast DEF Revision
  <2>3. known' \in [Clerks -> Revisions]
    BY <1>1, <2>1, <2>2 DEF Revisions
  <2>4. LedgerTypeOK'
    BY <2>1, <2>3 DEF LedgerInv, LedgerTypeOK
  <2>5. LedgerReadable'
    BY <2>1, SameChain DEF LedgerInv
  <2>6. QED
    BY <2>1, <2>4, <2>5 DEF LedgerInv, AllFound
<1>3. ASSUME NEW p \in Clerks, NEW id \in Corrections,
             NEW samples \in [Calls -> Sample \cup {Nothing}],
             NEW replied \in BOOLEAN, Correct(p, Draft(p, id, samples), replied)
      PROVE  LedgerInv'
  <2> DEFINE m == Draft(p, id, samples)
  <2>1. m \in Manifest
    <3>1. [c \in Calls |-> IF samples[c] = Nothing THEN 0 ELSE known[p][c]] \in Revisions
      BY <1>1 DEF Revisions
    <3>2. QED
      BY <3>1 DEF Draft, Manifest
  <2> HIDE DEF m
  <2>2. /\ AllFound(m.samples) /\ Commit(m) /\ base' = base /\ known' = known
        /\ manifest' = manifest \/ manifest' = [manifest EXCEPT ![p] = m]
    BY <1>3 DEF Correct, m
  <2>3. /\ chain' \in Seq(Manifest) /\ Len(chain') <= MaxCorrections
        /\ \A n \in DOMAIN chain', c \in Calls : chain'[n].samples[c] # Nothing => base'[c] # Nothing
        /\ LedgerReadable'
    BY <2>1, <2>2, CommitHolds
  <2>4. manifest' \in [Clerks -> Manifest \cup {Nothing}]
    BY <1>1, <2>1, <2>2
  <2>5. LedgerTypeOK'
    BY <1>1, <2>2, <2>3, <2>4 DEF LedgerTypeOK
  <2>6. \A q \in Clerks : manifest'[q] # Nothing => AllFound(manifest'[q].samples)
    BY <1>1, <2>2 DEF LedgerInv
  <2>7. QED
    BY <2>2, <2>3, <2>5, <2>6 DEF LedgerInv, AllFound
<1>4. ASSUME NEW p \in Clerks, Repeat(p) PROVE LedgerInv'
  <2> DEFINE m == manifest[p]
  <2>1. /\ m # Nothing /\ Commit(m) /\ base' = base /\ known' = known
        /\ manifest' = [manifest EXCEPT ![p] = Nothing]
    BY <1>4 DEF Repeat
  <2>2. m \in Manifest /\ AllFound(m.samples)
    BY <1>1, <2>1 DEF LedgerInv
  <2> HIDE DEF m
  <2>3. /\ chain' \in Seq(Manifest) /\ Len(chain') <= MaxCorrections
        /\ \A n \in DOMAIN chain', c \in Calls : chain'[n].samples[c] # Nothing => base'[c] # Nothing
        /\ LedgerReadable'
    BY <2>1, <2>2, CommitHolds
  <2>4. /\ manifest' \in [Clerks -> Manifest \cup {Nothing}]
        /\ \A q \in Clerks : manifest'[q] # Nothing => manifest'[q] = manifest[q]
    BY <1>1, <2>1
  <2>5. LedgerTypeOK'
    BY <1>1, <2>1, <2>3, <2>4 DEF LedgerTypeOK
  <2>6. \A q \in Clerks : manifest'[q] # Nothing => AllFound(manifest'[q].samples)
    BY <2>4 DEF LedgerInv
  <2>7. QED
    BY <2>1, <2>3, <2>5, <2>6 DEF LedgerInv, AllFound
<1>5. CASE UNCHANGED ledgerVars
  <2>1. base' = base /\ chain' = chain /\ manifest' = manifest /\ known' = known
    BY <1>5 DEF ledgerVars
  <2>2. LedgerTypeOK'
    BY <2>1 DEF LedgerInv, LedgerTypeOK
  <2>3. LedgerReadable'
    BY <2>1, SameChain DEF LedgerInv
  <2>4. QED
    BY <2>1, <2>2, <2>3 DEF LedgerInv, AllFound
<1>6. QED
  BY <1>2, <1>3, <1>4, <1>5, RecordUsageHolds DEF LedgerNext

(* The ledger can always be read again, whatever clerks record, correct    *)
(* and repeat (load_ledger, correct_manifest).                             *)
THEOREM LedgersAreReadable == LedgerSpec => []LedgerReadable
<1>1. LedgerInv => LedgerReadable
  BY DEF LedgerInv
<1>2. QED
  BY <1>1, LedgerInitHolds, LedgerNextHolds, PTL DEF LedgerSpec

-----------------------------------------------------------------------------
(***************************************************************************)
(* A complete recovery has missed nothing (Runs), for any numbers of runs, *)
(* rounds and watches. RecoveryComplete speaks only of the end of a        *)
(* recovery. RunInv adds what was established on the way: what the         *)
(* recovery saw existed, its job's round is a member of the run, and has   *)
(* been found once the members were read. It rests on two facts about the  *)
(* steps, OnlyAdded: a directory never comes back, and a tracked round     *)
(* stays tracked, for a preparation writes its files in order and removes  *)
(* them only before it is tracked (OrderOK).                               *)
(***************************************************************************)

(* A preparation has written its files in their order.                     *)
RoundPrefixes == {{}, {"request"}, {"request", "prompt"}, {"request", "prompt", "run-ref"}, RoundFiles}

OrderOK == \A r \in DOMAIN rounds : rounds[r].preparing => rounds[r].files \in RoundPrefixes

(* What a run's index names is a round of the run.                         *)
Inside(r, s) == r \in DOMAIN rounds /\ Member(r) /\ rounds[r].place = s

IndexOK ==
    /\ indexed \in [index : Places, rounds : Seq(RoundIds)]
    /\ indexed.index \in Storages =>
           \A i \in DOMAIN indexed.rounds : Inside(indexed.rounds[i], indexed.index)

(* What a recovery saw existed; its job's round is of the run, and found   *)
(* among the members; at the end nothing is left out.                      *)
RecoveryOK ==
    /\ recovery.was \subseteq (DOMAIN rounds) \X {"round"} \cup (DOMAIN watches) \X {"watch"}
    /\ recovery.active # 0 => Inside(recovery.active, recovery.of)
    /\ recovery.active # 0 /\ recovery.done >= 2 => recovery.active \in recovery.rounds
    /\ recovery.done = 4 /\ ~recovery.errors =>
           recovery.was \cap DirectoriesOf(recovery.of) \subseteq Listed

RunInv == RunTypeOK /\ OrderOK /\ IndexOK /\ RecoveryOK

-----------------------------------------------------------------------------
(* No directory of a round or a watch comes back, and a tracked round      *)
(* stays tracked: what a recovery found stays what it is.                  *)
OnlyAdded ==
    /\ DOMAIN rounds \subseteq DOMAIN rounds' /\ DOMAIN watches \subseteq DOMAIN watches'
    /\ \A r \in DOMAIN rounds :
           /\ rounds'[r].place = rounds[r].place
           /\ rounds'[r].there => rounds[r].there
           /\ Member(r) => Member(r)'
    /\ \A w \in DOMAIN watches : watches'[w].place = watches[w].place

(* The rounds and watches that exist.                                      *)
LEMMA TypesOfRounds ==
    ASSUME RunTypeOK
    PROVE  /\ Len(rounds) \in Nat /\ DOMAIN rounds = 1..Len(rounds)
           /\ DOMAIN rounds \subseteq RoundIds
           /\ Len(watches) \in Nat /\ DOMAIN watches = 1..Len(watches)
           /\ DOMAIN watches \subseteq WatchIds
           /\ \A r \in DOMAIN rounds : rounds[r] \in Round
           /\ \A w \in DOMAIN watches : watches[w] \in WatchDir
           /\ MaxRequests \in Nat /\ MaxWatches \in Nat
<1>1. /\ rounds \in Seq(Round) /\ Len(rounds) <= MaxRequests
      /\ watches \in Seq(WatchDir) /\ Len(watches) <= MaxWatches
  BY DEF RunTypeOK
<1>2. MaxRequests \in Nat /\ MaxWatches \in Nat
  BY RunAssumption
<1>3. /\ Len(rounds) \in Nat /\ DOMAIN rounds = 1..Len(rounds)
      /\ \A r \in DOMAIN rounds : rounds[r] \in Round
  BY <1>1
<1>4. /\ Len(watches) \in Nat /\ DOMAIN watches = 1..Len(watches)
      /\ \A w \in DOMAIN watches : watches[w] \in WatchDir
  BY <1>1
<1>5. DOMAIN rounds \subseteq RoundIds
  BY <1>1, <1>2, <1>3 DEF RoundIds
<1>6. DOMAIN watches \subseteq WatchIds
  BY <1>1, <1>2, <1>4 DEF WatchIds
<1>7. QED
  BY <1>2, <1>3, <1>4, <1>5, <1>6

(* A round of a run that a recovery or an index knows stays one.           *)
LEMMA AddedKeepsInside ==
    ASSUME OnlyAdded, NEW r, NEW s, Inside(r, s)
    PROVE  Inside(r, s)'
BY DEF Inside, OnlyAdded

(* Directories of the run that were not there before are new ones.         *)
LEMMA AddedDirectories ==
    ASSUME OnlyAdded, NEW s,
           NEW a \in DirectoriesOf(s)',
           a \in (DOMAIN rounds) \X {"round"} \cup (DOMAIN watches) \X {"watch"}
    PROVE  a \in DirectoriesOf(s)
<1>1. CASE a \in (DOMAIN rounds) \X {"round"}
  <2>1. PICK r \in DOMAIN rounds : a = <<r, "round">>
    BY <1>1
  <2>2. rounds'[r].there /\ rounds'[r].place = s
    BY <2>1 DEF DirectoriesOf
  <2>3. QED
    BY <2>1, <2>2 DEF OnlyAdded, DirectoriesOf
<1>2. CASE a \in (DOMAIN watches) \X {"watch"}
  <2>1. PICK w \in DOMAIN watches : a = <<w, "watch">>
    BY <1>2
  <2>2. watches'[w].place = s
    BY <2>1 DEF DirectoriesOf
  <2>3. QED
    BY <2>1, <2>2 DEF OnlyAdded, DirectoriesOf
<1>3. QED
  BY <1>1, <1>2

(* The index and the recovery keep what holds of them while directories    *)
(* are only added and files only written.                                  *)
LEMMA AddedKeeps ==
    ASSUME RunInv, OnlyAdded
    PROVE  /\ indexed' = indexed => IndexOK'
           /\ recovery' = recovery => RecoveryOK'
<1>1. ASSUME indexed' = indexed PROVE IndexOK'
  BY <1>1, AddedKeepsInside DEF RunInv, IndexOK
<1>2. ASSUME recovery' = recovery PROVE RecoveryOK'
  <2> DEFINE old == (DOMAIN rounds) \X {"round"} \cup (DOMAIN watches) \X {"watch"}
  <2>1. PICK was, active, s, listed : /\ was = recovery.was /\ active = recovery.active
                                      /\ s = recovery.of /\ listed = Listed
    OBVIOUS
  <2>2. /\ recovery'.was = was /\ recovery'.active = active /\ recovery'.of = s
        /\ recovery'.rounds = recovery.rounds /\ recovery'.done = recovery.done
        /\ recovery'.errors = recovery.errors /\ Listed' = listed
    BY <1>2, <2>1 DEF Listed
  <2>3. was \subseteq old /\ (active # 0 => Inside(active, s))
    BY <2>1 DEF RunInv, RecoveryOK
  <2>4. was \subseteq (DOMAIN rounds') \X {"round"} \cup (DOMAIN watches') \X {"watch"}
    BY <2>3 DEF OnlyAdded
  <2>5. active # 0 => Inside(active, s)'
    BY <2>3, AddedKeepsInside
  <2>6. \A a \in old : a \in DirectoriesOf(s)' => a \in DirectoriesOf(s)
    BY AddedDirectories
  <2>7. recovery.done = 4 /\ ~recovery.errors => was \cap DirectoriesOf(s)' \subseteq listed
    <3>1. recovery.done = 4 /\ ~recovery.errors => was \cap DirectoriesOf(s) \subseteq listed
      BY <2>1 DEF RunInv, RecoveryOK
    <3>2. QED
      BY <2>3, <2>6, <3>1
  <2>8. recovery.active # 0 /\ recovery.done >= 2 => recovery.active \in recovery.rounds
    BY DEF RunInv, RecoveryOK
  <2>9. (recovery'.active # 0 => Inside(recovery.active, recovery.of)')
    BY <2>2, <2>5 DEF Inside, Member
  <2>10. recovery'.done = 4 /\ ~recovery'.errors =>
             recovery'.was \cap DirectoriesOf(recovery.of)' \subseteq Listed'
    BY <2>2, <2>7 DEF DirectoriesOf
  <2>11. QED
    BY <1>2, <2>2, <2>4, <2>8, <2>9, <2>10 DEF RecoveryOK
<1>3. QED
  BY <1>1, <1>2

(* A step that only writes files.                                          *)
LEMMA DirectoriesHold ==
    ASSUME RunInv, UNCHANGED <<indexed, recovery>>, OnlyAdded,
           rounds' \in Seq(Round), Len(rounds') <= MaxRequests,
           watches' \in Seq(WatchDir), Len(watches') <= MaxWatches, OrderOK'
    PROVE  RunInv'
<1>1. RunTypeOK'
  BY DEF RunInv, RunTypeOK
<1>2. QED
  BY <1>1, AddedKeeps DEF RunInv

(* A new value for one round.                                              *)
LEMMA RoundHolds ==
    ASSUME RunInv, NEW r \in DOMAIN rounds, NEW new \in Round,
           rounds' = [rounds EXCEPT ![r] = new], UNCHANGED <<watches, indexed, recovery>>,
           new.place = rounds[r].place, new.there => rounds[r].there,
           new.preparing => new.files \in RoundPrefixes,
           Member(r) => new.there /\ {"request", "run-ref", "member"} \subseteq new.files
    PROVE  RunInv'
<1>1. /\ rounds \in Seq(Round) /\ DOMAIN rounds = 1..Len(rounds) /\ Len(rounds) <= MaxRequests
      /\ watches \in Seq(WatchDir) /\ Len(watches) <= MaxWatches
  BY TypesOfRounds DEF RunInv, RunTypeOK
<1>2. /\ rounds' \in Seq(Round) /\ Len(rounds') = Len(rounds) /\ DOMAIN rounds' = DOMAIN rounds
      /\ rounds'[r] = new /\ \A i \in DOMAIN rounds \ {r} : rounds'[i] = rounds[i]
  BY <1>1
<1>3. OrderOK'
  BY <1>2 DEF RunInv, OrderOK
<1>4. OnlyAdded
  <2>1. \A i \in DOMAIN rounds : Member(i) => Member(i)'
    BY <1>2 DEF Member
  <2>2. \A i \in DOMAIN rounds : rounds'[i].place = rounds[i].place
                                 /\ (rounds'[i].there => rounds[i].there)
    BY <1>2
  <2>3. QED
    BY <1>2, <2>1, <2>2 DEF OnlyAdded
<1>5. QED
  BY <1>1, <1>2, <1>3, <1>4, DirectoriesHold

(* The files of a preparation are written in order.                        *)
LEMMA NextInOrder ==
    ASSUME NEW r, rounds[r].files \in RoundPrefixes, RoundFiles \ rounds[r].files # {}
    PROVE  /\ rounds[r].files \cup {NextRoundFile(r)} \in RoundPrefixes
           /\ NextRoundFile(r) \in RoundFiles
<1> DEFINE files == rounds[r].files
<1>1. IsFiniteSet({}) /\ Cardinality({}) = 0
  BY FS_EmptySet
<1>2. IsFiniteSet({"request"}) /\ Cardinality({"request"}) = 1
  BY FS_Singleton
<1>3. IsFiniteSet({"request", "prompt"}) /\ Cardinality({"request", "prompt"}) = 2
  <2>1. {"request", "prompt"} = {"request"} \cup {"prompt"} /\ "prompt" \notin {"request"}
    OBVIOUS
  <2>2. /\ IsFiniteSet({"request"} \cup {"prompt"})
        /\ Cardinality({"request"} \cup {"prompt"}) = Cardinality({"request"}) + 1
    BY <1>2, <2>1, FS_AddElement, Zenon
  <2>3. QED
    BY <1>2, <2>1, <2>2
<1>4. Cardinality({"request", "prompt", "run-ref"}) = 3
  <2>1. /\ {"request", "prompt", "run-ref"} = {"request", "prompt"} \cup {"run-ref"}
        /\ "run-ref" \notin {"request", "prompt"}
    OBVIOUS
  <2>2. Cardinality({"request", "prompt"} \cup {"run-ref"}) = Cardinality({"request", "prompt"}) + 1
    BY <1>3, <2>1, FS_AddElement, Zenon
  <2>3. QED
    BY <1>3, <2>1, <2>2
<1>5. CASE files = {}
  BY <1>1, <1>5 DEF NextRoundFile, RoundPrefixes, RoundFiles
<1>6. CASE files = {"request"}
  <2>1. NextRoundFile(r) = "prompt"
    BY <1>2, <1>6 DEF NextRoundFile
  <2>2. QED
    BY <1>6, <2>1 DEF RoundPrefixes, RoundFiles
<1>7. CASE files = {"request", "prompt"}
  <2>1. NextRoundFile(r) = "run-ref"
    BY <1>3, <1>7 DEF NextRoundFile
  <2>2. QED
    BY <1>7, <2>1 DEF RoundPrefixes, RoundFiles
<1>8. CASE files = {"request", "prompt", "run-ref"}
  <2>1. NextRoundFile(r) = "member"
    BY <1>4, <1>8 DEF NextRoundFile
  <2>2. QED
    BY <1>8, <2>1 DEF RoundPrefixes, RoundFiles
<1>9. QED
  BY <1>5, <1>6, <1>7, <1>8 DEF RoundPrefixes

-----------------------------------------------------------------------------
(* There are no directories at first.                                      *)
LEMMA RunInitHolds == RunInit => RunInv
<1> SUFFICES ASSUME RunInit PROVE RunInv
  OBVIOUS
<1>1. /\ rounds = <<>> /\ watches = <<>> /\ Len(rounds) = 0 /\ Len(watches) = 0
      /\ DOMAIN rounds = {} /\ DOMAIN watches = {}
      /\ indexed = [index |-> Outside, rounds |-> <<>>]
  BY DEF RunInit
<1>2. PICK s \in Storages : recovery = NoRecovery(s)
  BY DEF RunInit
<1>3. NoRecovery(s) \in Recovery
  BY <1>2, RunAssumption DEF NoRecovery, Recovery
<1>4. Outside \in Places /\ Outside \notin Storages /\ MaxRequests \in Nat /\ MaxWatches \in Nat
  BY RunAssumption DEF Places
<1>5. indexed \in [index : Places, rounds : Seq(RoundIds)] /\ indexed.index = Outside
  BY <1>1, <1>4
<1>6. RunTypeOK
  BY <1>1, <1>2, <1>3, <1>4, <1>5 DEF RunTypeOK
<1>7. IndexOK
  BY <1>4, <1>5 DEF IndexOK
<1>8. RecoveryOK
  BY <1>2 DEF RecoveryOK, NoRecovery
<1>9. OrderOK
  BY <1>1 DEF OrderOK
<1>10. QED
  BY <1>6, <1>7, <1>8, <1>9 DEF RunInv

(* A round is prepared in a new directory.                                 *)
LEMMA BeginRoundHolds ==
    ASSUME RunInv, NEW place \in Places, NEW previous \in 0..MaxRequests,
           BeginRound(place, previous)
    PROVE  RunInv'
<1> DEFINE tracks == place \in Storages /\ (previous = 0 \/ rounds[previous].place = place)
           new == [place |-> place, previous |-> previous, there |-> TRUE, files |-> {},
                   preparing |-> TRUE, tracks |-> tracks]
<1>1. /\ Len(rounds) < MaxRequests /\ rounds' = Append(rounds, new)
      /\ UNCHANGED <<watches, indexed, recovery>>
  BY DEF BeginRound
<1>2. tracks \in BOOLEAN
  OBVIOUS
<1> HIDE DEF tracks
<1>3. new \in Round /\ new.files = {} /\ new.preparing
  BY <1>2 DEF Round
<1> HIDE DEF new
<1>4. /\ rounds \in Seq(Round) /\ DOMAIN rounds = 1..Len(rounds) /\ Len(rounds) \in Nat
      /\ watches \in Seq(WatchDir) /\ Len(watches) <= MaxWatches /\ MaxRequests \in Nat
  BY TypesOfRounds DEF RunInv, RunTypeOK
<1>5. /\ rounds' \in Seq(Round) /\ Len(rounds') = Len(rounds) + 1
      /\ DOMAIN rounds' = 1..(Len(rounds) + 1)
      /\ rounds'[Len(rounds) + 1] = new /\ \A i \in DOMAIN rounds : rounds'[i] = rounds[i]
  BY <1>1, <1>3, <1>4
<1>6. OrderOK'
  <2>1. SUFFICES ASSUME NEW i \in DOMAIN rounds', rounds'[i].preparing
                 PROVE  rounds'[i].files \in RoundPrefixes
    BY DEF OrderOK
  <2>2. CASE i \in DOMAIN rounds
    BY <1>5, <2>1, <2>2 DEF RunInv, OrderOK
  <2>3. CASE i = Len(rounds) + 1
    BY <1>3, <1>5, <2>3 DEF RoundPrefixes
  <2>4. QED
    BY <1>4, <1>5, <2>2, <2>3
<1>7. OnlyAdded
  <2>1. DOMAIN rounds \subseteq DOMAIN rounds'
    BY <1>4, <1>5
  <2>2. QED
    BY <1>1, <1>5, <2>1 DEF OnlyAdded, Member
<1>8. Len(rounds') <= MaxRequests
  BY <1>1, <1>4, <1>5
<1>9. QED
  BY <1>1, <1>4, <1>5, <1>6, <1>7, <1>8, DirectoriesHold

(* Its files are written, it fails or ends, and others attach it.          *)
LEMMA RoundStepHolds ==
    ASSUME RunInv, NEW r \in DOMAIN rounds,
           WriteRoundFile(r) \/ RollBack(r) \/ EndRound(r) \/ AttachRequest(r)
    PROVE  RunInv'
<1>1. rounds[r] \in Round /\ UNCHANGED <<watches, indexed, recovery>>
  BY TypesOfRounds DEF RunInv, WriteRoundFile, RollBack, EndRound, AttachRequest
<1>2. /\ rounds[r].preparing => rounds[r].files \in RoundPrefixes
      /\ rounds[r].place \in Places /\ rounds[r].tracks \in BOOLEAN
      /\ rounds[r].previous \in 0..MaxRequests /\ rounds[r].there \in BOOLEAN
      /\ rounds[r].files \in SUBSET RoundFiles /\ rounds[r].preparing \in BOOLEAN
  BY <1>1 DEF RunInv, OrderOK, Round
<1>3. CASE WriteRoundFile(r)
  <2> DEFINE files == rounds[r].files \cup {NextRoundFile(r)}
             new == [rounds[r] EXCEPT !.files = files]
  <2>1. /\ rounds[r].preparing /\ RoundFiles \ rounds[r].files # {}
        /\ rounds' = [rounds EXCEPT ![r] = new]
    BY <1>3 DEF WriteRoundFile
  <2>2. files \in RoundPrefixes /\ files \in SUBSET RoundFiles
    BY <1>2, <2>1, NextInOrder
  <2>3. rounds[r].files \subseteq files
    OBVIOUS
  <2> HIDE DEF files
  <2>4. /\ new \in Round /\ new.place = rounds[r].place /\ new.there = rounds[r].there
        /\ new.files = files
    BY <1>1, <2>2 DEF Round
  <2> HIDE DEF new
  <2>5. QED
    BY <1>1, <2>1, <2>2, <2>3, <2>4, RoundHolds DEF Member
<1>4. CASE RollBack(r)
  <2> DEFINE new == [rounds[r] EXCEPT !.preparing = FALSE, !.there = FALSE, !.files = {}]
  <2>1. /\ rounds[r].preparing /\ ~({"request", "prompt"} \subseteq rounds[r].files)
        /\ rounds' = [rounds EXCEPT ![r].preparing = FALSE, ![r].there = FALSE, ![r].files = {}]
    BY <1>4 DEF RollBack
  <2>2. rounds' = [rounds EXCEPT ![r] = new]
    BY <2>1
  <2>3. new \in Round /\ new.place = rounds[r].place /\ ~new.there /\ ~new.preparing
    BY <1>1 DEF Round
  <2>4. ~Member(r)
    BY <1>2, <2>1 DEF Member, RoundPrefixes, RoundFiles
  <2> HIDE DEF new
  <2>5. QED
    BY <1>1, <2>2, <2>3, <2>4, RoundHolds
<1>5. CASE EndRound(r)
  <2> DEFINE new == [rounds[r] EXCEPT !.preparing = FALSE]
  <2>1. rounds' = [rounds EXCEPT ![r] = new]
    BY <1>5 DEF EndRound
  <2>2. /\ new \in Round /\ new.place = rounds[r].place /\ new.there = rounds[r].there
        /\ new.files = rounds[r].files /\ ~new.preparing
    BY <1>1 DEF Round
  <2> HIDE DEF new
  <2>3. QED
    BY <1>1, <2>1, <2>2, RoundHolds DEF Member
<1>6. CASE AttachRequest(r)
  <2>1. PICK file \in {"run-ref", "member"} : rounds' = [rounds EXCEPT ![r].files = @ \cup {file}]
    BY <1>6 DEF AttachRequest
  <2> DEFINE files == rounds[r].files \cup {file}
             new == [rounds[r] EXCEPT !.files = files]
  <2>2. rounds' = [rounds EXCEPT ![r] = new] /\ ~rounds[r].preparing
    BY <1>6, <2>1 DEF AttachRequest
  <2>3. files \in SUBSET RoundFiles /\ rounds[r].files \subseteq files
    BY <1>2 DEF RoundFiles
  <2> HIDE DEF files
  <2>4. /\ new \in Round /\ new.place = rounds[r].place /\ new.there = rounds[r].there
        /\ new.files = files /\ ~new.preparing
    BY <1>1, <2>2, <2>3 DEF Round
  <2> HIDE DEF new
  <2>5. QED
    BY <1>1, <2>2, <2>3, <2>4, RoundHolds DEF Member
<1>7. QED
  BY <1>3, <1>4, <1>5, <1>6

(* An index takes a round; one of a run only a member of the run.          *)
LEMMA IndexHolds ==
    ASSUME RunInv, NEW r \in DOMAIN rounds,
           ActivateRound(r) \/ \E place \in Places : RegisterRound(r, place)
    PROVE  RunInv'
<1>1. /\ UNCHANGED <<rounds, watches, recovery>> /\ r \in RoundIds
      /\ indexed \in [index : Places, rounds : Seq(RoundIds)] /\ indexed.rounds \in Seq(RoundIds)
  BY TypesOfRounds DEF RunInv, IndexOK, ActivateRound, RegisterRound
<1>2. OnlyAdded
  BY <1>1 DEF OnlyAdded, Member
<1>3. Outside \notin Storages
  BY RunAssumption
<1>4. CASE ActivateRound(r)
  <2>1. /\ MayIndex(r, indexed.index)
        /\ indexed' = [indexed EXCEPT !.rounds = Append(indexed.rounds, r)]
    BY <1>4 DEF ActivateRound
  <2>2. /\ Append(indexed.rounds, r) \in Seq(RoundIds)
        /\ \A i \in DOMAIN Append(indexed.rounds, r) :
               Append(indexed.rounds, r)[i] = r
               \/ (i \in DOMAIN indexed.rounds /\ Append(indexed.rounds, r)[i] = indexed.rounds[i])
    BY <1>1
  <2>3. /\ indexed' \in [index : Places, rounds : Seq(RoundIds)]
        /\ indexed'.index = indexed.index /\ indexed'.rounds = Append(indexed.rounds, r)
    BY <1>1, <2>1, <2>2
  <2>4. indexed.index \in Storages => Inside(r, indexed.index)
    BY <1>3, <2>1 DEF MayIndex, Inside
  <2>5. indexed.index \in Storages =>
            \A i \in DOMAIN indexed'.rounds : Inside(indexed'.rounds[i], indexed.index)
    BY <2>2, <2>3, <2>4 DEF RunInv, IndexOK
  <2>6. IndexOK'
    BY <1>1, <2>3, <2>5 DEF IndexOK, Inside, Member
  <2>7. RunTypeOK'
    BY <1>1, <2>3 DEF RunInv, RunTypeOK
  <2>8. QED
    BY <1>1, <1>2, <2>6, <2>7, AddedKeeps DEF RunInv, OrderOK
<1>5. CASE \E place \in Places : RegisterRound(r, place)
  <2>1. PICK place \in Places : MayIndex(r, place) /\ indexed' = [index |-> place, rounds |-> <<r>>]
    BY <1>5 DEF RegisterRound
  <2>2. <<r>> \in Seq(RoundIds) /\ \A i \in DOMAIN <<r>> : <<r>>[i] = r
    BY <1>1
  <2>3. place \in Storages => Inside(r, place)
    BY <1>3, <2>1 DEF MayIndex, Inside
  <2>4. /\ indexed' \in [index : Places, rounds : Seq(RoundIds)]
        /\ indexed'.index = place /\ indexed'.rounds = <<r>>
    BY <2>1, <2>2
  <2>5. IndexOK'
    BY <1>1, <2>2, <2>3, <2>4 DEF IndexOK, Inside, Member
  <2>6. RunTypeOK'
    BY <1>1, <2>4 DEF RunInv, RunTypeOK
  <2>7. QED
    BY <1>1, <1>2, <2>5, <2>6, AddedKeeps DEF RunInv, OrderOK
<1>6. QED
  BY <1>4, <1>5

(* A watch is initialized and attached.                                    *)
LEMMA WatchHolds ==
    ASSUME RunInv,
           \/ \E r \in DOMAIN rounds, place \in Places : BeginWatch(r, place)
           \/ \E w \in DOMAIN watches : PublishManifest(w) \/ EndWatch(w) \/ AttachWatch(w)
    PROVE  RunInv'
<1>1. /\ rounds \in Seq(Round) /\ Len(rounds) <= MaxRequests /\ DOMAIN rounds \subseteq RoundIds
      /\ watches \in Seq(WatchDir) /\ Len(watches) <= MaxWatches /\ MaxWatches \in Nat
      /\ Len(watches) \in Nat /\ DOMAIN watches = 1..Len(watches)
      /\ \A w \in DOMAIN watches : watches[w] \in WatchDir
  BY TypesOfRounds DEF RunInv, RunTypeOK
<1>2. UNCHANGED <<rounds, indexed, recovery>>
  BY DEF BeginWatch, PublishManifest, EndWatch, AttachWatch
<1>3. OrderOK'
  BY <1>2 DEF RunInv, OrderOK
<1>4. CASE \E r \in DOMAIN rounds, place \in Places : BeginWatch(r, place)
  <2>1. PICK r \in DOMAIN rounds, place \in Places : BeginWatch(r, place)
    BY <1>4
  <2> DEFINE new == [place |-> place, target |-> r, files |-> {}, starting |-> TRUE]
  <2>2. Len(watches) < MaxWatches /\ watches' = Append(watches, new)
    BY <2>1 DEF BeginWatch
  <2>3. new \in WatchDir
    BY <1>1 DEF WatchDir
  <2> HIDE DEF new
  <2>4. /\ watches' \in Seq(WatchDir) /\ Len(watches') = Len(watches) + 1
        /\ DOMAIN watches \subseteq DOMAIN watches'
        /\ \A w \in DOMAIN watches : watches'[w] = watches[w]
    BY <1>1, <2>2, <2>3
  <2>5. OnlyAdded
    BY <1>2, <2>4 DEF OnlyAdded, Member
  <2>6. Len(watches') <= MaxWatches
    BY <1>1, <2>2, <2>4
  <2>7. QED
    BY <1>1, <1>2, <1>3, <2>4, <2>5, <2>6, DirectoriesHold
<1>5. CASE \E w \in DOMAIN watches : PublishManifest(w) \/ EndWatch(w) \/ AttachWatch(w)
  <2>1. PICK w \in DOMAIN watches : PublishManifest(w) \/ EndWatch(w) \/ AttachWatch(w)
    BY <1>5
  <2>2. watches[w] \in WatchDir /\ watches[w].files \in SUBSET {"manifest", "member"}
    BY <1>1 DEF WatchDir
  <2>3. \E new \in WatchDir : new.place = watches[w].place /\ watches' = [watches EXCEPT ![w] = new]
    <3>1. CASE PublishManifest(w)
      <4> DEFINE new == [watches[w] EXCEPT !.files = {"manifest"}]
      <4>1. watches' = [watches EXCEPT ![w] = new]
        BY <3>1 DEF PublishManifest
      <4>2. new \in WatchDir /\ new.place = watches[w].place
        BY <2>2 DEF WatchDir
      <4>3. QED
        BY <4>1, <4>2
    <3>2. CASE EndWatch(w)
      <4> DEFINE new == [watches[w] EXCEPT !.starting = FALSE]
      <4>1. watches' = [watches EXCEPT ![w] = new]
        BY <3>2 DEF EndWatch
      <4>2. new \in WatchDir /\ new.place = watches[w].place
        BY <2>2 DEF WatchDir
      <4>3. QED
        BY <4>1, <4>2
    <3>3. CASE AttachWatch(w)
      <4> DEFINE files == watches[w].files \cup {"member"}
                 new == [watches[w] EXCEPT !.files = files, !.starting = FALSE]
      <4>1. watches' = [watches EXCEPT ![w].files = files, ![w].starting = FALSE]
        BY <3>3 DEF AttachWatch
      <4>2. watches' = [watches EXCEPT ![w] = new]
        BY <4>1
      <4>3. files \in SUBSET {"manifest", "member"}
        BY <2>2
      <4> HIDE DEF files
      <4>4. new \in WatchDir /\ new.place = watches[w].place
        BY <2>2, <4>3 DEF WatchDir
      <4>5. QED
        BY <4>2, <4>4
    <3>4. QED
      BY <2>1, <3>1, <3>2, <3>3
  <2>4. PICK new \in WatchDir :
            new.place = watches[w].place /\ watches' = [watches EXCEPT ![w] = new]
    BY <2>3
  <2>5. /\ watches' \in Seq(WatchDir) /\ Len(watches') = Len(watches)
        /\ DOMAIN watches' = DOMAIN watches
        /\ \A i \in DOMAIN watches : watches'[i].place = watches[i].place
    BY <1>1, <2>1, <2>4
  <2>6. OnlyAdded
    BY <1>2, <2>5 DEF OnlyAdded, Member
  <2>7. QED
    BY <1>1, <1>2, <1>3, <2>5, <2>6, DirectoriesHold
<1>6. QED
  BY <1>4, <1>5

(* A recovery goes from registry to registry: what it has of the job is in *)
(* what it then reads of the members.                                      *)
LEMMA RecoveryHolds ==
    ASSUME RunInv,
           BeginRecovery \/ InventoryJobs \/ ReadMembers \/ ReadWatches \/ ListDirectories
    PROVE  RunInv'
<1>1. UNCHANGED <<rounds, watches, indexed>>
  BY DEF BeginRecovery, InventoryJobs, ReadMembers, ReadWatches, ListDirectories
<1>0. recovery \in Recovery
  BY DEF RunInv, RunTypeOK
<1>2. /\ recovery.of \in Storages /\ recovery.done \in 0..4
      /\ recovery.was \in SUBSET Artifacts /\ recovery.active \in 0..MaxRequests
      /\ recovery.rounds \in SUBSET RoundIds /\ recovery.watches \in SUBSET WatchIds
      /\ recovery.errors \in BOOLEAN
  BY <1>0 DEF Recovery
<1>3. /\ DOMAIN rounds \subseteq RoundIds /\ DOMAIN watches \subseteq WatchIds
      /\ MaxRequests \in Nat /\ MaxWatches \in Nat
  BY TypesOfRounds DEF RunInv
<1>4. \A s : DirectoriesOf(s) \subseteq
                 (DOMAIN rounds) \X {"round"} \cup (DOMAIN watches) \X {"watch"}
  BY DEF DirectoriesOf
<1>5. OnlyAdded
  BY <1>1 DEF OnlyAdded, Member
<1>6. IndexOK' /\ OrderOK'
  BY <1>1, <1>5, AddedKeeps DEF RunInv, OrderOK
<1>7. ASSUME recovery' \in Recovery, RecoveryOK' PROVE RunInv'
  <2>1. RunTypeOK'
    BY <1>1, <1>7 DEF RunInv, RunTypeOK
  <2>2. QED
    BY <1>6, <1>7, <2>1 DEF RunInv
<1>8. \A r, s : (Inside(r, s) <=> Inside(r, s)') /\ DirectoriesOf(s)' = DirectoriesOf(s)
  BY <1>1 DEF Inside, Member, DirectoriesOf
<1>9. RecoveryOK
  BY DEF RunInv
<1>10. CASE BeginRecovery
  <2> DEFINE was == DirectoriesOf(recovery.of)
             new == [NoRecovery(recovery.of) EXCEPT !.done = 0, !.was = was]
  <2>1. recovery' = new
    BY <1>10 DEF BeginRecovery
  <2>2. was \in SUBSET Artifacts
    BY <1>3, <1>4 DEF Artifacts
  <2>3. was \subseteq (DOMAIN rounds) \X {"round"} \cup (DOMAIN watches) \X {"watch"}
    BY <1>4
  <2> HIDE DEF was
  <2>4. new \in Recovery /\ new.done = 0 /\ new.was = was /\ new.active = 0
    <3> DEFINE none == NoRecovery(recovery.of)
    <3>1. none \in Recovery /\ none.active = 0
      BY <1>2, <1>3 DEF NoRecovery, Recovery
    <3>2. 0 \in 0..4
      OBVIOUS
    <3> HIDE DEF none
    <3>3. [none EXCEPT !.done = 0, !.was = was] = new
      BY DEF none
    <3>4. QED
      BY <2>2, <3>1, <3>2, <3>3 DEF Recovery
  <2> HIDE DEF new
  <2>5. RecoveryOK'
    BY <1>1, <2>1, <2>3, <2>4 DEF RecoveryOK
  <2>6. QED
    BY <1>7, <2>1, <2>4, <2>5
<1>11. CASE InventoryJobs
  <2> DEFINE active == IF indexed.index = recovery.of /\ indexed.rounds # <<>>
                         THEN Last(indexed.rounds) ELSE 0
             done == recovery.done + 1
             new == [recovery EXCEPT !.done = done, !.active = active]
  <2>1. recovery' = new /\ recovery.done = 0
    BY <1>11 DEF InventoryJobs
  <2>2. active # 0 => Inside(active, recovery.of)
    <3>1. SUFFICES ASSUME indexed.index = recovery.of, indexed.rounds # <<>>
                   PROVE  Inside(Last(indexed.rounds), recovery.of)
      OBVIOUS
    <3>2. indexed.rounds \in Seq(RoundIds)
      BY DEF RunInv, RunTypeOK
    <3>3. Len(indexed.rounds) \in DOMAIN indexed.rounds
      BY <3>1, <3>2
    <3>4. QED
      BY <1>2, <3>1, <3>3 DEF RunInv, IndexOK, Last
  <2>3. active \in 0..MaxRequests
    BY <1>3, <2>2 DEF Inside, RoundIds
  <2> HIDE DEF active
  <2>4. done = 1 /\ done \in 0..4
    BY <2>1
  <2> HIDE DEF done
  <2>5. /\ new \in Recovery /\ new.done = 1 /\ new.was = recovery.was /\ new.active = active
        /\ new.of = recovery.of
    BY <1>0, <2>3, <2>4 DEF Recovery
  <2> HIDE DEF new
  <2>6. RecoveryOK'
    BY <1>1, <1>8, <1>9, <2>1, <2>2, <2>5 DEF RecoveryOK
  <2>7. QED
    BY <1>7, <2>1, <2>5, <2>6
<1>12. CASE ReadMembers
  <2> DEFINE members == {r \in DOMAIN rounds : /\ "member" \in rounds[r].files
                                               /\ rounds[r].place = recovery.of}
             errors == recovery.errors \/ \E r \in members : ~Member(r)
             done == recovery.done + 1
             new == [recovery EXCEPT !.done = done, !.rounds = members, !.errors = errors]
  <2>1. recovery' = new /\ recovery.done = 1
    BY <1>12 DEF ReadMembers
  <2>2. members \in SUBSET RoundIds /\ errors \in BOOLEAN
    BY <1>2, <1>3
  <2>3. recovery.active # 0 => recovery.active \in members
    BY <1>9 DEF RecoveryOK, Inside, Member
  <2> HIDE DEF members, errors
  <2>4. done = 2 /\ done \in 0..4
    BY <2>1
  <2> HIDE DEF done
  <2>5. /\ new \in Recovery /\ new.done = 2 /\ new.was = recovery.was
        /\ new.active = recovery.active /\ new.of = recovery.of /\ new.rounds = members
    BY <1>0, <2>2, <2>4 DEF Recovery
  <2> HIDE DEF new
  <2>6. RecoveryOK'
    BY <1>1, <1>8, <1>9, <2>1, <2>3, <2>5 DEF RecoveryOK
  <2>7. QED
    BY <1>7, <2>1, <2>5, <2>6
<1>13. CASE ReadWatches
  <2> DEFINE members == {w \in DOMAIN watches : /\ "member" \in watches[w].files
                                                /\ rounds[watches[w].target].place = recovery.of}
             errors == recovery.errors \/ \E w \in members : ~Member(watches[w].target)
             done == recovery.done + 1
             new == [recovery EXCEPT !.done = done, !.watches = members, !.errors = errors]
  <2>1. recovery' = new /\ recovery.done = 2
    BY <1>13 DEF ReadWatches
  <2>2. members \in SUBSET WatchIds /\ errors \in BOOLEAN
    BY <1>2, <1>3
  <2> HIDE DEF members, errors
  <2>3. done = 3 /\ done \in 0..4
    BY <2>1
  <2> HIDE DEF done
  <2>4. /\ new \in Recovery /\ new.done = 3 /\ new.was = recovery.was
        /\ new.active = recovery.active /\ new.of = recovery.of /\ new.rounds = recovery.rounds
    BY <1>0, <2>2, <2>3 DEF Recovery
  <2> HIDE DEF new
  <2>5. RecoveryOK'
    BY <1>1, <1>8, <1>9, <2>1, <2>4 DEF RecoveryOK
  <2>6. QED
    BY <1>7, <2>1, <2>4, <2>5
<1>14. CASE ListDirectories
  <2>1. CASE recovery.errors \/ Unregistered(DirectoriesOf(recovery.of)) # {}
    <3>1. recovery' = [NoRecovery(recovery.of) EXCEPT !.errors = TRUE]
      BY <1>14, <2>1 DEF ListDirectories
    <3>2. /\ recovery' \in Recovery /\ recovery'.errors
          /\ recovery'.was = {} /\ recovery'.active = 0
      <4>1. recovery' = [of |-> recovery.of, done |-> 4, was |-> {}, active |-> 0,
                         rounds |-> {}, watches |-> {}, errors |-> TRUE]
        BY <3>1 DEF NoRecovery
      <4>2. 4 \in 0..4 /\ 0 \in 0..MaxRequests
        BY <1>3
      <4>3. recovery' \in Recovery
        BY <1>2, <4>1, <4>2 DEF Recovery
      <4>4. QED
        BY <4>1, <4>3
    <3>3. RecoveryOK'
      BY <3>2 DEF RecoveryOK
    <3>4. QED
      BY <1>7, <3>2, <3>3
  <2>2. CASE ~(recovery.errors \/ Unregistered(DirectoriesOf(recovery.of)) # {})
    <3>1. recovery' = [recovery EXCEPT !.done = 4] /\ recovery.done = 3
      BY <1>14, <2>2 DEF ListDirectories
    <3>2. /\ recovery' \in Recovery /\ recovery'.was = recovery.was
          /\ recovery'.active = recovery.active /\ recovery'.of = recovery.of
          /\ recovery'.rounds = recovery.rounds /\ recovery'.watches = recovery.watches
      BY <1>0, <3>1 DEF Recovery
    <3>3. DirectoriesOf(recovery.of) \subseteq Listed /\ Listed' = Listed
      BY <2>2, <3>2 DEF Unregistered, Listed
    <3>4. RecoveryOK'
      BY <1>1, <1>8, <1>9, <3>1, <3>2, <3>3 DEF RecoveryOK
    <3>5. QED
      BY <1>7, <3>2, <3>4
  <2>3. QED
    BY <2>1, <2>2
<1>15. QED
  BY <1>10, <1>11, <1>12, <1>13, <1>14

(* Every step of the runs.                                                 *)
LEMMA RunNextHolds == RunInv /\ [RunNext]_runVars => RunInv'
<1>1. ASSUME RunInv, UNCHANGED runVars PROVE RunInv'
  <2>1. rounds' = rounds /\ watches' = watches /\ indexed' = indexed /\ recovery' = recovery
    BY <1>1 DEF runVars
  <2>2. OnlyAdded /\ RunTypeOK' /\ OrderOK'
    BY <1>1, <2>1 DEF OnlyAdded, Member, RunInv, RunTypeOK, OrderOK
  <2>3. QED
    BY <1>1, <2>1, <2>2, AddedKeeps DEF RunInv
<1>2. QED
  BY <1>1, BeginRoundHolds, RoundStepHolds, IndexHolds, WatchHolds, RecoveryHolds DEF RunNext

(* The invariant of the runs.                                              *)
LEMMA RunsCorrect == RunSpec => []RunInv
BY RunInitHolds, RunNextHolds, PTL DEF RunSpec

(* A recovery that calls itself complete has listed every round and watch  *)
(* that was there when it began and still is, and its job's round          *)
(* (runs.recover, check_index).                                            *)
THEOREM RecoveriesMissNothing == RunSpec => []RecoveryComplete
<1>1. RunInv => RecoveryComplete
  BY DEF RunInv, RecoveryOK, RecoveryComplete
<1>2. QED
  BY <1>1, RunsCorrect, PTL

-----------------------------------------------------------------------------
(***************************************************************************)
(* A snapshot is the tree as it was at one moment, and what is read back   *)
(* as passed was run in it undisturbed, for any number of files, contents, *)
(* writes and commands. Neither property is inductive: they speak of what  *)
(* is published only. CaptureInv says what each pass of a capture knows of *)
(* the files whose stat has not changed since it looked, Verified what a   *)
(* disturbed copy shows.                                                   *)
(***************************************************************************)
(* The file that is being looked at is one that is still to do.            *)
CaptureShape ==
    /\ DeliveryTypeOK
    /\ stat \in [0..MaxPath -> 0..MaxWrites]
    /\ capture # Missing =>
           /\ attempt = Missing
           /\ capture.opened # Missing => capture.todo # {}
           /\ capture.opened # Missing /\ capture.pass # "copy" => capture.looked
           /\ ~capture.listed =>
                  /\ capture.pass \in {"scan", "rescan"}
                  /\ capture.files = NoFiles /\ capture.todo = {} /\ ~capture.looked
           /\ \A f \in capture.todo : capture.files[f] = Missing
           /\ capture.pass # "seal" => snapshot = Missing

Looked(f) == capture.files[f] # Missing \/ (capture.looked /\ f = NextFile)

(* In the first scan, a file whose stat is still the one that was kept is  *)
(* what was read, and a directory that was not written has what was listed.*)
Scanned ==
    capture # Missing /\ capture.pass = "scan" =>
        /\ capture.stats[0] <= stat[0]
        /\ capture.listed /\ capture.stats[0] = stat[0] =>
               \A f \in Paths : capture.files[f] # Missing \/ f \in capture.todo <=> tree[f] # Missing
        /\ capture.opened # Missing =>
               /\ capture.opened <= stat[NextFile]
               /\ capture.opened = stat[NextFile] => tree[NextFile] # Missing
        /\ \A f \in Paths :
               /\ Looked(f) => capture.stats[f] <= stat[f]
               /\ capture.files[f] # Missing /\ capture.stats[f] = stat[f] =>
                      capture.files[f] = tree[f]

Same(f) == capture.before[f] = instant[f]
SameFiles == \A f \in Paths : capture.before[f] # Missing <=> instant[f] # Missing

(* From the end of that scan on, what was not written since the look is as *)
(* it was then ...                                                         *)
Kept ==
    capture # Missing /\ capture.pass \in {"copy", "rescan"} =>
        /\ capture.stable[0] <= stat[0]
        /\ capture.stable[0] = stat[0] => SameFiles
        /\ \A f \in Paths : capture.before[f] # Missing =>
               /\ capture.stable[f] <= stat[f]
               /\ capture.stable[f] = stat[f] => Same(f)

(* ... and the second scan finds that out, file by file.                   *)
Rescanned ==
    capture # Missing /\ capture.pass = "rescan" =>
        /\ capture.stats[0] = capture.stable[0] => SameFiles
        /\ \A f \in Paths :
               /\ Looked(f) /\ capture.before[f] # Missing
               /\ capture.stats[f] = capture.stable[f]
               => Same(f)

Taken ==
    /\ snapshot # Missing => snapshot.files = instant
    /\ capture # Missing /\ capture.pass = "seal" =>
           snapshot # Missing /\ ~snapshot.sealed

CaptureInv == CaptureShape /\ Scanned /\ Kept /\ Rescanned /\ Taken

(* What was disturbed before the plan ended is seen after the next command.*)
Verified ==
    attempt # Missing =>
        /\ snapshot # Missing
        /\ attempt.zeros <= attempt.records
        /\ attempt.unchanged => attempt.after = snapshot.files
        /\ attempt.disturbed =>
               /\ attempt.stats # Unwritten
               /\ attempt.stage = "running" /\ Ended => ~attempt.unchanged
        /\ attempt.passed =>
               /\ attempt.stage # "running" /\ attempt.unchanged /\ ~attempt.disturbed
               /\ attempt.zeros = MaxCommands

DeliveryInv == CaptureInv /\ Verified

-----------------------------------------------------------------------------
(* Nothing runs at first.                                                  *)
LEMMA DeliveryInitHolds == DeliveryInit => DeliveryInv
<1> SUFFICES ASSUME DeliveryInit PROVE DeliveryInv
  OBVIOUS
<1>1. Unwritten \in [0..MaxPath -> 0..MaxWrites] /\ Unwritten \in Stats
  BY DeliveryAssumption DEF Unwritten, Stats
<1>2. NoFiles \in Tree
  BY DEF NoFiles, Tree
<1>3. 0 \in 0..MaxTouches
  BY DeliveryAssumption
<1> QED
  BY <1>1, <1>2, <1>3
  DEF DeliveryInit, DeliveryInv, CaptureInv, CaptureShape, DeliveryTypeOK, Scanned, Kept, Rescanned,
      Taken, Verified

(* The next file of a scan is one of those to do.                          *)
LEMMA NextFileToDo ==
    ASSUME CaptureShape, capture # Missing, capture.todo # {}
    PROVE  NextFile \in capture.todo /\ NextFile \in Paths /\ NextFile \in 0..MaxPath
<1>1. capture.todo \subseteq Paths
  BY DEF CaptureShape, DeliveryTypeOK, Capture
<1>2. capture.todo \in SUBSET Nat
  BY <1>1 DEF Paths
<1>3. NextFile \in capture.todo
  BY <1>2, MinIsLeast DEF NextFile
<1> QED BY <1>1, <1>3, DeliveryAssumption DEF Paths

(* The number of a write is greater than any before it.                    *)
LEMMA NumberIsNew ==
    ASSUME stat \in [0..MaxPath -> 0..MaxWrites], Max(Range(stat)) < MaxWrites
    PROVE  /\ Max(Range(stat)) + 1 \in 0..MaxWrites
           /\ \A f \in 0..MaxPath : stat[f] < Max(Range(stat)) + 1
<1>1. Range(stat) \in SUBSET (0..MaxWrites) /\ stat[0] \in Range(stat)
  BY DeliveryAssumption DEF Range
<1>2. Max(Range(stat)) \in 0..MaxWrites /\ \A k \in Range(stat) : k <= Max(Range(stat))
  BY <1>1, MaxIsGreatest, DeliveryAssumption
<1>3. ASSUME NEW f \in 0..MaxPath PROVE stat[f] < Max(Range(stat)) + 1
  <2>1. stat[f] \in Range(stat) /\ stat[f] \in 0..MaxWrites
    BY DEF Range
  <2> QED BY <1>2, <2>1, DeliveryAssumption
<1> QED BY <1>2, <1>3, DeliveryAssumption

(* What is known of a capture's fields.                                    *)
LEMMA CaptureFields ==
    ASSUME CaptureShape, capture # Missing
    PROVE  /\ capture \in Capture
           /\ capture.files \in Tree /\ capture.before \in Tree /\ capture.copied \in Tree
           /\ capture.stats \in [0..MaxPath -> Nat] /\ capture.stable \in [0..MaxPath -> Nat]
           /\ capture.todo \subseteq Paths
           /\ capture.opened \in Nat \cup {Missing}
           /\ capture.looked \in BOOLEAN /\ capture.listed \in BOOLEAN
           /\ Paths \subseteq 0..MaxPath /\ 0 \in 0..MaxPath
<1>1. capture \in Capture
  BY DEF CaptureShape, DeliveryTypeOK
<1>2. Paths \subseteq 0..MaxPath /\ 0 \in 0..MaxPath
  BY DeliveryAssumption DEF Paths
<1>3. /\ capture.stats \in Stats /\ capture.stable \in Stats
      /\ capture.files \in Tree /\ capture.before \in Tree /\ capture.copied \in Tree
  BY <1>1 DEF Capture
<1>4. /\ capture.todo \subseteq Paths /\ capture.opened \in Nat \cup {Missing}
      /\ capture.looked \in BOOLEAN /\ capture.listed \in BOOLEAN
  BY <1>1 DEF Capture
<1> QED BY <1>1, <1>2, <1>3, <1>4 DEF Stats

(* A pass starts with the stat of the directory and nothing else.          *)
LEMMA StartingFields ==
    ASSUME CaptureShape, NEW pass \in {"scan", "copy", "rescan", "seal"}
    PROVE  /\ Starting(pass) \in Capture /\ Starting(pass).pass = pass
           /\ Starting(pass).listed <=> pass \in {"copy", "seal"}
           /\ Starting(pass).todo = {} /\ Starting(pass).opened = Missing
           /\ ~Starting(pass).looked
           /\ Starting(pass).files = NoFiles /\ Starting(pass).copied = NoFiles
           /\ Starting(pass).stats[0] = stat[0]
<1>1. NoFiles \in Tree /\ Unwritten \in Stats
  BY DEF NoFiles, Tree, Unwritten, Stats
<1>2. 0 \in 0..MaxPath /\ stat \in Stats
  BY DeliveryAssumption DEF CaptureShape, DeliveryTypeOK
<1>3. /\ [Unwritten EXCEPT ![0] = stat[0]] \in Stats
      /\ [Unwritten EXCEPT ![0] = stat[0]][0] = stat[0]
  BY <1>1, <1>2 DEF Stats
<1> DEFINE stats == [Unwritten EXCEPT ![0] = stat[0]]
           listed == pass \in {"copy", "seal"}
<1>4. Starting(pass) =
          [pass |-> pass, listed |-> listed, todo |-> {}, looked |-> FALSE,
           opened |-> Missing, files |-> NoFiles, stats |-> stats,
           before |-> NoFiles, stable |-> Unwritten, copied |-> NoFiles]
  BY DEF Starting
<1>5. listed \in BOOLEAN /\ stats \in Stats /\ stats[0] = stat[0]
  BY <1>3
<1>6. listed <=> pass \in {"copy", "seal"}
  OBVIOUS
<1> HIDE DEF listed, stats
<1> QED BY <1>1, <1>4, <1>5, <1>6 DEF Capture

(* A write makes the stat of its file, and one of a file that appears or   *)
(* vanishes that of the directory, greater than any that was kept.         *)
LEMMA WriteHolds ==
    ASSUME DeliveryInv, NEW f \in Paths, NEW content \in Contents \cup {Missing},
           WriteFile(f, content)
    PROVE  DeliveryInv'
<1> DEFINE number == Max(Range(stat)) + 1
           listing == (tree[f] = Missing) # (content = Missing)
<1>1. /\ capture # Missing /\ CaptureShape
      /\ stat' = [stat EXCEPT ![f] = number, ![0] = IF listing THEN number ELSE @]
      /\ tree' = [tree EXCEPT ![f] = content]
      /\ UNCHANGED <<capture, instant, snapshot, attempt, touches>>
  BY DEF WriteFile, DeliveryInv, CaptureInv
<1>2. /\ tree \in Tree /\ stat \in [0..MaxPath -> 0..MaxWrites]
      /\ f \in 0..MaxPath /\ 0 \in 0..MaxPath /\ f # 0
  BY <1>1, DeliveryAssumption DEF CaptureShape, DeliveryTypeOK, Paths
<1>3. number \in 0..MaxWrites /\ \A g \in 0..MaxPath : stat[g] < number
  BY <1>2, NumberIsNew DEF WriteFile
<1> HIDE DEF number
<1>4. /\ stat' \in [0..MaxPath -> 0..MaxWrites] /\ tree' \in Tree
      /\ \A g \in 0..MaxPath : stat[g] <= stat'[g]
      /\ \A g \in Paths : stat'[g] = stat[g] => tree'[g] = tree[g]
      /\ stat'[0] = stat[0] => \A g \in Paths : tree'[g] = Missing <=> tree[g] = Missing
  <2>1. stat' \in [0..MaxPath -> 0..MaxWrites] /\ tree' \in Tree
    BY <1>1, <1>2, <1>3 DEF Tree
  <2>2. ASSUME NEW g \in 0..MaxPath PROVE stat[g] <= stat'[g]
    BY <1>1, <1>2, <1>3
  <2>3. ASSUME NEW g \in Paths, stat'[g] = stat[g] PROVE tree'[g] = tree[g]
    <3>1. g # f
      BY <1>1, <1>2, <1>3, <2>3
    <3> QED BY <1>1, <1>2, <3>1 DEF Tree
  <2>4. ASSUME stat'[0] = stat[0], NEW g \in Paths
        PROVE  tree'[g] = Missing <=> tree[g] = Missing
    <3>1. ~listing
      BY <1>1, <1>2, <1>3, <2>4
    <3> QED BY <1>1, <1>2, <3>1 DEF Tree
  <2> QED BY <2>1, <2>2, <2>3, <2>4
<1>5. \A g \in 0..MaxPath : stat[g] \in Nat /\ stat'[g] \in Nat
  BY <1>2, <1>4, DeliveryAssumption
<1>6. \A k \in Nat : \A g \in 0..MaxPath :
          k <= stat[g] => k <= stat'[g] /\ (k = stat'[g] => stat'[g] = stat[g])
  BY <1>4, <1>5
<1> USE CaptureFields
<1>7. CaptureShape'
  BY <1>1, <1>4, <1>5 DEF CaptureShape, DeliveryTypeOK, Stats, NextFile
<1>8. NextFile' = NextFile /\ \A g : Looked(g)' <=> Looked(g)
  BY <1>1 DEF NextFile, Looked
<1>9. Scanned'
  <2> SUFFICES ASSUME capture.pass = "scan" PROVE Scanned'
    BY <1>1 DEF Scanned
  <2>1. Scanned /\ capture.stats[0] \in Nat
    BY <1>1, <1>2 DEF DeliveryInv, CaptureInv
  <2>2. capture.stats[0] <= stat'[0]
    BY <1>1, <1>2, <1>6, <2>1 DEF Scanned
  <2>3. ASSUME capture.listed, capture.stats[0] = stat'[0], NEW g \in Paths
        PROVE  capture.files[g] # Missing \/ g \in capture.todo <=> tree'[g] # Missing
    <3>1. stat'[0] = stat[0] /\ capture.stats[0] = stat[0]
      BY <1>1, <1>2, <1>6, <2>1, <2>3 DEF Scanned
    <3> QED BY <1>1, <1>4, <2>1, <2>3, <3>1 DEF Scanned
  <2>4. ASSUME capture.opened # Missing
        PROVE  /\ capture.opened <= stat'[NextFile]
               /\ capture.opened = stat'[NextFile] => tree'[NextFile] # Missing
    <3>1. NextFile \in Paths /\ NextFile \in 0..MaxPath
      BY <1>1, <2>4, NextFileToDo DEF CaptureShape
    <3>2. capture.opened \in Nat
      BY <1>1, <2>4
    <3> QED BY <1>1, <1>4, <1>6, <2>1, <2>4, <3>1, <3>2 DEF Scanned
  <2>5. ASSUME NEW g \in Paths
        PROVE  /\ Looked(g) => capture.stats[g] <= stat'[g]
               /\ capture.files[g] # Missing /\ capture.stats[g] = stat'[g] =>
                      capture.files[g] = tree'[g]
    <3>1. g \in 0..MaxPath /\ capture.stats[g] \in Nat
      BY <1>1
    <3> QED BY <1>1, <1>4, <1>6, <2>1, <3>1 DEF Scanned, Looked
  <2> QED BY <1>1, <1>8, <2>2, <2>3, <2>4, <2>5 DEF Scanned
<1>10. Kept'
  <2> SUFFICES ASSUME capture.pass \in {"copy", "rescan"} PROVE Kept'
    BY <1>1 DEF Kept
  <2>1. Kept /\ \A g \in 0..MaxPath : capture.stable[g] \in Nat
    BY <1>1 DEF DeliveryInv, CaptureInv
  <2>2. /\ capture.stable[0] <= stat'[0]
        /\ capture.stable[0] = stat'[0] => SameFiles
    BY <1>1, <1>2, <1>6, <2>1 DEF Kept
  <2>3. ASSUME NEW g \in Paths, capture.before[g] # Missing
        PROVE  /\ capture.stable[g] <= stat'[g]
               /\ capture.stable[g] = stat'[g] => Same(g)
    <3>1. g \in 0..MaxPath
      BY <1>1
    <3> QED BY <1>1, <1>6, <2>1, <2>3, <3>1 DEF Kept
  <2> QED BY <1>1, <2>2, <2>3 DEF Kept, Same, SameFiles
<1>11. Rescanned' /\ Taken'
  BY <1>1, <1>8 DEF DeliveryInv, CaptureInv, Rescanned, Taken, Same, SameFiles
<1>12. Verified'
  BY <1>1 DEF Verified, CaptureShape
<1> QED BY <1>7, <1>9, <1>10, <1>11, <1>12 DEF DeliveryInv, CaptureInv

(* A capture begins, ends, or is abandoned: nothing is known yet, or any   *)
(* more, of what it read (capture, sealed).                                *)
LEMMA BeginCaptureHolds == DeliveryInv /\ BeginCapture => DeliveryInv'
<1> SUFFICES ASSUME DeliveryInv, BeginCapture PROVE DeliveryInv'
  OBVIOUS
<1>1. /\ capture' = [Starting("scan") EXCEPT !.stats = Unwritten]
      /\ stat' = Unwritten /\ instant' = NoFiles /\ snapshot' = Missing /\ attempt' = Missing
      /\ touches' = 0 /\ tree' = tree /\ tree \in Tree
  BY DEF BeginCapture, DeliveryInv, CaptureInv, CaptureShape, DeliveryTypeOK
<1>2. /\ Unwritten \in [0..MaxPath -> 0..MaxWrites] /\ Unwritten \in Stats /\ Unwritten[0] = 0
      /\ NoFiles \in Tree /\ \A f \in Paths : NoFiles[f] = Missing
  BY DeliveryAssumption DEF Unwritten, Stats, NoFiles, Tree
<1>3. /\ capture' \in Capture /\ capture'.pass = "scan" /\ ~capture'.listed
      /\ capture'.todo = {} /\ ~capture'.looked /\ capture'.opened = Missing
      /\ capture'.files = NoFiles /\ capture'.stats = Unwritten
  <2>1. /\ Starting("scan") \in Capture /\ Starting("scan").pass = "scan"
        /\ ~Starting("scan").listed
        /\ Starting("scan").todo = {} /\ ~Starting("scan").looked
        /\ Starting("scan").opened = Missing /\ Starting("scan").files = NoFiles
    BY StartingFields DEF DeliveryInv, CaptureInv
  <2>2. Unwritten \in Stats
    BY <1>2
  <2> QED BY <1>1, <2>1, <2>2 DEF Capture
<1>4. CaptureShape'
  <2>1. 0 \in 0..MaxTouches
    BY DeliveryAssumption
  <2>2. Unwritten \in [0..MaxPath -> 0..MaxWrites] /\ Unwritten \in Stats
    BY <1>2
  <2> QED BY <1>1, <1>2, <1>3, <2>1, <2>2 DEF CaptureShape, DeliveryTypeOK
<1>5. Scanned'
  BY <1>1, <1>2, <1>3 DEF Scanned, Looked
<1> QED
  BY <1>1, <1>3, <1>4, <1>5 DEF DeliveryInv, CaptureInv, Kept, Rescanned, Taken, Verified

(* A listing of an unwritten directory is what is there.                   *)
LEMMA ListFilesHolds == DeliveryInv /\ ListFiles => DeliveryInv'
<1> SUFFICES ASSUME DeliveryInv, ListFiles PROVE DeliveryInv'
  OBVIOUS
<1>1. /\ capture # Missing /\ ~capture.listed /\ CaptureShape
      /\ capture' = [capture EXCEPT !.listed = TRUE, !.todo = Present(tree)]
      /\ UNCHANGED <<tree, stat, instant, snapshot, attempt, touches>>
  BY DEF ListFiles, DeliveryInv, CaptureInv
<1>2. capture \in Capture /\ Present(tree) \subseteq Paths
  BY <1>1, CaptureFields DEF Present
<1>3. /\ capture' \in Capture
      /\ capture'.listed /\ capture'.todo = Present(tree)
      /\ capture'.pass = capture.pass /\ capture'.files = capture.files
      /\ capture'.looked = capture.looked /\ capture'.opened = capture.opened
      /\ capture'.stats = capture.stats /\ capture'.before = capture.before
      /\ capture'.stable = capture.stable
  BY <1>1, <1>2 DEF Capture
<1>4. ~capture.looked /\ \A f \in Paths : capture.files[f] = Missing
  BY <1>1 DEF CaptureShape, NoFiles
<1>5. \A f \in Paths : ~Looked(f)'
  BY <1>3, <1>4 DEF Looked
<1>6. capture.pass \in {"scan", "rescan"} /\ capture.opened = Missing
  BY <1>1, <1>4 DEF CaptureShape
<1>7. CaptureShape'
  BY <1>1, <1>2, <1>3, <1>4, <1>6 DEF CaptureShape, DeliveryTypeOK
<1>8. Scanned'
  BY <1>1, <1>3, <1>4, <1>5, <1>6 DEF DeliveryInv, CaptureInv, Scanned, Present
<1>9. Kept' /\ Rescanned' /\ Taken'
  BY <1>1, <1>3, <1>5 DEF DeliveryInv, CaptureInv, Kept, Rescanned, Taken, Same, SameFiles
<1> QED BY <1>1, <1>7, <1>8, <1>9 DEF DeliveryInv, CaptureInv, Verified, CaptureShape

(* The stat that is kept is that of the look; in the second scan it tells  *)
(* whether the file was written since the first.                           *)
LEMMA LookHolds == DeliveryInv /\ Look => DeliveryInv'
<1> SUFFICES ASSUME DeliveryInv, Look PROVE DeliveryInv'
  OBVIOUS
<1> DEFINE file == NextFile
<1>1. /\ capture # Missing /\ capture.pass \in {"scan", "rescan"} /\ CaptureShape
      /\ capture.todo # {} /\ tree[file] # Missing /\ ~capture.looked
      /\ capture' = [capture EXCEPT !.looked = TRUE, !.stats[file] = stat[file]]
      /\ UNCHANGED <<tree, stat, instant, snapshot, attempt, touches>>
  BY DEF Look, DeliveryInv, CaptureInv
<1>2. /\ file \in capture.todo /\ file \in Paths /\ file \in 0..MaxPath /\ file # 0
      /\ stat[file] \in Nat
  BY <1>1, NextFileToDo, DeliveryAssumption DEF CaptureShape, DeliveryTypeOK, Paths, Stats
<1> HIDE DEF file
<1>3. capture \in Capture /\ capture.stats \in [0..MaxPath -> Nat]
  BY <1>1, CaptureFields
<1>4. /\ capture'.looked /\ capture'.stats = [capture.stats EXCEPT ![file] = stat[file]]
      /\ capture'.pass = capture.pass /\ capture'.files = capture.files
      /\ capture'.listed = capture.listed /\ capture'.todo = capture.todo
      /\ capture'.opened = capture.opened /\ capture'.before = capture.before
      /\ capture'.stable = capture.stable
  BY <1>1, <1>3 DEF Capture
<1>5. capture' \in Capture
  <2>1. [capture.stats EXCEPT ![file] = stat[file]] \in Stats
    BY <1>2, <1>3 DEF Stats
  <2> QED BY <1>1, <1>3, <2>1 DEF Capture
<1>6. /\ NextFile' = file /\ capture'.stats[file] = stat[file]
      /\ capture'.stats[0] = capture.stats[0]
      /\ \A g \in Paths : g # file => /\ capture'.stats[g] = capture.stats[g]
                                      /\ Looked(g)' <=> Looked(g)
      /\ capture.listed /\ capture.opened = Missing
  <2>1. NextFile' = file
    BY <1>4 DEF NextFile, file
  <2>2. capture'.stats[file] = stat[file] /\ capture'.stats[0] = capture.stats[0]
    BY <1>2, <1>3, <1>4, DeliveryAssumption
  <2>3. \A g \in Paths : g # file => capture'.stats[g] = capture.stats[g]
    BY <1>1, <1>2, <1>3, <1>4, CaptureFields
  <2>4. \A g \in Paths : g # file => (Looked(g)' <=> Looked(g))
    BY <1>1, <1>4, <2>1 DEF Looked, file
  <2>5. capture.listed /\ capture.opened = Missing
    <3>1. capture.pass # "copy"
      BY <1>1
    <3>2. ~capture.listed => capture.todo = {}
      BY <1>1 DEF CaptureShape
    <3> QED BY <1>1, <3>1, <3>2 DEF CaptureShape
  <2> QED BY <2>1, <2>2, <2>3, <2>4, <2>5
<1>7. capture.files[file] = Missing
  BY <1>1, <1>2 DEF CaptureShape
<1>8. CaptureShape'
  BY <1>1, <1>4, <1>5, <1>6 DEF CaptureShape, DeliveryTypeOK
<1>9. Scanned'
  <2> SUFFICES ASSUME capture.pass = "scan" PROVE Scanned'
    BY <1>4 DEF Scanned
  <2>1. Scanned
    BY DEF DeliveryInv, CaptureInv
  <2>2. /\ capture.stats[0] <= stat[0]
        /\ capture.stats[0] = stat[0] =>
               \A f \in Paths : capture.files[f] # Missing \/ f \in capture.todo <=> tree[f] # Missing
    BY <1>1, <1>6, <2>1 DEF Scanned
  <2>3. ASSUME NEW g \in Paths
        PROVE  /\ Looked(g)' => capture'.stats[g] <= stat[g]
               /\ capture.files[g] # Missing /\ capture'.stats[g] = stat[g] =>
                      capture.files[g] = tree[g]
    <3>1. CASE g = file
      BY <1>2, <1>6, <1>7, <3>1
    <3>2. CASE g # file
      BY <1>1, <1>6, <2>1, <3>2 DEF Scanned
    <3> QED BY <3>1, <3>2
  <2> QED BY <1>1, <1>4, <1>6, <2>2, <2>3 DEF Scanned
<1>10. Kept' /\ Taken'
  BY <1>1, <1>4 DEF DeliveryInv, CaptureInv, Kept, Taken, Same, SameFiles
<1>11. Rescanned'
  <2> SUFFICES ASSUME capture.pass = "rescan" PROVE Rescanned'
    BY <1>4 DEF Rescanned
  <2>1. Rescanned /\ Kept
    BY DEF DeliveryInv, CaptureInv
  <2>2. capture.stats[0] = capture.stable[0] => SameFiles
    BY <1>1, <2>1 DEF Rescanned
  <2>3. ASSUME NEW g \in Paths, Looked(g)', capture.before[g] # Missing,
               capture'.stats[g] = capture.stable[g]
        PROVE  Same(g)
    <3>1. CASE g = file
      BY <1>1, <1>6, <2>1, <2>3, <3>1 DEF Kept
    <3>2. CASE g # file
      BY <1>1, <1>6, <2>1, <2>3, <3>2 DEF Rescanned
    <3> QED BY <3>1, <3>2
  <2> QED BY <1>1, <1>4, <1>6, <2>2, <2>3 DEF Rescanned, Same, SameFiles
<1> QED BY <1>1, <1>8, <1>9, <1>10, <1>11 DEF DeliveryInv, CaptureInv, Verified, CaptureShape

(* To open a file keeps its stat for the comparison.                       *)
LEMMA OpenFileHolds == DeliveryInv /\ OpenFile => DeliveryInv'
<1> SUFFICES ASSUME DeliveryInv, OpenFile PROVE DeliveryInv'
  OBVIOUS
<1>1. /\ capture # Missing /\ CaptureShape /\ capture.todo # {} /\ tree[NextFile] # Missing
      /\ capture.pass # "copy" => capture.looked
      /\ capture' = [capture EXCEPT !.opened = stat[NextFile]]
      /\ UNCHANGED <<tree, stat, instant, snapshot, attempt, touches>>
  BY DEF OpenFile, DeliveryInv, CaptureInv
<1>2. stat[NextFile] \in Nat
  BY <1>1, NextFileToDo DEF CaptureShape, DeliveryTypeOK, Stats
<1>3. capture \in Capture
  BY <1>1, CaptureFields
<1>4. /\ capture' \in Capture
      /\ capture'.opened = stat[NextFile]
      /\ capture'.looked = capture.looked /\ capture'.stats = capture.stats
      /\ capture'.pass = capture.pass /\ capture'.files = capture.files
      /\ capture'.listed = capture.listed /\ capture'.todo = capture.todo
      /\ capture'.before = capture.before /\ capture'.stable = capture.stable
  BY <1>1, <1>2, <1>3 DEF Capture
<1>5. NextFile' = NextFile /\ \A g : Looked(g)' <=> Looked(g)
  BY <1>4 DEF NextFile, Looked
<1>6. CaptureShape'
  BY <1>1, <1>4 DEF CaptureShape, DeliveryTypeOK
<1>7. Scanned'
  BY <1>1, <1>2, <1>4, <1>5 DEF DeliveryInv, CaptureInv, Scanned
<1>8. Kept' /\ Rescanned' /\ Taken'
  BY <1>1, <1>4, <1>5 DEF DeliveryInv, CaptureInv, Kept, Rescanned, Taken, Same, SameFiles
<1> QED BY <1>1, <1>6, <1>7, <1>8 DEF DeliveryInv, CaptureInv, Verified, CaptureShape

(* A file that was not written while it was open is read as it is.         *)
LEMMA CloseFileHolds == DeliveryInv /\ CloseFile => DeliveryInv'
<1> SUFFICES ASSUME DeliveryInv, CloseFile PROVE DeliveryInv'
  OBVIOUS
<1> DEFINE file == NextFile
           copies == capture.pass = "copy"
           files == IF copies THEN capture.files
                    ELSE [capture.files EXCEPT ![file] = tree[file]]
           copied == IF copies THEN [capture.copied EXCEPT ![file] = tree[file]]
                     ELSE capture.copied
<1>1. /\ capture # Missing /\ CaptureShape /\ capture.opened # Missing
      /\ stat[file] = capture.opened
      /\ capture' = [capture EXCEPT
             !.files[file] = IF copies THEN @ ELSE tree[file],
             !.copied[file] = IF copies THEN tree[file] ELSE @,
             !.todo = @ \ {file}, !.looked = FALSE, !.opened = Missing]
      /\ UNCHANGED <<tree, stat, instant, snapshot, attempt, touches>>
  BY DEF CloseFile, DeliveryInv, CaptureInv
<1>2. capture.todo # {} /\ (~copies => capture.looked)
  BY <1>1 DEF CaptureShape
<1>3. /\ file \in capture.todo /\ file \in Paths /\ file \in 0..MaxPath
      /\ capture \in Capture /\ tree \in Tree
      /\ capture.files \in Tree /\ capture.copied \in Tree
  BY <1>1, <1>2, NextFileToDo, CaptureFields DEF CaptureShape, DeliveryTypeOK
<1> HIDE DEF file
<1>4. /\ files \in Tree /\ copied \in Tree
      /\ \A g \in Paths : g # file => files[g] = capture.files[g]
      /\ ~copies => files[file] = tree[file]
  BY <1>3 DEF Tree
<1>5. capture' = [capture EXCEPT !.files = files, !.copied = copied,
                      !.todo = @ \ {file}, !.looked = FALSE, !.opened = Missing]
  BY <1>1, <1>3 DEF Capture, Tree
<1> HIDE DEF files, copied
<1>6. /\ capture' \in Capture
      /\ capture'.files = files /\ capture'.todo = capture.todo \ {file}
      /\ ~capture'.looked /\ capture'.opened = Missing
      /\ capture'.stats = capture.stats
      /\ capture'.pass = capture.pass /\ capture'.listed = capture.listed
      /\ capture'.before = capture.before /\ capture'.stable = capture.stable
  BY <1>3, <1>4, <1>5 DEF Capture
<1>7. \A g \in Paths : ~copies /\ Looked(g)' => Looked(g)
  BY <1>2, <1>4, <1>6 DEF Looked, file
<1>8. CaptureShape'
  <2>1. capture.listed
    BY <1>1, <1>2, <1>3, <1>6 DEF CaptureShape
  <2>2. \A g \in capture.todo \ {file} : files[g] = Missing
    <3>1. capture.todo \subseteq Paths
      BY <1>1, CaptureFields
    <3> QED BY <1>1, <1>4, <3>1 DEF CaptureShape
  <2> QED BY <1>1, <1>6, <2>1, <2>2 DEF CaptureShape, DeliveryTypeOK
<1>9. Scanned'
  <2> SUFFICES ASSUME capture.pass = "scan" PROVE Scanned'
    BY <1>6 DEF Scanned
  <2>1. Scanned
    BY DEF DeliveryInv, CaptureInv
  <2>2. tree[file] # Missing
    BY <1>1, <2>1 DEF Scanned, file
  <2>3. capture.stats[0] <= stat[0]
    BY <1>1, <2>1 DEF Scanned
  <2>4. ASSUME capture.listed, capture.stats[0] = stat[0], NEW g \in Paths
        PROVE  files[g] # Missing \/ g \in capture.todo \ {file} <=> tree[g] # Missing
    <3>1. CASE g = file
      BY <1>4, <2>2, <3>1
    <3>2. CASE g # file
      BY <1>1, <1>4, <2>1, <2>4, <3>2 DEF Scanned
    <3> QED BY <3>1, <3>2
  <2>5. ASSUME NEW g \in Paths
        PROVE  /\ Looked(g)' => capture.stats[g] <= stat[g]
               /\ files[g] # Missing /\ capture.stats[g] = stat[g] => files[g] = tree[g]
    <3>1. CASE g = file
      BY <1>1, <1>4, <1>7, <2>1, <3>1 DEF Scanned
    <3>2. CASE g # file
      BY <1>1, <1>4, <1>7, <2>1, <3>2 DEF Scanned
    <3> QED BY <3>1, <3>2
  <2> QED BY <1>1, <1>6, <2>3, <2>4, <2>5 DEF Scanned
<1>10. Kept' /\ Taken'
  BY <1>1, <1>6 DEF DeliveryInv, CaptureInv, Kept, Taken, Same, SameFiles
<1>11. Rescanned'
  BY <1>1, <1>6, <1>7 DEF DeliveryInv, CaptureInv, Rescanned, Same, SameFiles
<1> QED BY <1>1, <1>8, <1>9, <1>10, <1>11 DEF DeliveryInv, CaptureInv, Verified, CaptureShape

(* At the end of the first scan the instant is taken.                      *)
LEMMA StartCopyHolds == DeliveryInv /\ StartCopy => DeliveryInv'
<1> SUFFICES ASSUME DeliveryInv, StartCopy PROVE DeliveryInv'
  OBVIOUS
<1>1. /\ capture # Missing /\ CaptureShape /\ Scanned
      /\ capture.listed /\ capture.todo = {} /\ capture.pass = "scan"
      /\ capture' = [Starting("copy") EXCEPT
             !.todo = Present(capture.files), !.before = capture.files, !.stable = capture.stats]
      /\ instant' = tree
      /\ UNCHANGED <<tree, stat, snapshot, attempt, touches>>
  BY DEF StartCopy, Walked, DeliveryInv, CaptureInv
<1>2. /\ capture.files \in Tree /\ capture.stats \in Stats /\ tree \in Tree
      /\ Present(capture.files) \subseteq Paths
  BY <1>1, CaptureFields DEF Present, CaptureShape, DeliveryTypeOK, Stats
<1>3. /\ capture' \in Capture /\ capture'.pass = "copy" /\ capture'.listed
      /\ capture'.todo = Present(capture.files) /\ capture'.opened = Missing
      /\ capture'.files = NoFiles
      /\ capture'.before = capture.files /\ capture'.stable = capture.stats
  BY <1>1, <1>2, StartingFields DEF Capture
<1>4. \A f \in Paths : NoFiles[f] = Missing
  BY DEF NoFiles
<1>5. CaptureShape'
  BY <1>1, <1>2, <1>3, <1>4 DEF CaptureShape, DeliveryTypeOK
<1>6. Kept'
  BY <1>1, <1>3 DEF Kept, Scanned, Looked, Same, SameFiles
<1>7. Taken' /\ snapshot = Missing
  BY <1>1, <1>3 DEF Taken, CaptureShape
<1> QED
  BY <1>1, <1>3, <1>5, <1>6, <1>7
  DEF DeliveryInv, CaptureInv, Scanned, Rescanned, Verified, CaptureShape

(* The second scan starts with a look at the directory.                    *)
LEMMA RescanHolds == DeliveryInv /\ Rescan => DeliveryInv'
<1> SUFFICES ASSUME DeliveryInv, Rescan PROVE DeliveryInv'
  OBVIOUS
<1>1. /\ capture # Missing /\ CaptureShape /\ Kept
      /\ capture.pass = "copy"
      /\ capture' = [Starting("rescan") EXCEPT
             !.before = capture.before, !.stable = capture.stable, !.copied = capture.copied]
      /\ UNCHANGED <<tree, stat, instant, snapshot, attempt, touches>>
  BY DEF Rescan, Walked, DeliveryInv, CaptureInv
<1>2. capture.before \in Tree /\ capture.stable \in Stats /\ capture.copied \in Tree
  BY <1>1, CaptureFields DEF Stats
<1>3. /\ capture' \in Capture /\ capture'.pass = "rescan" /\ ~capture'.listed
      /\ capture'.todo = {} /\ ~capture'.looked /\ capture'.opened = Missing
      /\ capture'.files = NoFiles /\ capture'.stats[0] = stat[0]
      /\ capture'.before = capture.before /\ capture'.stable = capture.stable
  BY <1>1, <1>2, StartingFields DEF Capture
<1>4. CaptureShape'
  BY <1>1, <1>3 DEF CaptureShape, DeliveryTypeOK
<1>5. \A f \in Paths : ~Looked(f)'
  BY <1>3 DEF Looked, NoFiles
<1>6. Kept' /\ Rescanned'
  BY <1>1, <1>3, <1>5 DEF Kept, Rescanned, Same, SameFiles
<1>7. Taken'
  BY <1>1, <1>3 DEF Taken, DeliveryInv, CaptureInv
<1> QED
  BY <1>1, <1>3, <1>4, <1>6, <1>7 DEF DeliveryInv, CaptureInv, Scanned, Verified, CaptureShape

(* What both scans and the copy agree on is the instant (capture).         *)
LEMMA PublishSnapshotHolds == DeliveryInv /\ PublishSnapshot => DeliveryInv'
<1> SUFFICES ASSUME DeliveryInv, PublishSnapshot PROVE DeliveryInv'
  OBVIOUS
<1>1. /\ capture # Missing /\ CaptureShape /\ Rescanned /\ Stable /\ capture.pass = "rescan"
      /\ snapshot' = [files |-> capture.copied, store |-> capture.copied, sealed |-> FALSE]
      /\ capture' = Starting("seal")
      /\ UNCHANGED <<tree, stat, instant, attempt, touches>>
  BY DEF PublishSnapshot, Walked, DeliveryInv, CaptureInv
<1>2. capture.copied \in Tree /\ instant \in Tree
  BY <1>1, CaptureFields DEF CaptureShape, DeliveryTypeOK
<1>3. \A f \in Paths : capture.copied[f] = instant[f]
  BY <1>1 DEF Rescanned, Stable, Looked, Same, SameFiles
<1>4. capture.copied = instant
  BY <1>2, <1>3 DEF Tree
<1>5. snapshot' \in Snapshot /\ snapshot'.files = instant /\ ~snapshot'.sealed
  BY <1>1, <1>2, <1>4 DEF Snapshot
<1>6. /\ capture' \in Capture /\ capture'.pass = "seal" /\ capture'.listed
      /\ capture'.todo = {} /\ capture'.opened = Missing
  BY <1>1, StartingFields
<1>7. CaptureShape'
  BY <1>1, <1>5, <1>6 DEF CaptureShape, DeliveryTypeOK
<1>8. Taken'
  BY <1>1, <1>5, MissingAssumption DEF Taken
<1> QED
  BY <1>1, <1>6, <1>7, <1>8
  DEF DeliveryInv, CaptureInv, Scanned, Kept, Rescanned, Verified, CaptureShape

(* The digest of the manifest makes it count; the capture is over.         *)
LEMMA SealSnapshotHolds == DeliveryInv /\ SealSnapshot => DeliveryInv'
<1> SUFFICES ASSUME DeliveryInv, SealSnapshot PROVE DeliveryInv'
  OBVIOUS
<1>1. /\ snapshot \in Snapshot /\ snapshot.files = instant
      /\ snapshot' = [snapshot EXCEPT !.sealed = TRUE]
      /\ capture' = Missing /\ attempt = Missing
      /\ UNCHANGED <<tree, stat, instant, attempt, touches>>
  BY DEF SealSnapshot, DeliveryInv, CaptureInv, Taken, CaptureShape, DeliveryTypeOK
<1>2. snapshot' \in Snapshot /\ snapshot'.files = instant
  BY <1>1 DEF Snapshot
<1>3. CaptureShape'
  BY <1>1, <1>2 DEF DeliveryInv, CaptureInv, CaptureShape, DeliveryTypeOK
<1> QED
  BY <1>1, <1>2, <1>3 DEF DeliveryInv, CaptureInv, Scanned, Kept, Rescanned, Taken, Verified

(* A capture that gives up leaves nothing to be said of it.                *)
LEMMA AbandonHolds == DeliveryInv /\ Abandon => DeliveryInv'
<1> SUFFICES ASSUME DeliveryInv, Abandon PROVE DeliveryInv'
  OBVIOUS
<1>1. /\ capture' = Missing /\ attempt = Missing
      /\ UNCHANGED <<tree, stat, instant, snapshot, attempt, touches>>
  BY DEF Abandon, DeliveryInv, CaptureInv, CaptureShape
<1> QED
  BY <1>1
  DEF DeliveryInv, CaptureInv, CaptureShape, DeliveryTypeOK, Scanned, Kept, Rescanned, Taken, Verified

-----------------------------------------------------------------------------
(* A step of a verification, or of someone at its copy, leaves what is     *)
(* known of a capture as it is, for there is none.                         *)
LEMMA AttemptStepHolds ==
    ASSUME DeliveryInv, attempt # Missing \/ StoreValid,
           UNCHANGED <<tree, stat, capture, instant, snapshot>>,
           attempt' \in Attempt, touches' \in 0..MaxTouches, Verified'
    PROVE  DeliveryInv'
<1>1. capture = Missing
  BY DEF StoreValid, DeliveryInv, CaptureInv, CaptureShape, Taken
<1>2. CaptureShape'
  BY <1>1 DEF DeliveryInv, CaptureInv, CaptureShape, DeliveryTypeOK
<1> QED
  BY <1>1, <1>2 DEF DeliveryInv, CaptureInv, Scanned, Kept, Rescanned, Taken

(* A fresh copy is undisturbed.                                            *)
LEMMA BeginVerifyHolds == DeliveryInv /\ BeginVerify => DeliveryInv'
<1> SUFFICES ASSUME DeliveryInv, BeginVerify PROVE DeliveryInv'
  OBVIOUS
<1>1. /\ StoreValid /\ snapshot \in Snapshot
      /\ attempt' = [records |-> 0, zeros |-> 0, source |-> snapshot.files,
                     stats |-> Unwritten, unchanged |-> TRUE, after |-> snapshot.files,
                     passed |-> FALSE, logs |-> TRUE, stage |-> "running", disturbed |-> FALSE]
      /\ UNCHANGED <<tree, stat, capture, instant, snapshot, touches>>
      /\ touches \in 0..MaxTouches
  BY DEF BeginVerify, StoreValid, DeliveryInv, CaptureInv, CaptureShape, DeliveryTypeOK
<1>2. snapshot.files \in Tree /\ Unwritten \in Stats /\ 0 \in 0..MaxCommands
  BY <1>1, DeliveryAssumption DEF Snapshot, Unwritten, Stats
<1>3. attempt' \in Attempt
  BY <1>1, <1>2 DEF Attempt
<1>4. Verified'
  BY <1>1 DEF Verified, StoreValid
<1> QED BY <1>1, <1>3, <1>4, AttemptStepHolds

(* What is known of an attempt's fields.                                   *)
LEMMA AttemptFields ==
    ASSUME DeliveryInv, attempt # Missing
    PROVE  /\ attempt \in Attempt /\ touches \in 0..MaxTouches
           /\ attempt.records \in 0..MaxCommands /\ attempt.zeros \in 0..MaxCommands
           /\ attempt.source \in Tree /\ attempt.stats \in [0..MaxPath -> Nat]
           /\ attempt.unchanged \in BOOLEAN /\ attempt.disturbed \in BOOLEAN
           /\ attempt.passed \in BOOLEAN
           /\ snapshot \in Snapshot /\ snapshot # Missing
<1>1. attempt \in Attempt /\ touches \in 0..MaxTouches
  BY DEF DeliveryInv, CaptureInv, CaptureShape, DeliveryTypeOK
<1>2. snapshot \in Snapshot /\ snapshot # Missing
  BY DEF DeliveryInv, CaptureInv, CaptureShape, DeliveryTypeOK, Verified
<1> QED BY <1>1, <1>2 DEF Attempt, Stats

(* After a command, whatever was disturbed is a change.                    *)
LEMMA RunCommandHolds ==
    ASSUME DeliveryInv, NEW zero \in BOOLEAN, RunCommand(zero)
    PROVE  DeliveryInv'
<1> DEFINE records == attempt.records + 1
           zeros == attempt.zeros + (IF zero THEN 1 ELSE 0)
           unchanged == attempt.unchanged /\ SourceUnchanged
<1>1. /\ attempt # Missing /\ attempt.stage = "running" /\ ~Ended
      /\ attempt' = [attempt EXCEPT !.records = records, !.zeros = zeros,
                                    !.unchanged = unchanged, !.after = attempt.source]
      /\ UNCHANGED <<tree, stat, capture, instant, snapshot, touches>>
  BY AttemptFields DEF RunCommand, Verifying, Attempt
<1>2. attempt.records # MaxCommands /\ attempt.zeros <= attempt.records
  BY <1>1 DEF Ended, DeliveryInv, Verified
<1>3. /\ records \in 0..MaxCommands /\ zeros \in 0..MaxCommands /\ zeros <= records
      /\ unchanged \in BOOLEAN
  <2>1. /\ attempt.records \in 0..MaxCommands /\ attempt.zeros \in 0..MaxCommands
        /\ attempt.unchanged \in BOOLEAN
    BY <1>1, AttemptFields
  <2>2. unchanged \in BOOLEAN
    BY <2>1 DEF SourceUnchanged
  <2>3. (IF zero THEN 1 ELSE 0) \in {0, 1}
    OBVIOUS
  <2>4. /\ records \in 0..MaxCommands /\ zeros \in 0..MaxCommands /\ zeros <= records
    BY <1>2, <2>1, <2>3, DeliveryAssumption
  <2> QED BY <2>2, <2>4
<1>4. /\ unchanged => attempt.source = snapshot.files
      /\ attempt.disturbed => ~unchanged
  BY <1>1 DEF SourceUnchanged, DeliveryInv, Verified
<1> HIDE DEF records, zeros, unchanged
<1>5. /\ attempt' \in Attempt
      /\ attempt'.records = records /\ attempt'.zeros = zeros
      /\ attempt'.unchanged = unchanged /\ attempt'.after = attempt.source
      /\ attempt'.stage = "running" /\ attempt'.stats = attempt.stats
      /\ attempt'.disturbed = attempt.disturbed /\ attempt'.passed = attempt.passed
  BY <1>1, <1>3, AttemptFields DEF Attempt
<1>6. Verified'
  BY <1>1, <1>3, <1>4, <1>5 DEF DeliveryInv, Verified
<1> QED BY <1>1, <1>5, <1>6, AttemptFields, AttemptStepHolds

(* The verdict is of an undisturbed copy.                                  *)
LEMMA PublishResultHolds ==
    ASSUME DeliveryInv, NEW artifacts \in BOOLEAN, PublishResult(artifacts)
    PROVE  DeliveryInv'
<1> DEFINE passed == /\ attempt.unchanged /\ StoreValid /\ artifacts
                     /\ attempt.records = MaxCommands /\ attempt.zeros = attempt.records
<1>1. /\ attempt # Missing /\ attempt.stage = "running" /\ Ended
      /\ attempt' = [attempt EXCEPT !.stage = "recorded", !.passed = passed]
      /\ UNCHANGED <<tree, stat, capture, instant, snapshot, touches>>
  BY DEF PublishResult, Verifying
<1>2. passed => attempt.unchanged /\ ~attempt.disturbed /\ attempt.zeros = MaxCommands
  BY <1>1 DEF DeliveryInv, Verified
<1>3. passed \in BOOLEAN
  BY <1>1, AttemptFields DEF StoreValid
<1> HIDE DEF passed
<1>4. /\ attempt' \in Attempt
      /\ attempt'.records = attempt.records /\ attempt'.zeros = attempt.zeros
      /\ attempt'.unchanged = attempt.unchanged /\ attempt'.after = attempt.after
      /\ attempt'.stage = "recorded" /\ attempt'.stats = attempt.stats
      /\ attempt'.disturbed = attempt.disturbed /\ attempt'.passed = passed
  BY <1>1, <1>3, AttemptFields DEF Attempt
<1>5. Verified'
  BY <1>1, <1>2, <1>4 DEF DeliveryInv, Verified
<1> QED BY <1>1, <1>4, <1>5, AttemptFields, AttemptStepHolds

(* The digest of the result, or a change of the logs, alters no verdict.   *)
LEMMA SealResultHolds == DeliveryInv /\ (SealResult \/ TouchLogs) => DeliveryInv'
<1> SUFFICES ASSUME DeliveryInv, SealResult \/ TouchLogs PROVE DeliveryInv'
  OBVIOUS
<1>1. /\ attempt # Missing /\ UNCHANGED <<tree, stat, capture, instant, snapshot>>
      /\ touches' \in 0..MaxTouches
  BY AttemptFields, DeliveryAssumption DEF SealResult, TouchLogs
<1>2. /\ attempt' \in Attempt
      /\ attempt'.records = attempt.records /\ attempt'.zeros = attempt.zeros
      /\ attempt'.unchanged = attempt.unchanged /\ attempt'.after = attempt.after
      /\ attempt'.stats = attempt.stats /\ attempt'.passed = attempt.passed
      /\ attempt'.disturbed = attempt.disturbed
      /\ attempt'.stage = "running" <=> attempt.stage = "running"
  BY <1>1, AttemptFields DEF SealResult, TouchLogs, Attempt
<1>3. Verified'
  BY <1>1, <1>2 DEF DeliveryInv, Verified, Ended
<1> QED BY <1>1, <1>2, <1>3, AttemptStepHolds

(* Who changes the copy before the plan ended disturbs it, and the copy's  *)
(* stats show it from then on.                                             *)
LEMMA TouchCopyHolds ==
    ASSUME DeliveryInv, NEW f \in Paths, NEW content \in Contents \cup {Missing},
           TouchCopy(f, content)
    PROVE  DeliveryInv'
<1> DEFINE source == [attempt.source EXCEPT ![f] = content]
           stats == [attempt.stats EXCEPT ![f] = @ + 1]
           disturbed == attempt.disturbed \/ (attempt.stage = "running" /\ ~Ended)
<1>1. /\ attempt # Missing
      /\ attempt' = [attempt EXCEPT !.source = source, !.stats = stats, !.disturbed = disturbed]
      /\ UNCHANGED <<tree, stat, capture, instant, snapshot>>
      /\ touches' \in 0..MaxTouches
  <2>1. /\ attempt # Missing /\ touches < MaxTouches /\ touches' = touches + 1
        /\ UNCHANGED <<tree, stat, capture, instant, snapshot>>
        /\ attempt' = [attempt EXCEPT !.source[f] = content, !.stats[f] = @ + 1,
                                      !.disturbed = @ \/ (Verifying /\ ~Ended)]
    BY DEF TouchCopy
  <2>2. touches' \in 0..MaxTouches
    BY <2>1, AttemptFields, DeliveryAssumption
  <2>3. attempt \in Attempt
    BY <2>1, AttemptFields
  <2>4. Verifying <=> attempt.stage = "running"
    BY <2>1 DEF Verifying
  <2>5. attempt' = [attempt EXCEPT !.source = source, !.stats = stats,
                                  !.disturbed = @ \/ (Verifying /\ ~Ended)]
    BY <2>1, <2>3 DEF Attempt
  <2> QED BY <2>1, <2>2, <2>3, <2>4, <2>5 DEF Verifying
<1>2. f \in 0..MaxPath
  BY DeliveryAssumption DEF Paths
<1>3. source \in Tree /\ stats \in Stats /\ stats # Unwritten
  <2>1. source \in Tree
    BY <1>1, AttemptFields DEF Tree
  <2>2. stats \in Stats /\ stats[f] = attempt.stats[f] + 1 /\ attempt.stats[f] \in Nat
    <3>1. attempt.stats \in [0..MaxPath -> Nat] /\ attempt.stats[f] \in Nat
      BY <1>1, <1>2, AttemptFields
    <3>2. attempt.stats[f] + 1 \in Nat
      BY <3>1
    <3> QED BY <1>2, <3>1, <3>2 DEF Stats
  <2>3. Unwritten[f] = 0
    BY <1>2 DEF Unwritten
  <2> QED BY <2>1, <2>2, <2>3
<1>4. disturbed \in BOOLEAN
  BY <1>1, AttemptFields DEF Ended
<1> HIDE DEF source, stats
<1>5. /\ attempt' \in Attempt
      /\ attempt'.records = attempt.records /\ attempt'.zeros = attempt.zeros
      /\ attempt'.unchanged = attempt.unchanged /\ attempt'.after = attempt.after
      /\ attempt'.stage = attempt.stage /\ attempt'.stats = stats
      /\ attempt'.disturbed = disturbed /\ attempt'.passed = attempt.passed
  BY <1>1, <1>3, <1>4, AttemptFields DEF Attempt
<1>6. Ended' <=> Ended
  BY <1>5 DEF Ended
<1>7. Verified'
  BY <1>1, <1>3, <1>5, <1>6 DEF DeliveryInv, Verified
<1> QED BY <1>1, <1>5, <1>7, AttemptStepHolds

(* The manifest stays when the store is changed.                           *)
LEMMA TouchStoreHolds ==
    ASSUME DeliveryInv, NEW f \in Paths, NEW content \in Contents \cup {Missing},
           TouchStore(f, content)
    PROVE  DeliveryInv'
<1>1. /\ attempt # Missing /\ capture = Missing /\ touches' \in 0..MaxTouches
      /\ snapshot' = [snapshot EXCEPT !.store[f] = content]
      /\ snapshot \in Snapshot /\ snapshot # Missing
      /\ UNCHANGED <<tree, stat, capture, instant, attempt>>
  BY AttemptFields, DeliveryAssumption DEF TouchStore, DeliveryInv, CaptureInv, CaptureShape
<1>2. snapshot' \in Snapshot /\ snapshot'.files = snapshot.files
  <2>1. [snapshot.store EXCEPT ![f] = content] \in Tree
    BY <1>1 DEF Snapshot, Tree
  <2> QED BY <1>1, <2>1 DEF Snapshot
<1>3. CaptureShape'
  BY <1>1, <1>2 DEF DeliveryInv, CaptureInv, CaptureShape, DeliveryTypeOK
<1>4. Verified'
  BY <1>1, <1>2, MissingAssumption DEF DeliveryInv, Verified, Ended
<1> QED
  BY <1>1, <1>2, <1>3, <1>4 DEF DeliveryInv, CaptureInv, Scanned, Kept, Rescanned, Taken

-----------------------------------------------------------------------------
(* Every step keeps DeliveryInv.                                           *)
LEMMA DeliveryNextHolds == DeliveryInv /\ [DeliveryNext]_deliveryVars => DeliveryInv'
<1> SUFFICES ASSUME DeliveryInv, [DeliveryNext]_deliveryVars PROVE DeliveryInv'
  OBVIOUS
<1>1. CASE \E f \in Paths, content \in Contents \cup {Missing} :
               WriteFile(f, content) \/ TouchCopy(f, content) \/ TouchStore(f, content)
  BY <1>1, WriteHolds, TouchCopyHolds, TouchStoreHolds
<1>2. CASE \/ BeginCapture \/ ListFiles \/ Look \/ OpenFile \/ CloseFile \/ StartCopy \/ Rescan
           \/ PublishSnapshot \/ SealSnapshot \/ Abandon
  BY <1>2, BeginCaptureHolds, ListFilesHolds, LookHolds, OpenFileHolds, CloseFileHolds,
     StartCopyHolds, RescanHolds, PublishSnapshotHolds, SealSnapshotHolds, AbandonHolds
<1>3. CASE BeginVerify \/ \E b \in BOOLEAN : RunCommand(b) \/ PublishResult(b)
  BY <1>3, BeginVerifyHolds, RunCommandHolds, PublishResultHolds
<1>4. CASE SealResult \/ TouchLogs
  BY <1>4, SealResultHolds
<1>5. CASE UNCHANGED deliveryVars
  BY <1>5
  DEF deliveryVars, DeliveryInv, CaptureInv, CaptureShape, DeliveryTypeOK, Scanned, Kept, Rescanned,
      Taken, Verified, Looked, NextFile, Same, SameFiles, Ended
<1> QED BY <1>1, <1>2, <1>3, <1>4, <1>5 DEF DeliveryNext

(***************************************************************************)
(* A snapshot that can be used is the tree as it was when the first scan   *)
(* ended, whatever was written meanwhile (delivery.capture).               *)
(***************************************************************************)
THEOREM SnapshotIsTrue == DeliverySpec => []SnapshotIsOneInstant
<1>1. DeliveryInv => SnapshotIsOneInstant
  BY DEF DeliveryInv, CaptureInv, Taken, SnapshotIsOneInstant
<1> QED BY <1>1, DeliveryInitHolds, DeliveryNextHolds, PTL DEF DeliverySpec

(***************************************************************************)
(* What inspect calls passed was run to its end, with success, in an       *)
(* undisturbed copy of that tree (delivery.verify, delivery.inspect).      *)
(***************************************************************************)
THEOREM PassIsTrue == DeliverySpec => []PassIsOfSnapshot
<1>1. DeliveryInv => PassIsOfSnapshot
  BY DEF DeliveryInv, CaptureInv, Taken, Verified, Passes, StoreValid, PassIsOfSnapshot
<1> QED BY <1>1, DeliveryInitHolds, DeliveryNextHolds, PTL DEF DeliverySpec
=============================================================================
