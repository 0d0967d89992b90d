---------------------------- MODULE RecordsProofs ----------------------------
(***************************************************************************)
(* The theorems about the nine components, as they are stated of the       *)
(* module that the run checks (MCRecords), in which one component moves.   *)
(***************************************************************************)
EXTENDS MCRecords, RunProofs, SupervisionProofs

(* A step of MCRecords is one of each component, or leaves it as it is.    *)
LEMMA StepOfEach ==
    [Next]_vars =>
        /\ [ReviewNext]_reviewVars /\ [DeltaNext]_deltaVars /\ [LedgerNext]_ledgerVars
        /\ [DeliveryNext]_deliveryVars /\ [WaitNext]_waitVars /\ [HistoryNext]_historyVars
        /\ [RunNext]_runVars /\ [SupervisionNext]_supervisionVars /\ [MeteringNext]_meteringVars
<1>1. CASE UNCHANGED vars
  BY <1>1 DEF vars
<1>2. CASE Next
  BY <1>2 DEF Next
<1> QED BY <1>1, <1>2

(* A behaviour of MCRecords is, for each component, one of its own, which  *)
(* may stutter for ever: this carries the components' theorems over.       *)
LEMMA EachByItself ==
    Spec => /\ ReviewSpec /\ DeltaSpec /\ LedgerSpec /\ DeliverySpec /\ WaitSpec /\ HistorySpec
            /\ RunSpec /\ SupervisionSpec /\ MeteringSpec
<1>1. Init => /\ ReviewInit /\ DeltaInit /\ LedgerInit /\ DeliveryInit /\ WaitInit /\ HistoryInit
              /\ RunInit /\ SupervisionInit /\ MeteringInit
  BY DEF Init
<1> QED
  BY <1>1, StepOfEach, PTL
  DEF Spec, ReviewSpec, DeltaSpec, LedgerSpec, DeliverySpec, WaitSpec, HistorySpec, RunSpec,
      SupervisionSpec, MeteringSpec

(* All that is recorded has its type: the item a reviewer took stands for  *)
(* itself, one recovery at a time has the cursor's lock and one consumer   *)
(* its token, and only recorded calls are corrected. The type is a part of *)
(* every component's invariant.                                            *)
THEOREM RecordsHaveTypes == Spec => []TypeOK
<1>1. ReviewSpec => []ReviewTypeOK
  <2>1. ReviewInv => ReviewTypeOK
    BY DEF ReviewInv
  <2> QED BY <2>1, ReviewInitHolds, ReviewNextHolds, PTL DEF ReviewSpec
<1>2. LedgerSpec => []LedgerTypeOK
  <2>1. LedgerInv => LedgerTypeOK
    BY DEF LedgerInv
  <2> QED BY <2>1, LedgerInitHolds, LedgerNextHolds, PTL DEF LedgerSpec
<1>3. DeliverySpec => []DeliveryTypeOK
  <2>1. DeliveryInv => DeliveryTypeOK
    BY DEF DeliveryInv, CaptureInv, CaptureShape
  <2> QED BY <2>1, DeliveryInitHolds, DeliveryNextHolds, PTL DEF DeliverySpec
<1>4. WaitSpec => []WaitTypeOK
  <2>1. WaitInv => WaitTypeOK
    BY DEF WaitInv
  <2> QED BY <2>1, WaitInitHolds, WaitNextHolds, PTL DEF WaitSpec
<1>5. HistorySpec => []HistoryTypeOK
  <2>1. HistoryInv => HistoryTypeOK
    BY DEF HistoryInv, HistoryShape, Departed, Newest, HistoryTypeOK
  <2> QED BY <2>1, HistoryInitHolds, HistoryNextHolds, PTL DEF HistorySpec
<1>6. RunSpec => []RunTypeOK
  <2>1. RunInv => RunTypeOK
    BY DEF RunInv
  <2> QED BY <2>1, RunInitHolds, RunNextHolds, PTL DEF RunSpec
<1>7. MeteringSpec => []MeteringTypeOK
  <2>1. MeteringInv => MeteringTypeOK
    BY DEF MeteringInv
  <2> QED BY <2>1, MeteringInitHolds, MeteringNextHolds, PTL DEF MeteringSpec
<1>8. DeltaSpec => []DeltaTypeOK
  <2>1. QueueInv => DeltaTypeOK
    BY DEF QueueInv
  <2> QED BY <2>1, DeltaCorrect, PTL
<1>9. SupervisionSpec => []SupervisionTypeOK
  BY SupervisionTypes
<1>10. /\ ReviewTypeOK /\ DeltaTypeOK /\ LedgerTypeOK /\ DeliveryTypeOK /\ WaitTypeOK
       /\ HistoryTypeOK /\ RunTypeOK /\ SupervisionTypeOK /\ MeteringTypeOK
       => TypeOK
  BY DEF TypeOK
<1> QED
  BY EachByItself, <1>1, <1>2, <1>3, <1>4, <1>5, <1>6, <1>7, <1>8, <1>9, <1>10, PTL

(* The invariants and action properties that the run of MCRecords checks   *)
(* hold of it for all values of the constants: no decision is recorded     *)
(* twice and none leaves the queue unseen (reviews.py), readers of deltas  *)
(* know what they were sent (recovery_delta.py), ledgers load again        *)
(* (usage_corrections.py), and so on for the other six.                    *)
THEOREM RecordsAreCorrect ==
    Spec => /\ [](RecordedOnce /\ ViewIsDelivered /\ LedgerReadable /\ SnapshotIsOneInstant)
            /\ [](PassIsOfSnapshot /\ EveryMatchReturned /\ HistoryFound /\ RecoveryComplete)
            /\ [](WorkIsCovered /\ TotalsAreOfTheLog)
            /\ LeavesOnlyIfShown /\ CaughtUp /\ TurnKept
BY EachByItself, DecisionsOnce, DeliveredIsKnown, LedgersAreReadable, SnapshotIsTrue, PassIsTrue,
   MatchesAreReturned, EarlierRoundsAreFound, RecoveriesMissNothing, GrantedWorkIsCovered,
   TotalsAreRight, NothingLeavesUnseen, LastReplyIsAll, QueuedKeepTheirTurn, PTL
=============================================================================
