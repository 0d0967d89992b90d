------------------------------ MODULE MCRecords ------------------------------
(***************************************************************************)
(* Nine components, each by itself: a behaviour of this module is one of   *)
(* one component (part) with the processes around it, and the others stay  *)
(* as they began. Steps of two components are not interleaved here.        *)
(***************************************************************************)
EXTENDS Reviews, RecoveryDelta, UsageLedger, Delivery, WaitOutput, RoundHistory, Runs,
        Supervision, Metering

CONSTANTS p1, p2, g1, g2, n1, v1, a1, r1, r2, w1, x1, x2, t1, t2

VARIABLE part

vars == <<part, reviewVars, deltaVars, ledgerVars, deliveryVars, waitVars, historyVars, runVars,
          supervisionVars, meteringVars>>

Init ==
    /\ part \in {"reviews", "delta", "ledger", "delivery", "wait", "history", "runs",
                 "supervision", "metering"}
    /\ ReviewInit /\ DeltaInit /\ LedgerInit /\ DeliveryInit /\ WaitInit /\ HistoryInit /\ RunInit
    /\ SupervisionInit /\ MeteringInit
    \* What a part may begin with matters only to that part; all runs are alike.
    /\ part # "delivery" => tree = NoFiles
    /\ part # "history" => legacy
    /\ recovery.of = g1

Next ==
    /\ UNCHANGED part
    /\ \/ part = "reviews" /\ ReviewNext
       \/ part # "reviews" /\ UNCHANGED reviewVars
    /\ \/ part = "delta" /\ DeltaNext
       \/ part # "delta" /\ UNCHANGED deltaVars
    /\ \/ part = "ledger" /\ LedgerNext
       \/ part # "ledger" /\ UNCHANGED ledgerVars
    /\ \/ part = "delivery" /\ DeliveryNext
       \/ part # "delivery" /\ UNCHANGED deliveryVars
    /\ \/ part = "wait" /\ WaitNext
       \/ part # "wait" /\ UNCHANGED waitVars
    /\ \/ part = "history" /\ HistoryNext
       \/ part # "history" /\ UNCHANGED historyVars
    /\ \/ part = "runs" /\ RunNext
       \/ part # "runs" /\ UNCHANGED runVars
    /\ \/ part = "supervision" /\ SupervisionNext
       \/ part # "supervision" /\ UNCHANGED supervisionVars
    /\ \/ part = "metering" /\ MeteringNext
       \/ part # "metering" /\ UNCHANGED meteringVars

Spec == Init /\ [][Next]_vars

(* The type of every part: the item a reviewer took stands for itself, one *)
(* recovery at a time has the cursor's lock and one consumer its token,    *)
(* and only recorded calls are corrected.                                  *)
TypeOK ==
    /\ part = "reviews" => ReviewTypeOK
    /\ part = "delta" => DeltaTypeOK
    /\ part = "ledger" => LedgerTypeOK
    /\ part = "delivery" => DeliveryTypeOK
    /\ part = "wait" => WaitTypeOK
    /\ part = "history" => HistoryTypeOK
    /\ part = "runs" => RunTypeOK
    /\ part = "supervision" => SupervisionTypeOK
    /\ part = "metering" => MeteringTypeOK

(* The processes of every part.                                            *)
Symmetry == Permutations({p1, p2})
=============================================================================
