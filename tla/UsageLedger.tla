----------------------------- MODULE UsageLedger -----------------------------
(***************************************************************************)
(* The native usage ledger of a job (scripts/usage.py record_usage,        *)
(* usage_corrections.py). A call is recorded once, under its native        *)
(* identity; corrections replace what several calls say at once and are    *)
(* kept as a chain. Every write happens under the ledger's lock; clerks    *)
(* read the revisions they correct without it, and repeat what they got no *)
(* answer to.                                                              *)
(*                                                                         *)
(* A sample is the attempt of a round it belongs to, the attempt's         *)
(* attribution (purpose, role and phase) and the counters. Legacy records  *)
(* in round directories and evidence files are left out.                   *)
(***************************************************************************)
EXTENDS Integers, FiniteSetsExt, SequencesExt

CONSTANTS
    Clerks,
    Calls,          \* native identities: source and sample id
    Attempts,       \* attempts, of any round of the job
    Attributions,
    Counters,
    Corrections,    \* correction ids
    Nothing,
    MaxCorrections  \* bound: corrections of the ledger

ASSUME LedgerAssumption == MaxCorrections \in Nat

VARIABLES
    base,      \* base[c]: the record of call c
    chain,     \* the correction events
    known,     \* known[p]: the revisions p read
    manifest   \* manifest[p]: the correction p got no answer to

ledgerVars == <<base, chain, known, manifest>>

Sample == [attempt : Attempts, attribution : Attributions, counters : Counters]
Revisions == [Calls -> Nat]
Manifest == [id : Corrections, expected : Revisions, samples : [Calls -> Sample \cup {Nothing}]]

LedgerTypeOK ==
    /\ base \in [Calls -> Sample \cup {Nothing}]
    /\ chain \in Seq(Manifest) /\ Len(chain) <= MaxCorrections
    /\ known \in [Clerks -> Revisions]
    /\ manifest \in [Clerks -> Manifest \cup {Nothing}]
    /\ \A n \in DOMAIN chain, c \in Calls : chain[n].samples[c] # Nothing => base[c] # Nothing

LedgerInit ==
    /\ base = [c \in Calls |-> Nothing] /\ chain = <<>>
    /\ known = [p \in Clerks |-> [c \in Calls |-> 0]]
    /\ manifest = [p \in Clerks |-> Nothing]

-----------------------------------------------------------------------------
(* load_ledger: the revision of a call is the last of the first n          *)
(* corrections that has it; its effective sample is what that one says.    *)
RevisionAt(n, c) == Max({0} \cup {i \in 1..n : chain[i].samples[c] # Nothing})
Revision(c) == RevisionAt(Len(chain), c)
Effective == [c \in Calls |-> IF Revision(c) = 0 THEN base[c] ELSE chain[Revision(c)].samples[c]]

(* check_attempts: the calls of an attempt share its attribution.          *)
Consistent(samples) ==
    \A c, d \in Calls :
        /\ samples[c] # Nothing /\ samples[d] # Nothing
        /\ samples[c].attempt = samples[d].attempt
        => samples[c].attribution = samples[d].attribution

(* A plausible bug: the new call is compared with the original records.    *)
RecordableByBase(c, sample) == Consistent([base EXCEPT ![c] = sample])

Recordable(c, sample) == Consistent([Effective EXCEPT ![c] = sample])

(* record_usage of a new call. A repeated record is accepted and a         *)
(* conflicting one refused; neither changes anything.                      *)
RecordUsage(c, sample) ==
    /\ base[c] = Nothing
    /\ Recordable(c, sample)
    /\ base' = [base EXCEPT ![c] = sample]
    /\ UNCHANGED <<chain, known, manifest>>

(* history: the effective revisions, read without the lock.                *)
ReadHistory(p) ==
    /\ manifest[p] = Nothing
    /\ known' = [known EXCEPT ![p] = [c \in Calls |-> Revision(c)]]
    /\ UNCHANGED <<base, chain, manifest>>

Used(id) == \E i \in DOMAIN chain : chain[i].id = id

(* replacements: all expected revisions are current and the ledger with    *)
(* them is consistent.                                                     *)
Replaceable(m) ==
    /\ \A c \in Calls : m.samples[c] # Nothing => m.expected[c] = Revision(c)
    /\ Consistent([c \in Calls |-> IF m.samples[c] = Nothing THEN Effective[c]
                                   ELSE m.samples[c]])

(* What is corrected was recorded.                                         *)
AllFound(samples) ==
    /\ \E c \in Calls : samples[c] # Nothing
    /\ \A c \in Calls : samples[c] # Nothing => base[c] # Nothing

Draft(p, id, samples) ==
    [id |-> id, samples |-> samples,
     expected |-> [c \in Calls |-> IF samples[c] = Nothing THEN 0 ELSE known[p][c]]]

(* correct_manifest, under the lock: a used id is a repetition or refused; *)
(* otherwise the correction takes effect as a whole or is refused.         *)
Commit(m) ==
    IF ~Used(m.id) /\ Replaceable(m)
      THEN Len(chain) < MaxCorrections /\ chain' = Append(chain, m)
      ELSE UNCHANGED chain

(* A clerk corrects what it read. If the reply is lost it keeps the        *)
(* manifest, to send it again.                                             *)
Correct(p, m, replied) ==
    /\ manifest[p] = Nothing
    /\ AllFound(m.samples)
    /\ Commit(m)
    /\ manifest' = IF replied THEN manifest ELSE [manifest EXCEPT ![p] = m]
    /\ UNCHANGED <<base, known>>

Repeat(p) ==
    /\ manifest[p] # Nothing
    /\ Commit(manifest[p])
    /\ manifest' = [manifest EXCEPT ![p] = Nothing]
    /\ UNCHANGED <<base, known>>

LedgerNext ==
    \/ \E c \in Calls, sample \in Sample : RecordUsage(c, sample)
    \/ \E p \in Clerks :
           \/ ReadHistory(p) \/ Repeat(p)
           \/ \E id \in Corrections, samples \in [Calls -> Sample \cup {Nothing}],
                 replied \in BOOLEAN : Correct(p, Draft(p, id, samples), replied)

LedgerSpec == LedgerInit /\ [][LedgerNext]_ledgerVars

-----------------------------------------------------------------------------
(* The ledger can always be read again (load_ledger fails as a whole       *)
(* otherwise): every correction is of the revisions that were the last,    *)
(* no id occurs twice, and all calls of an attempt agree in the end,       *)
(* whatever was recorded and corrected concurrently or twice.              *)
LedgerReadable ==
    /\ \A n \in DOMAIN chain, c \in Calls :
           chain[n].samples[c] # Nothing => chain[n].expected[c] = RevisionAt(n - 1, c)
    /\ \A m, n \in DOMAIN chain : chain[m].id = chain[n].id => m = n
    /\ Consistent(Effective)
=============================================================================
