----------------------------- MODULE WatchProofs -----------------------------
(***************************************************************************)
(* Proofs about Watch, for any targets, contents, dialogs, consumers, page *)
(* size and bounds.  What the runs check of the observer speaks of its     *)
(* files; WatchInv adds what its memory and the queue of events it is      *)
(* publishing know, since together they are what the files will say.       *)
(***************************************************************************)
EXTENDS Watch, Extrema, FiniteSetTheorems

-----------------------------------------------------------------------------
(* Kinds in a queue of events to publish.                                  *)
Has(queue, kind) == \E i \in DOMAIN queue : queue[i] = kind
Once(queue, kind) == \A i, j \in DOMAIN queue : queue[i] = kind /\ queue[j] = kind => i = j

(* What a collected snapshot shows beside the receipt it was compared to.  *)
SnapshotOK(s, pinned) ==
    /\ s \in Snapshot
    /\ s.publication # None =>
           s.publication.first = pinned /\ s.publication.current = s.result
    /\ s.result \in Valid => s.publication # None
    /\ "transport" \in s.fault => s.ui = None

(* The record says of the receipt what it says of the difference.          *)
RecordOK(r) == r.publication_changed = Differs(r.result_key[2])

(* Everything r says was noticed is told, told being pairs of a kind and   *)
(* the snapshot that shows it.                                             *)
Accounted(r, told) ==
    /\ r.result_key[1] # None =>
           \E e \in told : /\ e[1] \in {"result", "result_changed", "invalid_result"}
                           /\ <<e[2].result, e[2].publication>> = r.result_key
    /\ r.publication_changed =>
           \E e \in told : e[1] = "result_changed" /\ e[2].publication = r.result_key[2]
    /\ r.error # {} => \E e \in told : e[1] = "observation_error" /\ e[2].fault = r.error
    /\ r.state # None => \E e \in told : e[1] = "state_changed" /\ e[2].ui.state = r.state
    /\ r.deadline_reported => \E e \in told : e[1] = "deadline"

Told(t) ==
    {<<events[n].kind, events[n].shows>> : n \in {m \in DOMAIN events : events[m].target = t}}
ToTell(t) ==
    IF out # None /\ out.target = t
      THEN {<<out.queue[i], out.snapshot>> : i \in DOMAIN out.queue} ELSE {}

Attention(n, t, issue) ==
    events[n].target = t /\ events[n].kind = "attention" /\ events[n].issue = issue

Announced(r, t) ==
    r.attention_key # None =>
        \E n \in DOMAIN events : /\ Attention(n, t, r.attention_issue)
                                 /\ events[n].shows.ui.screen.dialog = r.attention_key

OneEventPerIncident ==
    \A m, n \in DOMAIN events :
        /\ events[m].kind = "attention" /\ events[n].kind = "attention"
        /\ events[m].target = events[n].target /\ events[m].issue = events[n].issue
        => m = n

(* No blind read of t was reported after the event of r's incident.        *)
Unbroken(r, t) ==
    r.attention_key # None =>
        \A m, n \in DOMAIN events :
            Attention(m, t, r.attention_issue) /\ events[n].target = t /\ n > m =>
                "transport" \notin events[n].shows.fault

-----------------------------------------------------------------------------
Numbered ==
    /\ \E b \in Nat : evidence \subseteq 1..b
    /\ NumbersReserved
    /\ out # None => phase = "sweep"
    /\ out # None /\ out.written =>
           out.queue # <<>> /\ memory.cursor \in evidence \ DOMAIN events

SnapshotsOK ==
    /\ \A t \in Targets : reads[t].step = "read" => SnapshotOK(reads[t].snapshot, publication[t])
    /\ out # None => SnapshotOK(out.snapshot, publication[out.target])

RecordsOK ==
    \A t \in Targets : /\ RecordOK(state.targets[t])
                       /\ phase = "sweep" => RecordOK(memory.targets[t])

AllAccounted ==
    \A t \in Targets : /\ Accounted(state.targets[t], Told(t))
                       /\ phase = "sweep" => Accounted(memory.targets[t], Told(t) \cup ToTell(t))

PinnedResults ==
    /\ \A n \in DOMAIN events : events[n].kind = "result" =>
           /\ events[n].shows.result \in Valid
           /\ events[n].shows.result = publication[events[n].target]
    /\ out # None /\ Has(out.queue, "result") =>
           /\ out.snapshot.result \in Valid
           /\ out.snapshot.result = publication[out.target]

Incidents ==
    /\ OneEventPerIncident
    /\ \A t \in Targets :
         /\ Announced(state.targets[t], t)
         /\ phase = "sweep" =>
              \/ Announced(memory.targets[t], t)
              \/ out # None /\ out.target = t /\ Has(out.queue, "attention")
    /\ out # None =>
         LET r == memory.targets[out.target] IN
         /\ Once(out.queue, "attention")
         /\ r.attention_key # None => "transport" \notin out.snapshot.fault
         /\ Has(out.queue, "attention") =>
              /\ out.snapshot.ui.screen.dialog = r.attention_key
              /\ \A n \in DOMAIN events : ~ Attention(n, out.target, r.attention_issue)

UnbrokenNow ==
    crashes = 0 => \A t \in Targets :
        Unbroken(IF phase = "sweep" THEN memory.targets[t] ELSE state.targets[t], t)

ConsumerOK(x) ==
    LET c == consumer[x] IN
    /\ c.looks \in {<<>>, <<"lock", "files">>, <<"files">>}
    /\ cursor[x] \in {0} \cup DOMAIN events /\ c.upto \in {0} \cup DOMAIN events
    /\ \A n \in DOMAIN events : /\ n <= cursor[x] => n \in handled[x]
                                /\ n > cursor[x] /\ n <= c.upto => n \in c.page
    /\ c.looks = <<"files">> => c.due \subseteq Unseen(x)
    /\ c.looks = <<>> /\ c.page = {} => c.due = {}
    /\ c.reason = "observer_stopped" => c.looks = <<>> /\ c.page = {}

WatchInv ==
    /\ TypeOK /\ Numbered /\ SnapshotsOK /\ RecordsOK
    /\ AllAccounted /\ PinnedResults /\ Incidents /\ UnbrokenNow
    /\ \A x \in Consumers : ConsumerOK(x)

-----------------------------------------------------------------------------
(* What is in a concatenation is in one of its parts ...                   *)
LEMMA HasConcat ==
    ASSUME NEW S, NEW u \in Seq(S), NEW v \in Seq(S), NEW k
    PROVE  Has(u \o v, k) <=> Has(u, k) \/ Has(v, k)
<1>1. /\ Len(u) \in Nat /\ Len(v) \in Nat /\ Len(u \o v) = Len(u) + Len(v)
      /\ DOMAIN u = 1..Len(u) /\ DOMAIN v = 1..Len(v) /\ DOMAIN (u \o v) = 1..Len(u \o v)
  OBVIOUS
<1>2. \A i \in 1..Len(u) : (u \o v)[i] = u[i]
  OBVIOUS
<1>3. \A i \in 1..Len(v) : (u \o v)[Len(u) + i] = v[i]
  OBVIOUS
<1>4. ASSUME NEW i \in DOMAIN (u \o v), (u \o v)[i] = k PROVE Has(u, k) \/ Has(v, k)
  <2>1. CASE i <= Len(u)
    BY <1>1, <1>2, <1>4, <2>1 DEF Has
  <2>2. CASE i > Len(u)
    <3>1. i - Len(u) \in 1..Len(v) /\ i = Len(u) + (i - Len(u))
      BY <1>1, <2>2
    <3>2. v[i - Len(u)] = k
      BY <1>3, <1>4, <3>1
    <3>3. QED
      BY <1>1, <3>1, <3>2 DEF Has
  <2>3. QED
    BY <1>1, <2>1, <2>2
<1>5. ASSUME NEW i \in DOMAIN u, u[i] = k PROVE Has(u \o v, k)
  <2>1. i \in DOMAIN (u \o v) /\ (u \o v)[i] = k
    BY <1>1, <1>2, <1>5
  <2>2. QED
    BY <2>1 DEF Has
<1>6. ASSUME NEW i \in DOMAIN v, v[i] = k PROVE Has(u \o v, k)
  <2>1. Len(u) + i \in DOMAIN (u \o v) /\ (u \o v)[Len(u) + i] = k
    BY <1>1, <1>3, <1>6
  <2>2. QED
    BY <2>1 DEF Has
<1>7. QED
  BY <1>4, <1>5, <1>6 DEF Has

(* ... and in it once if it is once in one part and not in the other.      *)
LEMMA OnceConcat ==
    ASSUME NEW S, NEW u \in Seq(S), NEW v \in Seq(S), NEW k,
           \/ Once(u, k) /\ ~ Has(v, k)
           \/ ~ Has(u, k) /\ Once(v, k)
    PROVE  Once(u \o v, k)
<1>1. /\ Len(u) \in Nat /\ Len(v) \in Nat /\ Len(u \o v) = Len(u) + Len(v)
      /\ DOMAIN u = 1..Len(u) /\ DOMAIN v = 1..Len(v) /\ DOMAIN (u \o v) = 1..Len(u \o v)
  OBVIOUS
<1>2. \A i \in 1..Len(u) : (u \o v)[i] = u[i]
  OBVIOUS
<1>3. \A i \in 1..Len(v) : (u \o v)[Len(u) + i] = v[i]
  OBVIOUS
<1>4. ASSUME NEW i \in DOMAIN (u \o v), i > Len(u), (u \o v)[i] = k
      PROVE  i - Len(u) \in DOMAIN v /\ v[i - Len(u)] = k
  <2>1. i - Len(u) \in 1..Len(v) /\ i = Len(u) + (i - Len(u))
    BY <1>1, <1>4
  <2>2. QED
    BY <1>1, <1>3, <1>4, <2>1
<1>5. ASSUME NEW i \in DOMAIN (u \o v), i <= Len(u), (u \o v)[i] = k
      PROVE  i \in DOMAIN u /\ u[i] = k
  BY <1>1, <1>2, <1>5
<1>6. SUFFICES ASSUME NEW i \in DOMAIN (u \o v), NEW j \in DOMAIN (u \o v),
                      (u \o v)[i] = k, (u \o v)[j] = k
               PROVE  i = j
  BY DEF Once
<1>7. i \in Nat /\ j \in Nat
  BY <1>1
<1>8. CASE Once(u, k) /\ ~ Has(v, k)
  <2>1. ASSUME NEW n \in DOMAIN (u \o v), (u \o v)[n] = k PROVE n <= Len(u)
    <3>1. ~ (n > Len(u))
      BY <1>4, <1>8, <2>1 DEF Has
    <3>2. QED
      BY <1>1, <3>1
  <2>2. QED
    BY <1>5, <1>6, <1>8, <2>1 DEF Once
<1>9. CASE ~ Has(u, k) /\ Once(v, k)
  <2>1. ASSUME NEW n \in DOMAIN (u \o v), (u \o v)[n] = k PROVE n > Len(u)
    <3>1. ~ (n <= Len(u))
      BY <1>5, <1>9, <2>1 DEF Has
    <3>2. QED
      BY <1>1, <3>1
  <2>2. i - Len(u) = j - Len(u)
    BY <1>4, <1>6, <1>9, <2>1 DEF Once
  <2>3. QED
    BY <1>1, <1>7, <2>2
<1>10. QED
  BY <1>8, <1>9

(* An optional event is there when its condition holds.                    *)
LEMMA OptionalHas ==
    ASSUME NEW condition \in BOOLEAN, NEW kind \in Kinds
    PROVE  /\ Optional(condition, kind) \in Seq(Kinds)
           /\ \A k : Has(Optional(condition, kind), k) <=> condition /\ k = kind
           /\ \A k : Once(Optional(condition, kind), k)
<1>1. CASE condition
  <2>1. Optional(condition, kind) = <<kind>>
    BY <1>1 DEF Optional
  <2>2. DOMAIN <<kind>> = {1} /\ <<kind>>[1] = kind
    OBVIOUS
  <2>3. <<kind>> \in Seq(Kinds)
    OBVIOUS
  <2>4. \A k : (Has(<<kind>>, k) <=> k = kind) /\ Once(<<kind>>, k)
    BY <2>2 DEF Has, Once
  <2>5. QED
    BY <1>1, <2>1, <2>3, <2>4
<1>2. CASE ~ condition
  <2>1. Optional(condition, kind) = <<>>
    BY <1>2 DEF Optional
  <2>2. QED
    BY <1>2, <2>1 DEF Has, Once
<1>3. QED
  BY <1>1, <1>2

-----------------------------------------------------------------------------
(* A failed read that established nothing of the file.                     *)
Unreadable(snap) == snap.result = None /\ snap.publication = None /\ snap.fault # {}

(* The record after each stage of an observation, field by field.          *)
LEMMA FiledRecord ==
    ASSUME NEW snap \in Snapshot, NEW old \in Record
    PROVE  LET new == [ResultRecord(snap, old) EXCEPT !.error = snap.fault] IN
           /\ new \in Record
           /\ new.result_key = IF Unreadable(snap) THEN old.result_key
                                ELSE <<snap.result, snap.publication>>
           /\ new.publication_changed = IF Unreadable(snap) THEN old.publication_changed
                                         ELSE Differs(snap.publication)
           /\ new.error = snap.fault
           /\ new.state = old.state /\ new.attention_key = old.attention_key
           /\ new.attention_issue = old.attention_issue
           /\ new.deadline_reported = old.deadline_reported
<1>1. /\ <<snap.result, snap.publication>> \in Contents \X (Receipt \cup {None})
      /\ Differs(snap.publication) \in BOOLEAN /\ snap.fault \in SUBSET Faults
  BY DEF Snapshot, Differs
<1>2. CASE Unreadable(snap)
  BY <1>1, <1>2 DEF Unreadable, ResultRecord, Record
<1>3. CASE ~ Unreadable(snap)
  <2> DEFINE key == <<snap.result, snap.publication>>
             d == Differs(snap.publication)
             f == snap.fault
  <2>1. ResultRecord(snap, old) = [old EXCEPT !.result_key = key, !.publication_changed = d]
    BY <1>3 DEF ResultRecord, Unreadable
  <2>2. key \in Contents \X (Receipt \cup {None}) /\ d \in BOOLEAN /\ f \in SUBSET Faults
    BY <1>1
  <2> HIDE DEF key, d, f
  <2>3. LET new == [[old EXCEPT !.result_key = key, !.publication_changed = d] EXCEPT !.error = f]
        IN  /\ new \in Record
            /\ new.result_key = key /\ new.publication_changed = d /\ new.error = f
            /\ new.state = old.state /\ new.attention_key = old.attention_key
            /\ new.attention_issue = old.attention_issue
            /\ new.deadline_reported = old.deadline_reported
    BY <2>2 DEF Record
  <2>4. QED
    BY <1>3, <2>1, <2>3 DEF key, d, f
<1>4. QED
  BY <1>2, <1>3

(* A blind read ends the dialog and nothing else that is reported.         *)
LEMMA BlindedRecord ==
    ASSUME NEW old \in Record
    PROVE  /\ Blinded(old) \in Record
           /\ Blinded(old).result_key = old.result_key
           /\ Blinded(old).publication_changed = old.publication_changed
           /\ Blinded(old).error = old.error /\ Blinded(old).state = old.state
           /\ Blinded(old).attention_key = None
           /\ Blinded(old).deadline_reported = old.deadline_reported
BY DEF Blinded, Record

(* A new screen only restarts the stall timer.                             *)
LEMMA RedrawnRecord ==
    ASSUME NEW view \in UI, NEW old \in Record
    PROVE  /\ Redrawn(view, old) \in Record
           /\ Redrawn(view, old).result_key = old.result_key
           /\ Redrawn(view, old).publication_changed = old.publication_changed
           /\ Redrawn(view, old).error = old.error /\ Redrawn(view, old).state = old.state
           /\ Redrawn(view, old).attention_key = old.attention_key
           /\ Redrawn(view, old).attention_issue = old.attention_issue
           /\ Redrawn(view, old).deadline_reported = old.deadline_reported
<1>1. view.screen \in Screen \cup {None} /\ 0 \in 0..StallAfter
  BY SignalsAssumption DEF UI
<1>2. QED
  BY <1>1, ZenonT(60) DEF Redrawn, Record

(* The record of a readable terminal has its state and its dialog.         *)
LEMMA AttendedRecord ==
    ASSUME NEW view \in UI, NEW old \in Record, NEW id \in Nat
    PROVE  LET new == Attended(view, old, id) IN
           /\ new \in Record
           /\ new.result_key = old.result_key
           /\ new.publication_changed = old.publication_changed
           /\ new.error = old.error /\ new.state = view.state
           /\ new.attention_key = view.screen.dialog
           /\ new.attention_issue = Incident(view, old, id)
           /\ new.deadline_reported = old.deadline_reported
<1> DEFINE s == [old EXCEPT !.state = view.state, !.blocked = BlockedUnseen(view),
                            !.attention_key = view.screen.dialog,
                            !.attention_issue = Incident(view, old, id)]
<1>1. /\ view.state \in States \cup {None} /\ view.screen.dialog \in Dialogs \cup {None}
      /\ BlockedUnseen(view) \in BOOLEAN /\ view.screen \in Screen \cup {None}
  BY DEF UI, Screen, BlockedUnseen
<1>2. Incident(view, old, id) \in Nat
  BY DEF Incident, Record
<1>3. /\ s \in Record
      /\ s.result_key = old.result_key /\ s.publication_changed = old.publication_changed
      /\ s.error = old.error /\ s.state = view.state
      /\ s.attention_key = view.screen.dialog /\ s.attention_issue = Incident(view, old, id)
      /\ s.deadline_reported = old.deadline_reported
  BY <1>1, <1>2, ZenonT(60) DEF Record
<1>4. Attended(view, old, id) = IF Restarts(view, old) THEN Reissued(s, view, id) ELSE s
  BY DEF Attended
<1> HIDE DEF s
<1>5. ReviewInterval \in 1..MaxDelay /\ 0 \in 0..MaxDelay
  BY SignalsAssumption
<1>6. /\ Reissued(s, view, id) \in Record
      /\ Reissued(s, view, id).result_key = s.result_key
      /\ Reissued(s, view, id).publication_changed = s.publication_changed
      /\ Reissued(s, view, id).error = s.error /\ Reissued(s, view, id).state = s.state
      /\ Reissued(s, view, id).attention_key = s.attention_key
      /\ Reissued(s, view, id).attention_issue = s.attention_issue
      /\ Reissued(s, view, id).deadline_reported = s.deadline_reported
  BY <1>1, <1>3, <1>5, ZenonT(60) DEF Reissued, Record
<1>7. QED
  BY <1>3, <1>4, <1>6

(* A reminder changes the screen and the delay it is about.                *)
LEMMA RemindedRecord ==
    ASSUME NEW s \in Record
    PROVE  /\ Reminded(s) \in Record
           /\ Reminded(s).result_key = s.result_key
           /\ Reminded(s).publication_changed = s.publication_changed
           /\ Reminded(s).error = s.error /\ Reminded(s).state = s.state
           /\ Reminded(s).attention_key = s.attention_key
           /\ Reminded(s).attention_issue = s.attention_issue
           /\ Reminded(s).deadline_reported = s.deadline_reported
<1> DEFINE delay == IF 2 * s.fallback_delay > MaxDelay THEN MaxDelay ELSE 2 * s.fallback_delay
<1>1. s.fallback_delay \in 1..MaxDelay /\ s.screen_key \in Screen \cup {None}
  BY DEF Record
<1>2. delay \in 1..MaxDelay /\ 0 \in 0..MaxDelay
  BY <1>1, SignalsAssumption
<1>3. Reminded(s) = IF ReminderDue(s)
                      THEN [s EXCEPT !.surfaced_key = s.screen_key, !.surfaced = 0,
                                     !.fallback_delay = delay]
                      ELSE s
  BY DEF Reminded
<1> HIDE DEF delay
<1>4. CASE ReminderDue(s)
  <2>1. Reminded(s) = [s EXCEPT !.surfaced_key = s.screen_key, !.surfaced = 0,
                                !.fallback_delay = delay]
    BY <1>3, <1>4
  <2>2. QED
    BY <1>1, <1>2, <2>1, ZenonT(60) DEF Record
<1>5. CASE ~ ReminderDue(s)
  BY <1>3, <1>5
<1>6. QED
  BY <1>4, <1>5

(* The whole record of a readable terminal.                                *)
LEMMA UIRecordFields ==
    ASSUME NEW view \in UI, NEW old \in Record, NEW id \in Nat
    PROVE  LET new == UIRecord(view, old, id) IN
           /\ new \in Record
           /\ new.result_key = old.result_key
           /\ new.publication_changed = old.publication_changed
           /\ new.error = old.error /\ new.state = view.state
           /\ new.attention_key = view.screen.dialog
           /\ new.attention_issue = Incident(view, old, id)
           /\ new.deadline_reported = old.deadline_reported
<1> DEFINE s == Reminded(Attended(view, old, id))
           due == StallDue(view, s)
<1>1. /\ s \in Record
      /\ s.result_key = old.result_key /\ s.publication_changed = old.publication_changed
      /\ s.error = old.error /\ s.state = view.state
      /\ s.attention_key = view.screen.dialog /\ s.attention_issue = Incident(view, old, id)
      /\ s.deadline_reported = old.deadline_reported
  BY AttendedRecord, RemindedRecord
<1>2. UIRecord(view, old, id) = [s EXCEPT !.stalled = @ \/ due]
  BY DEF UIRecord
<1>3. due \in BOOLEAN
  BY DEF StallDue
<1> HIDE DEF s, due
<1>4. (s.stalled \/ due) \in BOOLEAN
  OBVIOUS
<1>5. QED
  BY <1>1, <1>2, <1>4 DEF Record

(* The record after an observation, field by field.                        *)
LEMMA ObservedRecord ==
    ASSUME NEW snap \in Snapshot, NEW old \in Record, NEW late_ \in BOOLEAN, NEW id \in Nat
    PROVE  LET new == Observed(snap, old, late_, id).new IN
           /\ new \in Record
           /\ new.result_key = IF Unreadable(snap) THEN old.result_key
                                ELSE <<snap.result, snap.publication>>
           /\ new.publication_changed = IF Unreadable(snap) THEN old.publication_changed
                                         ELSE Differs(snap.publication)
           /\ new.error = snap.fault
           /\ snap.ui = None => new.state = old.state /\ new.attention_key = None
           /\ snap.ui # None =>
                /\ new.state = snap.ui.state /\ new.attention_key = snap.ui.screen.dialog
                /\ new.attention_issue = Incident(snap.ui, old, id)
           /\ new.deadline_reported = (old.deadline_reported \/ (late_ /\ ~ old.deadline_reported))
<1> DEFINE filed == [ResultRecord(snap, old) EXCEPT !.error = snap.fault]
           seen == IF snap.ui = None THEN Blinded(filed) ELSE Redrawn(snap.ui, filed)
           deadline == late_ /\ ~ old.deadline_reported
           r == IF snap.ui = None THEN seen ELSE UIRecord(snap.ui, seen, id)
<1>1. Observed(snap, old, late_, id).new = [r EXCEPT !.deadline_reported = @ \/ deadline]
  BY DEF Observed
<1>2. /\ filed \in Record
      /\ filed.result_key = IF Unreadable(snap) THEN old.result_key
                             ELSE <<snap.result, snap.publication>>
      /\ filed.publication_changed = IF Unreadable(snap) THEN old.publication_changed
                                      ELSE Differs(snap.publication)
      /\ filed.error = snap.fault
      /\ filed.state = old.state /\ filed.attention_key = old.attention_key
      /\ filed.attention_issue = old.attention_issue
      /\ filed.deadline_reported = old.deadline_reported
  BY FiledRecord
<1> HIDE DEF filed
<1>3. /\ r \in Record
      /\ r.result_key = filed.result_key
      /\ r.publication_changed = filed.publication_changed
      /\ r.error = filed.error
      /\ snap.ui = None => r.state = filed.state /\ r.attention_key = None
      /\ snap.ui # None =>
           /\ r.state = snap.ui.state /\ r.attention_key = snap.ui.screen.dialog
           /\ r.attention_issue = Incident(snap.ui, old, id)
      /\ r.deadline_reported = filed.deadline_reported
  <2>1. CASE snap.ui = None
    BY <1>2, <2>1, BlindedRecord
  <2>2. CASE snap.ui # None
    <3>1. snap.ui \in UI
      BY <2>2 DEF Snapshot
    <3>2. /\ seen \in Record /\ seen.result_key = filed.result_key
          /\ seen.publication_changed = filed.publication_changed
          /\ seen.error = filed.error
          /\ seen.attention_key = filed.attention_key
          /\ seen.attention_issue = filed.attention_issue
          /\ seen.deadline_reported = filed.deadline_reported
      BY <1>2, <2>2, <3>1, RedrawnRecord
    <3> HIDE DEF seen
    <3>3. Incident(snap.ui, seen, id) = Incident(snap.ui, old, id)
      BY <1>2, <3>2 DEF Incident, NewDialog
    <3>4. QED
      BY <2>2, <3>1, <3>2, <3>3, UIRecordFields
  <2>3. QED
    BY <2>1, <2>2
<1> HIDE DEF r
<1>4. (r.deadline_reported \/ deadline) \in BOOLEAN
  OBVIOUS
<1>5. QED
  BY <1>1, <1>2, <1>3, <1>4 DEF Record

(* What it keeps of the dialog.                                            *)
LEMMA ObservedDialog ==
    ASSUME NEW snap \in Snapshot, NEW old \in Record, NEW late_ \in BOOLEAN, NEW id \in Nat
    PROVE  LET new == Observed(snap, old, late_, id).new IN
           /\ new \in Record
           /\ snap.ui = None => new.attention_key = None
           /\ snap.ui # None => /\ new.attention_key = snap.ui.screen.dialog
                                /\ new.attention_issue = Incident(snap.ui, old, id)
<1> DEFINE new == Observed(snap, old, late_, id).new
<1>1. /\ new \in Record
      /\ new.result_key = IF Unreadable(snap) THEN old.result_key
                          ELSE <<snap.result, snap.publication>>
      /\ new.publication_changed = IF Unreadable(snap) THEN old.publication_changed
                                   ELSE Differs(snap.publication)
      /\ new.error = snap.fault
      /\ snap.ui = None => new.state = old.state /\ new.attention_key = None
      /\ snap.ui # None =>
           /\ new.state = snap.ui.state /\ new.attention_key = snap.ui.screen.dialog
           /\ new.attention_issue = Incident(snap.ui, old, id)
      /\ new.deadline_reported = (old.deadline_reported \/ (late_ /\ ~ old.deadline_reported))
  BY ObservedRecord
<1>2. QED
  BY <1>1

(* The concatenation of two queues of events.                              *)
LEMMA Queued ==
    ASSUME NEW u \in Seq(Kinds), NEW v \in Seq(Kinds)
    PROVE  /\ u \o v \in Seq(Kinds)
           /\ \A k : Has(u \o v, k) <=> Has(u, k) \/ Has(v, k)
           /\ \A k : (Once(u, k) /\ ~ Has(v, k)) \/ (~ Has(u, k) /\ Once(v, k)) => Once(u \o v, k)
BY HasConcat, OnceConcat

(* Which kinds of events an observation has to publish.                    *)
LEMMA ResultKinds ==
    ASSUME NEW snap \in Snapshot, NEW old \in Record
    PROVE  LET q == ResultEvents(snap, old)
               news == <<snap.result, snap.publication>> # old.result_key
               suspicious == /\ snap.publication # None
                             /\ Differs(snap.publication) \/ old.publication_changed
           IN  /\ q \in Seq(Kinds)
               /\ Has(q, "result_changed") <=> news /\ suspicious
               /\ Has(q, "result") <=> news /\ ~ suspicious /\ snap.result \in Valid
               /\ Has(q, "invalid_result") <=> news /\ ~ suspicious /\ snap.result \in Malformed
               /\ \A k \in {"attention", "observation_error", "state_changed", "deadline"} :
                       ~ Has(q, k)
<1> DEFINE suspicious == /\ snap.publication # None
                         /\ Differs(snap.publication) \/ old.publication_changed
           u == Optional(suspicious, "result_changed")
           v == Optional(~suspicious /\ snap.result \in Valid, "result")
           w == Optional(~suspicious /\ snap.result \in Malformed, "invalid_result")
<1>1. suspicious \in BOOLEAN
  BY DEF Record, Differs
<1>2. ResultEvents(snap, old) =
        IF <<snap.result, snap.publication>> = old.result_key THEN <<>> ELSE u \o v \o w
  BY DEF ResultEvents
<1>3. /\ u \in Seq(Kinds) /\ v \in Seq(Kinds) /\ w \in Seq(Kinds)
      /\ \A k : Has(u, k) <=> suspicious /\ k = "result_changed"
      /\ \A k : Has(v, k) <=> ~suspicious /\ snap.result \in Valid /\ k = "result"
      /\ \A k : Has(w, k) <=> ~suspicious /\ snap.result \in Malformed /\ k = "invalid_result"
  <2> HIDE DEF suspicious
  <2>1. /\ (~suspicious /\ snap.result \in Valid) \in BOOLEAN
        /\ (~suspicious /\ snap.result \in Malformed) \in BOOLEAN
        /\ "result_changed" \in Kinds /\ "result" \in Kinds /\ "invalid_result" \in Kinds
    BY DEF Kinds
  <2>2. QED
    BY <1>1, <2>1, OptionalHas
<1> HIDE DEF u, v, w
<1>4. /\ u \o v \o w \in Seq(Kinds)
      /\ \A k : Has(u \o v \o w, k) <=> Has(u, k) \/ Has(v, k) \/ Has(w, k)
  <2>1. u \o v \in Seq(Kinds)
    BY <1>3
  <2>2. \A k : Has(u \o v, k) <=> Has(u, k) \/ Has(v, k)
    BY <1>3, Queued
  <2>3. \A k : Has((u \o v) \o w, k) <=> Has(u \o v, k) \/ Has(w, k)
    BY <1>3, <2>1, Queued
  <2>4. (u \o v) \o w \in Seq(Kinds)
    BY <1>3, <2>1
  <2>5. QED
    BY <2>2, <2>3, <2>4
<1>5. <<>> \in Seq(Kinds) /\ \A k : ~ Has(<<>>, k)
  BY DEF Has
<1>6. QED
  BY <1>2, <1>3, <1>4, <1>5

(* The events of a readable terminal.                                      *)
LEMMA UIKinds ==
    ASSUME NEW view \in UI, NEW old \in Record, NEW id \in Nat
    PROVE  LET q == UIEvents(view, old, id) IN
           /\ q \in Seq(Kinds)
           /\ Has(q, "state_changed") <=> view.state # old.state
           /\ Has(q, "attention") <=> NewDialog(view, old) /\ view.screen.dialog # None
           /\ Once(q, "attention")
           /\ \A k \in {"result", "result_changed", "invalid_result",
                         "observation_error", "deadline"} : ~ Has(q, k)
<1> DEFINE s == Attended(view, old, id)
           A == view.state # old.state
           B == NewDialog(view, old) /\ view.screen.dialog # None
           C == BlockedUnseen(view) /\ ~ old.blocked
           D == ReminderDue(s)
           E == StallDue(view, s)
           a_ == Optional(A, "state_changed")
           b_ == Optional(B, "attention")
           c_ == Optional(C, "review_due")
           d_ == Optional(D, "review_due")
           e_ == Optional(E, "stalled")
<1>1. UIEvents(view, old, id) = a_ \o b_ \o c_ \o d_ \o e_
  BY DEF UIEvents
<1>2. /\ A \in BOOLEAN /\ B \in BOOLEAN /\ C \in BOOLEAN /\ D \in BOOLEAN /\ E \in BOOLEAN
  BY DEF NewDialog, BlockedUnseen, ReminderDue, StallDue
<1> HIDE DEF A, B, C, D, E
<1>3. /\ "state_changed" \in Kinds /\ "attention" \in Kinds /\ "review_due" \in Kinds
      /\ "stalled" \in Kinds
  BY DEF Kinds
<1>4. /\ a_ \in Seq(Kinds) /\ \A k : Has(a_, k) <=> A /\ k = "state_changed"
      /\ b_ \in Seq(Kinds) /\ \A k : (Has(b_, k) <=> B /\ k = "attention") /\ Once(b_, k)
      /\ c_ \in Seq(Kinds) /\ \A k : Has(c_, k) <=> C /\ k = "review_due"
      /\ d_ \in Seq(Kinds) /\ \A k : Has(d_, k) <=> D /\ k = "review_due"
      /\ e_ \in Seq(Kinds) /\ \A k : Has(e_, k) <=> E /\ k = "stalled"
  BY <1>2, <1>3, OptionalHas
<1> HIDE DEF a_, b_, c_, d_, e_
<1> DEFINE ab == a_ \o b_
           abc == ab \o c_
           abcd == abc \o d_
           all == abcd \o e_
<1>5. /\ ab \in Seq(Kinds) /\ Once(ab, "attention")
      /\ \A k : Has(ab, k) <=> (A /\ k = "state_changed") \/ (B /\ k = "attention")
  BY <1>4, Queued
<1>6. UIEvents(view, old, id) = all
  BY <1>1
<1> HIDE DEF ab
<1>7. /\ abc \in Seq(Kinds) /\ Once(abc, "attention")
      /\ \A k : Has(abc, k) <=> Has(ab, k) \/ (C /\ k = "review_due")
  BY <1>4, <1>5, Queued
<1> HIDE DEF abc
<1>8. /\ abcd \in Seq(Kinds) /\ Once(abcd, "attention")
      /\ \A k : Has(abcd, k) <=> Has(abc, k) \/ (D /\ k = "review_due")
  BY <1>4, <1>7, Queued
<1> HIDE DEF abcd
<1>9. /\ all \in Seq(Kinds) /\ Once(all, "attention")
      /\ \A k : Has(all, k) <=> Has(abcd, k) \/ (E /\ k = "stalled")
  BY <1>4, <1>8, Queued
<1> HIDE DEF all
<1>10. \A k : Has(all, k) <=>
                 \/ A /\ k = "state_changed"
                 \/ B /\ k = "attention"
                 \/ C /\ k = "review_due"
                 \/ D /\ k = "review_due"
                 \/ E /\ k = "stalled"
  BY <1>5, <1>7, <1>8, <1>9
<1>11. /\ Has(all, "state_changed") <=> A
       /\ Has(all, "attention") <=> B
       /\ \A k \in {"result", "result_changed", "invalid_result",
                     "observation_error", "deadline"} : ~ Has(all, k)
  BY <1>10
<1>12. QED
  BY <1>6, <1>9, <1>11 DEF A, B

(* The events of an observation.                                           *)
LEMMA ObservedKinds ==
    ASSUME NEW snap \in Snapshot, NEW old \in Record, NEW late_ \in BOOLEAN, NEW id \in Nat
    PROVE  LET q == Observed(snap, old, late_, id).kinds
               news == <<snap.result, snap.publication>> # old.result_key
               suspicious == /\ snap.publication # None
                             /\ Differs(snap.publication) \/ old.publication_changed
           IN  /\ q \in Seq(Kinds)
               /\ Has(q, "result_changed") <=> news /\ suspicious
               /\ Has(q, "result") <=> news /\ ~ suspicious /\ snap.result \in Valid
               /\ Has(q, "invalid_result") <=> news /\ ~ suspicious /\ snap.result \in Malformed
               /\ Has(q, "observation_error") <=> snap.fault # old.error /\ snap.fault # {}
               /\ Has(q, "state_changed") <=> snap.ui # None /\ snap.ui.state # old.state
               /\ Has(q, "attention") <=> /\ snap.ui # None
                                          /\ snap.ui.screen.dialog # old.attention_key
                                          /\ snap.ui.screen.dialog # None
               /\ Once(q, "attention")
               /\ Has(q, "deadline") <=> late_ /\ ~ old.deadline_reported
<1> DEFINE filed == [ResultRecord(snap, old) EXCEPT !.error = snap.fault]
           seen == IF snap.ui = None THEN Blinded(filed) ELSE Redrawn(snap.ui, filed)
           deadline == late_ /\ ~ old.deadline_reported
           r_ == ResultEvents(snap, old)
           e_ == ErrorEvents(snap, old)
           u_ == IF snap.ui = None THEN <<>> ELSE UIEvents(snap.ui, seen, id)
           d_ == Optional(deadline, "deadline")
           others == {"result", "result_changed", "invalid_result"}
<1>1. Observed(snap, old, late_, id).kinds = r_ \o e_ \o u_ \o d_
  BY DEF Observed
<1>2. /\ filed \in Record /\ filed.state = old.state /\ filed.attention_key = old.attention_key
  BY FiledRecord
<1> HIDE DEF filed
<1>3. /\ e_ \in Seq(Kinds)
      /\ \A k : Has(e_, k) <=>
            /\ snap.fault # old.error
            /\ k = IF snap.fault # {} THEN "observation_error" ELSE "observation_recovered"
  <2> DEFINE kind == IF snap.fault # {} THEN "observation_error" ELSE "observation_recovered"
  <2>1. kind \in Kinds /\ (snap.fault # old.error) \in BOOLEAN
    BY DEF Kinds
  <2>2. e_ = Optional(snap.fault # old.error, kind)
    BY DEF ErrorEvents
  <2> HIDE DEF kind
  <2>3. /\ Optional(snap.fault # old.error, kind) \in Seq(Kinds)
        /\ \A k : Has(Optional(snap.fault # old.error, kind), k) <=>
                      snap.fault # old.error /\ k = kind
    BY <2>1, OptionalHas
  <2>4. QED
    BY <2>2, <2>3 DEF kind
<1>4. /\ d_ \in Seq(Kinds) /\ \A k : Has(d_, k) <=> deadline /\ k = "deadline"
  <2>1. deadline \in BOOLEAN /\ "deadline" \in Kinds
    BY DEF Kinds
  <2>2. QED
    BY <2>1, OptionalHas
<1>5. /\ u_ \in Seq(Kinds)
      /\ Has(u_, "state_changed") <=> snap.ui # None /\ snap.ui.state # old.state
      /\ Has(u_, "attention") <=> /\ snap.ui # None
                                  /\ snap.ui.screen.dialog # old.attention_key
                                  /\ snap.ui.screen.dialog # None
      /\ Once(u_, "attention")
      /\ \A k \in others \cup {"observation_error", "deadline"} : ~ Has(u_, k)
  <2>1. CASE snap.ui = None
    <3>1. u_ = <<>>
      BY <2>1
    <3>2. <<>> \in Seq(Kinds) /\ \A k : ~ Has(<<>>, k) /\ Once(<<>>, k)
      BY DEF Has, Once
    <3>3. QED
      BY <2>1, <3>1, <3>2
  <2>2. CASE snap.ui # None
    <3>1. snap.ui \in UI
      BY <2>2 DEF Snapshot
    <3>2. seen \in Record /\ seen.state = old.state /\ seen.attention_key = old.attention_key
      BY <1>2, <2>2, <3>1, RedrawnRecord
    <3> HIDE DEF seen
    <3>3. u_ = UIEvents(snap.ui, seen, id)
      BY <2>2
    <3>4. NewDialog(snap.ui, seen) <=> snap.ui.screen.dialog # old.attention_key
      BY <3>2 DEF NewDialog
    <3>5. QED
      BY <2>2, <3>1, <3>2, <3>3, <3>4, UIKinds, ZenonT(60)
  <2>3. QED
    BY <2>1, <2>2
<1>6. /\ r_ \in Seq(Kinds)
      /\ \A k \in {"attention", "observation_error", "state_changed", "deadline"} :
                       ~ Has(r_, k)
  BY ResultKinds
<1> HIDE DEF r_, e_, u_, d_, deadline
<1> DEFINE re == r_ \o e_
           reu == re \o u_
           all == reu \o d_
<1>7. Observed(snap, old, late_, id).kinds = all
  BY <1>1
<1>8. /\ re \in Seq(Kinds) /\ ~ Has(re, "attention")
      /\ \A k : Has(re, k) <=> Has(r_, k) \/ Has(e_, k)
  BY <1>3, <1>6, Queued
<1> HIDE DEF re
<1>9. /\ reu \in Seq(Kinds) /\ Once(reu, "attention")
      /\ \A k : Has(reu, k) <=> Has(re, k) \/ Has(u_, k)
  BY <1>5, <1>8, Queued
<1> HIDE DEF reu
<1>10. /\ all \in Seq(Kinds) /\ Once(all, "attention")
       /\ \A k : Has(all, k) <=> Has(reu, k) \/ Has(d_, k)
  BY <1>4, <1>9, Queued
<1> HIDE DEF all
<1>11. \A k : Has(all, k) <=> Has(r_, k) \/ Has(e_, k) \/ Has(u_, k) \/ Has(d_, k)
  BY <1>8, <1>9, <1>10
<1>12. ASSUME NEW k \in others PROVE Has(all, k) <=> Has(r_, k)
  <2>1. ~ Has(e_, k) /\ ~ Has(u_, k) /\ ~ Has(d_, k)
    BY <1>3, <1>4, <1>5
  <2>2. QED
    BY <1>11, <2>1
<1>13. /\ Has(all, "observation_error") <=> snap.fault # old.error /\ snap.fault # {}
       /\ Has(all, "state_changed") <=> Has(u_, "state_changed")
       /\ Has(all, "attention") <=> Has(u_, "attention")
       /\ Has(all, "deadline") <=> deadline
  <2>1. Has(all, "observation_error") <=> snap.fault # old.error /\ snap.fault # {}
    BY <1>3, <1>4, <1>5, <1>6, <1>11
  <2>2. Has(all, "state_changed") <=> Has(u_, "state_changed")
    BY <1>3, <1>4, <1>6, <1>11
  <2>3. Has(all, "attention") <=> Has(u_, "attention")
    BY <1>3, <1>4, <1>6, <1>11
  <2>4. Has(all, "deadline") <=> deadline
    BY <1>3, <1>4, <1>5, <1>6, <1>11, SMTT(30)
  <2>5. QED
    BY <2>1, <2>2, <2>3, <2>4
<1>14. /\ Has(all, "result_changed") <=> Has(r_, "result_changed")
       /\ Has(all, "result") <=> Has(r_, "result")
       /\ Has(all, "invalid_result") <=> Has(r_, "invalid_result")
  BY <1>12
<1>15. QED
  BY <1>5, <1>7, <1>10, <1>13, <1>14, ResultKinds DEF r_, deadline

-----------------------------------------------------------------------------
(* An observation only records what it has told or is about to tell.       *)
LEMMA ObservedIsAccounted ==
    ASSUME NEW snap \in Snapshot, NEW old \in Record, NEW late_ \in BOOLEAN, NEW id \in Nat,
           NEW told, Accounted(old, told), RecordOK(old)
    PROVE  LET seen == Observed(snap, old, late_, id)
               queued == {<<seen.kinds[i], snap>> : i \in DOMAIN seen.kinds}
           IN  RecordOK(seen.new) /\ Accounted(seen.new, told \cup queued)
<1> DEFINE new == Observed(snap, old, late_, id).new
           q == Observed(snap, old, late_, id).kinds
           all == told \cup {<<q[i], snap>> : i \in DOMAIN q}
           key == <<snap.result, snap.publication>>
           suspicious == /\ snap.publication # None
                         /\ Differs(snap.publication) \/ old.publication_changed
<1>1. /\ new.result_key = IF Unreadable(snap) THEN old.result_key ELSE key
      /\ new.publication_changed = IF Unreadable(snap) THEN old.publication_changed
                                    ELSE Differs(snap.publication)
      /\ new.error = snap.fault
      /\ snap.ui = None => new.state = old.state
      /\ snap.ui # None => new.state = snap.ui.state
      /\ new.deadline_reported = (old.deadline_reported \/ (late_ /\ ~ old.deadline_reported))
  BY ObservedRecord
<1>2. /\ Has(q, "result_changed") <=> key # old.result_key /\ suspicious
      /\ Has(q, "result") <=> key # old.result_key /\ ~ suspicious /\ snap.result \in Valid
      /\ Has(q, "invalid_result") <=>
             key # old.result_key /\ ~ suspicious /\ snap.result \in Malformed
      /\ Has(q, "observation_error") <=> snap.fault # old.error /\ snap.fault # {}
      /\ Has(q, "state_changed") <=> snap.ui # None /\ snap.ui.state # old.state
      /\ Has(q, "deadline") <=> late_ /\ ~ old.deadline_reported
  BY ObservedKinds
<1>3. ASSUME NEW k, Has(q, k) PROVE <<k, snap>> \in all
  BY <1>3 DEF Has
<1>4. told \subseteq all
  OBVIOUS
<1>5. \A e : <<e, snap>>[1] = e /\ <<e, snap>>[2] = snap
  OBVIOUS
<1>6. key[1] = snap.result /\ key[2] = snap.publication
  OBVIOUS
<1> HIDE DEF new, q, all, key
<1>7. RecordOK(new)
  BY <1>1, <1>6 DEF RecordOK
<1>8. ASSUME new.result_key[1] # None
      PROVE  \E e \in all : /\ e[1] \in {"result", "result_changed", "invalid_result"}
                            /\ <<e[2].result, e[2].publication>> = new.result_key
  <2>1. CASE new.result_key = old.result_key
    <3>1. \E e \in told : /\ e[1] \in {"result", "result_changed", "invalid_result"}
                          /\ <<e[2].result, e[2].publication>> = old.result_key
      BY <1>8, <2>1 DEF Accounted
    <3>2. QED
      BY <1>4, <2>1, <3>1
  <2>2. CASE new.result_key # old.result_key
    <3>1. new.result_key = key /\ key # old.result_key
      BY <1>1, <2>2
    <3>2. snap.result \in Valid \cup Malformed
      BY <1>6, <1>8, <3>1 DEF Snapshot, Contents
    <3>3. PICK k \in {"result", "result_changed", "invalid_result"} : Has(q, k)
      BY <1>2, <3>1, <3>2
    <3>4. <<k, snap>> \in all
      BY <1>3, <3>3
    <3>5. <<snap.result, snap.publication>> = new.result_key
      BY <3>1 DEF key
    <3>6. QED
      BY <1>5, <3>3, <3>4, <3>5
  <2>3. QED
    BY <2>1, <2>2
<1>9. ASSUME new.publication_changed
      PROVE  \E e \in all : e[1] = "result_changed" /\ e[2].publication = new.result_key[2]
  <2>1. CASE new.result_key = old.result_key
    <3>1. old.publication_changed
      BY <1>7, <1>9, <2>1 DEF RecordOK
    <3>2. \E e \in told : e[1] = "result_changed" /\ e[2].publication = old.result_key[2]
      BY <3>1 DEF Accounted
    <3>3. QED
      BY <1>4, <2>1, <3>2
  <2>2. CASE new.result_key # old.result_key
    <3>1. new.result_key = key /\ key # old.result_key
      BY <1>1, <2>2
    <3>2. Differs(snap.publication)
      BY <1>6, <1>7, <1>9, <3>1 DEF RecordOK
    <3>3. suspicious
      BY <3>2 DEF Differs
    <3>4. <<"result_changed", snap>> \in all
      BY <1>2, <1>3, <3>1, <3>3
    <3>5. QED
      BY <1>5, <1>6, <3>1, <3>4
  <2>3. QED
    BY <2>1, <2>2
<1>10. ASSUME new.error # {}
       PROVE  \E e \in all : e[1] = "observation_error" /\ e[2].fault = new.error
  <2>1. CASE new.error = old.error
    <3>1. \E e \in told : e[1] = "observation_error" /\ e[2].fault = old.error
      BY <1>10, <2>1 DEF Accounted
    <3>2. QED
      BY <1>4, <2>1, <3>1
  <2>2. CASE new.error # old.error
    <3>1. <<"observation_error", snap>> \in all
      BY <1>1, <1>2, <1>3, <1>10, <2>2
    <3>2. QED
      BY <1>1, <1>5, <3>1
  <2>3. QED
    BY <2>1, <2>2
<1>11. ASSUME new.state # None
       PROVE  \E e \in all : e[1] = "state_changed" /\ e[2].ui.state = new.state
  <2>1. CASE new.state = old.state
    <3>1. \E e \in told : e[1] = "state_changed" /\ e[2].ui.state = old.state
      BY <1>11, <2>1 DEF Accounted
    <3>2. QED
      BY <1>4, <2>1, <3>1
  <2>2. CASE new.state # old.state
    <3>1. <<"state_changed", snap>> \in all /\ snap.ui.state = new.state
      BY <1>1, <1>2, <1>3, <2>2
    <3>2. QED
      BY <1>5, <3>1
  <2>3. QED
    BY <2>1, <2>2
<1>12. ASSUME new.deadline_reported PROVE \E e \in all : e[1] = "deadline"
  <2>1. CASE old.deadline_reported
    BY <1>4, <2>1 DEF Accounted
  <2>2. CASE ~ old.deadline_reported
    <3>1. <<"deadline", snap>> \in all
      BY <1>1, <1>2, <1>3, <1>12, <2>2
    <3>2. QED
      BY <1>5, <3>1
  <2>3. QED
    BY <2>1, <2>2
<1>13. Accounted(new, all)
  BY <1>8, <1>9, <1>10, <1>11, <1>12 DEF Accounted
<1>14. QED
  BY <1>7, <1>13 DEF new, q, all

(* What is told stays told.                                                *)
LEMMA AccountedMore ==
    ASSUME NEW r, NEW told, NEW more, told \subseteq more, Accounted(r, told)
    PROVE  Accounted(r, more)
BY DEF Accounted

(* A tick changes no more than ages.                                       *)
LEMMA LaterRecord ==
    ASSUME NEW r \in Record
    PROVE  /\ Later(r) \in Record
           /\ Later(r).result_key = r.result_key
           /\ Later(r).publication_changed = r.publication_changed
           /\ Later(r).error = r.error /\ Later(r).state = r.state
           /\ Later(r).attention_key = r.attention_key
           /\ Later(r).attention_issue = r.attention_issue
           /\ Later(r).fallback_issue = r.fallback_issue
           /\ Later(r).deadline_reported = r.deadline_reported
<1> DEFINE c == IF r.changed < StallAfter THEN r.changed + 1 ELSE r.changed
           d == IF r.surfaced < MaxDelay THEN r.surfaced + 1 ELSE r.surfaced
<1>1. r.changed \in 0..StallAfter /\ r.surfaced \in 0..MaxDelay
  BY DEF Record
<1>2. c \in 0..StallAfter /\ d \in 0..MaxDelay
  BY <1>1, SignalsAssumption
<1>3. Later(r) = [r EXCEPT !.changed = c, !.surfaced = d]
  BY DEF Later
<1> HIDE DEF c, d
<1>4. QED
  BY <1>2, <1>3 DEF Record

(* Nothing is recorded of a new target.                                    *)
LEMMA NewRecordOK ==
    /\ NewRecord \in Record /\ RecordOK(NewRecord)
    /\ \A told : Accounted(NewRecord, told)
<1>1. <<None, None>> \in Contents \X (Receipt \cup {None})
  BY DEF Contents
<1>2. ReviewInterval \in 1..MaxDelay /\ 0 \in 0..MaxDelay /\ 0 \in 0..StallAfter
  BY SignalsAssumption
<1>3. NewRecord \in Record
  BY <1>1, <1>2 DEF NewRecord, Record
<1>4. RecordOK(NewRecord)
  BY DEF NewRecord, RecordOK, Differs
<1>5. \A told : Accounted(NewRecord, told)
  BY DEF NewRecord, Accounted
<1>6. QED
  BY <1>3, <1>4, <1>5

(* A response told as the result is the one that was published first.      *)
LEMMA ToldResultIsPinned ==
    ASSUME NEW snap \in Snapshot, NEW old \in Record, NEW late_ \in BOOLEAN, NEW id \in Nat,
           NEW pinned, SnapshotOK(snap, pinned),
           Has(Observed(snap, old, late_, id).kinds, "result")
    PROVE  snap.result \in Valid /\ snap.result = pinned
<1>1. /\ snap.result \in Valid
      /\ ~ (snap.publication # None /\ (Differs(snap.publication) \/ old.publication_changed))
  BY ObservedKinds
<1>2. /\ snap.publication # None
      /\ snap.publication.first = pinned /\ snap.publication.current = snap.result
  BY <1>1 DEF SnapshotOK
<1>3. ~ Differs(snap.publication)
  BY <1>1, <1>2
<1>4. QED
  BY <1>1, <1>2, <1>3 DEF Differs

-----------------------------------------------------------------------------
(* The values of a function on a finite set are finitely many.             *)
LEMMA FiniteImage ==
    ASSUME NEW S, IsFiniteSet(S), NEW f, DOMAIN f = S, f = [x \in S |-> f[x]]
    PROVE  IsFiniteSet({f[x] : x \in S})
<1> DEFINE T == {f[x] : x \in S}
<1>1. f \in Surjection(S, T)
  BY DEF Surjection
<1>2. QED
  BY <1>1, FS_Surjection

(* The evidence and the events of a directory are finitely many.           *)
LEMMA FiniteDirectory ==
    ASSUME TypeOK, Numbered
    PROVE  IsFiniteSet(evidence) /\ IsFiniteSet(DOMAIN events)
<1>1. PICK b \in Nat : evidence \subseteq 1..b
  BY DEF Numbered
<1>2. IsFiniteSet(1..b)
  BY <1>1, FS_Interval
<1>3. IsFiniteSet(evidence)
  BY <1>1, <1>2, FS_Subset
<1>4. QED
  BY <1>3, FS_Subset DEF TypeOK

(* A state has finitely many issues.                                       *)
LEMMA FiniteIssues ==
    ASSUME NEW s \in State
    PROVE  IsFiniteSet(Issues(s))
<1> DEFINE f == [t \in Targets |-> s.targets[t].attention_issue]
           g == [t \in Targets |-> s.targets[t].fallback_issue]
<1>1. IsFiniteSet(Targets)
  BY WatchAssumption
<1>2. IsFiniteSet({f[t] : t \in Targets}) /\ IsFiniteSet({g[t] : t \in Targets})
  BY <1>1, FiniteImage
<1>3. IsFiniteSet({f[t] : t \in Targets} \cup {g[t] : t \in Targets})
  BY <1>2, FS_Union
<1>4. Issues(s) = {f[t] : t \in Targets} \cup {g[t] : t \in Targets}
  BY DEF Issues
<1>5. QED
  BY <1>3, <1>4

(* A new issue identity is one that no file and no record has.             *)
LEMMA FreshIssue ==
    ASSUME TypeOK, Numbered, phase = "sweep"
    PROVE  /\ Fresh \in Nat
           /\ \A n \in DOMAIN events : events[n].issue # Fresh
<1> DEFINE f == [n \in DOMAIN events |-> events[n].issue]
           C == Cardinality(Known)
           free == (1..C + 1) \ Known
<1>1. IsFiniteSet({f[n] : n \in DOMAIN events})
  BY FiniteDirectory, FiniteImage
<1>2. {f[n] : n \in DOMAIN events} = {events[n].issue : n \in DOMAIN events}
  OBVIOUS
<1>3. IsFiniteSet(Issues(state)) /\ IsFiniteSet(Issues(memory))
  BY FiniteIssues DEF TypeOK
<1>4. IsFiniteSet(Known)
  BY <1>1, <1>2, <1>3, FS_Union DEF Known
<1>5. C \in Nat
  BY <1>4, FS_CardinalityType
<1>6. IsFiniteSet(1..C + 1) /\ Cardinality(1..C + 1) = C + 1
  BY <1>5, FS_Interval
<1>7. free # {}
  <2>1. SUFFICES ASSUME 1..C + 1 \subseteq Known PROVE FALSE
    OBVIOUS
  <2>2. Cardinality(1..C + 1) <= C
    BY <1>4, <2>1, FS_Subset
  <2>3. QED
    BY <1>5, <1>6, <2>2
<1>8. free \in SUBSET Nat
  BY <1>5
<1>9. Min(free) \in free
  BY <1>7, <1>8, MinIsLeast
<1>10. Fresh = Min(free)
  BY DEF Fresh
<1> HIDE DEF free, C
<1>11. Fresh \in Nat /\ Fresh \notin Known
  BY <1>8, <1>9, <1>10 DEF free
<1>12. QED
  BY <1>11 DEF Known

(* A restart goes on after every number that was used.                     *)
LEMMA ResumeReserves ==
    ASSUME TypeOK, Numbered
    PROVE  /\ Resume \in State /\ Resume.targets = state.targets
           /\ \A n \in evidence \cup DOMAIN events : n <= Resume.cursor
<1> DEFINE used == {state.cursor} \cup evidence \cup DOMAIN events
<1>1. PICK b \in Nat : evidence \subseteq 1..b
  BY DEF Numbered
<1>2. state.cursor \in Nat /\ DOMAIN events \subseteq evidence
  BY DEF TypeOK, State
<1>3. used \in SUBSET (0..(b + state.cursor)) /\ b + state.cursor \in Nat
  <2>1. \A n \in 1..b : n \in 0..(b + state.cursor)
    BY <1>1, <1>2
  <2>2. state.cursor \in 0..(b + state.cursor) /\ b + state.cursor \in Nat
    BY <1>1, <1>2
  <2>3. QED
    BY <1>1, <1>2, <2>1, <2>2
<1>4. Max(used) \in used /\ \A n \in used : n <= Max(used)
  BY <1>3, MaxIsGreatest
<1>5. Max(used) \in Nat
  BY <1>3, <1>4
<1>6. Resume = [state EXCEPT !.cursor = Max(used)]
  BY DEF Resume
<1> DEFINE m == Max(used)
<1>7. m \in Nat /\ \A n \in evidence \cup DOMAIN events : n <= m
  BY <1>4, <1>5
<1>8. Resume = [state EXCEPT !.cursor = m]
  BY <1>6
<1> HIDE DEF m
<1>9. QED
  BY <1>7, <1>8 DEF TypeOK, State

(* A page that is empty has nothing to follow, and one that is not leaves  *)
(* nothing out before its end.                                             *)
LEMMA PageIsPrefix ==
    ASSUME TypeOK, Numbered, NEW x \in Consumers
    PROVE  /\ PageEnd(x) \in {cursor[x]} \cup DOMAIN events
           /\ Page(x) \in SUBSET (Nat \ {0})
           /\ \A n \in DOMAIN events : n > cursor[x] /\ n <= PageEnd(x) => n \in Page(x)
           /\ Page(x) = {} => Unseen(x) = {}
<1> DEFINE upto(n) == {m \in Unseen(x) : m <= n}
<1>1. PICK b \in Nat : evidence \subseteq 1..b
  BY DEF Numbered
<1>2. cursor[x] \in Nat /\ DOMAIN events \subseteq 1..b
  BY <1>1 DEF TypeOK
<1>3. Unseen(x) \in SUBSET (1..b) /\ Page(x) \in SUBSET Unseen(x)
  BY <1>2 DEF Unseen, Page
<1>4. {cursor[x]} \cup Page(x) \in SUBSET (0..(b + cursor[x])) /\ b + cursor[x] \in Nat
  BY <1>2, <1>3
<1>5. PageEnd(x) \in {cursor[x]} \cup Page(x)
  BY <1>4, MaxIsGreatest DEF PageEnd
<1>6. IsFiniteSet(1..b)
  BY <1>1, FS_Interval
<1>7. \A n : IsFiniteSet(upto(n)) /\ Cardinality(upto(n)) \in Nat
  <2> TAKE n
  <2>1. upto(n) \subseteq 1..b
    BY <1>3
  <2>2. QED
    BY <1>6, <2>1, FS_Subset, FS_CardinalityType
<1>8. ASSUME NEW n \in DOMAIN events, n > cursor[x], n <= PageEnd(x) PROVE n \in Page(x)
  <2>1. n \in Unseen(x) /\ n \in Nat
    BY <1>2, <1>8 DEF Unseen
  <2>2. PageEnd(x) \in Page(x) /\ PageEnd(x) \in Nat
    BY <1>2, <1>3, <1>5, <1>8, <2>1
  <2>3. upto(n) \subseteq upto(PageEnd(x))
    BY <1>3, <1>8, <2>1, <2>2
  <2>4. Cardinality(upto(n)) <= Cardinality(upto(PageEnd(x)))
    BY <1>7, <2>3, FS_Subset
  <2>5. Cardinality(upto(PageEnd(x))) <= Limit
    BY <2>2 DEF Page
  <2>6. Cardinality(upto(n)) <= Limit
    <3> DEFINE c == Cardinality(upto(n))
               d == Cardinality(upto(PageEnd(x)))
    <3>1. c \in Nat /\ d \in Nat /\ Limit \in Nat
      BY <1>7, WatchAssumption
    <3>2. c <= d /\ d <= Limit
      BY <2>4, <2>5
    <3> HIDE DEF c, d
    <3>3. c <= Limit
      BY <3>1, <3>2
    <3>4. QED
      BY <3>3 DEF c
  <2>7. QED
    BY <2>1, <2>6 DEF Page
<1>9. ASSUME Unseen(x) # {} PROVE Page(x) # {}
  <2> DEFINE m == Min(Unseen(x))
  <2>1. m \in Unseen(x) /\ \A n \in Unseen(x) : m <= n
    BY <1>3, <1>9, MinIsLeast
  <2>2. upto(m) = {m}
    BY <1>3, <2>1
  <2>3. Cardinality(upto(m)) = 1
    BY <2>2, FS_Singleton
  <2>4. m \in Page(x)
    BY <2>1, <2>3, WatchAssumption DEF Page
  <2>5. QED
    BY <2>4
<1>10. Unseen(x) \subseteq DOMAIN events
  BY DEF Unseen
<1>11. Page(x) \in SUBSET (Nat \ {0}) /\ PageEnd(x) \in {cursor[x]} \cup DOMAIN events
  BY <1>3, <1>5, <1>10
<1>12. QED
  BY <1>8, <1>9, <1>11

-----------------------------------------------------------------------------
(* The parts of the invariant that a step leaves alone.                    *)
LEMMA DirectoryKept ==
    ASSUME WatchInv, UNCHANGED <<disk, phase, memory, out, crashes>>
    PROVE  Numbered' /\ RecordsOK' /\ AllAccounted' /\ Incidents' /\ UnbrokenNow'
<1>1. /\ state' = state /\ evidence' = evidence /\ events' = events
      /\ phase' = phase /\ memory' = memory /\ out' = out /\ crashes' = crashes
  BY DEF disk
<1>2. Numbered'
  BY <1>1 DEF WatchInv, Numbered, NumbersReserved
<1>3. RecordsOK'
  BY <1>1 DEF WatchInv, RecordsOK
<1>4. AllAccounted'
  <2>1. \A t \in Targets : Told(t)' = Told(t) /\ ToTell(t)' = ToTell(t)
    BY <1>1 DEF Told, ToTell
  <2>2. QED
    BY <1>1, <2>1 DEF WatchInv, AllAccounted
<1>5. Incidents'
  BY <1>1 DEF WatchInv, Incidents, OneEventPerIncident, Announced, Attention
<1>6. UnbrokenNow'
  BY <1>1 DEF WatchInv, UnbrokenNow, Unbroken, Attention
<1>7. QED
  BY <1>2, <1>3, <1>4, <1>5, <1>6

(* Consumers see only events.                                              *)
LEMMA ReadersKept ==
    ASSUME WatchInv, UNCHANGED <<events, readers>>
    PROVE  \A x \in Consumers : ConsumerOK(x)'
BY DEF WatchInv, readers, ConsumerOK, Unseen

(* A receipt that is set where there was none is that of no snapshot that  *)
(* was compared with one, and of no result that was reported.              *)
LEMMA PinnedOnce ==
    ASSUME WatchInv, UNCHANGED <<events, out>>,
           \A t \in Targets : publication[t] # None => publication'[t] = publication[t]
    PROVE  /\ PinnedResults'
           /\ out # None => SnapshotOK(out.snapshot, publication'[out.target])
           /\ \A t \in Targets : reads[t].step = "read" =>
                  SnapshotOK(reads[t].snapshot, publication'[t])
<1>1. ASSUME NEW s, NEW t \in Targets, SnapshotOK(s, publication[t])
      PROVE  SnapshotOK(s, publication'[t])
  <2>1. s.publication # None => s.publication.first \in Valid
    BY <1>1 DEF SnapshotOK, Snapshot, Receipt
  <2>2. s.publication # None => publication[t] # None
    BY <1>1, <2>1, SignalsAssumption DEF SnapshotOK
  <2>3. QED
    BY <1>1, <2>2 DEF SnapshotOK
<1>2. ASSUME NEW t \in Targets, NEW c \in Valid, c = publication[t]
      PROVE  c = publication'[t]
  BY <1>2, SignalsAssumption
<1>3. /\ \A n \in DOMAIN events : events[n].target \in Targets
      /\ out # None => out.target \in Targets
  BY DEF WatchInv, TypeOK, Event, Output
<1>4. PinnedResults'
  BY <1>2, <1>3 DEF WatchInv, PinnedResults
<1>5. QED
  BY <1>1, <1>3, <1>4 DEF WatchInv, SnapshotsOK

(* A step of the watched rounds or of the deadline is seen by nobody yet.  *)
LEMMA WorldKeeps ==
    ASSUME WatchInv,
           (\E t \in Targets : Respond(t) \/ Redraw(t) \/ Break(t)) \/ DeadlinePasses
    PROVE  WatchInv'
<1>1. UNCHANGED <<publication, disk, process, readers>>
  BY DEF Respond, Redraw, Break, DeadlinePasses
<1>2. TypeOK'
  <2>1. /\ result' \in [Targets -> Contents] /\ ui' \in [Targets -> UI]
        /\ fault' \in [Targets -> SUBSET Faults]
        /\ late' \in BOOLEAN /\ changes' \in 0..MaxChanges
    <3>1. ASSUME NEW t \in Targets, Respond(t)
          PROVE  /\ result' \in [Targets -> Contents] /\ changes' \in 0..MaxChanges
                 /\ UNCHANGED <<ui, fault, late>>
      BY <3>1, WatchAssumption DEF Respond, Change, WatchInv, TypeOK
    <3>2. ASSUME NEW t \in Targets, Redraw(t)
          PROVE  /\ ui' \in [Targets -> UI] /\ changes' \in 0..MaxChanges
                 /\ UNCHANGED <<result, fault, late>>
      BY <3>2, WatchAssumption DEF Redraw, Change, WatchInv, TypeOK
    <3>3. ASSUME NEW t \in Targets, Break(t)
          PROVE  /\ fault' \in [Targets -> SUBSET Faults] /\ changes' \in 0..MaxChanges
                 /\ UNCHANGED <<result, ui, late>>
      <4>1. PICK set \in (Failures \cup {{}}) : fault' = [fault EXCEPT ![t] = set]
        BY <3>3 DEF Break
      <4>2. set \in SUBSET Faults
        BY <4>1, WatchAssumption
      <4>3. QED
        BY <3>3, <4>1, <4>2, WatchAssumption DEF Break, Change, WatchInv, TypeOK
    <3>4. CASE DeadlinePasses
      BY <3>4 DEF DeadlinePasses, WatchInv, TypeOK
    <3>5. QED
      BY <3>1, <3>2, <3>3, <3>4 DEF WatchInv, TypeOK
  <2>2. QED
    BY <1>1, <2>1 DEF disk, process, readers, WatchInv, TypeOK
<1>3. Numbered' /\ RecordsOK' /\ AllAccounted' /\ Incidents' /\ UnbrokenNow'
  BY <1>1, DirectoryKept DEF process
<1>4. \A x \in Consumers : ConsumerOK(x)'
  BY <1>1, ReadersKept DEF disk
<1>5. SnapshotsOK' /\ PinnedResults'
  BY <1>1 DEF disk, process, WatchInv, SnapshotsOK, PinnedResults
<1>6. QED
  BY <1>2, <1>3, <1>4, <1>5 DEF WatchInv

(* Another watch pins the response.                                        *)
LEMMA PinnedElsewhereKeeps ==
    ASSUME WatchInv, NEW t \in Targets, PinnedElsewhere(t)
    PROVE  WatchInv'
<1>1. UNCHANGED <<result, ui, fault, late, changes, disk, process, readers>>
  BY DEF PinnedElsewhere
<1>2. \A u \in Targets : publication[u] # None => publication'[u] = publication[u]
  BY DEF PinnedElsewhere, WatchInv, TypeOK
<1>3. TypeOK'
  BY <1>1 DEF PinnedElsewhere, disk, process, readers, WatchInv, TypeOK
<1>4. Numbered' /\ RecordsOK' /\ AllAccounted' /\ Incidents' /\ UnbrokenNow'
  BY <1>1, DirectoryKept DEF process
<1>5. \A x \in Consumers : ConsumerOK(x)'
  BY <1>1, ReadersKept DEF disk
<1>6. SnapshotsOK' /\ PinnedResults'
  BY <1>1, <1>2, PinnedOnce DEF disk, process, SnapshotsOK
<1>7. QED
  BY <1>3, <1>4, <1>5, <1>6 DEF WatchInv

(* A tick of the clock between sweeps.                                     *)
LEMMA TickKeeps ==
    ASSUME WatchInv, Tick
    PROVE  WatchInv'
<1>1. UNCHANGED <<world, evidence, events, process, readers>>
  BY DEF Tick
<1>2. state.targets \in [Targets -> Record] /\ state.cursor \in Nat
  BY DEF WatchInv, TypeOK, State
<1>3. /\ state' \in State
      /\ \A t \in Targets : state'.targets[t] = Later(state.targets[t])
  BY <1>2, LaterRecord DEF Tick, WatchInv, TypeOK, State
<1>4. TypeOK'
  BY <1>1, <1>3 DEF world, process, readers, WatchInv, TypeOK
<1>5. Numbered'
  BY <1>1 DEF process, WatchInv, Numbered, NumbersReserved
<1>6. SnapshotsOK' /\ PinnedResults'
  BY <1>1 DEF world, process, WatchInv, SnapshotsOK, PinnedResults
<1>7. \A x \in Consumers : ConsumerOK(x)'
  BY <1>1, ReadersKept
<1>8. phase # "sweep" /\ phase' # "sweep" /\ out = None /\ out' = None
  BY <1>1 DEF Tick, process, WatchInv, Numbered
<1>9. ASSUME NEW t \in Targets
      PROVE  /\ RecordOK(state'.targets[t]) /\ Accounted(state'.targets[t], Told(t))
             /\ state'.targets[t].attention_key = state.targets[t].attention_key
             /\ state'.targets[t].attention_issue = state.targets[t].attention_issue
  <2>1. RecordOK(state.targets[t]) /\ Accounted(state.targets[t], Told(t))
    BY DEF WatchInv, RecordsOK, AllAccounted
  <2>2. QED
    BY <1>2, <1>3, <2>1, LaterRecord DEF RecordOK, Accounted
<1>10. \A t \in Targets : Told(t)' = Told(t)
  BY <1>1 DEF Told
<1>11. RecordsOK' /\ AllAccounted'
  BY <1>8, <1>9, <1>10 DEF RecordsOK, AllAccounted
<1>12. Incidents'
  BY <1>1, <1>8, <1>9 DEF WatchInv, Incidents, OneEventPerIncident, Announced, Attention
<1>13. UnbrokenNow'
  BY <1>1, <1>8, <1>9 DEF process, WatchInv, UnbrokenNow, Unbroken, Attention
<1>14. QED
  BY <1>4, <1>5, <1>6, <1>7, <1>11, <1>12, <1>13 DEF WatchInv

-----------------------------------------------------------------------------
(* The parts that a step of the observer between or at the end of sweeps   *)
(* keeps: nothing is in memory, no read is open and nothing is published.  *)
LEMMA AtRestKept ==
    ASSUME WatchInv, UNCHANGED <<world, disk, readers>>,
           phase' \in {"off", "started", "swept"}, memory' = None, out' = None,
           reads' \in [Targets -> Read], \A t \in Targets : reads'[t].step # "read",
           crashes' \in 0..MaxCrashes,
           crashes' = 0 => crashes = 0 /\ phase # "sweep"
    PROVE  WatchInv'
<1>1. TypeOK'
  BY DEF world, disk, readers, WatchInv, TypeOK
<1>2. Numbered'
  BY DEF disk, WatchInv, Numbered, NumbersReserved
<1>3. SnapshotsOK'
  BY DEF SnapshotsOK
<1>4. RecordsOK'
  BY DEF disk, WatchInv, RecordsOK
<1>5. AllAccounted'
  <2>1. \A t \in Targets : Told(t)' = Told(t) /\ state'.targets[t] = state.targets[t]
    BY DEF disk, Told
  <2>2. QED
    BY <2>1 DEF WatchInv, AllAccounted
<1>6. PinnedResults'
  BY DEF world, disk, WatchInv, PinnedResults
<1>7. Incidents'
  BY DEF disk, WatchInv, Incidents, OneEventPerIncident, Announced, Attention
<1>8. UnbrokenNow'
  BY DEF disk, WatchInv, UnbrokenNow, Unbroken, Attention
<1>9. \A x \in Consumers : ConsumerOK(x)'
  BY ReadersKept DEF disk
<1>10. QED
  BY <1>1, <1>2, <1>3, <1>4, <1>5, <1>6, <1>7, <1>8, <1>9 DEF WatchInv

(* The observer starts, stops and dies.                                    *)
LEMMA StartKeeps ==
    ASSUME WatchInv, Start
    PROVE  WatchInv'
<1>1. /\ UNCHANGED <<world, disk, memory, reads, out, crashes, readers>>
      /\ phase = "off" /\ phase' = "started"
  BY DEF Start, Locked
<1>2. memory = None /\ out = None
  BY <1>1 DEF WatchInv, TypeOK, Numbered
<1>3. \A x \in Consumers : ConsumerOK(x)'
  BY <1>1, ReadersKept DEF disk
<1>4. TypeOK'
  BY <1>1, <1>2 DEF world, disk, readers, WatchInv, TypeOK
<1>5. Numbered' /\ RecordsOK'
  BY <1>1, <1>2 DEF disk, WatchInv, Numbered, NumbersReserved, RecordsOK
<1>6. SnapshotsOK' /\ PinnedResults'
  BY <1>1 DEF world, disk, WatchInv, SnapshotsOK, PinnedResults
<1>7. AllAccounted'
  <2>1. \A t \in Targets : Told(t)' = Told(t) /\ state'.targets[t] = state.targets[t]
    BY <1>1 DEF disk, Told
  <2>2. QED
    BY <1>1, <2>1 DEF WatchInv, AllAccounted
<1>8. Incidents'
  BY <1>1, <1>2 DEF disk, WatchInv, Incidents, OneEventPerIncident, Announced, Attention
<1>9. UnbrokenNow'
  BY <1>1 DEF disk, WatchInv, UnbrokenNow, Unbroken, Attention
<1>10. QED
  BY <1>3, <1>4, <1>5, <1>6, <1>7, <1>8, <1>9 DEF WatchInv

(* Its end leaves no read open.                                            *)
LEMMA EndsClosesReads ==
    ASSUME Ends
    PROVE  /\ phase' = "off" /\ memory' = None /\ out' = None
           /\ reads' \in [Targets -> Read]
           /\ \A t \in Targets : reads'[t].step # "read"
<1>1. Unread \in Read /\ Unread.step = "todo"
  BY DEF Unread, Read, Contents
<1>2. QED
  BY <1>1 DEF Ends

(* An observer stops when everything is published ...                      *)
LEMMA StopKeeps ==
    ASSUME WatchInv, Stop
    PROVE  WatchInv'
<1>1. UNCHANGED <<world, disk, crashes, readers>> /\ phase = "swept"
  BY DEF Stop
<1>2. crashes' \in 0..MaxCrashes /\ crashes' = crashes
  BY <1>1 DEF WatchInv, TypeOK
<1>3. QED
  BY <1>1, <1>2, AtRestKept, EndsClosesReads DEF Stop

(* ... or dies at any moment.                                              *)
LEMMA CrashKeeps ==
    ASSUME WatchInv, Crash
    PROVE  WatchInv'
<1>1. UNCHANGED <<world, disk, readers>>
  BY DEF Crash
<1>2. crashes' \in 0..MaxCrashes /\ crashes' # 0
  BY WatchAssumption DEF Crash, WatchInv, TypeOK
<1>3. QED
  BY <1>1, <1>2, AtRestKept, EndsClosesReads DEF Crash

-----------------------------------------------------------------------------
(* A sweep begins with what was saved.                                     *)
LEMMA BeginSweepKeeps ==
    ASSUME WatchInv, BeginSweep
    PROVE  WatchInv'
<1>1. /\ UNCHANGED <<world, disk, out, crashes, readers>>
      /\ phase # "sweep" /\ phase' = "sweep" /\ memory' = Resume
      /\ reads' = [t \in Targets |-> Unread]
  BY DEF BeginSweep
<1>2. /\ Resume \in State /\ Resume.targets = state.targets
      /\ \A n \in evidence \cup DOMAIN events : n <= Resume.cursor
  BY ResumeReserves DEF WatchInv
<1>3. out = None /\ out' = None
  BY <1>1 DEF WatchInv, Numbered
<1>4. Unread \in Read /\ Unread.step = "todo"
  BY DEF Unread, Read, Contents
<1>5. memory' \in State /\ memory' # None /\ memory'.targets = state.targets
  BY <1>1, <1>2, NoneAssumption
<1>6. TypeOK'
  BY <1>1, <1>3, <1>4, <1>5 DEF world, disk, readers, WatchInv, TypeOK
<1>7. Numbered'
  BY <1>1, <1>2, <1>3 DEF disk, WatchInv, Numbered, NumbersReserved
<1>8. SnapshotsOK'
  BY <1>1, <1>3, <1>4 DEF SnapshotsOK
<1>9. RecordsOK'
  BY <1>1, <1>5 DEF disk, WatchInv, RecordsOK
<1>10. AllAccounted'
  <2>1. \A t \in Targets : Told(t)' = Told(t) /\ state'.targets[t] = state.targets[t]
    BY <1>1 DEF disk, Told
  <2>2. \A t \in Targets : Accounted(state.targets[t], Told(t))
    BY DEF WatchInv, AllAccounted
  <2>3. \A t \in Targets : \A more : Accounted(state.targets[t], Told(t) \cup more)
    BY <2>2, AccountedMore
  <2>4. QED
    BY <1>5, <2>1, <2>2, <2>3 DEF AllAccounted
<1>11. PinnedResults'
  BY <1>1, <1>3 DEF world, disk, WatchInv, PinnedResults
<1>12. Incidents'
  BY <1>1, <1>3, <1>5 DEF disk, WatchInv, Incidents, OneEventPerIncident, Announced, Attention
<1>13. UnbrokenNow'
  BY <1>1, <1>5 DEF disk, WatchInv, UnbrokenNow, Unbroken, Attention
<1>14. \A x \in Consumers : ConsumerOK(x)'
  BY <1>1, ReadersKept DEF disk
<1>15. QED
  BY <1>6, <1>7, <1>8, <1>9, <1>10, <1>11, <1>12, <1>13, <1>14 DEF WatchInv

(* A response file is read.                                                *)
LEMMA ReadFileKeeps ==
    ASSUME WatchInv, NEW t \in Targets, ReadFile(t)
    PROVE  WatchInv'
<1>1. /\ UNCHANGED <<world, disk, phase, memory, out, crashes, readers>>
      /\ reads' = [reads EXCEPT ![t].step = "raw", ![t].raw = result[t]]
  BY DEF ReadFile
<1>2. reads[t] \in Read /\ result[t] \in Contents
  BY DEF WatchInv, TypeOK
<1>3. [reads[t] EXCEPT !.step = "raw", !.raw = result[t]] \in Read
  BY <1>2 DEF Read
<1>4. /\ reads' \in [Targets -> Read]
      /\ \A u \in Targets : reads'[u].step = "read" => reads'[u] = reads[u]
  BY <1>1, <1>2, <1>3 DEF WatchInv, TypeOK, Read
<1>5. TypeOK'
  BY <1>1, <1>4 DEF world, disk, readers, WatchInv, TypeOK
<1>6. Numbered' /\ RecordsOK' /\ AllAccounted' /\ Incidents' /\ UnbrokenNow'
  BY <1>1, DirectoryKept
<1>7. \A x \in Consumers : ConsumerOK(x)'
  BY <1>1, ReadersKept DEF disk
<1>8. SnapshotsOK' /\ PinnedResults'
  BY <1>1, <1>4 DEF world, disk, WatchInv, SnapshotsOK, PinnedResults
<1>9. QED
  BY <1>5, <1>6, <1>7, <1>8 DEF WatchInv

(* A target is read: the first valid response is pinned here, if it is not *)
(* yet, and the snapshot shows it with the receipt.                        *)
LEMMA CollectKeeps ==
    ASSUME WatchInv, NEW t \in Targets, Collect(t)
    PROVE  WatchInv'
<1> DEFINE raw == reads[t].raw
           readable == "file" \notin fault[t]
           first == IF readable THEN Pinned(t, raw) ELSE publication[t]
           snap == [result |-> IF readable THEN raw ELSE None,
                    publication |-> IF readable /\ first # None
                                      THEN [first |-> first, current |-> raw] ELSE None,
                    fault |-> fault[t],
                    ui |-> IF "transport" \in fault[t] THEN None ELSE ui[t]]
           read == [step |-> "read", raw |-> None, snapshot |-> snap]
<1>1. /\ UNCHANGED <<result, ui, fault, late, changes, disk, phase, memory, out, crashes, readers>>
      /\ publication' = [publication EXCEPT ![t] = first]
      /\ reads' = [reads EXCEPT ![t] = read]
  BY DEF Collect
<1>2. /\ raw \in Contents /\ publication[t] \in Valid \cup {None} /\ ui[t] \in UI
      /\ fault[t] \in SUBSET Faults
  BY DEF WatchInv, TypeOK, Read
<1>3. /\ first \in Valid \cup {None}
      /\ publication[t] # None => first = publication[t]
      /\ readable /\ raw \in Valid => first # None
  BY <1>2, SignalsAssumption DEF Pinned
<1>4. SnapshotOK(snap, first)
  <2>1. readable /\ first # None => [first |-> first, current |-> raw] \in Receipt
    BY <1>2, <1>3 DEF Receipt
  <2>2. None \in Contents
    BY DEF Contents
  <2>3. snap \in Snapshot
    BY <1>2, <2>1, <2>2 DEF Snapshot
  <2>4. snap.publication # None =>
            snap.publication.first = first /\ snap.publication.current = snap.result
    OBVIOUS
  <2>5. snap.result \in Valid => snap.publication # None
    <3>1. SUFFICES ASSUME snap.result \in Valid PROVE snap.publication # None
      OBVIOUS
    <3>2. readable /\ raw \in Valid
      BY <3>1, SignalsAssumption
    <3>3. first # None
      BY <1>3, <3>2
    <3>4. [first |-> first, current |-> raw] \in Receipt
      BY <2>1, <3>2, <3>3
    <3>5. QED
      BY <3>2, <3>3, <3>4, NoneAssumption
  <2>6. QED
    BY <2>3, <2>4, <2>5 DEF SnapshotOK
<1> HIDE DEF first, snap
<1>5. read \in Read /\ read.step = "read" /\ read.snapshot = snap
  BY <1>4 DEF SnapshotOK, Read, Contents
<1> HIDE DEF read
<1>6. /\ publication' \in [Targets -> Valid \cup {None}] /\ publication'[t] = first
      /\ \A u \in Targets : publication[u] # None => publication'[u] = publication[u]
  BY <1>1, <1>3 DEF WatchInv, TypeOK
<1>7. /\ reads' \in [Targets -> Read] /\ reads'[t] = read
      /\ \A u \in Targets \ {t} : reads'[u] = reads[u]
  BY <1>1, <1>5 DEF WatchInv, TypeOK
<1>8. TypeOK'
  BY <1>1, <1>6, <1>7 DEF disk, readers, WatchInv, TypeOK
<1>9. Numbered' /\ RecordsOK' /\ AllAccounted' /\ Incidents' /\ UnbrokenNow'
  BY <1>1, DirectoryKept
<1>10. \A x \in Consumers : ConsumerOK(x)'
  BY <1>1, ReadersKept DEF disk
<1>11. /\ PinnedResults'
       /\ out # None => SnapshotOK(out.snapshot, publication'[out.target])
       /\ \A u \in Targets : reads[u].step = "read" =>
                                  SnapshotOK(reads[u].snapshot, publication'[u])
  BY <1>1, <1>6, PinnedOnce DEF disk
<1>12. SnapshotsOK'
  BY <1>1, <1>4, <1>5, <1>6, <1>7, <1>11 DEF SnapshotsOK
<1>13. QED
  BY <1>8, <1>9, <1>10, <1>11, <1>12 DEF WatchInv

(* A read is taken up: its record is replaced and its events are queued.   *)
LEMMA ProcessKeeps ==
    ASSUME WatchInv, NEW t \in Targets, Process(t)
    PROVE  WatchInv'
<1> DEFINE snap == reads[t].snapshot
           old == memory.targets[t]
           id == Fresh
           seen == Observed(snap, old, late, id)
           queued == {<<seen.kinds[i], snap>> : i \in DOMAIN seen.kinds}
<1>1. /\ UNCHANGED <<world, disk, phase, crashes, readers>>
      /\ phase = "sweep" /\ out = None /\ reads[t].step = "read"
      /\ memory' = [memory EXCEPT !.targets[t] = seen.new]
      /\ out' = [target |-> t, snapshot |-> snap, queue |-> seen.kinds, written |-> FALSE]
      /\ reads' = [reads EXCEPT ![t] = [Unread EXCEPT !.step = "processed"]]
  BY DEF Process
<1>2. memory \in State /\ old \in Record /\ late \in BOOLEAN
  BY <1>1 DEF WatchInv, TypeOK, State
<1>3. SnapshotOK(snap, publication[t]) /\ snap \in Snapshot
  BY <1>1 DEF WatchInv, SnapshotsOK, SnapshotOK
<1>4. id \in Nat /\ \A n \in DOMAIN events : events[n].issue # id
  <2>1. TypeOK /\ Numbered /\ phase = "sweep"
    BY <1>1 DEF WatchInv
  <2>2. Fresh \in Nat /\ \A n \in DOMAIN events : events[n].issue # Fresh
    BY <2>1, FreshIssue
  <2>3. QED
    BY <2>2
<1>5. RecordOK(old) /\ Accounted(old, Told(t))
  <2>1. ToTell(t) = {}
    BY <1>1 DEF ToTell
  <2>2. Accounted(old, Told(t) \cup ToTell(t))
    BY <1>1 DEF WatchInv, AllAccounted
  <2>3. Told(t) \cup ToTell(t) = Told(t)
    BY <2>1
  <2>4. QED
    BY <1>1, <2>2, <2>3 DEF WatchInv, RecordsOK
<1> HIDE DEF snap, old, id, seen
<1>6. /\ RecordOK(seen.new) /\ Accounted(seen.new, Told(t) \cup queued)
  BY <1>2, <1>3, <1>4, <1>5, ObservedIsAccounted DEF seen
<1>7. /\ seen.new \in Record
      /\ snap.ui = None => seen.new.attention_key = None
      /\ snap.ui # None => /\ seen.new.attention_key = snap.ui.screen.dialog
                           /\ seen.new.attention_issue = Incident(snap.ui, old, id)
  BY <1>2, <1>3, <1>4, ObservedDialog DEF seen
<1>8. /\ seen.kinds \in Seq(Kinds)
      /\ Has(seen.kinds, "attention") <=> /\ snap.ui # None
                                          /\ snap.ui.screen.dialog # old.attention_key
                                          /\ snap.ui.screen.dialog # None
      /\ Once(seen.kinds, "attention")
  BY <1>2, <1>3, <1>4, ObservedKinds DEF seen
<1>9. Has(seen.kinds, "result") => snap.result \in Valid /\ snap.result = publication[t]
  BY <1>2, <1>3, <1>4, ToldResultIsPinned DEF seen
<1> HIDE DEF seen, queued
<1>10. /\ memory' \in State /\ memory' # None /\ memory'.cursor = memory.cursor
       /\ memory'.targets[t] = seen.new
       /\ \A u \in Targets \ {t} : memory'.targets[u] = memory.targets[u]
  BY <1>1, <1>2, <1>7, NoneAssumption DEF State
<1>11. /\ out' \in Output /\ out' # None /\ out'.target = t /\ out'.snapshot = snap
       /\ out'.queue = seen.kinds /\ out'.written = FALSE
  <2>1. out' \in Output
    BY <1>1, <1>3, <1>8 DEF Output
  <2>2. QED
    BY <1>1, <2>1, NoneAssumption
<1>12. /\ reads' \in [Targets -> Read] /\ reads'[t].step # "read"
       /\ \A u \in Targets \ {t} : reads'[u] = reads[u]
  <2>1. [Unread EXCEPT !.step = "processed"] \in Read
    BY DEF Unread, Read, Contents
  <2>2. [Unread EXCEPT !.step = "processed"].step = "processed"
    BY DEF Unread
  <2>3. QED
    BY <1>1, <2>1, <2>2 DEF WatchInv, TypeOK
<1>13. TypeOK'
  BY <1>1, <1>10, <1>11, <1>12 DEF world, disk, readers, WatchInv, TypeOK
<1>14. Numbered'
  BY <1>1, <1>10, <1>11 DEF disk, WatchInv, Numbered, NumbersReserved
<1>15. SnapshotsOK'
  BY <1>1, <1>3, <1>11, <1>12 DEF world, WatchInv, SnapshotsOK
<1>16. RecordsOK'
  BY <1>1, <1>6, <1>10 DEF disk, WatchInv, RecordsOK
<1>17. AllAccounted'
  <2>1. \A u \in Targets : Told(u)' = Told(u)
    BY <1>1 DEF disk, Told
  <2>2. ToTell(t)' = queued
    BY <1>11 DEF ToTell, queued
  <2>3. \A u \in Targets \ {t} : ToTell(u) = {} /\ ToTell(u)' = {}
    BY <1>1, <1>11 DEF ToTell
  <2>4. QED
    BY <1>1, <1>6, <1>10, <2>1, <2>2, <2>3 DEF disk, WatchInv, AllAccounted
<1>18. PinnedResults'
  BY <1>1, <1>9, <1>11 DEF world, disk, WatchInv, PinnedResults
<1>19. OneEventPerIncident' /\ \A u \in Targets : Announced(state.targets[u], u)'
  BY <1>1 DEF disk, WatchInv, Incidents, OneEventPerIncident, Announced, Attention
<1>20. ASSUME NEW u \in Targets
       PROVE  \/ Announced(memory'.targets[u], u)
              \/ u = t /\ Has(seen.kinds, "attention")
  <2>1. Announced(memory.targets[u], u)
    BY <1>1 DEF WatchInv, Incidents
  <2>2. CASE u # t
    BY <1>10, <2>1, <2>2
  <2>3. CASE u = t /\ ~ Has(seen.kinds, "attention") /\ seen.new.attention_key # None
    <3>1. snap.ui # None /\ snap.ui.screen.dialog = old.attention_key
      BY <1>7, <1>8, <2>3
    <3>2. /\ seen.new.attention_key = old.attention_key
          /\ seen.new.attention_issue = old.attention_issue
      BY <1>7, <3>1 DEF Incident, NewDialog
    <3>3. Announced(old, t)
      BY <2>1, <2>3 DEF old
    <3>4. Announced(seen.new, t)
      BY <3>2, <3>3 DEF Announced
    <3>5. QED
      BY <1>10, <2>3, <3>4
  <2>4. CASE seen.new.attention_key = None /\ u = t
    <3>1. Announced(seen.new, t)
      BY <2>4 DEF Announced
    <3>2. QED
      BY <1>10, <2>4, <3>1
  <2>5. QED
    BY <2>2, <2>3, <2>4
<1>21. seen.new.attention_key # None => "transport" \notin snap.fault
  BY <1>3, <1>7 DEF SnapshotOK
<1>22. ASSUME Has(seen.kinds, "attention")
       PROVE  /\ snap.ui.screen.dialog = seen.new.attention_key
              /\ seen.new.attention_issue = id
  BY <1>7, <1>8, <1>22 DEF Incident, NewDialog
<1>23. Has(seen.kinds, "attention") =>
          \A n \in DOMAIN events : ~ Attention(n, t, seen.new.attention_issue)
  BY <1>4, <1>22 DEF Attention
<1>24. Incidents'
  <2>1. \A u \in Targets : Announced(memory.targets[u], u)' = Announced(memory'.targets[u], u)
    BY <1>1 DEF disk, Announced, Attention
  <2>2. \A n, i : Attention(n, t, i)' = Attention(n, t, i)
    BY <1>1 DEF disk, Attention
  <2>3. events' = events /\ phase' = phase
    BY <1>1 DEF disk
  <2>4. QED
    BY <1>8, <1>10, <1>11, <1>19, <1>20, <1>21, <1>22, <1>23, <2>1, <2>2, <2>3 DEF Incidents
<1>25. UnbrokenNow'
  <2>1. SUFFICES ASSUME crashes = 0, NEW u \in Targets
                 PROVE  Unbroken(memory'.targets[u], u)
    <3>1. \A u \in Targets : Unbroken(memory.targets[u], u)' = Unbroken(memory'.targets[u], u)
      BY <1>1 DEF disk, Unbroken, Attention
    <3>2. QED
      BY <1>1, <3>1 DEF UnbrokenNow
  <2>2. Unbroken(memory.targets[u], u)
    BY <1>1, <2>1 DEF WatchInv, UnbrokenNow
  <2>3. CASE u # t
    BY <1>10, <2>2, <2>3
  <2>4. CASE u = t /\ Has(seen.kinds, "attention")
    BY <1>10, <1>23, <2>4 DEF Unbroken
  <2>5. CASE u = t /\ ~ Has(seen.kinds, "attention") /\ seen.new.attention_key # None
    <3>1. snap.ui # None /\ snap.ui.screen.dialog = old.attention_key
      BY <1>7, <1>8, <2>5
    <3>2. /\ seen.new.attention_key = old.attention_key
          /\ seen.new.attention_issue = old.attention_issue
      BY <1>7, <3>1 DEF Incident, NewDialog
    <3>3. Unbroken(old, t)
      BY <2>2, <2>5 DEF old
    <3>4. Unbroken(seen.new, t)
      BY <3>2, <3>3 DEF Unbroken
    <3>5. QED
      BY <1>10, <2>5, <3>4
  <2>6. CASE u = t /\ seen.new.attention_key = None
    BY <1>10, <2>6 DEF Unbroken
  <2>7. QED
    BY <2>3, <2>4, <2>5, <2>6
<1>26. \A x \in Consumers : ConsumerOK(x)'
  BY <1>1, ReadersKept DEF disk
<1>27. QED
  BY <1>13, <1>14, <1>15, <1>16, <1>17, <1>18, <1>24, <1>25, <1>26 DEF WatchInv

(* Evidence gets the next number, which is free: the observer never dies   *)
(* of a file that is there.                                                *)
LEMMA PublishEvidenceKeeps ==
    ASSUME WatchInv, PublishEvidence
    PROVE  WatchInv'
<1> DEFINE number == memory.cursor + 1
<1>1. /\ phase = "sweep" /\ out # None /\ out.queue # <<>> /\ ~ out.written
      /\ UNCHANGED <<world, state, events, crashes, readers>>
  BY DEF PublishEvidence
<1>2. /\ memory \in State /\ memory.cursor \in Nat /\ number \in Nat \ {0}
      /\ out \in Output
  BY <1>1 DEF WatchInv, TypeOK, State
<1>3. \A n \in evidence : n < number
  BY <1>1, <1>2 DEF WatchInv, TypeOK, Numbered, NumbersReserved
<1>4. /\ evidence' = evidence \cup {number} /\ phase' = phase /\ reads' = reads
      /\ memory' = [memory EXCEPT !.cursor = number]
      /\ out' = [out EXCEPT !.written = TRUE]
  <2>1. number \notin evidence
    BY <1>2, <1>3
  <2>2. QED
    BY <2>1 DEF PublishEvidence
<1> HIDE DEF number
<1>5. /\ memory' \in State /\ memory' # None /\ memory'.cursor = number
      /\ memory'.targets = memory.targets
  BY <1>2, <1>4, NoneAssumption DEF State
<1>6. /\ out' \in Output /\ out' # None /\ out'.target = out.target
      /\ out'.snapshot = out.snapshot /\ out'.queue = out.queue /\ out'.written
  BY <1>2, <1>4, NoneAssumption DEF Output
<1>7. TypeOK'
  BY <1>1, <1>2, <1>4, <1>5, <1>6 DEF world, readers, WatchInv, TypeOK
<1>8. Numbered'
  <2>1. PICK b \in Nat : evidence \subseteq 1..b
    BY DEF WatchInv, Numbered
  <2>2. b + number \in Nat /\ evidence' \subseteq 1..(b + number)
    BY <1>2, <1>4, <2>1
  <2>3. \A n \in evidence' : n <= number
    BY <1>2, <1>3, <1>4, <2>1
  <2>4. number \notin DOMAIN events /\ DOMAIN events \subseteq evidence'
    BY <1>2, <1>3, <1>4, <2>1 DEF WatchInv, TypeOK
  <2>5. QED
    BY <1>1, <1>4, <1>5, <1>6, <2>2, <2>3, <2>4 DEF Numbered, NumbersReserved
<1>9. SnapshotsOK'
  BY <1>1, <1>4, <1>6 DEF world, WatchInv, SnapshotsOK
<1>10. RecordsOK'
  BY <1>1, <1>4, <1>5 DEF WatchInv, RecordsOK
<1>11. AllAccounted'
  <2>1. \A t \in Targets : Told(t)' = Told(t)
    BY <1>1 DEF Told
  <2>2. \A t \in Targets : ToTell(t)' = ToTell(t)
    BY <1>1, <1>6 DEF ToTell
  <2>3. QED
    BY <1>1, <1>4, <1>5, <2>1, <2>2 DEF WatchInv, AllAccounted
<1>12. PinnedResults'
  BY <1>1, <1>6 DEF world, WatchInv, PinnedResults
<1>13. Incidents'
  BY <1>1, <1>4, <1>5, <1>6
  DEF WatchInv, Incidents, OneEventPerIncident, Announced, Attention
<1>14. UnbrokenNow'
  BY <1>1, <1>4, <1>5 DEF WatchInv, UnbrokenNow, Unbroken, Attention
<1>15. \A x \in Consumers : ConsumerOK(x)'
  BY <1>1, ReadersKept
<1>16. QED
  BY <1>7, <1>8, <1>9, <1>10, <1>11, <1>12, <1>13, <1>14, <1>15 DEF WatchInv

(* state.json is saved when all its target's events are published.         *)
LEMMA SaveStateKeeps ==
    ASSUME WatchInv, SaveState
    PROVE  WatchInv'
<1>1. /\ phase = "sweep" /\ out # None /\ out.queue = <<>>
      /\ state' = memory /\ out' = None
      /\ UNCHANGED <<world, evidence, events, reads, crashes, readers>>
      /\ \/ phase' = "swept" /\ memory' = None
         \/ phase' = phase /\ memory' = memory
  BY DEF SaveState, Reported
<1>2. memory \in State
  BY <1>1 DEF WatchInv, TypeOK
<1>3. TypeOK'
  BY <1>1, <1>2 DEF world, readers, WatchInv, TypeOK
<1>4. Numbered'
  BY <1>1 DEF WatchInv, Numbered, NumbersReserved
<1>5. SnapshotsOK'
  BY <1>1 DEF world, WatchInv, SnapshotsOK
<1>6. RecordsOK'
  BY <1>1 DEF WatchInv, RecordsOK
<1>7. AllAccounted'
  <2>1. \A t \in Targets : Told(t)' = Told(t) /\ ToTell(t) = {} /\ ToTell(t)' = {}
    BY <1>1 DEF Told, ToTell
  <2>2. \A t \in Targets : Told(t) \cup {} = Told(t)
    OBVIOUS
  <2>3. QED
    BY <1>1, <2>1, <2>2 DEF WatchInv, AllAccounted
<1>8. PinnedResults'
  BY <1>1 DEF world, WatchInv, PinnedResults
<1>9. Incidents'
  <2>1. ~ Has(out.queue, "attention")
    BY <1>1 DEF Has
  <2>2. \A t \in Targets : Announced(memory.targets[t], t)
    BY <1>1, <2>1 DEF WatchInv, Incidents
  <2>3. \A t \in Targets : Announced(state.targets[t], t)'
    BY <1>1, <2>2 DEF Announced, Attention
  <2>4. phase' = "sweep" => \A t \in Targets : Announced(memory.targets[t], t)'
    BY <1>1, <2>2 DEF Announced, Attention
  <2>5. QED
    BY <1>1, <2>3, <2>4 DEF WatchInv, Incidents, OneEventPerIncident
<1>10. UnbrokenNow'
  BY <1>1 DEF WatchInv, UnbrokenNow, Unbroken, Attention
<1>11. \A x \in Consumers : ConsumerOK(x)'
  BY <1>1, ReadersKept
<1>12. QED
  BY <1>3, <1>4, <1>5, <1>6, <1>7, <1>8, <1>9, <1>10, <1>11 DEF WatchInv

(* What a queue has that is not the first is still there without it.       *)
LEMMA TailHas ==
    ASSUME NEW q \in Seq(Kinds), q # <<>>
    PROVE  /\ Head(q) \in Kinds /\ Tail(q) \in Seq(Kinds) /\ Has(q, Head(q))
           /\ \A i \in DOMAIN q : q[i] = Head(q) \/ \E j \in DOMAIN Tail(q) : Tail(q)[j] = q[i]
           /\ \A k : Has(Tail(q), k) => Has(q, k)
           /\ \A k : Has(q, k) /\ k # Head(q) => Has(Tail(q), k)
           /\ \A k : Once(q, k) => Once(Tail(q), k)
           /\ \A k : Once(q, k) /\ k = Head(q) => ~ Has(Tail(q), k)
<1>1. /\ Len(q) \in Nat \ {0} /\ DOMAIN q = 1..Len(q) /\ Head(q) = q[1] /\ Head(q) \in Kinds
      /\ Tail(q) \in Seq(Kinds) /\ Len(Tail(q)) = Len(q) - 1 /\ DOMAIN Tail(q) = 1..(Len(q) - 1)
      /\ 1 \in DOMAIN q
  OBVIOUS
<1>2. \A i \in DOMAIN Tail(q) : i + 1 \in DOMAIN q /\ i + 1 # 1 /\ Tail(q)[i] = q[i + 1]
  BY <1>1
<1>3. \A i \in DOMAIN q : i = 1 \/ (i - 1 \in DOMAIN Tail(q) /\ Tail(q)[i - 1] = q[i])
  BY <1>1
<1>4. \A i, j \in DOMAIN Tail(q) : i + 1 = j + 1 => i = j
  BY <1>1
<1>5. \A k : Has(Tail(q), k) => Has(q, k)
  BY <1>2 DEF Has
<1>6. \A k : Has(q, k) /\ k # Head(q) => Has(Tail(q), k)
  BY <1>1, <1>3 DEF Has
<1>7. \A k : Once(q, k) => Once(Tail(q), k)
  BY <1>2, <1>4 DEF Once
<1>8. \A k : Once(q, k) /\ k = Head(q) => ~ Has(Tail(q), k)
  BY <1>1, <1>2 DEF Once, Has
<1>9. \A i \in DOMAIN q : q[i] = Head(q) \/ \E j \in DOMAIN Tail(q) : Tail(q)[j] = q[i]
  BY <1>1, <1>3
<1>10. Has(q, Head(q))
  BY <1>1 DEF Has
<1>11. QED
  BY <1>1, <1>5, <1>6, <1>7, <1>8, <1>9, <1>10

(* The first queued event is published under the number its evidence has.  *)
LEMMA PublishEventKeeps ==
    ASSUME WatchInv, PublishEvent
    PROVE  WatchInv'
<1> DEFINE c == memory.cursor
           kind == Head(out.queue)
           u == out.target
           r == memory.targets[u]
           event == [target |-> u, kind |-> kind, shows |-> out.snapshot,
                      issue |-> IssueOf(kind, r)]
<1>1. /\ phase = "sweep" /\ out # None /\ out.written
      /\ events' = [n \in DOMAIN events \cup {c} |-> IF n # c THEN events[n] ELSE event]
      /\ out' = [out EXCEPT !.queue = Tail(@), !.written = FALSE]
      /\ UNCHANGED <<world, state, evidence, phase, memory, reads, crashes, readers>>
  BY DEF PublishEvent, IssueOf
<1>2. /\ out \in Output /\ out.queue \in Seq(Kinds) /\ out.queue # <<>> /\ u \in Targets
      /\ out.snapshot \in Snapshot
      /\ r \in Record
      /\ c \in evidence \ DOMAIN events /\ c \in Nat \ {0}
  BY <1>1 DEF WatchInv, TypeOK, State, Numbered, Output
<1>3. \A n \in DOMAIN events : n \in Nat \ {0} /\ n < c
  BY <1>1, <1>2 DEF WatchInv, TypeOK, Numbered, NumbersReserved
<1>4. IssueOf(kind, r) \in Nat /\ (kind = "attention" => IssueOf(kind, r) = r.attention_issue)
  BY <1>2 DEF IssueOf, Record
<1>5. /\ event \in Event /\ event.target = u /\ event.kind = kind /\ event.shows = out.snapshot
      /\ kind = "attention" => event.issue = r.attention_issue
  BY <1>2, <1>4, TailHas DEF Event
<1> HIDE DEF event
<1>6. /\ DOMAIN events' = DOMAIN events \cup {c} /\ events'[c] = event
      /\ \A n \in DOMAIN events : events'[n] = events[n]
  BY <1>1, <1>2
<1>7. /\ out' \in Output /\ out' # None /\ out'.target = u /\ out'.snapshot = out.snapshot
      /\ out'.queue = Tail(out.queue) /\ out'.written = FALSE
  <2>1. Tail(out.queue) \in Seq(Kinds)
    BY <1>2, TailHas
  <2>2. out' \in Output
    BY <1>1, <1>2, <2>1 DEF Output
  <2>3. QED
    BY <1>1, <1>2, <2>2, NoneAssumption DEF Output
<1> HIDE DEF kind
<1>8. /\ Has(out.queue, kind)
      /\ \A k : Has(out'.queue, k) => Has(out.queue, k)
      /\ \A k : Has(out.queue, k) /\ k # kind => Has(out'.queue, k)
      /\ \A k : Once(out.queue, k) => Once(out'.queue, k)
      /\ \A k : Once(out.queue, k) /\ k = kind => ~ Has(out'.queue, k)
  BY <1>2, <1>7, TailHas DEF kind
<1>9. TypeOK'
  <2>1. DOMAIN events' \subseteq evidence /\ \A n \in DOMAIN events' : events'[n] \in Event
    BY <1>2, <1>5, <1>6 DEF WatchInv, TypeOK
  <2>2. QED
    BY <1>1, <1>7, <2>1 DEF world, readers, WatchInv, TypeOK
<1>10. Numbered'
  BY <1>1, <1>2, <1>6, <1>7 DEF WatchInv, TypeOK, Numbered, NumbersReserved
<1>11. SnapshotsOK'
  BY <1>1, <1>7 DEF world, WatchInv, SnapshotsOK
<1>12. RecordsOK'
  BY <1>1 DEF WatchInv, RecordsOK
<1>13. AllAccounted'
  <2>1. \A t \in Targets : Told(t) \subseteq Told(t)'
    BY <1>6 DEF Told
  <2>2. \A t \in Targets \ {u} : ToTell(t)' = ToTell(t)
    BY <1>7 DEF ToTell
  <2>3. \A t \in Targets : t = u => <<kind, out.snapshot>> \in Told(t)'
    BY <1>5, <1>6 DEF Told
  <2>4. ASSUME NEW t \in Targets, t = u
        PROVE  \A e \in ToTell(t) : e = <<kind, out.snapshot>> \/ e \in ToTell(t)'
    <3>1. \A i \in DOMAIN out.queue :
              out.queue[i] = kind \/ \E j \in DOMAIN out'.queue : out'.queue[j] = out.queue[i]
      BY <1>2, <1>7, TailHas DEF kind
    <3>2. \A j \in DOMAIN out'.queue : <<out'.queue[j], out.snapshot>> \in ToTell(t)'
      BY <1>7, <2>4 DEF ToTell
    <3>3. \A e \in ToTell(t) : \E i \in DOMAIN out.queue : e = <<out.queue[i], out.snapshot>>
      BY <1>1, <2>4 DEF ToTell
    <3>4. QED
      BY <3>1, <3>2, <3>3
  <2>5. \A t \in Targets : Told(t) \cup ToTell(t) \subseteq Told(t)' \cup ToTell(t)'
    <3>1. SUFFICES ASSUME NEW t \in Targets
                   PROVE  Told(t) \cup ToTell(t) \subseteq Told(t)' \cup ToTell(t)'
      OBVIOUS
    <3>2. CASE t = u
      BY <2>1, <2>3, <2>4, <3>2
    <3>3. CASE t # u
      BY <2>1, <2>2, <3>3
    <3>4. QED
      BY <3>2, <3>3
  <2>6. ASSUME NEW t \in Targets, NEW told, NEW totell,
               Told(t) \subseteq told, Told(t) \cup ToTell(t) \subseteq told \cup totell
        PROVE  Accounted(state.targets[t], told) /\ Accounted(memory.targets[t], told \cup totell)
    <3>1. /\ Accounted(state.targets[t], Told(t))
          /\ Accounted(memory.targets[t], Told(t) \cup ToTell(t))
      BY <1>1 DEF WatchInv, AllAccounted
    <3>2. QED
      BY <2>6, <3>1, AccountedMore
  <2>7. QED
    BY <1>1, <2>1, <2>5, <2>6 DEF AllAccounted
<1>14. PinnedResults'
  BY <1>1, <1>5, <1>6, <1>7, <1>8 DEF world, WatchInv, PinnedResults
<1>15. \A n \in DOMAIN events : \A t, i : Attention(n, t, i)' <=> Attention(n, t, i)
  BY <1>6 DEF Attention
<1>16. \A n, t, i : n = c =>
          (Attention(n, t, i)' <=> t = u /\ kind = "attention" /\ i = r.attention_issue)
  <2>1. /\ events'[c].target = u /\ events'[c].kind = kind
        /\ kind = "attention" => events'[c].issue = r.attention_issue
    BY <1>5, <1>6
  <2>2. QED
    BY <2>1 DEF Attention
<1>17. /\ Once(out.queue, "attention")
       /\ r.attention_key # None => "transport" \notin out.snapshot.fault
       /\ Has(out.queue, "attention") =>
            /\ out.snapshot.ui.screen.dialog = r.attention_key
            /\ \A n \in DOMAIN events : ~ Attention(n, u, r.attention_issue)
  BY <1>1 DEF WatchInv, Incidents
<1>18. OneEventPerIncident'
  <2>1. OneEventPerIncident
    BY DEF WatchInv, Incidents
  <2>2. \A n \in DOMAIN events :
            ~ (/\ kind = "attention" /\ events[n].kind = "attention"
               /\ events[n].target = u /\ events[n].issue = event.issue)
    BY <1>5, <1>8, <1>17 DEF Attention
  <2>3. QED
    BY <1>5, <1>6, <2>1, <2>2 DEF OneEventPerIncident
<1>19. ASSUME NEW t \in Targets, NEW rec, Announced(rec, t)
       PROVE  Announced(rec, t)'
  BY <1>6, <1>15, <1>19 DEF Announced
<1>20. Incidents'
  <2>1. ASSUME NEW t \in Targets
        PROVE  \/ Announced(memory.targets[t], t)'
               \/ out'.target = t /\ Has(out'.queue, "attention")
    <3>1. CASE Announced(memory.targets[t], t)
      BY <1>1, <1>6, <1>15, <3>1 DEF Announced
    <3>2. CASE u = t /\ Has(out.queue, "attention") /\ kind # "attention"
      BY <1>7, <1>8, <3>2
    <3>3. CASE u = t /\ Has(out.queue, "attention") /\ kind = "attention"
      <4>1. /\ \A n : n = c => Attention(n, t, r.attention_issue)'
            /\ events'[c].shows.ui.screen.dialog = r.attention_key
        BY <1>1, <1>5, <1>6, <1>7, <1>16, <1>17, <3>3
      <4>2. QED
        BY <1>1, <1>6, <3>3, <4>1 DEF Announced
    <3>4. QED
      BY <1>1, <3>1, <3>2, <3>3 DEF WatchInv, Incidents
  <2>2. \A t \in Targets : Announced(state.targets[t], t)'
    BY <1>1, <1>6, <1>15 DEF WatchInv, Incidents, Announced
  <2>3. Has(out'.queue, "attention") =>
            \A n \in DOMAIN events' : ~ Attention(n, u, r.attention_issue)'
    <3>1. Has(out'.queue, "attention") => kind # "attention" /\ Has(out.queue, "attention")
      BY <1>8, <1>17
    <3>2. \A n \in DOMAIN events' : \A t, i : n # c => (Attention(n, t, i)' <=> Attention(n, t, i))
      BY <1>6, <1>15
    <3>3. QED
      BY <1>1, <1>6, <1>7, <1>16, <1>17, <3>1, <3>2
  <2>4. QED
    BY <1>1, <1>7, <1>8, <1>17, <1>18, <2>1, <2>2, <2>3 DEF Incidents
<1>21. UnbrokenNow'
  <2>1. SUFFICES ASSUME crashes = 0, NEW t \in Targets
                 PROVE  Unbroken(memory.targets[t], t)'
    <3>1. phase' = "sweep" /\ (crashes' = 0 => crashes = 0)
      BY <1>1
    <3>2. QED
      BY <3>1 DEF UnbrokenNow
  <2>2. SUFFICES ASSUME memory'.targets[t].attention_key # None,
                        NEW m \in DOMAIN events', NEW n \in DOMAIN events',
                        Attention(m, t, memory.targets[t].attention_issue)',
                        events'[n].target = t, n > m
                 PROVE  "transport" \notin events'[n].shows.fault
    BY DEF Unbroken
  <2>3. m \in DOMAIN events
    BY <1>2, <1>3, <1>6, <2>2
  <2>4. CASE n = c
    BY <1>1, <1>5, <1>6, <1>17, <2>2, <2>4
  <2>5. CASE n # c
    <3>1. Unbroken(memory.targets[t], t)
      BY <1>1, <2>1 DEF WatchInv, UnbrokenNow
    <3>2. n \in DOMAIN events /\ Attention(m, t, memory.targets[t].attention_issue)
      BY <1>1, <1>6, <1>15, <2>2, <2>3, <2>5
    <3>3. QED
      BY <1>1, <1>6, <2>2, <2>3, <3>1, <3>2 DEF Unbroken
  <2>6. QED
    BY <2>4, <2>5
<1>22. \A x \in Consumers : ConsumerOK(x)'
  <2>1. SUFFICES ASSUME NEW x \in Consumers PROVE ConsumerOK(x)'
    OBVIOUS
  <2>2. consumer' = consumer /\ cursor' = cursor /\ handled' = handled
    BY <1>1 DEF readers
  <2>3. ConsumerOK(x)
    BY DEF WatchInv
  <2>4. c > cursor[x] /\ c > consumer[x].upto
    BY <1>2, <1>3, <2>3 DEF ConsumerOK
  <2>5. Unseen(x) \subseteq Unseen(x)'
    BY <1>6, <2>2 DEF Unseen
  <2>6. ~ (c <= cursor[x]) /\ ~ (c <= consumer[x].upto)
    BY <1>2, <1>3, <2>3 DEF ConsumerOK
  <2>7. QED
    BY <1>6, <2>2, <2>3, <2>5, <2>6 DEF ConsumerOK
<1>23. QED
  BY <1>9, <1>10, <1>11, <1>12, <1>13, <1>14, <1>20, <1>21, <1>22 DEF WatchInv

-----------------------------------------------------------------------------
(* A step of one consumer: only what it does to its own view needs proof.  *)
LEMMA ConsumerStepKeeps ==
    ASSUME WatchInv, NEW x \in Consumers, UNCHANGED <<world, disk, process>>,
           consumer' \in [Consumers -> Consumer], cursor' \in [Consumers -> Nat],
           handled' \in [Consumers -> SUBSET (Nat \ {0})],
           \A y \in Consumers \ {x} : /\ consumer'[y] = consumer[y] /\ cursor'[y] = cursor[y]
                                      /\ handled'[y] = handled[y],
           ConsumerOK(x)'
    PROVE  WatchInv'
<1>1. TypeOK'
  BY DEF world, disk, process, WatchInv, TypeOK
<1>2. Numbered' /\ RecordsOK' /\ AllAccounted' /\ Incidents' /\ UnbrokenNow'
  BY DirectoryKept DEF process
<1>3. SnapshotsOK' /\ PinnedResults'
  BY DEF world, disk, process, WatchInv, SnapshotsOK, PinnedResults
<1>4. \A y \in Consumers : ConsumerOK(y)'
  <2>1. SUFFICES ASSUME NEW y \in Consumers, y # x PROVE ConsumerOK(y)'
    OBVIOUS
  <2>2. ConsumerOK(y) /\ events' = events
    BY DEF WatchInv, disk
  <2>3. consumer'[y] = consumer[y] /\ cursor'[y] = cursor[y] /\ handled'[y] = handled[y]
    BY <2>1
  <2>4. Unseen(y)' = Unseen(y)
    BY <2>2, <2>3 DEF Unseen
  <2>5. QED
    BY <2>2, <2>3, <2>4 DEF ConsumerOK
<1>5. QED
  BY <1>1, <1>2, <1>3, <1>4 DEF WatchInv

(* A wait begins.                                                          *)
LEMMA WaitKeeps ==
    ASSUME WatchInv, NEW x \in Consumers, Wait(x)
    PROVE  WatchInv'
<1>1. /\ UNCHANGED <<world, disk, process, cursor, handled>>
      /\ consumer[x] = AtRest
      /\ consumer' = [consumer EXCEPT ![x].looks = Looks, ![x].reason = "waiting"]
  BY DEF Wait
<1>2. /\ consumer \in [Consumers -> Consumer] /\ consumer[x] \in Consumer /\ ConsumerOK(x)
      /\ events' = events /\ cursor' = cursor /\ handled' = handled
  BY <1>1 DEF WatchInv, TypeOK, disk
<1>3. /\ Looks \in Seq({"lock", "files"}) /\ Looks = <<"lock", "files">>
      /\ Looks # <<>> /\ Looks # <<"files">>
  BY DEF Looks
<1> DEFINE new == [consumer[x] EXCEPT !.looks = Looks, !.reason = "waiting"]
<1>4. /\ new \in Consumer /\ new.looks = Looks /\ new.reason = "waiting"
      /\ new.upto = consumer[x].upto /\ new.page = consumer[x].page /\ new.due = consumer[x].due
  BY <1>2, <1>3 DEF Consumer
<1>5. consumer' = [consumer EXCEPT ![x] = new]
  BY <1>1, <1>2
<1> HIDE DEF new
<1>6. consumer' \in [Consumers -> Consumer] /\ consumer'[x] = new
  BY <1>2, <1>4, <1>5
<1>7. ConsumerOK(x)'
  BY <1>2, <1>3, <1>4, <1>6 DEF ConsumerOK
<1>8. QED
  BY <1>1, <1>2, <1>5, <1>6, <1>7, ConsumerStepKeeps DEF WatchInv, TypeOK

(* The lock is tried: what is there is due if nobody holds it.             *)
LEMMA LookLockKeeps ==
    ASSUME WatchInv, NEW x \in Consumers, LookLock(x)
    PROVE  WatchInv'
<1> DEFINE due == IF Locked THEN {} ELSE Unseen(x)
           active == Locked
           holds == ~ Locked
           rest == Tail(consumer[x].looks)
           new == [consumer[x] EXCEPT !.active = active, !.holds = holds, !.due = due,
                                       !.looks = rest]
<1>1. /\ UNCHANGED <<world, disk, process, cursor, handled>>
      /\ consumer[x].looks # <<>> /\ Head(consumer[x].looks) = "lock"
      /\ consumer' = [consumer EXCEPT ![x].active = active, ![x].holds = holds,
                                      ![x].due = due, ![x].looks = Tail(@)]
  BY DEF LookLock
<1>2. /\ consumer \in [Consumers -> Consumer] /\ consumer[x] \in Consumer /\ ConsumerOK(x)
      /\ events' = events /\ cursor' = cursor /\ handled' = handled
  BY <1>1 DEF WatchInv, TypeOK, disk
<1>3. consumer[x].looks = <<"lock", "files">>
  BY <1>1, <1>2 DEF ConsumerOK
<1>4. rest = <<"files">> /\ rest \in Seq({"lock", "files"}) /\ rest # <<>>
  BY <1>3
<1>5. /\ due \subseteq Unseen(x) /\ due \in SUBSET (Nat \ {0})
      /\ active \in BOOLEAN /\ holds \in BOOLEAN
  BY DEF Locked, Unseen, WatchInv, TypeOK
<1>6. consumer' = [consumer EXCEPT ![x] = new]
  BY <1>1, <1>2
<1> HIDE DEF due, active, holds, rest
<1>7. /\ new \in Consumer /\ new.looks = rest /\ new.reason = consumer[x].reason
      /\ new.upto = consumer[x].upto /\ new.page = consumer[x].page /\ new.due = due
  BY <1>2, <1>4, <1>5 DEF Consumer
<1> HIDE DEF new
<1>8. consumer' \in [Consumers -> Consumer] /\ consumer'[x] = new
  BY <1>2, <1>6, <1>7
<1>9. consumer[x].reason # "observer_stopped"
  BY <1>2, <1>3 DEF ConsumerOK
<1>10. Unseen(x)' = Unseen(x)
  BY <1>2 DEF Unseen
<1>11. ConsumerOK(x)'
  BY <1>2, <1>4, <1>5, <1>7, <1>8, <1>9, <1>10 DEF ConsumerOK
<1>12. /\ cursor' \in [Consumers -> Nat] /\ handled' \in [Consumers -> SUBSET (Nat \ {0})]
       /\ cursor' = cursor /\ handled' = handled
  BY <1>2 DEF WatchInv, TypeOK
<1>13. \A y \in Consumers \ {x} : consumer'[y] = consumer[y]
  BY <1>2, <1>6
<1>14. QED
  BY <1>1, <1>8, <1>11, <1>12, <1>13, ConsumerStepKeeps

(* The lock is let go.                                                     *)
LEMMA LetGoKeeps ==
    ASSUME WatchInv, NEW x \in Consumers, LetGo(x)
    PROVE  WatchInv'
<1> DEFINE new == [consumer[x] EXCEPT !.holds = FALSE]
<1>1. /\ UNCHANGED <<world, disk, process, cursor, handled>>
      /\ consumer' = [consumer EXCEPT ![x].holds = FALSE]
  BY DEF LetGo
<1>2. /\ consumer \in [Consumers -> Consumer] /\ consumer[x] \in Consumer /\ ConsumerOK(x)
      /\ events' = events /\ cursor' = cursor /\ handled' = handled
  BY <1>1 DEF WatchInv, TypeOK, disk
<1>3. consumer' = [consumer EXCEPT ![x] = new]
  BY <1>1, <1>2
<1>4. /\ new \in Consumer /\ new.looks = consumer[x].looks /\ new.reason = consumer[x].reason
      /\ new.upto = consumer[x].upto /\ new.page = consumer[x].page /\ new.due = consumer[x].due
  BY <1>2 DEF Consumer
<1> HIDE DEF new
<1>5. consumer' \in [Consumers -> Consumer] /\ consumer'[x] = new
  BY <1>2, <1>3, <1>4
<1>6. Unseen(x)' = Unseen(x)
  BY <1>2 DEF Unseen
<1>7. ConsumerOK(x)'
  BY <1>2, <1>4, <1>5, <1>6 DEF ConsumerOK
<1>8. QED
  BY <1>1, <1>2, <1>3, <1>5, <1>7, ConsumerStepKeeps DEF WatchInv, TypeOK

(* The files are listed: a page has all that is due, or there is none.     *)
LEMMA LookFilesKeeps ==
    ASSUME WatchInv, NEW x \in Consumers, LookFiles(x)
    PROVE  WatchInv'
<1> DEFINE page == Page(x)
           upto == PageEnd(x)
           rest == Tail(consumer[x].looks)
           new == [consumer[x] EXCEPT !.page = page, !.upto = upto, !.looks = rest]
<1>1. /\ UNCHANGED <<world, disk, process, cursor, handled>>
      /\ consumer[x].looks # <<>> /\ Head(consumer[x].looks) = "files"
      /\ consumer' = [consumer EXCEPT ![x].page = page, ![x].upto = upto, ![x].looks = Tail(@)]
  BY DEF LookFiles
<1>2. /\ consumer \in [Consumers -> Consumer] /\ consumer[x] \in Consumer /\ ConsumerOK(x)
      /\ events' = events /\ cursor' = cursor /\ handled' = handled
      /\ DOMAIN events \subseteq Nat /\ cursor[x] \in Nat
  BY <1>1 DEF WatchInv, TypeOK, disk
<1>3. consumer[x].looks = <<"files">>
  BY <1>1, <1>2 DEF ConsumerOK
<1>4. rest = <<>> /\ rest \in Seq({"lock", "files"})
  BY <1>3
<1>5. /\ upto \in {cursor[x]} \cup DOMAIN events /\ page \in SUBSET (Nat \ {0})
      /\ \A n \in DOMAIN events : n > cursor[x] /\ n <= upto => n \in page
      /\ page = {} => Unseen(x) = {}
  BY PageIsPrefix DEF WatchInv
<1>6. consumer' = [consumer EXCEPT ![x] = new]
  BY <1>1, <1>2
<1> HIDE DEF page, upto, rest
<1>7. upto \in {0} \cup DOMAIN events /\ upto \in Nat
  BY <1>2, <1>5 DEF ConsumerOK
<1>8. /\ new \in Consumer /\ new.looks = rest /\ new.reason = consumer[x].reason
      /\ new.upto = upto /\ new.page = page /\ new.due = consumer[x].due
  BY <1>2, <1>4, <1>5, <1>7 DEF Consumer
<1> HIDE DEF new
<1>9. consumer' \in [Consumers -> Consumer] /\ consumer'[x] = new
  BY <1>2, <1>6, <1>8
<1>10. consumer[x].reason # "observer_stopped" /\ consumer[x].due \subseteq Unseen(x)
  BY <1>2, <1>3 DEF ConsumerOK
<1>11. Unseen(x)' = Unseen(x)
  BY <1>2 DEF Unseen
<1>12. <<>> # <<"files">>
  OBVIOUS
<1>13. ConsumerOK(x)'
  BY <1>2, <1>4, <1>5, <1>7, <1>8, <1>9, <1>10, <1>11, <1>12 DEF ConsumerOK
<1>14. QED
  BY <1>1, <1>2, <1>6, <1>9, <1>13, ConsumerStepKeeps DEF WatchInv, TypeOK

(* The caller is told why, or the wait goes on.                            *)
LEMMA TellKeeps ==
    ASSUME WatchInv, NEW x \in Consumers, Tell(x)
    PROVE  WatchInv'
<1>1. /\ UNCHANGED <<world, disk, process, cursor, handled>>
      /\ consumer[x].looks = <<>>
  BY DEF Tell
<1>2. /\ consumer \in [Consumers -> Consumer] /\ consumer[x] \in Consumer /\ ConsumerOK(x)
      /\ events' = events /\ cursor' = cursor /\ handled' = handled
      /\ DOMAIN events \subseteq Nat \ {0}
  BY <1>1 DEF WatchInv, TypeOK, disk
<1>3. CASE \E reason \in {"events", "observer_stopped", "timeout"} :
               /\ reason = "observer_stopped" => consumer[x].page = {}
               /\ consumer' = [consumer EXCEPT ![x].reason = reason]
  <2>1. PICK reason \in {"events", "observer_stopped", "timeout"} :
               /\ reason = "observer_stopped" => consumer[x].page = {}
               /\ consumer' = [consumer EXCEPT ![x].reason = reason]
    BY <1>3
  <2> DEFINE new == [consumer[x] EXCEPT !.reason = reason]
  <2>2. consumer' = [consumer EXCEPT ![x] = new]
    BY <1>2, <2>1
  <2>3. /\ new \in Consumer /\ new.looks = consumer[x].looks /\ new.reason = reason
        /\ new.upto = consumer[x].upto /\ new.page = consumer[x].page /\ new.due = consumer[x].due
    BY <1>2 DEF Consumer
  <2> HIDE DEF new
  <2>4. consumer' \in [Consumers -> Consumer] /\ consumer'[x] = new
    BY <1>2, <2>2, <2>3
  <2>5. Unseen(x)' = Unseen(x)
    BY <1>2 DEF Unseen
  <2>6. ConsumerOK(x)'
    BY <1>1, <1>2, <2>1, <2>3, <2>4, <2>5 DEF ConsumerOK
  <2>7. QED
    BY <1>1, <1>2, <2>2, <2>4, <2>6, ConsumerStepKeeps DEF WatchInv, TypeOK
<1>4. CASE consumer' = [consumer EXCEPT ![x] = AtRest]
  <2>1. /\ AtRest \in Consumer /\ AtRest.looks = <<>> /\ AtRest.page = {} /\ AtRest.due = {}
        /\ AtRest.upto = 0 /\ AtRest.reason = "none"
    BY DEF AtRest, Consumer
  <2>2. consumer' \in [Consumers -> Consumer] /\ consumer'[x] = AtRest
    BY <1>2, <1>4, <2>1
  <2>3. ConsumerOK(x)'
    BY <1>2, <2>1, <2>2 DEF ConsumerOK
  <2>4. QED
    BY <1>1, <1>2, <1>4, <2>2, <2>3, ConsumerStepKeeps DEF WatchInv, TypeOK
<1>5. QED
  BY <1>3, <1>4 DEF Tell

(* The page is handled, and then its end may be saved.                     *)
LEMMA AdvanceKeeps ==
    ASSUME WatchInv, NEW x \in Consumers, Advance(x)
    PROVE  WatchInv'
<1>1. /\ UNCHANGED <<world, disk, process>>
      /\ handled' = [handled EXCEPT ![x] = @ \cup consumer[x].page]
      /\ cursor' \in {cursor, [cursor EXCEPT ![x] = consumer[x].upto]}
      /\ consumer' = [consumer EXCEPT ![x] = AtRest]
  BY DEF Advance
<1>2. /\ consumer \in [Consumers -> Consumer] /\ consumer[x] \in Consumer /\ ConsumerOK(x)
      /\ cursor \in [Consumers -> Nat] /\ handled \in [Consumers -> SUBSET (Nat \ {0})]
      /\ events' = events /\ DOMAIN events \subseteq Nat \ {0}
  BY <1>1 DEF WatchInv, TypeOK, disk
<1>3. /\ consumer[x].page \in SUBSET (Nat \ {0}) /\ consumer[x].upto \in Nat
      /\ cursor[x] \in Nat /\ handled[x] \in SUBSET (Nat \ {0})
  BY <1>2 DEF Consumer
<1>4. /\ AtRest \in Consumer /\ AtRest.looks = <<>> /\ AtRest.page = {} /\ AtRest.due = {}
      /\ AtRest.upto = 0 /\ AtRest.reason = "none"
  BY DEF AtRest, Consumer
<1>5. /\ consumer' \in [Consumers -> Consumer] /\ cursor' \in [Consumers -> Nat]
      /\ handled' \in [Consumers -> SUBSET (Nat \ {0})]
      /\ consumer'[x] = AtRest /\ handled'[x] = handled[x] \cup consumer[x].page
      /\ cursor'[x] = cursor[x] \/ cursor'[x] = consumer[x].upto
  BY <1>1, <1>2, <1>3, <1>4
<1>6. \A y \in Consumers \ {x} : /\ consumer'[y] = consumer[y] /\ cursor'[y] = cursor[y]
                                 /\ handled'[y] = handled[y]
  BY <1>1, <1>2
<1>7. cursor'[x] \in {0} \cup DOMAIN events
  BY <1>2, <1>5 DEF ConsumerOK
<1>8. ASSUME NEW n \in DOMAIN events, n <= cursor'[x] PROVE n \in handled'[x]
  <2>1. n \in Nat /\ (n <= cursor[x] \/ n > cursor[x])
    BY <1>2, <1>3
  <2>2. CASE n <= cursor[x]
    BY <1>2, <1>5, <2>2 DEF ConsumerOK
  <2>3. CASE n > cursor[x]
    <3>1. n <= consumer[x].upto
      BY <1>3, <1>5, <1>8, <2>1, <2>3
    <3>2. QED
      BY <1>2, <1>5, <2>3, <3>1 DEF ConsumerOK
  <2>4. QED
    BY <2>1, <2>2, <2>3
<1>9. \A n \in DOMAIN events : ~ (n <= 0)
  BY <1>2
<1>10. ConsumerOK(x)'
  BY <1>2, <1>4, <1>5, <1>7, <1>8, <1>9 DEF ConsumerOK
<1>11. QED
  BY <1>1, <1>5, <1>6, <1>10, ConsumerStepKeeps

-----------------------------------------------------------------------------
(* Nothing is published when a watch is armed.                             *)
LEMMA ArmedOK ==
    ASSUME Init
    PROVE  WatchInv
<1>1. /\ publication = [t \in Targets |-> None] /\ result = [t \in Targets |-> None]
      /\ ui \in [Targets -> UI] /\ fault = [t \in Targets |-> {}]
      /\ late = FALSE /\ changes = 0 /\ crashes = 0
      /\ state = [cursor |-> 0, targets |-> [t \in Targets |-> NewRecord]]
      /\ evidence = {} /\ events = <<>> /\ phase = "off" /\ memory = None /\ out = None
      /\ reads = [t \in Targets |-> Unread]
      /\ consumer = [x \in Consumers |-> AtRest]
      /\ cursor = [x \in Consumers |-> 0] /\ handled = [x \in Consumers |-> {}]
  BY DEF Init
<1>2. DOMAIN events = {}
  BY <1>1
<1>3. Unread \in Read /\ Unread.step = "todo" /\ None \in Contents
  BY DEF Unread, Read, Contents
<1>4. /\ AtRest \in Consumer /\ AtRest.looks = <<>> /\ AtRest.page = {} /\ AtRest.due = {}
      /\ AtRest.upto = 0 /\ AtRest.reason = "none"
  BY DEF AtRest, Consumer
<1>5. /\ state \in State /\ \A t \in Targets : state.targets[t] = NewRecord
  BY <1>1, NewRecordOK DEF State
<1>6. TypeOK
  <2>1. changes \in 0..MaxChanges /\ crashes \in 0..MaxCrashes
    BY <1>1, WatchAssumption
  <2>2. /\ result \in [Targets -> Contents] /\ publication \in [Targets -> Valid \cup {None}]
        /\ fault \in [Targets -> SUBSET Faults] /\ reads \in [Targets -> Read]
    BY <1>1, <1>3
  <2>3. /\ consumer \in [Consumers -> Consumer] /\ cursor \in [Consumers -> Nat]
        /\ handled \in [Consumers -> SUBSET (Nat \ {0})]
    BY <1>1, <1>4
  <2>4. QED
    BY <1>1, <1>2, <1>5, <2>1, <2>2, <2>3 DEF TypeOK
<1>7. Numbered
  <2>1. 0 \in Nat /\ evidence \subseteq 1..0
    BY <1>1
  <2>2. QED
    BY <1>1, <1>2, <2>1 DEF Numbered, NumbersReserved
<1>8. SnapshotsOK
  BY <1>1, <1>3 DEF SnapshotsOK
<1>9. RecordsOK
  BY <1>1, <1>5, NewRecordOK DEF RecordsOK
<1>10. AllAccounted
  BY <1>1, <1>5, NewRecordOK DEF AllAccounted
<1>11. PinnedResults
  BY <1>1, <1>2 DEF PinnedResults
<1>12. NewRecord.attention_key = None
  BY DEF NewRecord
<1>13. Incidents
  BY <1>1, <1>2, <1>5, <1>12 DEF Incidents, OneEventPerIncident, Announced
<1>14. UnbrokenNow
  BY <1>1, <1>2 DEF UnbrokenNow, Unbroken
<1>15. \A x \in Consumers : ConsumerOK(x)
  BY <1>1, <1>2, <1>4 DEF ConsumerOK
<1>16. QED
  BY <1>6, <1>7, <1>8, <1>9, <1>10, <1>11, <1>13, <1>14, <1>15 DEF WatchInv

(* A stutter.                                                              *)
LEMMA WatchStutterKeeps ==
    ASSUME WatchInv, UNCHANGED vars
    PROVE  WatchInv'
<1>1. UNCHANGED <<world, disk, process, readers>>
  BY DEF vars
<1>2. TypeOK'
  BY <1>1 DEF world, disk, process, readers, WatchInv, TypeOK
<1>3. Numbered' /\ RecordsOK' /\ AllAccounted' /\ Incidents' /\ UnbrokenNow'
  BY <1>1, DirectoryKept DEF process
<1>4. SnapshotsOK' /\ PinnedResults'
  BY <1>1 DEF world, disk, process, WatchInv, SnapshotsOK, PinnedResults
<1>5. \A x \in Consumers : ConsumerOK(x)'
  BY <1>1, ReadersKept DEF disk
<1>6. QED
  BY <1>2, <1>3, <1>4, <1>5 DEF WatchInv

(* Every step keeps the invariant.                                         *)
LEMMA WatchStepKeeps ==
    ASSUME WatchInv, [Next]_vars
    PROVE  WatchInv'
<1>1. ASSUME NEW t \in Targets,
             Respond(t) \/ Redraw(t) \/ Break(t) \/ PinnedElsewhere(t)
                \/ ReadFile(t) \/ Collect(t) \/ Process(t)
      PROVE  WatchInv'
  BY <1>1, WorldKeeps, PinnedElsewhereKeeps, ReadFileKeeps, CollectKeeps, ProcessKeeps
<1>2. CASE DeadlinePasses
  BY <1>2, WorldKeeps
<1>3. CASE Tick \/ Start \/ BeginSweep \/ Stop \/ Crash
  BY <1>3, TickKeeps, StartKeeps, BeginSweepKeeps, StopKeeps, CrashKeeps
<1>4. CASE PublishEvidence \/ PublishEvent \/ SaveState
  BY <1>4, PublishEvidenceKeeps, PublishEventKeeps, SaveStateKeeps
<1>5. ASSUME NEW x \in Consumers, Consume(x) PROVE WatchInv'
  BY <1>5, WaitKeeps, LookLockKeeps, LetGoKeeps, LookFilesKeeps, TellKeeps, AdvanceKeeps DEF Consume
<1>6. CASE UNCHANGED vars
  BY <1>6, WatchStutterKeeps
<1>7. QED
  BY <1>1, <1>2, <1>3, <1>4, <1>5, <1>6 DEF Next, Environment, Observe

-----------------------------------------------------------------------------
(* The invariant holds in every run, and with it the types.                *)
THEOREM WatchCorrect == Spec => []WatchInv
<1>1. Init => WatchInv
  BY ArmedOK
<1>2. WatchInv /\ [Next]_vars => WatchInv'
  BY WatchStepKeeps
<1>3. QED
  BY <1>1, <1>2, PTL DEF Spec

(* The types of the observer's files, its memory and its consumers.        *)
THEOREM WatchTypes == Spec => []TypeOK
<1>1. WatchInv => TypeOK
  BY DEF WatchInv
<1>2. QED
  BY <1>1, WatchCorrect, PTL

(* The observer never meets a file that is there already: the number it    *)
(* goes on from is past all that were used, whatever crashed (sweep).      *)
THEOREM NumbersAreFree == Spec => []NumbersReserved
<1>1. WatchInv => NumbersReserved
  BY DEF WatchInv, Numbered
<1>2. QED
  BY <1>1, WatchCorrect, PTL

(* All watches of a round report the same bytes as its result              *)
(* (track_publication, signals).                                           *)
THEOREM OneResultIsReported == Spec => []ResultIsPinned
<1>1. WatchInv => ResultIsPinned
  BY DEF WatchInv, PinnedResults, ResultIsPinned
<1>2. QED
  BY <1>1, WatchCorrect, PTL

(* A consumer that saves its cursor after handling skips nothing           *)
(* (read_events), with any page size and however events are published.     *)
THEOREM CursorsSkipNothing == Spec => []NothingSkipped
<1>1. WatchInv => NothingSkipped
  BY DEF WatchInv, ConsumerOK, NothingSkipped
<1>2. QED
  BY <1>1, WatchCorrect, PTL

(* Told that the observer stopped, a consumer has seen all it left         *)
(* (wait_events: the lock is tried before the files are listed).           *)
THEOREM StoppedMeansDrained == Spec => []StoppedIsDrained
<1>1. WatchInv => StoppedIsDrained
  BY DEF WatchInv, ConsumerOK, StoppedIsDrained
<1>2. QED
  BY <1>1, WatchCorrect, PTL

(* state.json knows of nothing that no event has told (sweep, signals).    *)
THEOREM SavedMeansReported == Spec => []SavedIsReported
<1>1. WatchInv => SavedIsReported
  <2>1. SUFFICES ASSUME WatchInv, NEW t \in Targets
                 PROVE  LET r == state.targets[t] IN
                        /\ r.result_key[1] # None =>
                               Reports(t, {"result", "result_changed", "invalid_result"},
                                       LAMBDA s : <<s.result, s.publication>> = r.result_key)
                        /\ r.publication_changed =>
                               Reports(t, {"result_changed"}, LAMBDA s : s.publication = r.result_key[2])
                        /\ r.error # {} => Reports(t, {"observation_error"}, LAMBDA s : s.fault = r.error)
                        /\ r.state # None => Reports(t, {"state_changed"}, LAMBDA s : s.ui.state = r.state)
                        /\ r.deadline_reported => Reports(t, {"deadline"}, LAMBDA s : TRUE)
    BY DEF SavedIsReported
  <2> DEFINE r == state.targets[t]
  <2>2. Accounted(r, Told(t))
    BY <2>1 DEF WatchInv, AllAccounted
  <2>3. \A e \in Told(t) : \E n \in DOMAIN events :
            events[n].target = t /\ e[1] = events[n].kind /\ e[2] = events[n].shows
    BY DEF Told
  <2> HIDE DEF r
  <2>4. r.result_key[1] # None =>
            \E n \in DOMAIN events : /\ events[n].target = t
                                     /\ events[n].kind \in {"result", "result_changed", "invalid_result"}
                                     /\ <<events[n].shows.result, events[n].shows.publication>> = r.result_key
    BY <2>2, <2>3 DEF Accounted
  <2>5. r.publication_changed =>
            \E n \in DOMAIN events : /\ events[n].target = t /\ events[n].kind = "result_changed"
                                     /\ events[n].shows.publication = r.result_key[2]
    BY <2>2, <2>3 DEF Accounted
  <2>6. r.error # {} =>
            \E n \in DOMAIN events : /\ events[n].target = t /\ events[n].kind = "observation_error"
                                     /\ events[n].shows.fault = r.error
    BY <2>2, <2>3 DEF Accounted
  <2>7. r.state # None =>
            \E n \in DOMAIN events : /\ events[n].target = t /\ events[n].kind = "state_changed"
                                     /\ events[n].shows.ui.state = r.state
    BY <2>2, <2>3 DEF Accounted
  <2>8. r.deadline_reported =>
            \E n \in DOMAIN events : events[n].target = t /\ events[n].kind = "deadline"
    BY <2>2, <2>3 DEF Accounted
  <2>9. QED
    BY <2>4, <2>5, <2>6, <2>7, <2>8 DEF Reports, r
<1>2. QED
  BY <1>1, WatchCorrect, PTL

(* A current incident has exactly one event, which shows its dialog        *)
(* (signals, controls.event_context).                                      *)
THEOREM IncidentsAreReported == Spec => []IncidentReported
<1>1. WatchInv => IncidentReported
  <2>1. SUFFICES ASSUME WatchInv, NEW t \in Targets, state.targets[t].attention_key # None
                 PROVE  LET r == state.targets[t]
                            of == {n \in DOMAIN events : events[n].target = t
                                       /\ events[n].kind = "attention"
                                       /\ events[n].issue = r.attention_issue}
                        IN  /\ Cardinality(of) = 1
                            /\ \A n \in of : events[n].shows.ui.screen.dialog = r.attention_key
    BY DEF IncidentReported
  <2> DEFINE r == state.targets[t]
             of == {n \in DOMAIN events : events[n].target = t /\ events[n].kind = "attention"
                                            /\ events[n].issue = r.attention_issue}
  <2>2. PICK n \in DOMAIN events : /\ Attention(n, t, r.attention_issue)
                                   /\ events[n].shows.ui.screen.dialog = r.attention_key
    BY <2>1 DEF WatchInv, Incidents, Announced
  <2>3. of = {n}
    BY <2>1, <2>2 DEF WatchInv, Incidents, OneEventPerIncident, Attention
  <2>4. Cardinality({n}) = 1
    BY FS_Singleton
  <2>5. Cardinality(of) = 1 /\ \A m \in of : events[m].shows.ui.screen.dialog = r.attention_key
    BY <2>2, <2>3, <2>4
  <2>6. QED
    BY <2>5
<1>2. QED
  BY <1>1, WatchCorrect, PTL

(* While the observer lived no blind read was reported after the event of  *)
(* a current incident (signals: a blind interval ends it).                 *)
THEOREM IncidentsAreUnbroken == Spec => []IncidentUnbroken
<1>1. WatchInv => IncidentUnbroken
  BY DEF WatchInv, UnbrokenNow, Unbroken, Attention, IncidentUnbroken
<1>2. QED
  BY <1>1, WatchCorrect, PTL
=============================================================================
