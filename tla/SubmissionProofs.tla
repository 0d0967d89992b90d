--------------------------- MODULE SubmissionProofs ---------------------------
(***************************************************************************)
(* The input of a round is sent at most once, for any number of            *)
(* controllers, jobs, rounds and attempts, whatever crashes, expires and   *)
(* is lost. The argument: the outcome "rejected" is only recorded of an    *)
(* attempt whose input has not arrived and cannot arrive any more, a new   *)
(* attempt of a round is only begun once all earlier ones are rejected,    *)
(* and SubmissionInv relates the head's status, which begin looks at, to   *)
(* the attempts of the active round. From it follows that the index        *)
(* implements SubmissionPromise.                                           *)
(***************************************************************************)
EXTENDS JobIndexProofs

(* Two revisions that a reader of the submission cannot tell apart.        *)
SameSubmission(s, t) ==
    s.attempts = t.attempts /\ s.round = t.round /\ s.submission = t.submission

(* A step that leaves attempts, rounds and statuses alone, and sends only  *)
(* what was to be sent, keeps the invariant.                               *)
LEMMA QuietStep ==
    ASSUME SubmissionInv, TypeOK',
           \A k \in Jobs : Registered(k) => Registered(k)' /\ SameSubmission(job[k], job'[k]),
           \A k \in Jobs : ~Registered(k) /\ Registered(k)' =>
               job'[k].attempts = <<>> /\ job'[k].submission = "prepared",
           \A c \in Controllers : duty'[c] # None => duty'[c] = duty[c],
           \A d \in delivered' : d \in delivered
               \/ \E c \in Controllers : duty[c] # None /\ d = duty[c]
    PROVE  SubmissionInv'
<1>1. ASSUME NEW k \in Jobs, Registered(k)'
      PROVE  /\ job'[k].submission =
                   IF job'[k].attempts # <<>> /\ Last(job'[k].attempts).round = job'[k].round
                     THEN Last(job'[k].attempts).status ELSE "prepared"
             /\ \A m, n \in DOMAIN job'[k].attempts :
                   m < n /\ job'[k].attempts[m].round = job'[k].attempts[n].round
                       => job'[k].attempts[m].status = "rejected"
             /\ RoundsOrdered(job'[k])
  <2>1. CASE Registered(k)
    BY <1>1, <2>1 DEF SubmissionInv, SubmissionAgrees, SameSubmission, RoundsOrdered
  <2>2. CASE ~Registered(k)
    BY <1>1, <2>2 DEF RoundsOrdered
  <2> QED
    BY <2>1, <2>2
<1>2. ASSUME NEW d, Backed(d)
      PROVE  Backed(d)'
  <2>1. d[1] \in Jobs
    BY <1>2 DEF Backed
  <2> QED
    BY <1>2, <2>1 DEF Backed, SameSubmission
<1>3. (\A d \in delivered : Backed(d))'
  BY <1>2 DEF SubmissionInv
<1>4. (\A c \in Controllers : duty[c] # None => Backed(duty[c]))'
  <2> SUFFICES ASSUME NEW c \in Controllers, duty'[c] # None
               PROVE  Backed(duty[c])'
    OBVIOUS
  <2>1. duty'[c] = duty[c] /\ Backed(duty[c])
    BY DEF SubmissionInv
  <2>2. PICK d : d = duty[c]
    OBVIOUS
  <2>3. Backed(d)'
    BY <1>2, <2>1, <2>2
  <2> QED
    BY <2>1, <2>2, <2>3 DEF Backed, Registered
<1>5. SubmissionAgrees'
  BY <1>1 DEF SubmissionAgrees
<1> QED
  BY <1>1, <1>3, <1>4, <1>5 DEF SubmissionInv, Backed

(* The case of QuietStep of an operation that commits a revision of one    *)
(* job with the same attempts, round and status, and sends nothing.        *)
LEMMA QuietCommit ==
    ASSUME SubmissionInv, TypeOK', NEW j \in Jobs, NEW s, Registered(j), Commit(j, s),
           job'[j] \in State, SameSubmission(job[j], s), UNCHANGED world
    PROVE  SubmissionInv'
<1>1. job'[j] = s /\ \A k \in Jobs \ {j} : job'[k] = job[k]
  BY DEF Commit, SubmissionInv, TypeOK
<1>2. s # None
  BY <1>1, NoneAssumption
<1> QED
  BY <1>1, <1>2, QuietStep DEF world, Registered, SameSubmission


(* begin: nothing was tried in this round, or the last try was rejected    *)
(* and so was every earlier one.                                           *)
LEMMA BeginKeeps ==
    ASSUME SubmissionInv, NEW c \in Controllers, NEW j \in Jobs, NEW replied \in BOOLEAN,
           Begin(c, j, replied)
    PROVE  SubmissionInv'
<1> DEFINE s == job[j]
           n == Len(s.attempts)
           a == [round |-> s.round, status |-> "uncertain"]
<1>1. TypeOK /\ TypeOK' /\ job'[j] \in State /\ s \in State /\ Registered(j)
  BY BeginType, RegisteredState DEF SubmissionInv, Begin, May, Holds
<1>2. /\ job'[j].attempts = Append(s.attempts, a)
      /\ job'[j].round = s.round
      /\ job'[j].submission = "uncertain"
      /\ \A k \in Jobs \ {j} : job'[k] = job[k]
  BY <1>1 DEF Begin, Commit, TypeOK, State
<1>3. s.attempts \in Seq(Attempt) /\ n \in Nat
  BY <1>1 DEF State
<1>4. /\ Len(job'[j].attempts) = n + 1 /\ job'[j].attempts[n + 1] = a
      /\ \A m \in 1..n : job'[j].attempts[m] = s.attempts[m]
      /\ DOMAIN job'[j].attempts = 1..n + 1
  BY <1>2, <1>3
<1>5. ASSUME NEW m \in 1..n, s.attempts[m].round = s.round
      PROVE  s.attempts[m].status = "rejected"
  <2>1. n \in DOMAIN s.attempts /\ s.attempts # <<>> /\ s.attempts[n] \in Attempt
    BY <1>3
  <2>2. s.attempts[n].round = s.round
    <3>1. s.attempts[m].round <= s.attempts[n].round /\ s.attempts[n].round <= s.round
      BY <1>1, <2>1 DEF SubmissionInv, RoundsOrdered
    <3>2. s.attempts[n].round \in Nat /\ s.round \in Nat
      BY <1>1, <2>1, BoundsAssumption, SMTT(30) DEF Attempt, State, Rounds
    <3> QED
      BY <1>5, <3>1, <3>2
  <2>3. s.submission = s.attempts[n].status
    BY <1>1, <2>1, <2>2 DEF SubmissionInv, SubmissionAgrees, Last
  <2>4. s.attempts[n].status = "rejected"
    BY <2>1, <2>3 DEF Begin, Sendable, Attempt, Statuses
  <2> QED
    BY <1>1, <1>3, <1>5, <2>2, <2>4 DEF SubmissionInv, SubmissionAgrees
<1>6. SubmissionAgrees'
  <2> SUFFICES ASSUME NEW k \in Jobs, Registered(k)'
               PROVE  /\ job'[k].submission =
                           IF job'[k].attempts # <<>> /\ Last(job'[k].attempts).round = job'[k].round
                             THEN Last(job'[k].attempts).status ELSE "prepared"
                      /\ \A l, m \in DOMAIN job'[k].attempts :
                           l < m /\ job'[k].attempts[l].round = job'[k].attempts[m].round
                               => job'[k].attempts[l].status = "rejected"
    BY DEF SubmissionAgrees
  <2>1. CASE k # j
    BY <1>2, <2>1 DEF SubmissionInv, SubmissionAgrees, Registered
  <2>2. CASE k = j
    <3>1. job'[j].attempts # <<>> /\ Last(job'[j].attempts) = a
      BY <1>3, <1>4 DEF Last
    <3>2. ASSUME NEW l \in 1..n + 1, NEW m \in 1..n + 1, l < m,
                 job'[j].attempts[l].round = job'[j].attempts[m].round
          PROVE  job'[j].attempts[l].status = "rejected"
      <4>1. CASE m = n + 1
        <5>1. l \in 1..n
          BY <1>3, <3>2, <4>1
        <5>2. s.attempts[l].round = s.round
          BY <1>4, <3>2, <4>1, <5>1
        <5> QED
          BY <1>4, <1>5, <5>1, <5>2
      <4>2. CASE m # n + 1
        <5>1. l \in 1..n /\ m \in 1..n
          BY <1>3, <3>2, <4>2
        <5>2. s.attempts[l].round = s.attempts[m].round
          BY <1>4, <3>2, <5>1
        <5>3. s.attempts[l].status = "rejected"
          BY <1>1, <1>3, <3>2, <5>1, <5>2 DEF SubmissionInv, SubmissionAgrees
        <5> QED
          BY <1>4, <5>1, <5>3
      <4> QED
        BY <4>1, <4>2
    <3>3. job'[j].submission = Last(job'[j].attempts).status
          /\ Last(job'[j].attempts).round = job'[j].round
      BY <1>2, <3>1
    <3> QED
      BY <1>4, <2>2, <3>1, <3>2, <3>3
  <2> QED
    BY <2>1, <2>2
<1>7. (\A k \in Jobs : Registered(k) => RoundsOrdered(job[k]))'
  <2> SUFFICES ASSUME NEW k \in Jobs, Registered(k)' PROVE RoundsOrdered(job'[k])
    OBVIOUS
  <2>1. CASE k # j
    BY <1>2, <2>1 DEF SubmissionInv, Registered
  <2>2. CASE k = j
    <3>1. \A m \in 1..n : s.attempts[m].round <= s.round
      BY <1>1, <1>3 DEF SubmissionInv, RoundsOrdered
    <3>2. \A m \in 1..n : \A l \in 1..m : s.attempts[l].round <= s.attempts[m].round
      BY <1>1, <1>3 DEF SubmissionInv, RoundsOrdered
    <3>3. s.round \in Nat
      BY <1>1, BoundsAssumption DEF State, Rounds
    <3> SUFFICES ASSUME NEW m \in 1..n + 1
                 PROVE  /\ job'[j].attempts[m].round <= s.round
                        /\ \A l \in 1..m :
                              job'[j].attempts[l].round <= job'[j].attempts[m].round
      BY <1>2, <1>4, <2>2 DEF RoundsOrdered
    <3>4. CASE m = n + 1
      <4>1. \A l \in 1..n : job'[j].attempts[l].round <= s.round
        BY <1>4, <3>1
      <4>2. job'[j].attempts[n + 1].round = s.round
        BY <1>4
      <4>3. s.round <= s.round
        BY <3>3
      <4>4. ASSUME NEW l \in 1..m
            PROVE  job'[j].attempts[l].round <= s.round
        <5>1. l \in 1..n \/ l = n + 1
          BY <1>3, <3>4
        <5> QED
          BY <4>1, <4>2, <4>3, <5>1
      <4> QED
        BY <3>4, <4>2, <4>3, <4>4
    <3>5. CASE m # n + 1
      <4>1. m \in 1..n /\ \A l \in 1..m : l \in 1..n
        BY <1>3, <3>5
      <4> QED
        BY <1>4, <3>1, <3>2, <4>1
    <3> QED
      BY <3>4, <3>5
  <2> QED
    BY <2>1, <2>2
<1>8. ASSUME NEW d, Backed(d)
      PROVE  Backed(d)'
  <2>1. d[1] \in Jobs
    BY <1>8 DEF Backed
  <2>2. CASE d[1] # j
    BY <1>2, <1>8, <2>1, <2>2 DEF Backed, Registered
  <2>3. CASE d[1] = j
    BY <1>1, <1>3, <1>4, <1>8, <2>3, NoneAssumption, SMTT(30) DEF Backed, Registered
  <2> QED
    BY <2>2, <2>3
<1>9. (\A d \in delivered : Backed(d))'
  BY <1>8 DEF Begin, SubmissionInv
<1>10. (\A e \in Controllers : duty[e] # None => Backed(duty[e]))'
  <2> SUFFICES ASSUME NEW e \in Controllers, duty'[e] # None
               PROVE  Backed(duty[e])'
    OBVIOUS
  <2>1. CASE duty'[e] = duty[e]
    <3>1. PICK d : d = duty[e]
      OBVIOUS
    <3>2. Backed(d)'
      BY <1>8, <2>1, <3>1 DEF SubmissionInv
    <3> QED
      BY <2>1, <3>1, <3>2 DEF Backed, Registered
  <2>2. CASE duty'[e] # duty[e]
    <3>1. duty'[e] = <<j, n + 1>>
      BY <2>2 DEF Begin, SubmissionInv, TypeOK
    <3> QED
      BY <1>1, <1>3, <1>4, <3>1, NoneAssumption, SMTT(30) DEF Backed, Registered
  <2> QED
    BY <2>1, <2>2
<1> QED
  BY <1>1, <1>6, <1>7, <1>9, <1>10 DEF SubmissionInv


(* receipt: only the last attempt's outcome changes, and to "rejected"     *)
(* only if its input can no longer arrive.                                 *)
LEMMA ReceiptKeeps ==
    ASSUME SubmissionInv, NEW c \in Controllers, NEW j \in Jobs, NEW status \in Statuses,
           NEW kind, Receipt(c, j, status, kind)
    PROVE  SubmissionInv'
<1> DEFINE s == job[j]
           n == Len(s.attempts)
           b == [s.attempts[n] EXCEPT !.status = status]
<1>1. TypeOK /\ TypeOK' /\ job'[j] \in State /\ s \in State /\ Registered(j)
  BY ReceiptType, RegisteredState DEF SubmissionInv, Receipt, May, Holds
<1>2. s.attempts \in Seq(Attempt) /\ n \in Nat \ {0} /\ s.attempts[n] \in Attempt
  BY <1>1 DEF State, Receipt, Settleable
<1>3. /\ job'[j].attempts = [s.attempts EXCEPT ![n] = b]
      /\ job'[j].round = s.round
      /\ job'[j].submission = status
      /\ \A k \in Jobs \ {j} : job'[k] = job[k]
  BY <1>1, <1>2 DEF Receipt, Commit, TypeOK, State
<1>4. /\ DOMAIN job'[j].attempts = 1..n /\ DOMAIN s.attempts = 1..n
      /\ Len(job'[j].attempts) = n /\ job'[j].attempts # <<>>
      /\ \A m \in 1..n : job'[j].attempts[m].round = s.attempts[m].round
      /\ \A m \in 1..n : m # n => job'[j].attempts[m] = s.attempts[m]
      /\ job'[j].attempts[n].status = status
  BY <1>2, <1>3 DEF Attempt
<1>5. s.attempts[n].round = s.round
  BY DEF Receipt, Settleable, Last
<1>6. SubmissionAgrees'
  <2> SUFFICES ASSUME NEW k \in Jobs, Registered(k)'
               PROVE  /\ job'[k].submission =
                           IF job'[k].attempts # <<>> /\ Last(job'[k].attempts).round = job'[k].round
                             THEN Last(job'[k].attempts).status ELSE "prepared"
                      /\ \A l, m \in DOMAIN job'[k].attempts :
                           l < m /\ job'[k].attempts[l].round = job'[k].attempts[m].round
                               => job'[k].attempts[l].status = "rejected"
    BY DEF SubmissionAgrees
  <2>1. CASE k # j
    BY <1>3, <2>1 DEF SubmissionInv, SubmissionAgrees, Registered
  <2>2. CASE k = j
    <3>1. Last(job'[j].attempts).round = job'[j].round
          /\ Last(job'[j].attempts).status = job'[j].submission
      BY <1>2, <1>3, <1>4, <1>5 DEF Last
    <3>2. ASSUME NEW l \in 1..n, NEW m \in 1..n, l < m,
                 job'[j].attempts[l].round = job'[j].attempts[m].round
          PROVE  job'[j].attempts[l].status = "rejected"
      <4>1. s.attempts[l].round = s.attempts[m].round
        BY <1>4, <3>2
      <4>2. s.attempts[l].status = "rejected"
        BY <1>1, <1>4, <3>2, <4>1 DEF SubmissionInv, SubmissionAgrees
      <4> QED
        BY <1>2, <1>4, <3>2, <4>2
    <3> QED
      BY <1>4, <2>2, <3>1, <3>2
  <2> QED
    BY <2>1, <2>2
<1>7. (\A k \in Jobs : Registered(k) => RoundsOrdered(job[k]))'
  <2> SUFFICES ASSUME NEW k \in Jobs, Registered(k)' PROVE RoundsOrdered(job'[k])
    OBVIOUS
  <2>1. CASE k # j
    BY <1>3, <2>1 DEF SubmissionInv, Registered
  <2>2. CASE k = j
    <3> SUFFICES ASSUME NEW m \in 1..n
                 PROVE  /\ job'[j].attempts[m].round <= s.round
                        /\ \A l \in 1..m :
                              job'[j].attempts[l].round <= job'[j].attempts[m].round
      BY <1>3, <1>4, <2>2 DEF RoundsOrdered
    <3>1. /\ s.attempts[m].round <= s.round
          /\ \A l \in 1..m : s.attempts[l].round <= s.attempts[m].round
      BY <1>1, <1>4 DEF SubmissionInv, RoundsOrdered
    <3>2. \A l \in 1..m : l \in 1..n
      BY <1>2
    <3> QED
      BY <1>4, <3>1, <3>2
  <2> QED
    BY <2>1, <2>2
<1>8. ASSUME NEW d, Backed(d), status = "rejected" => d # <<j, n>>
      PROVE  Backed(d)'
  <2>1. d[1] \in Jobs /\ d = <<d[1], d[2]>>
    BY <1>8 DEF Backed
  <2>2. CASE d[1] # j
    BY <1>3, <1>8, <2>1, <2>2 DEF Backed, Registered
  <2>3. CASE d[1] = j
    <3>1. d[2] \in 1..n /\ s.attempts[d[2]].status # "rejected"
      BY <1>4, <1>8, <2>3 DEF Backed
    <3>2. job'[j].attempts[d[2]].status # "rejected"
      BY <1>4, <1>8, <2>1, <2>3, <3>1
    <3> QED
      BY <1>1, <1>4, <1>8, <2>3, <3>1, <3>2, NoneAssumption DEF Backed, Registered
  <2> QED
    BY <2>2, <2>3
<1>9. status = "rejected" =>
          <<j, n>> \notin delivered /\ \A e \in Controllers : duty[e] # <<j, n>>
  <2> SUFFICES ASSUME status = "rejected"
               PROVE  <<j, n>> \notin delivered /\ \A e \in Controllers : duty[e] # <<j, n>>
    OBVIOUS
  <2>1. kind = "not_sent"
    BY DEF Receipt, Outcomes
  <2>2. EvidenceTrue(j, n, "not_sent")
    BY <2>1 DEF Receipt
  <2> QED
    BY <1>1, <2>2 DEF EvidenceTrue, Range, TypeOK
<1>10. (\A d \in delivered : Backed(d))'
  BY <1>8, <1>9 DEF Receipt, SubmissionInv, world
<1>11. (\A e \in Controllers : duty[e] # None => Backed(duty[e]))'
  <2> SUFFICES ASSUME NEW e \in Controllers, duty'[e] # None
               PROVE  Backed(duty[e])'
    OBVIOUS
  <2>1. duty'[e] = duty[e] /\ Backed(duty[e])
    BY DEF SubmissionInv, Receipt, world
  <2>2. PICK d : d = duty[e]
    OBVIOUS
  <2>3. Backed(d)'
    BY <1>8, <1>9, <2>1, <2>2
  <2> QED
    BY <2>1, <2>2, <2>3 DEF Backed, Registered
<1> QED
  BY <1>1, <1>6, <1>7, <1>10, <1>11 DEF SubmissionInv

(* activate: the new round has no attempts, for all were of earlier ones.  *)
LEMMA ActivateKeeps ==
    ASSUME SubmissionInv, NEW c \in Controllers, NEW j \in Jobs, Activate(c, j)
    PROVE  SubmissionInv'
<1> DEFINE s == job[j]
<1>1. TypeOK /\ TypeOK' /\ job'[j] \in State /\ s \in State /\ Registered(j)
  BY ActivateType, RegisteredState DEF SubmissionInv, Activate, May, Holds
<1>2. /\ job'[j].attempts = s.attempts
      /\ job'[j].round = s.round + 1
      /\ job'[j].submission = "prepared"
      /\ \A k \in Jobs \ {j} : job'[k] = job[k]
  BY <1>1, SMTT(30), ZenonT(60) DEF Activate, NextRound, Commit, TypeOK, State
<1>3. s.round \in Nat /\ s.attempts \in Seq(Attempt)
  BY <1>1, BoundsAssumption DEF State, Rounds
<1>4. \A n \in DOMAIN s.attempts :
          s.attempts[n].round \in Nat /\ s.attempts[n].round <= s.round
  <2>1. \A n \in DOMAIN s.attempts : s.attempts[n] \in Attempt
    BY <1>3
  <2> QED
    BY <1>1, <2>1, BoundsAssumption DEF SubmissionInv, RoundsOrdered, Attempt, Rounds
<1>5. SubmissionAgrees'
  <2>1. s.attempts # <<>> => Last(s.attempts).round # s.round + 1
    <3>1. s.attempts # <<>> => Len(s.attempts) \in DOMAIN s.attempts
      BY <1>3
    <3> QED
      BY <1>3, <1>4, <3>1 DEF Last
  <2> QED
    BY <1>1, <1>2, <2>1 DEF SubmissionAgrees, SubmissionInv, Registered
<1>6. (\A k \in Jobs : Registered(k) => RoundsOrdered(job[k]))'
  <2> SUFFICES ASSUME NEW k \in Jobs, Registered(k)' PROVE RoundsOrdered(job'[k])
    OBVIOUS
  <2>1. CASE k # j
    BY <1>2, <2>1 DEF SubmissionInv, Registered
  <2>2. CASE k = j
    <3>1. RoundsOrdered(s)
      BY <1>1 DEF SubmissionInv
    <3> QED
      BY <1>2, <1>3, <1>4, <2>2, <3>1, SMTT(30) DEF RoundsOrdered
  <2> QED
    BY <2>1, <2>2
<1>7. ASSUME NEW d, Backed(d)
      PROVE  Backed(d)'
  <2>1. d[1] \in Jobs
    BY <1>7 DEF Backed
  <2> QED
    BY <1>1, <1>2, <1>7, <2>1, NoneAssumption DEF Backed, Registered
<1>8. (\A d \in delivered : Backed(d))'
  BY <1>7 DEF Activate, SubmissionInv, world
<1>9. (\A e \in Controllers : duty[e] # None => Backed(duty[e]))'
  <2> SUFFICES ASSUME NEW e \in Controllers, duty'[e] # None
               PROVE  Backed(duty[e])'
    OBVIOUS
  <2>1. duty'[e] = duty[e] /\ Backed(duty[e])
    BY DEF SubmissionInv, Activate, world
  <2>2. PICK d : d = duty[e]
    OBVIOUS
  <2>3. Backed(d)'
    BY <1>7, <2>1, <2>2
  <2> QED
    BY <2>1, <2>2, <2>3 DEF Backed, Registered
<1> QED
  BY <1>1, <1>5, <1>6, <1>8, <1>9 DEF SubmissionInv


(* Every mutation of a controller keeps the invariant: begin, receipt and  *)
(* activate by the lemmas above, the others because they are quiet.        *)
LEMMA MutateKeeps ==
    ASSUME SubmissionInv, NEW c \in Controllers, NEW j \in Jobs, Mutate(c, j)
    PROVE  SubmissionInv'
<1>0. TypeOK
  BY DEF SubmissionInv
<1>1. ASSUME NEW left \in 1..MaxLease, Renew(c, j, left)
      PROVE  SubmissionInv'
  <2>1. TypeOK' /\ job'[j] \in State /\ job[j] \in State
    BY <1>0, <1>1, RenewType, RegisteredState DEF Renew, May, Holds
  <2> QED
    BY <1>0, <1>1, <2>1, QuietCommit DEF Renew, May, Holds, SameSubmission, State
<1>2. ASSUME Release(c, j)
      PROVE  SubmissionInv'
  <2>1. TypeOK' /\ job'[j] \in State /\ job[j] \in State
    BY <1>0, <1>2, ReleaseType, RegisteredState DEF Release, May, Holds
  <2> QED
    BY <1>0, <1>2, <2>1, QuietCommit DEF Release, May, Holds, SameSubmission, State
<1>3. ASSUME NEW session \in Sessions \cup {None}, NEW launch \in Profiles \cup {None}, Update(c, j, session, launch)
      PROVE  SubmissionInv'
  <2>1. TypeOK' /\ job'[j] \in State /\ job[j] \in State
    BY <1>0, <1>3, UpdateType, RegisteredState DEF Update, May, Holds
  <2> QED
    BY <1>0, <1>3, <2>1, QuietCommit DEF Update, May, Holds, SameSubmission, State
<1>4. ASSUME NEW kind \in Kinds, NEW i \in inspections[j], ControlBegin(c, j, kind, i)
      PROVE  SubmissionInv'
  <2>1. TypeOK' /\ job'[j] \in State /\ job[j] \in State
    BY <1>0, <1>4, ControlBeginType, RegisteredState DEF ControlBegin, May, Holds
  <2> QED
    BY <1>0, <1>4, <2>1, QuietCommit DEF ControlBegin, May, Holds, SameSubmission, State
<1>5. ASSUME NEW status \in {"uncertain", "not_sent", "confirmed"}, NEW age \in 0..MaxAge + 1, ControlReceipt(c, j, status, age)
      PROVE  SubmissionInv'
  <2>1. TypeOK' /\ job'[j] \in State /\ job[j] \in State
    BY <1>0, <1>5, ControlReceiptType, RegisteredState DEF ControlReceipt, May, Holds
  <2> QED
    BY <1>0, <1>5, <2>1, QuietCommit DEF ControlReceipt, May, Holds, SameSubmission, State
<1>6. ASSUME NEW verdict \in Verdicts, Accept(c, j, verdict)
      PROVE  SubmissionInv'
  <2>1. TypeOK' /\ job'[j] \in State /\ job[j] \in State
    BY <1>0, <1>6, AcceptType, RegisteredState DEF Accept, May, Holds
  <2> QED
    BY <1>0, <1>6, <2>1, QuietCommit DEF Accept, May, Holds, SameSubmission, State
<1>7. ASSUME NEW r \in Rounds, NEW verdict \in Verdicts, AcceptPast(c, j, r, verdict)
      PROVE  SubmissionInv'
  <2>1. TypeOK' /\ job'[j] \in State /\ job[j] \in State
    BY <1>0, <1>7, AcceptPastType, RegisteredState DEF AcceptPast, May, Holds
  <2> QED
    BY <1>0, <1>7, <2>1, QuietCommit DEF AcceptPast, May, Holds, SameSubmission, State
<1>8. ASSUME NEW left \in 1..HostWindow, RecordSettled(c, j, left)
      PROVE  SubmissionInv'
  <2>1. TypeOK' /\ job'[j] \in State /\ job[j] \in State
    BY <1>0, <1>8, RecordSettledType, RegisteredState DEF RecordSettled, May, Holds
  <2> QED
    BY <1>0, <1>8, <2>1, QuietCommit DEF RecordSettled, May, Holds, SameSubmission, State
<1>9. ASSUME RecordUnsettled(c, j)
      PROVE  SubmissionInv'
  <2>1. TypeOK' /\ job'[j] \in State /\ job[j] \in State
    BY <1>0, <1>9, RecordUnsettledType, RegisteredState DEF RecordUnsettled, May, Holds
  <2> QED
    BY <1>0, <1>9, <2>1, QuietCommit DEF RecordUnsettled, May, Holds, SameSubmission, State
<1>10. ASSUME NEW outcome \in {"completed", "failed", "cancelled"}, Close(c, j, outcome)
      PROVE  SubmissionInv'
  <2>1. TypeOK' /\ job'[j] \in State /\ job[j] \in State
    BY <1>0, <1>10, CloseType, RegisteredState DEF Close, May, Holds
  <2> QED
    BY <1>0, <1>10, <2>1, QuietCommit DEF Close, May, Holds, SameSubmission, State
<1>11. ASSUME NEW t \in Tokens, NEW scope \in {"full", "acceptance"},
              NEW left \in 1..MaxLease, NEW replied \in BOOLEAN,
              Claim(c, j, t, scope, left, replied)
       PROVE  SubmissionInv'
  <2>1. TypeOK' /\ job'[j] \in State /\ job[j] \in State
    BY <1>0, <1>11, ClaimType, RegisteredState DEF Claim, ClaimCommits
  <2> QED
    BY <1>0, <1>11, <2>1, QuietCommit DEF Claim, ClaimCommits, SameSubmission, State
<1> QED
  BY <1>1, <1>2, <1>3, <1>4, <1>5, <1>6, <1>7, <1>8, <1>9, <1>10, <1>11,
     BeginKeeps, ReceiptKeeps, ActivateKeeps DEF Mutate

(* Registration, inspections and the programs around the index keep the    *)
(* invariant: a new job has no attempts, and the others change no state    *)
(* of the index.                                                           *)
LEMMA OthersKeep ==
    ASSUME SubmissionInv, NEW j \in Jobs,
           \/ Register(j)
           \/ \E issue \in 0..MaxIssues : Inspect(j, issue)
           \/ Surroundings(j)
    PROVE  SubmissionInv'
<1>0. TypeOK
  BY DEF SubmissionInv
<1>1. CASE Register(j)
  <2>1. TypeOK' /\ job'[j] \in State
    BY <1>0, <1>1, RegisterType
  <2>2. /\ job'[j].attempts = <<>> /\ job'[j].submission = "prepared"
        /\ \A k \in Jobs \ {j} : job'[k] = job[k]
    BY <1>0, <1>1, <2>1 DEF Register, Commit, TypeOK
  <2> QED
    BY <1>1, <2>1, <2>2, QuietStep DEF Register, Registered, SameSubmission, world
<1>2. CASE \E issue \in 0..MaxIssues : Inspect(j, issue)
  <2>1. TypeOK'
    BY <1>0, <1>2, InspectType
  <2> QED
    BY <1>2, <2>1, QuietStep DEF Inspect, Registered, SameSubmission, world
<1>3. CASE Surroundings(j)
  <2>1. TypeOK'
    BY <1>0, <1>3, SurroundingsType
  <2>2. UNCHANGED <<job, duty, delivered>>
    BY <1>3 DEF Surroundings, Record, Respond, Raise, Subside, Handle, world
  <2> QED
    BY <2>1, <2>2, QuietStep DEF Registered, SameSubmission
<1> QED
  BY <1>1, <1>2, <1>3

(* Sending moves an input from 'may be sent' to 'arrived', and giving up   *)
(* and dying only drop it.                                                 *)
LEMMA SendersKeep ==
    ASSUME SubmissionInv, NEW c \in Controllers, Send(c) \/ GiveUp(c) \/ Crash(c)
    PROVE  SubmissionInv'
<1>0. TypeOK /\ TypeOK'
  BY SendersType DEF SubmissionInv
<1>1. UNCHANGED job
  BY DEF Send, GiveUp, Crash
<1>2. \A e \in Controllers : duty'[e] # None => duty'[e] = duty[e]
  BY <1>0 DEF Send, GiveUp, Crash, TypeOK
<1>3. \A d \in delivered' : d \in delivered
          \/ \E e \in Controllers : duty[e] # None /\ d = duty[e]
  BY DEF Send, GiveUp, Crash
<1> QED
  BY <1>0, <1>1, <1>2, <1>3, QuietStep DEF Registered, SameSubmission

(* The clock is quiet.                                                     *)
LEMMA TickKeeps ==
    ASSUME SubmissionInv, Tick
    PROVE  SubmissionInv'
<1>0. TypeOK /\ TypeOK'
  BY TickType DEF SubmissionInv
<1>1. ASSUME NEW k \in Jobs, Registered(k)
      PROVE  Registered(k)' /\ SameSubmission(job[k], job'[k])
  <2>1. job[k] \in State
    BY <1>0, <1>1, RegisteredState
  <2>2. job'[k] = Aged(job[k]) /\ job'[k] \in State
    BY <1>1, <2>1, AgedType DEF Tick, Registered
  <2>3. SameSubmission(job[k], Aged(job[k]))
    BY <2>1 DEF Aged, State, SameSubmission
  <2> QED
    BY <2>2, <2>3, NoneAssumption DEF Registered
<1>2. \A k \in Jobs : ~Registered(k) => ~Registered(k)'
  BY DEF Tick, Registered
<1> QED
  BY <1>0, <1>1, <1>2, QuietStep DEF Tick, world

(* In every reachable state the head's submission status agrees with the   *)
(* attempts of the active round, and whatever arrived or may arrive        *)
(* belongs to an attempt that is not rejected (begin, receipt, activate).  *)
THEOREM SubmissionInvariant == Spec => []SubmissionInv
<1>1. Init => SubmissionInv
  BY InitType DEF Init, SubmissionInv, SubmissionAgrees, Registered
<1>2. SubmissionInv /\ [Next]_vars => SubmissionInv'
  <2> SUFFICES ASSUME SubmissionInv, [Next]_vars PROVE SubmissionInv'
    OBVIOUS
  <2>1. CASE Next
    BY <2>1, MutateKeeps, OthersKeep, SendersKeep, TickKeeps DEF Next
  <2>2. CASE UNCHANGED vars
    <3>1. TypeOK'
      BY <2>2 DEF vars, TypeOK, SubmissionInv
    <3> QED
      BY <2>2, <3>1, QuietStep DEF vars, Registered, SameSubmission
  <2> QED
    BY <2>1, <2>2
<1> QED
  BY <1>1, <1>2, PTL DEF Spec

(* The input of one round reaches a target at most once.                   *)
THEOREM InputAtMostOnce == Spec => []AtMostOneInput
<1>1. SubmissionInv => AtMostOneInput
  <2> SUFFICES ASSUME SubmissionInv, NEW p \in delivered, NEW q \in delivered,
                      p[1] = q[1],
                      job[p[1]].attempts[p[2]].round = job[q[1]].attempts[q[2]].round
               PROVE  p = q
    BY DEF AtMostOneInput
  <2>1. Backed(p) /\ Backed(q)
    BY DEF SubmissionInv
  <2>2. p[2] \in Nat /\ q[2] \in Nat /\ p = <<p[1], p[2]>> /\ q = <<q[1], q[2]>>
    BY <2>1 DEF Backed
  <2>3. ~(p[2] < q[2])
    BY <2>1 DEF SubmissionInv, SubmissionAgrees, Backed
  <2>4. ~(q[2] < p[2])
    BY <2>1 DEF SubmissionInv, SubmissionAgrees, Backed
  <2> QED
    BY <2>2, <2>3, <2>4
<1> QED
  BY <1>1, SubmissionInvariant, PTL

-----------------------------------------------------------------------------
(* What KnownOf says of a job with these attempts.                         *)
StatusesIn(a, r) == {a[n].status : n \in {n \in DOMAIN a : a[n].round = r}}
KnownIn(a, r) ==
    CASE "accepted" \in StatusesIn(a, r) -> "accepted"
      [] "accepted" \notin StatusesIn(a, r) /\ "uncertain" \in StatusesIn(a, r) -> "uncertain"
      [] StatusesIn(a, r) = {"rejected"} -> "rejected"
      [] OTHER -> "unsent"

AttemptsOf(s) == IF s = None THEN <<>> ELSE s.attempts

(* The attempts alone decide what is known.                                *)
LEMMA KnownFromAttempts ==
    /\ \A j, r : KnownOf(j, r) = KnownIn(AttemptsOf(job[j]), r)
    /\ \A j, r : KnownOf(j, r)' = KnownIn(AttemptsOf(job'[j]), r)
<1>1. \A r : StatusesIn(<<>>, r) = {}
  BY DEF StatusesIn
<1>2. \A j, r : StatusesOf(j, r) = StatusesIn(AttemptsOf(job[j]), r)
  BY <1>1 DEF StatusesOf, StatusesIn, AttemptsOf
<1>3. \A j, r : StatusesOf(j, r)' = StatusesIn(AttemptsOf(job'[j]), r)
  BY <1>1 DEF StatusesOf, StatusesIn, AttemptsOf
<1> QED BY <1>2, <1>3 DEF KnownOf, KnownIn

(* If all others of the round are rejected, one attempt decides it.        *)
LEMMA OneDecides ==
    ASSUME NEW a \in Seq(Attempt), NEW n \in DOMAIN a,
           \A m \in DOMAIN a : m # n /\ a[m].round = a[n].round => a[m].status = "rejected"
    PROVE  KnownIn(a, a[n].round) = a[n].status
<1>1. a[n].status \in Statuses
  <2>1. a[n] \in Attempt
    OBVIOUS
  <2> QED BY <2>1 DEF Attempt
<1>2. a[n].status \in StatusesIn(a, a[n].round)
  BY DEF StatusesIn
<1>3. \A x \in StatusesIn(a, a[n].round) : x = a[n].status \/ x = "rejected"
  BY DEF StatusesIn
<1>4. CASE a[n].status = "accepted"
  BY <1>2, <1>4 DEF KnownIn
<1>5. CASE a[n].status = "uncertain"
  BY <1>2, <1>3, <1>5 DEF KnownIn
<1>6. CASE a[n].status = "rejected"
  <2>1. StatusesIn(a, a[n].round) = {"rejected"}
    BY <1>2, <1>3, <1>6
  <2> QED BY <1>6, <2>1 DEF KnownIn
<1> QED BY <1>1, <1>4, <1>5, <1>6 DEF Statuses

(* A round of which every attempt is rejected can be tried.                *)
LEMMA NoneDecides ==
    ASSUME NEW a, NEW r, \A n \in DOMAIN a : a[n].round = r => a[n].status = "rejected"
    PROVE  KnownIn(a, r) \in {"unsent", "rejected"}
<1>1. \A x \in StatusesIn(a, r) : x = "rejected"
  BY DEF StatusesIn
<1> QED BY <1>1 DEF KnownIn

-----------------------------------------------------------------------------
(* begin bounds the attempts of a job.                                     *)
AttemptsBounded == \A j \in Jobs : Len(AttemptsOf(job[j])) <= MaxAttempts

(* What is known and what arrived, as one value per job and round.         *)
Known == [j \in Jobs |-> [r \in Rounds |-> KnownOf(j, r)]]
Inputs == [j \in Jobs |-> [r \in Rounds |-> InputsOf(j, r)]]

(* An input that arrived is of the one attempt of its round that is not    *)
(* rejected.                                                               *)
LEMMA InputsAre ==
    ASSUME SubmissionInv, NEW j \in Jobs, NEW r, NEW n \in InputsOf(j, r)
    PROVE  /\ Registered(j) /\ n \in DOMAIN job[j].attempts /\ <<j, n>> \in delivered
           /\ job[j].attempts[n].round = r /\ job[j].attempts[n].status # "rejected"
<1>1. PICK d \in delivered : d[1] = j /\ job[j].attempts[d[2]].round = r /\ n = d[2]
  BY DEF InputsOf
<1>2. Backed(d) /\ d = <<d[1], d[2]>>
  BY <1>1 DEF SubmissionInv, Backed
<1> QED BY <1>1, <1>2 DEF Backed

(* Where nothing of the attempts changes and nothing is sent, the promise  *)
(* stands still.                                                           *)
LEMMA QuietMaps ==
    ASSUME SubmissionInv, SubmissionInv', delivered' = delivered,
           \A k \in Jobs : AttemptsOf(job'[k]) = AttemptsOf(job[k])
    PROVE  Known' = Known /\ Inputs' = Inputs
<1>1. \A k \in Jobs, r \in Rounds : KnownOf(k, r)' = KnownOf(k, r)
  BY KnownFromAttempts
<1>2. ASSUME NEW k \in Jobs, NEW r \in Rounds PROVE InputsOf(k, r)' = InputsOf(k, r)
  <2>1. \A d \in delivered : d[1] = k => Registered(k) /\ Registered(k)'
    BY DEF SubmissionInv, Backed
  <2>2. \A d \in delivered : d[1] = k => job'[k].attempts = job[k].attempts
    BY <2>1 DEF AttemptsOf, Registered
  <2> QED BY <2>2 DEF InputsOf
<1> QED BY <1>1, <1>2 DEF Known, Inputs

(* One round's entry changes.                                              *)
LEMMA KnownChanges ==
    ASSUME NEW j \in Jobs, NEW q \in Rounds, NEW x, KnownOf(j, q)' = x,
           \A k \in Jobs, r \in Rounds : k # j \/ r # q => KnownOf(k, r)' = KnownOf(k, r)
    PROVE  Known' = [Known EXCEPT ![j][q] = x]
BY DEF Known

(* begin tries the active round.                                           *)
LEMMA BeginMaps ==
    ASSUME SubmissionInv, SubmissionInv', NEW c \in Controllers, NEW j \in Jobs,
           NEW replied \in BOOLEAN, Begin(c, j, replied)
    PROVE  Promise!Next
<1>0. PICK q \in Rounds : q = job[j].round
  BY RegisteredState DEF SubmissionInv, Begin, May, Holds, State
<1> DEFINE s == job[j]
           n == Len(s.attempts)
           a == [round |-> q, status |-> "uncertain"]
           t == job'[j].attempts
<1>1. TypeOK /\ TypeOK' /\ s \in State /\ Registered(j) /\ Registered(j)'
  <2>1. TypeOK /\ Registered(j)
    BY DEF SubmissionInv, Begin, May, Holds
  <2>2. TypeOK' /\ job'[j] \in State
    BY <2>1, BeginType
  <2> QED BY <2>1, <2>2, RegisteredState, NoneAssumption DEF Registered
<1>2. /\ t = Append(s.attempts, a) /\ s.attempts \in Seq(Attempt) /\ n \in Nat
      /\ \A k \in Jobs \ {j} : job'[k] = job[k]
  BY <1>0, <1>1 DEF Begin, Commit, TypeOK, State
<1>3. a \in Attempt
  BY <1>1 DEF Attempt, Statuses
<1>4. /\ DOMAIN t = 1..n + 1 /\ DOMAIN s.attempts = 1..n /\ t[n + 1] = a
      /\ \A m \in 1..n : t[m] = s.attempts[m]
      /\ t \in Seq(Attempt) /\ Len(t) = n + 1
  BY <1>2, <1>3
<1> HIDE DEF t
<1>5. \A m \in 1..n : s.attempts[m].round = q => s.attempts[m].status = "rejected"
  <2> SUFFICES ASSUME NEW m \in 1..n, s.attempts[m].round = q
               PROVE  s.attempts[m].status = "rejected"
    OBVIOUS
  <2>1. m < n + 1 /\ t[m].round = t[n + 1].round /\ m \in DOMAIN t /\ n + 1 \in DOMAIN t
    BY <1>2, <1>4
  <2>2. t[m].status = "rejected"
    BY <1>1, <2>1 DEF SubmissionInv, SubmissionAgrees, t
  <2> QED BY <1>4, <2>2
<1>6. KnownOf(j, q) \in {"unsent", "rejected"}
  <2>1. KnownOf(j, q) = KnownIn(s.attempts, q)
    BY <1>1, KnownFromAttempts DEF AttemptsOf, Registered
  <2> QED BY <1>4, <1>5, <2>1, NoneDecides
<1>7. KnownOf(j, q)' = "uncertain"
  <2>1. KnownOf(j, q)' = KnownIn(t, q)
    BY <1>1, KnownFromAttempts DEF AttemptsOf, Registered, t
  <2>2. KnownIn(t, t[n + 1].round) = t[n + 1].status
    <3>1. \A m \in DOMAIN t : m # n + 1 => m \in 1..n
      BY <1>2, <1>4
    <3>2. n + 1 \in DOMAIN t
      BY <1>2, <1>4
    <3>3. \A m \in DOMAIN t : m # n + 1 /\ t[m].round = t[n + 1].round
                                  => t[m].status = "rejected"
      BY <1>4, <1>5, <3>1
    <3> QED BY <1>4, <3>2, <3>3, OneDecides
  <2> QED BY <1>4, <2>1, <2>2
<1>8. InputsOf(j, q) = {}
  <2> SUFFICES ASSUME NEW m \in InputsOf(j, q) PROVE FALSE
    OBVIOUS
  <2>1. /\ m \in DOMAIN job[j].attempts /\ job[j].attempts[m].round = q
        /\ job[j].attempts[m].status # "rejected"
    BY InputsAre
  <2> QED BY <1>4, <1>5, <2>1
<1>9. ASSUME NEW k \in Jobs, NEW r \in Rounds, k # j \/ r # q
      PROVE  KnownOf(k, r)' = KnownOf(k, r)
  <2>1. CASE k # j
    BY <1>2, <2>1, KnownFromAttempts
  <2>2. CASE k = j /\ r # q
    <3>1. StatusesIn(t, r) = StatusesIn(s.attempts, r)
      <4>1. {m \in DOMAIN t : t[m].round = r}
              = {m \in DOMAIN s.attempts : s.attempts[m].round = r}
        BY <1>2, <1>4, <2>2
      <4>2. \A m \in {m \in DOMAIN s.attempts : s.attempts[m].round = r} :
                t[m] = s.attempts[m]
        BY <1>4
      <4> QED BY <4>1, <4>2 DEF StatusesIn
    <3>2. KnownOf(j, r)' = KnownIn(t, r) /\ KnownOf(j, r) = KnownIn(s.attempts, r)
      BY <1>1, KnownFromAttempts DEF AttemptsOf, Registered, t
    <3> QED BY <2>2, <3>1, <3>2 DEF KnownIn
  <2> QED BY <1>9, <2>1, <2>2
<1>10. Inputs' = Inputs
  <2>1. \A d \in delivered : d[1] = j => d[2] \in 1..n
    BY <1>4 DEF SubmissionInv, Backed
  <2>2. \A d \in delivered : job'[d[1]].attempts[d[2]] = job[d[1]].attempts[d[2]]
    <3>1. \A d \in delivered : d[1] \in Jobs
      BY DEF SubmissionInv, Backed
    <3> QED BY <1>2, <1>4, <2>1, <3>1, SMTT(30), ZenonT(60) DEF t
  <2>3. delivered' = delivered
    BY DEF Begin
  <2>4. \A k \in Jobs, r \in Rounds : InputsOf(k, r)' = InputsOf(k, r)
    BY <2>2, <2>3 DEF InputsOf
  <2> QED BY <2>4 DEF Inputs
<1>11. Known' = [Known EXCEPT ![j][q] = "uncertain"]
  BY <1>7, <1>9, KnownChanges
<1>12. Known[j][q] \in {"unsent", "rejected"} /\ Inputs[j][q] = {}
  BY <1>1, <1>6, <1>8 DEF Known, Inputs
<1> QED BY <1>1, <1>10, <1>11, <1>12 DEF Promise!Next, Promise!Try, Known, Inputs

(* A receipt finds out what became of the active round's last attempt, or  *)
(* nothing new.                                                            *)
LEMMA ReceiptMaps ==
    ASSUME SubmissionInv, SubmissionInv', NEW c \in Controllers, NEW j \in Jobs,
           NEW status \in Statuses, NEW kind \in Outcomes[status], Receipt(c, j, status, kind)
    PROVE  Promise!Next \/ (Known' = Known /\ Inputs' = Inputs)
<1>0. PICK q \in Rounds : q = job[j].round
  BY RegisteredState DEF SubmissionInv, Receipt, May, Holds, State
<1> DEFINE s == job[j]
           n == Len(s.attempts)
           b == [s.attempts[n] EXCEPT !.status = status]
           t == job'[j].attempts
<1>1. TypeOK /\ TypeOK' /\ s \in State /\ Registered(j) /\ Registered(j)'
  <2>1. TypeOK /\ Registered(j)
    BY DEF SubmissionInv, Receipt, May, Holds
  <2>2. TypeOK' /\ job'[j] \in State
    BY <2>1, ReceiptType
  <2> QED BY <2>1, <2>2, RegisteredState, NoneAssumption DEF Registered
<1>2. s.attempts \in Seq(Attempt) /\ n \in Nat \ {0} /\ s.attempts[n] \in Attempt
  BY <1>1 DEF State, Receipt, Settleable
<1>3. /\ t = [s.attempts EXCEPT ![n] = b] /\ delivered' = delivered
      /\ \A k \in Jobs \ {j} : job'[k] = job[k]
  BY <1>1, <1>2 DEF Receipt, Commit, TypeOK, State, world
<1>4. /\ DOMAIN t = 1..n /\ DOMAIN s.attempts = 1..n /\ n \in 1..n /\ b \in Attempt
      /\ \A m \in 1..n : t[m].round = s.attempts[m].round
      /\ \A m \in 1..n : m # n => t[m] = s.attempts[m]
      /\ t[n].status = status /\ t \in Seq(Attempt)
  <2>1. b \in Attempt /\ b.round = s.attempts[n].round /\ b.status = status
    BY <1>2 DEF Attempt
  <2> HIDE DEF b, t
  <2> QED BY <1>2, <1>3, <2>1
<1> HIDE DEF t, b
<1>5. s.attempts[n].round = q
  BY <1>0 DEF Receipt, Settleable, Last
<1>6. \A m \in 1..n : m # n /\ s.attempts[m].round = q => s.attempts[m].status = "rejected"
  <2>1. \A m \in 1..n : m # n => m < n
    BY <1>2
  <2> QED BY <1>1, <1>4, <1>5, <2>1 DEF SubmissionInv, SubmissionAgrees
<1>7. KnownOf(j, q) = s.attempts[n].status
  <2>1. KnownOf(j, q) = KnownIn(s.attempts, q)
    BY <1>1, KnownFromAttempts DEF AttemptsOf, Registered
  <2> QED BY <1>2, <1>4, <1>5, <1>6, <2>1, OneDecides
<1>8. KnownOf(j, q)' = status
  <2>1. KnownOf(j, q)' = KnownIn(t, q)
    BY <1>1, KnownFromAttempts DEF AttemptsOf, Registered, t
  <2>2. \A m \in DOMAIN t : m # n /\ t[m].round = t[n].round => t[m].status = "rejected"
    BY <1>4, <1>5, <1>6
  <2>3. KnownIn(t, t[n].round) = t[n].status
    BY <1>4, <2>2, OneDecides
  <2> QED BY <1>4, <1>5, <2>1, <2>3
<1>9. ASSUME NEW k \in Jobs, NEW r \in Rounds, k # j \/ r # q
      PROVE  KnownOf(k, r)' = KnownOf(k, r)
  <2>1. CASE k # j
    BY <1>3, <2>1, KnownFromAttempts
  <2>2. CASE k = j /\ r # q
    <3>1. StatusesIn(t, r) = StatusesIn(s.attempts, r)
      <4>1. {m \in DOMAIN t : t[m].round = r}
              = {m \in DOMAIN s.attempts : s.attempts[m].round = r}
        BY <1>4
      <4>2. \A m \in {m \in DOMAIN s.attempts : s.attempts[m].round = r} :
                t[m] = s.attempts[m]
        BY <1>4, <1>5, <2>2
      <4> QED BY <4>1, <4>2 DEF StatusesIn
    <3>2. KnownOf(j, r)' = KnownIn(t, r) /\ KnownOf(j, r) = KnownIn(s.attempts, r)
      BY <1>1, KnownFromAttempts DEF AttemptsOf, Registered, t
    <3> QED BY <2>2, <3>1, <3>2 DEF KnownIn
  <2> QED BY <1>9, <2>1, <2>2
<1>10. Inputs' = Inputs
  <2>1. \A d \in delivered : d[1] \in Jobs /\ (d[1] = j => d[2] \in 1..n)
    BY <1>4 DEF SubmissionInv, Backed
  <2>2. \A d \in delivered :
            job'[d[1]].attempts[d[2]].round = job[d[1]].attempts[d[2]].round
    BY <1>3, <1>4, <2>1 DEF t
  <2>3. \A k \in Jobs, r \in Rounds : InputsOf(k, r)' = InputsOf(k, r)
    BY <1>3, <2>2 DEF InputsOf
  <2> QED BY <2>3 DEF Inputs
<1>11. Known' = [Known EXCEPT ![j][q] = status]
  BY <1>8, <1>9, KnownChanges
<1>12. Known[j][q] = s.attempts[n].status
  BY <1>7 DEF Known
<1>13. CASE s.attempts[n].status = status
  <2>1. Known' = Known
    BY <1>7, <1>8, <1>9, <1>13 DEF Known
  <2> QED BY <1>10, <2>1
<1>14. CASE s.attempts[n].status # status
  <2>1. s.attempts[n].status = "uncertain" /\ status \in {"accepted", "rejected"}
    BY <1>14 DEF Receipt, Settleable, Last, Statuses
  <2>2. status = "rejected" => Inputs[j][q] = {}
    <3> SUFFICES ASSUME status = "rejected", NEW m \in InputsOf(j, q) PROVE FALSE
      BY DEF Inputs
    <3>1. /\ m \in DOMAIN job[j].attempts /\ job[j].attempts[m].round = q
          /\ job[j].attempts[m].status # "rejected" /\ <<j, m>> \in delivered
      BY InputsAre
    <3>2. m = n
      BY <1>4, <1>6, <3>1
    <3>3. <<j, n>> \notin delivered
      BY DEF Receipt, Outcomes, EvidenceTrue
    <3> QED BY <3>1, <3>2, <3>3
  <2>3. /\ Known[j][q] = "uncertain"
        /\ \/ Known' = [Known EXCEPT ![j][q] = "accepted"]
           \/ Inputs[j][q] = {} /\ Known' = [Known EXCEPT ![j][q] = "rejected"]
        /\ Inputs' = Inputs
    BY <1>10, <1>11, <1>12, <2>1, <2>2
  <2>4. Promise!Learn(j, q)
    BY <2>3 DEF Promise!Learn, Known, Inputs
  <2> QED BY <2>4 DEF Promise!Next
<1> QED BY <1>13, <1>14

(* The input of an attempt that is not rejected arrives in a round where   *)
(* none did.                                                               *)
LEMMA SendMaps ==
    ASSUME SubmissionInv, SubmissionInv', AttemptsBounded, NEW c \in Controllers, Send(c)
    PROVE  Promise!Next \/ (Known' = Known /\ Inputs' = Inputs)
<1>1. PICK d : d = duty[c]
  OBVIOUS
<1>2. /\ Backed(d) /\ d = <<d[1], d[2]>> /\ d[1] \in Jobs
      /\ delivered' = delivered \cup {d} /\ job' = job
  BY <1>1 DEF Send, SubmissionInv, Backed
<1> DEFINE j == d[1]
           n == d[2]
           a == job[j].attempts
<1>3. /\ Registered(j) /\ a \in Seq(Attempt) /\ n \in DOMAIN a /\ a[n] \in Attempt
      /\ a[n].status # "rejected"
  <2>1. Registered(j) /\ n \in DOMAIN a /\ a[n].status # "rejected"
    BY <1>2 DEF Backed
  <2>2. a \in Seq(Attempt)
    BY <1>2, <2>1, RegisteredState DEF SubmissionInv, State
  <2> QED BY <2>1, <2>2
<1>4. PICK q \in Rounds : q = a[n].round
  BY <1>3 DEF Attempt
<1>5. \A m \in DOMAIN a : m # n /\ a[m].round = q => a[m].status = "rejected"
  <2> SUFFICES ASSUME NEW m \in DOMAIN a, m # n, a[m].round = q
               PROVE  a[m].status = "rejected"
    OBVIOUS
  <2>1. m < n \/ n < m
    BY <1>3
  <2>2. n < m => a[n].status = "rejected"
    BY <1>2, <1>3, <1>4 DEF SubmissionInv, SubmissionAgrees
  <2>3. m < n => a[m].status = "rejected"
    BY <1>2, <1>3, <1>4 DEF SubmissionInv, SubmissionAgrees
  <2> QED BY <1>3, <2>1, <2>2, <2>3
<1>6. Known[j][q] \in {"uncertain", "accepted"}
  <2>1. KnownOf(j, q) = KnownIn(a, q)
    BY <1>3, KnownFromAttempts DEF AttemptsOf, Registered
  <2>2. KnownIn(a, q) = a[n].status
    BY <1>3, <1>4, <1>5, OneDecides
  <2>3. a[n].status \in {"uncertain", "accepted"}
    BY <1>3 DEF Attempt, Statuses
  <2> QED BY <1>2, <2>1, <2>2, <2>3 DEF Known
<1>7. Known' = Known
  BY <1>2, KnownFromAttempts DEF Known
<1>8. CASE d \in delivered
  <2>1. Inputs' = Inputs
    <3>1. delivered' = delivered
      BY <1>2, <1>8
    <3> QED BY <1>2, <3>1 DEF Inputs, InputsOf
  <2> QED BY <1>7, <2>1
<1>9. CASE d \notin delivered
  <2>1. InputsOf(j, q) = {}
    <3> SUFFICES ASSUME NEW m \in InputsOf(j, q) PROVE FALSE
      OBVIOUS
    <3>1. /\ m \in DOMAIN job[j].attempts /\ job[j].attempts[m].round = q
          /\ job[j].attempts[m].status # "rejected" /\ <<j, m>> \in delivered
      BY <1>2, InputsAre
    <3> QED BY <1>2, <1>5, <1>9, <3>1
  <2>2. InputsOf(j, q)' = {n}
    <3>1. InputsOf(j, q)' = InputsOf(j, q) \cup {n}
      BY <1>2, <1>4 DEF InputsOf
    <3> QED BY <2>1, <3>1
  <2>3. ASSUME NEW k \in Jobs, NEW r \in Rounds, k # j \/ r # q
        PROVE  InputsOf(k, r)' = InputsOf(k, r)
    <3>1. ~(d[1] = k /\ job[k].attempts[d[2]].round = r)
      BY <1>4, <2>3
    <3> QED BY <1>2, <3>1 DEF InputsOf
  <2>4. Inputs' = [Inputs EXCEPT ![j][q] = {n}]
    BY <1>2, <2>2, <2>3 DEF Inputs
  <2>5. n \in 1..MaxAttempts
    <3>1. Len(a) <= MaxAttempts
      BY <1>2, <1>3 DEF AttemptsBounded, AttemptsOf, Registered
    <3> QED BY <1>3, <3>1, BoundsAssumption
  <2>6. Inputs[j][q] = {}
    BY <1>2, <2>1 DEF Inputs
  <2> HIDE DEF j, n
  <2>7. j \in Jobs
    BY <1>2 DEF j
  <2>8. PICK k \in Jobs, m \in 1..MaxAttempts : k = j /\ m = n
    BY <2>5, <2>7
  <2>9. /\ Known[k][q] \in {"uncertain", "accepted"} /\ Inputs[k][q] = {}
        /\ Inputs' = [Inputs EXCEPT ![k][q] = {m}] /\ Known' = Known
    BY <1>6, <1>7, <2>4, <2>6, <2>8
  <2>10. Promise!Arrive(k, q)
    BY <2>9 DEF Promise!Arrive, Known, Inputs
  <2> QED BY <2>10 DEF Promise!Next
<1> QED BY <1>8, <1>9

(* The other mutations leave the attempts alone and send nothing.          *)
LEMMA MutateAttempts ==
    ASSUME TypeOK, NEW c \in Controllers, NEW j \in Jobs, Mutate(c, j)
    PROVE  \/ \E replied \in BOOLEAN : Begin(c, j, replied)
           \/ \E status \in Statuses : \E kind \in Outcomes[status] : Receipt(c, j, status, kind)
           \/ /\ \A k \in Jobs : AttemptsOf(job'[k]) = AttemptsOf(job[k])
              /\ delivered' = delivered
<1> DEFINE Quiet == /\ \A k \in Jobs : AttemptsOf(job'[k]) = AttemptsOf(job[k])
                    /\ delivered' = delivered
<1>1. ASSUME NEW s, Registered(j), Commit(j, s), job'[j] \in State,
             s.attempts = job[j].attempts, delivered' = delivered
      PROVE  Quiet
  <2>1. job'[j] = s /\ \A k \in Jobs \ {j} : job'[k] = job[k]
    BY <1>1 DEF Commit, TypeOK
  <2> QED BY <1>1, <2>1, NoneAssumption DEF AttemptsOf, Registered
<1>2. \A action : May(c, j, action) => Registered(j) /\ job[j] \in State
  BY RegisteredState DEF May, Holds
<1> HIDE DEF Quiet
<1>3. ASSUME NEW left \in 1..MaxLease, Renew(c, j, left) PROVE Quiet
  BY <1>1, <1>2, <1>3, RenewType DEF Renew, State, world
<1>4. ASSUME Release(c, j) PROVE Quiet
  BY <1>1, <1>2, <1>4, ReleaseType DEF Release, State, world
<1>5. ASSUME NEW session \in Sessions \cup {None}, NEW launch \in Profiles \cup {None},
             Update(c, j, session, launch)
      PROVE  Quiet
  BY <1>1, <1>2, <1>5, UpdateType DEF Update, State, world
<1>6. ASSUME NEW kind \in Kinds, NEW i \in inspections[j], ControlBegin(c, j, kind, i)
      PROVE  Quiet
  BY <1>1, <1>2, <1>6, ControlBeginType DEF ControlBegin, State, world
<1>7. ASSUME NEW status \in {"uncertain", "not_sent", "confirmed"}, NEW age \in 0..MaxAge + 1,
             ControlReceipt(c, j, status, age)
      PROVE  Quiet
  BY <1>1, <1>2, <1>7, ControlReceiptType DEF ControlReceipt, State, world
<1>8. ASSUME NEW verdict \in Verdicts, Accept(c, j, verdict) PROVE Quiet
  BY <1>1, <1>2, <1>8, AcceptType DEF Accept, State, world
<1>9. ASSUME NEW r \in Rounds, NEW verdict \in Verdicts, AcceptPast(c, j, r, verdict)
      PROVE  Quiet
  BY <1>1, <1>2, <1>9, AcceptPastType DEF AcceptPast, State, world
<1>10. ASSUME NEW left \in 1..HostWindow, RecordSettled(c, j, left) PROVE Quiet
  BY <1>1, <1>2, <1>10, RecordSettledType DEF RecordSettled, State, world
<1>11. ASSUME RecordUnsettled(c, j) PROVE Quiet
  BY <1>1, <1>2, <1>11, RecordUnsettledType DEF RecordUnsettled, State, world
<1>12. ASSUME NEW outcome \in {"completed", "failed", "cancelled"}, Close(c, j, outcome)
       PROVE  Quiet
  BY <1>1, <1>2, <1>12, CloseType DEF Close, State, world
<1>13. ASSUME NEW t \in Tokens, NEW scope \in {"full", "acceptance"}, NEW left \in 1..MaxLease,
              NEW replied \in BOOLEAN, Claim(c, j, t, scope, left, replied)
       PROVE  Quiet
  BY <1>1, <1>13, ClaimType, RegisteredState DEF Claim, ClaimCommits, State, world
<1>14. ASSUME Activate(c, j) PROVE Quiet
  BY <1>1, <1>2, <1>14, ActivateType DEF Activate, NextRound, State, world
<1> QED
  BY <1>3, <1>4, <1>5, <1>6, <1>7, <1>8, <1>9, <1>10, <1>11, <1>12, <1>13, <1>14
  DEF Mutate, Quiet

(* Nor do the programs around the index, but for the controllers that send.*)
LEMMA OtherAttempts ==
    ASSUME TypeOK,
           \/ \E j \in Jobs : Register(j) \/ Surroundings(j)
           \/ \E j \in Jobs : \E issue \in 0..MaxIssues : Inspect(j, issue)
           \/ \E c \in Controllers : GiveUp(c) \/ Crash(c)
           \/ Tick
           \/ UNCHANGED vars
    PROVE  /\ \A k \in Jobs : AttemptsOf(job'[k]) = AttemptsOf(job[k])
           /\ delivered' = delivered
<1>1. ASSUME NEW j \in Jobs, Register(j)
      PROVE  /\ \A k \in Jobs : AttemptsOf(job'[k]) = AttemptsOf(job[k])
             /\ delivered' = delivered
  <2>1. job[j] = None /\ job'[j] \in State /\ delivered' = delivered
    BY <1>1, RegisterType DEF Register, world
  <2>2. job'[j].attempts = <<>> /\ \A k \in Jobs \ {j} : job'[k] = job[k]
    BY <1>1 DEF Register, Commit, TypeOK
  <2> QED BY <2>1, <2>2 DEF AttemptsOf
<1>2. CASE Tick
  <2>1. ASSUME NEW k \in Jobs PROVE AttemptsOf(job'[k]) = AttemptsOf(job[k])
    <3>1. CASE job[k] = None
      BY <1>2, <3>1 DEF Tick
    <3>2. CASE job[k] # None
      <4>1. job'[k] = Aged(job[k]) /\ job[k] \in State /\ job'[k] \in State
        BY <1>2, <3>2, AgedType, RegisteredState DEF Tick, Registered
      <4>2. Aged(job[k]).attempts = job[k].attempts
        BY <4>1 DEF Aged, State
      <4> QED BY <3>2, <4>1, <4>2, NoneAssumption DEF AttemptsOf
    <3> QED BY <3>1, <3>2
  <2> QED BY <1>2, <2>1 DEF Tick, world
<1>3. ASSUME job' = job /\ delivered' = delivered
      PROVE  /\ \A k \in Jobs : AttemptsOf(job'[k]) = AttemptsOf(job[k])
             /\ delivered' = delivered
  BY <1>3
<1>4. CASE \/ \E j \in Jobs : Surroundings(j)
           \/ \E j \in Jobs : \E issue \in 0..MaxIssues : Inspect(j, issue)
           \/ \E c \in Controllers : GiveUp(c) \/ Crash(c)
           \/ UNCHANGED vars
  BY <1>3, <1>4
  DEF Surroundings, Record, Respond, Raise, Subside, Handle, Inspect, GiveUp, Crash, world, vars
<1> QED BY <1>1, <1>2, <1>4

(* begin stops at the bound.                                               *)
LEMMA BoundKept == TypeOK /\ AttemptsBounded /\ [Next]_vars => AttemptsBounded'
<1> SUFFICES ASSUME TypeOK, AttemptsBounded, [Next]_vars PROVE AttemptsBounded'
  OBVIOUS
<1>1. ASSUME \A k \in Jobs : AttemptsOf(job'[k]) = AttemptsOf(job[k]) PROVE AttemptsBounded'
  BY <1>1 DEF AttemptsBounded, AttemptsOf
<1>2. ASSUME NEW j \in Jobs, NEW t, Registered(j), Commit(j, t), Len(t.attempts) <= MaxAttempts
      PROVE  AttemptsBounded'
  <2>1. job'[j] = t /\ \A k \in Jobs \ {j} : job'[k] = job[k]
    BY <1>2 DEF Commit, TypeOK
  <2>2. Len(<<>>) <= MaxAttempts
    BY BoundsAssumption
  <2> QED BY <1>2, <2>1, <2>2 DEF AttemptsBounded, AttemptsOf
<1>3. ASSUME NEW c \in Controllers, NEW j \in Jobs, NEW replied \in BOOLEAN, Begin(c, j, replied)
      PROVE  AttemptsBounded'
  <2> DEFINE a == [round |-> job[j].round, status |-> "uncertain"]
             t == [job[j] EXCEPT !.resources = Target(j), !.submission = "uncertain",
                                 !.attempts = Append(@, a)]
  <2>1. Registered(j) /\ job[j] \in State /\ Len(job[j].attempts) < MaxAttempts /\ Commit(j, t)
    BY <1>3, RegisteredState DEF Begin, May, Holds
  <2>2. t.attempts = Append(job[j].attempts, a) /\ job[j].attempts \in Seq(Attempt)
    BY <2>1 DEF State
  <2> HIDE DEF t, a
  <2>3. Len(t.attempts) <= MaxAttempts
    BY <2>1, <2>2, BoundsAssumption
  <2> QED BY <1>2, <2>1, <2>3
<1>4. ASSUME NEW c \in Controllers, NEW j \in Jobs, NEW status \in Statuses,
             NEW kind \in Outcomes[status], Receipt(c, j, status, kind)
      PROVE  AttemptsBounded'
  <2> DEFINE n == Len(job[j].attempts)
             t == [job[j] EXCEPT !.attempts[n].status = status, !.submission = status]
  <2>1. Registered(j) /\ job[j] \in State /\ Commit(j, t)
    BY <1>4, RegisteredState DEF Receipt, May, Holds
  <2>2. Len(t.attempts) = Len(job[j].attempts)
    BY <2>1 DEF State
  <2> HIDE DEF t
  <2> QED BY <1>2, <2>1, <2>2 DEF AttemptsBounded, AttemptsOf, Registered
<1>5. ASSUME NEW c \in Controllers, Send(c) PROVE AttemptsBounded'
  BY <1>1, <1>5 DEF Send
<1> QED
  BY <1>1, <1>3, <1>4, <1>5, MutateAttempts, OtherAttempts DEF Next

(* Every step is one of the promise, or changes nothing that it speaks of. *)
LEMMA StepMaps ==
    ASSUME SubmissionInv, SubmissionInv', AttemptsBounded, [Next]_vars
    PROVE  [Promise!Next]_(Promise!vars)
<1>1. TypeOK
  BY DEF SubmissionInv
<1>2. ASSUME Known' = Known, Inputs' = Inputs PROVE UNCHANGED Promise!vars
  BY <1>2 DEF Promise!vars, Known, Inputs
<1>3. ASSUME NEW c \in Controllers, NEW j \in Jobs, Mutate(c, j)
      PROVE  Promise!Next \/ (Known' = Known /\ Inputs' = Inputs)
  BY <1>1, <1>3, MutateAttempts, BeginMaps, ReceiptMaps, QuietMaps
<1> QED
  BY <1>1, <1>2, <1>3, SendMaps, OtherAttempts, QuietMaps DEF Next

(* The index keeps its promise: every step of it is a step of the promise  *)
(* or a stutter (begin, receipt, activate).                                *)
THEOREM IndexKeepsPromise == Spec => KeepsPromise
<1>1. Init => AttemptsBounded
  BY BoundsAssumption DEF Init, AttemptsBounded, AttemptsOf
<1>2. Spec => [](SubmissionInv /\ AttemptsBounded)
  <2>1. SubmissionInv /\ AttemptsBounded /\ [Next]_vars => AttemptsBounded'
    BY BoundKept DEF SubmissionInv
  <2> QED BY <1>1, <2>1, SubmissionInvariant, PTL DEF Spec
<1>3. Init => Promise!Init
  <2> SUFFICES ASSUME Init PROVE Promise!Init
    OBVIOUS
  <2>1. ASSUME NEW j \in Jobs, NEW r \in Rounds
        PROVE  KnownOf(j, r) = "unsent" /\ InputsOf(j, r) = {}
    <3>1. StatusesOf(j, r) = {}
      BY DEF Init, StatusesOf
    <3> QED BY <3>1 DEF Init, KnownOf, InputsOf
  <2> QED BY <2>1 DEF Promise!Init
<1>4. SubmissionInv /\ AttemptsBounded /\ SubmissionInv' /\ [Next]_vars
          => [Promise!Next]_(Promise!vars)
  BY StepMaps
<1> QED BY <1>2, <1>3, <1>4, PTL DEF Spec, KeepsPromise, Promise!Spec
=============================================================================
