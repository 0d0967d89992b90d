-------------------------- MODULE SupervisionProofs --------------------------
(***************************************************************************)
(* Those who watch over an agent: the check that grants time to work, the  *)
(* consumer that recovers the view of a run, the reviewers of a queue of   *)
(* events and the wait for a line of output. None of them knows of the     *)
(* others; each is proved of its own specification, for all values of the  *)
(* constants. The argument of every part precedes it.                      *)
(***************************************************************************)
EXTENDS Supervision, RecoveryDelta, Reviews, WaitOutput, Extrema, FiniteSetTheorems,
        SequenceTheorems

-----------------------------------------------------------------------------
(***************************************************************************)
(* Work that a check granted is covered (Supervision), for every length of *)
(* work, lease, renewal and staleness. WorkIsCovered is not inductive: a   *)
(* second later there is less of everything. SupervisionInv adds that      *)
(* everything lasts as long as the work, and what the check has learnt     *)
(* before it grants it.                                                    *)
(***************************************************************************)

(* As much of the type as the argument needs.                              *)
AnyJob == [closed : BOOLEAN, underway : BOOLEAN, recorded : BOOLEAN, held : BOOLEAN,
           monitor : Int]
AnyObserver == [state : {"running", "stopped", "killed"}, left : Int, success : Nat,
                failing : BOOLEAN, item : {"none", "new", "old"}]
AnyCheck == [step : {"idle", "jobs", "items", "health", "time", "job", "lifetime", "working"},
             closed : BOOLEAN, open : BOOLEAN, success : Nat, monitor : Int,
             elapsed : Nat, until : Nat,
             changed : BOOLEAN, replaced : BOOLEAN, future : BOOLEAN]

Fields ==
    head \in AnyJob /\ observer \in AnyObserver /\ checking \in AnyCheck

(* What was open when the check began is still open, or was counted.       *)
ItemsSeen ==
    \/ checking.step \in {"health", "time", "job", "lifetime"} /\ ~checking.open
    \/ checking.step = "working"
    => observer.item # "old"

ClosedSeen ==
    checking.step \in {"items", "health", "time", "job"} /\ checking.closed => head.closed

(* A success that counts is not older than it is taken to be.              *)
SuccessSeen ==
    /\ checking.step = "time" /\ checking.success < Stale =>
           observer.success <= checking.success
    /\ checking.step \in {"job", "lifetime"} /\ checking.success < Stale =>
           observer.success <= checking.success + checking.elapsed

MonitorSeen ==
    checking.step = "lifetime" /\ ~checking.changed =>
        /\ ~head.held
        /\ head.monitor >= checking.monitor - checking.elapsed

(* Everything lasts until the work ends.                                   *)
Lasting ==
    checking.step = "working" /\ ~checking.changed /\ ~head.closed =>
        /\ ~head.held
        /\ head.underway =>
              /\ head.monitor >= RenewBefore + checking.until
              /\ observer.success + checking.until <= Stale
              /\ ~checking.replaced => observer.left >= RenewBefore + checking.until

SupervisionInv ==
    Fields /\ ItemsSeen /\ ClosedSeen /\ SuccessSeen /\ MonitorSeen /\ Lasting

(* The shortest of some intervals is none longer than any.                 *)
LEMMA MinOfTwo ==
    ASSUME NEW a \in Int, NEW b \in Int
    PROVE  /\ Min({a, b}) \in {a, b} /\ Min({a, b}) <= a /\ Min({a, b}) <= b
<1>1. \E x \in {a, b} : \A y \in {a, b} : x <= y
  OBVIOUS
<1> QED BY <1>1 DEF Min

(* The greater of two ...                                                  *)
LEMMA MaxOfTwo ==
    ASSUME NEW a \in Int, NEW b \in Int
    PROVE  /\ Max({a, b}) \in {a, b} /\ Max({a, b}) >= a /\ Max({a, b}) >= b
<1>1. \E x \in {a, b} : \A y \in {a, b} : x >= y
  OBVIOUS
<1> QED BY <1>1 DEF Max

(* ... and the least of four are numbers, too.                             *)
LEMMA MinOfFour ==
    ASSUME NEW a \in Int, NEW b \in Int, NEW c \in Int, NEW d \in Int
    PROVE  /\ Min({a, b, c, d}) \in Int
           /\ Min({a, b, c, d}) <= a /\ Min({a, b, c, d}) <= b
           /\ Min({a, b, c, d}) <= c /\ Min({a, b, c, d}) <= d
<1>1. PICK x \in {a, b} : x <= a /\ x <= b
  OBVIOUS
<1>2. PICK y \in {c, d} : y <= c /\ y <= d
  OBVIOUS
<1>3. \E z \in {a, b, c, d} : \A w \in {a, b, c, d} : z <= w
  <2>1. CASE x <= y
    BY <1>1, <1>2, <2>1
  <2>2. CASE y <= x
    BY <1>1, <1>2, <2>2
  <2> QED BY <1>1, <1>2, <2>1, <2>2
<1> QED BY <1>3 DEF Min

(* The constants are numbers ...                                           *)
LEMMA SecondsAreNumbers ==
    /\ WorkSeconds \in Nat /\ Stale \in Nat /\ RenewBefore \in Nat /\ Extent \in Nat
    /\ Extent \in Int /\ 0 \in Int
BY SupervisionAssumption

-----------------------------------------------------------------------------
(* Nothing is checked at first.                                            *)
LEMMA SupervisionInitHolds == SupervisionInit => SupervisionInv
BY SecondsAreNumbers
   DEF SupervisionInit, SupervisionInv, Fields, ItemsSeen, ClosedSeen, SuccessSeen, MonitorSeen,
       Lasting, NewJob, NoCheck, AnyJob, AnyObserver, AnyCheck

(* The job changes, and the check or the work knows by its revision; a     *)
(* closed one does not change.                                             *)
LEMMA UpdateJobHolds == SupervisionInv /\ UpdateJob => SupervisionInv'
<1> SUFFICES ASSUME SupervisionInv, UpdateJob PROVE SupervisionInv'
  OBVIOUS
<1>1. /\ Fields /\ ~head.closed /\ observer' = observer
      /\ checking' = [checking EXCEPT !.changed = checking.step \notin {"idle", "jobs"}]
  BY DEF UpdateJob, SupervisionInv
<1>2. head' \in AnyJob
  <2>1. head \in AnyJob
    BY <1>1 DEF Fields
  <2>2. [NewJob EXCEPT !.closed = TRUE] \in AnyJob
    <3>1. NewJob \in AnyJob
      BY SecondsAreNumbers DEF NewJob, AnyJob
    <3> QED BY <3>1 DEF AnyJob
  <2>3. [head EXCEPT !.underway = TRUE] \in AnyJob
    BY <2>1 DEF AnyJob
  <2>4. \A left \in {0, Extent} : [head EXCEPT !.monitor = left] \in AnyJob
    BY <2>1, SecondsAreNumbers DEF AnyJob
  <2>5. [head EXCEPT !.held = ~@] \in AnyJob
    BY <2>1 DEF AnyJob
  <2>6. FollowUp => head' \in AnyJob
    BY <2>1, SecondsAreNumbers DEF FollowUp, AnyJob
  <2> QED BY <2>2, <2>3, <2>4, <2>5, <2>6 DEF UpdateJob
<1>3. PICK b \in BOOLEAN : /\ checking' = [checking EXCEPT !.changed = b]
                           /\ b <=> checking.step \notin {"idle", "jobs"}
  <2> DEFINE c == checking.step \notin {"idle", "jobs"}
  <2>1. c \in BOOLEAN
    OBVIOUS
  <2> QED BY <1>1, <2>1
<1>4. /\ Fields'
      /\ checking'.step = checking.step /\ checking'.open = checking.open
      /\ checking'.closed = checking.closed /\ checking'.success = checking.success
      /\ checking'.elapsed = checking.elapsed
      /\ checking.step \notin {"idle", "jobs"} => checking'.changed
  BY <1>1, <1>2, <1>3 DEF Fields, AnyCheck
<1> QED
  BY <1>1, <1>4
  DEF SupervisionInv, ItemsSeen, ClosedSeen, SuccessSeen, MonitorSeen, Lasting

(* That a target is recorded changes nothing a grant was based on.         *)
LEMMA RecordResourcesHolds == SupervisionInv /\ RecordResources => SupervisionInv'
<1> SUFFICES ASSUME SupervisionInv, RecordResources PROVE SupervisionInv'
  OBVIOUS
<1>1. /\ head \in AnyJob /\ head' = [head EXCEPT !.recorded = TRUE]
      /\ UNCHANGED <<observer, checking>>
  BY DEF RecordResources, SupervisionInv, Fields
<1>2. /\ head' \in AnyJob /\ head'.closed = head.closed /\ head'.underway = head.underway
      /\ head'.held = head.held /\ head'.monitor = head.monitor
  BY <1>1 DEF AnyJob
<1> QED
  BY <1>1, <1>2
  DEF SupervisionInv, Fields, ItemsSeen, ClosedSeen, SuccessSeen, MonitorSeen, Lasting

(* Another observer has another record, which does not bind this one.      *)
LEMMA StartObserverHolds == SupervisionInv /\ StartObserver => SupervisionInv'
<1> SUFFICES ASSUME SupervisionInv, StartObserver PROVE SupervisionInv'
  OBVIOUS
<1> DEFINE replaced == checking.step = "working"
           future == checking.elapsed > 0 /\ checking.step # "working"
<1>1. /\ Fields /\ head' = head
      /\ observer' = [observer EXCEPT !.state = "running", !.left = Extent]
      /\ checking' = [checking EXCEPT !.replaced = replaced, !.future = future]
  BY DEF StartObserver, SupervisionInv
<1>2. replaced \in BOOLEAN /\ future \in BOOLEAN /\ (checking.step = "working" => replaced)
  OBVIOUS
<1> HIDE DEF replaced, future
<1>3. /\ checking' \in AnyCheck
      /\ checking'.step = checking.step /\ checking'.open = checking.open
      /\ checking'.closed = checking.closed /\ checking'.success = checking.success
      /\ checking'.elapsed = checking.elapsed /\ checking'.changed = checking.changed
      /\ checking'.monitor = checking.monitor /\ checking'.until = checking.until
      /\ checking'.replaced = replaced
  BY <1>1, <1>2 DEF Fields, AnyCheck
<1>4. /\ observer' \in AnyObserver
      /\ observer'.item = observer.item /\ observer'.success = observer.success
  <2>1. observer \in AnyObserver /\ Extent \in Int
    BY <1>1, SecondsAreNumbers DEF Fields
  <2> QED BY <1>1, <2>1 DEF AnyObserver
<1>5. Fields'
  BY <1>1, <1>3, <1>4 DEF Fields
<1> QED
  BY <1>1, <1>2, <1>3, <1>4, <1>5
  DEF SupervisionInv, ItemsSeen, ClosedSeen, SuccessSeen, MonitorSeen, Lasting

(* A look makes a success younger, and its items are new; an end and a     *)
(* handled item take nothing away that was granted.                        *)
LEMMA ObserverHolds ==
    SupervisionInv /\ (\/ \E b \in BOOLEAN : LookAtTarget(b)
                       \/ \E s \in {"stopped", "killed"} : EndObserver(s)
                       \/ HandleItem) => SupervisionInv'
<1> SUFFICES ASSUME SupervisionInv,
                    \/ \E b \in BOOLEAN : LookAtTarget(b)
                    \/ \E s \in {"stopped", "killed"} : EndObserver(s)
                    \/ HandleItem
             PROVE  SupervisionInv'
  OBVIOUS
<1>1. observer \in AnyObserver /\ Fields
  BY DEF SupervisionInv, Fields
<1>2. /\ UNCHANGED <<head, checking>>
      /\ observer' \in AnyObserver
      /\ observer'.left = observer.left
      /\ observer'.success \in {0, observer.success}
      /\ observer.item # "old" => observer'.item # "old"
  <2>1. ASSUME NEW b \in BOOLEAN, LookAtTarget(b)
        PROVE  /\ UNCHANGED <<head, checking>>
               /\ observer' \in AnyObserver
               /\ observer'.left = observer.left
               /\ observer'.success \in {0, observer.success}
               /\ observer.item # "old" => observer'.item # "old"
    <3>1. PICK shown \in {observer.item, "new"} :
              observer' = [observer EXCEPT !.success = IF b THEN 0 ELSE @,
                                           !.failing = ~b, !.item = shown]
      BY <2>1 DEF LookAtTarget
    <3>2. shown \in {"none", "new", "old"} /\ (~b) \in BOOLEAN
      BY <1>1 DEF AnyObserver
    <3>3. observer' \in AnyObserver
      BY <1>1, <3>1, <3>2 DEF AnyObserver
    <3>4. /\ observer'.left = observer.left /\ observer'.item = shown
          /\ observer'.success \in {0, observer.success}
      BY <1>1, <3>1 DEF AnyObserver
    <3> QED BY <2>1, <3>1, <3>3, <3>4 DEF LookAtTarget
  <2>2. CASE (\E s \in {"stopped", "killed"} : EndObserver(s)) \/ HandleItem
    BY <1>1, <2>2 DEF EndObserver, HandleItem, AnyObserver
  <2> QED BY <2>1, <2>2
<1>3. observer'.success <= observer.success /\ observer'.success \in Nat /\ observer.success \in Nat
  BY <1>1, <1>2 DEF AnyObserver
<1>4. /\ checking.success \in Nat /\ checking.elapsed \in Nat /\ checking.until \in Nat
      /\ observer.left \in Int
  BY <1>1 DEF Fields, AnyCheck, AnyObserver
<1>5. Fields' /\ ClosedSeen' /\ MonitorSeen'
  BY <1>1, <1>2 DEF SupervisionInv, Fields, ClosedSeen, MonitorSeen
<1>6. ItemsSeen'
  BY <1>2 DEF SupervisionInv, ItemsSeen
<1>7. SuccessSeen'
  BY <1>2, <1>3, <1>4, SecondsAreNumbers DEF SupervisionInv, SuccessSeen
<1>8. Lasting'
  BY <1>2, <1>3, <1>4, SecondsAreNumbers DEF SupervisionInv, Lasting
<1> QED BY <1>5, <1>6, <1>7, <1>8 DEF SupervisionInv

(* A second takes one from what is left, from the work too, and adds one   *)
(* to what the check has read of the past, or to the time since.           *)
LEMMA SecondHolds == SupervisionInv /\ SecondPasses => SupervisionInv'
<1> SUFFICES ASSUME SupervisionInv, SecondPasses PROVE SupervisionInv'
  OBVIOUS
<1> DEFINE older == [checking EXCEPT !.success = Older(checking.success)]
           later == [checking EXCEPT !.elapsed = checking.elapsed + 1]
           shorter == [checking EXCEPT !.until = checking.until - 1]
<1>1. /\ head \in AnyJob /\ observer \in AnyObserver /\ checking \in AnyCheck
  BY DEF SupervisionInv, Fields
<1>2. /\ head.monitor \in Int /\ observer.left \in Int /\ observer.success \in Nat
      /\ checking.success \in Nat /\ checking.elapsed \in Nat /\ checking.until \in Nat
  BY <1>1 DEF AnyJob, AnyObserver, AnyCheck
<1>3. /\ Less(head.monitor) \in Int /\ Less(head.monitor) >= head.monitor - 1
      /\ Less(observer.left) \in Int /\ Less(observer.left) >= observer.left - 1
  <2>1. ASSUME NEW left \in Int PROVE Less(left) \in Int /\ Less(left) >= left - 1
    <3>1. -WorkSeconds \in Int /\ left - 1 \in Int
      BY SecondsAreNumbers
    <3> QED BY <3>1, MaxOfTwo DEF Less
  <2> QED BY <1>2, <2>1
<1>4. \A age \in Nat : /\ Older(age) \in Nat /\ Older(age) <= age + 1
                       /\ Older(age) < Stale => Older(age) = age + 1
  <2> TAKE age \in Nat
  <2>1. /\ Older(age) \in {Stale + 1, age + 1}
        /\ Older(age) <= Stale + 1 /\ Older(age) <= age + 1
    BY MinOfTwo, SecondsAreNumbers DEF Older
  <2> QED BY <2>1, SecondsAreNumbers
<1>5. /\ head' \in AnyJob /\ head'.closed = head.closed /\ head'.underway = head.underway
      /\ head'.held = head.held
      /\ ~head.closed => head'.monitor = Less(head.monitor)
      /\ head'.monitor >= head.monitor - 1
  <2>1. head' = [head EXCEPT !.monitor = IF head.closed THEN @ ELSE Less(@)]
    BY DEF SecondPasses
  <2> QED BY <1>1, <1>2, <1>3, <2>1 DEF AnyJob
<1>6. /\ observer' \in AnyObserver /\ observer'.item = observer.item
      /\ observer'.left = Less(observer.left) /\ observer'.success = Older(observer.success)
  <2>1. observer' = [observer EXCEPT !.left = Less(observer.left), !.success = Older(observer.success)]
    BY <1>1 DEF SecondPasses, AnyObserver
  <2>2. Less(observer.left) \in Int /\ Older(observer.success) \in Nat
    BY <1>2, <1>3, <1>4
  <2> QED BY <1>1, <2>1, <2>2 DEF AnyObserver
<1>7. \/ checking.step = "time" /\ checking' = older
      \/ checking.step \in {"job", "lifetime"} /\ checking' = later
      \/ checking.step = "working" /\ checking.until > 0 /\ checking' = shorter
      \/ checking' = NoCheck
      \/ checking.step \notin {"time", "job", "lifetime", "working"} /\ checking' = checking
  BY <1>1 DEF SecondPasses, AnyCheck
<1> HIDE DEF older, later, shorter
<1>8. CASE checking.step = "time" /\ checking' = older
  <2>1. /\ checking' \in AnyCheck /\ checking'.step = "time"
        /\ checking'.success = Older(checking.success)
        /\ checking'.open = checking.open /\ checking'.closed = checking.closed
    BY <1>1, <1>2, <1>4, <1>8 DEF AnyCheck, older
  <2>2. SuccessSeen'
    BY <1>2, <1>4, <1>6, <1>8, <2>1, SecondsAreNumbers DEF SuccessSeen, SupervisionInv
  <2> QED
    BY <1>5, <1>6, <1>8, <2>1, <2>2
    DEF SupervisionInv, Fields, ItemsSeen, ClosedSeen, MonitorSeen, Lasting
<1>9. CASE checking.step \in {"job", "lifetime"} /\ checking' = later
  <2>1. /\ checking' \in AnyCheck /\ checking'.step = checking.step
        /\ checking'.elapsed = checking.elapsed + 1 /\ checking'.success = checking.success
        /\ checking'.open = checking.open /\ checking'.closed = checking.closed
        /\ checking'.changed = checking.changed /\ checking'.monitor = checking.monitor
        /\ checking.monitor \in Int
    BY <1>1, <1>2, <1>9 DEF AnyCheck, later
  <2>2. SuccessSeen'
    BY <1>2, <1>4, <1>6, <1>9, <2>1, SecondsAreNumbers DEF SuccessSeen, SupervisionInv
  <2>3. MonitorSeen'
    BY <1>1, <1>2, <1>5, <1>9, <2>1 DEF MonitorSeen, SupervisionInv, AnyJob
  <2> QED
    BY <1>5, <1>6, <1>9, <2>1, <2>2, <2>3
    DEF SupervisionInv, Fields, ItemsSeen, ClosedSeen, Lasting
<1>10. CASE checking.step = "working" /\ checking.until > 0 /\ checking' = shorter
  <2>1. /\ checking' \in AnyCheck /\ checking'.step = "working"
        /\ checking'.until = checking.until - 1 /\ checking'.changed = checking.changed
        /\ checking'.replaced = checking.replaced
    <3>1. checking.until - 1 \in Nat
      BY <1>2, <1>10
    <3> QED BY <1>1, <1>10, <3>1 DEF AnyCheck, shorter
  <2>2. Lasting'
    BY <1>2, <1>3, <1>4, <1>5, <1>6, <1>10, <2>1, SecondsAreNumbers DEF Lasting, SupervisionInv
  <2> QED
    BY <1>5, <1>6, <1>10, <2>1, <2>2
    DEF SupervisionInv, Fields, ItemsSeen, ClosedSeen, SuccessSeen, MonitorSeen
<1>11. CASE checking' = NoCheck
  <2>1. checking' \in AnyCheck /\ checking'.step = "idle"
    BY <1>11, SecondsAreNumbers DEF NoCheck, AnyCheck
  <2> QED
    BY <1>5, <1>6, <2>1
    DEF SupervisionInv, Fields, ItemsSeen, ClosedSeen, SuccessSeen, MonitorSeen, Lasting
<1>12. CASE checking.step \notin {"time", "job", "lifetime", "working"} /\ checking' = checking
  BY <1>1, <1>5, <1>6, <1>12
  DEF SupervisionInv, Fields, ItemsSeen, ClosedSeen, SuccessSeen, MonitorSeen, Lasting
<1> QED BY <1>7, <1>8, <1>9, <1>10, <1>11, <1>12

-----------------------------------------------------------------------------
(* An item that is there when the check begins is old from then on.        *)
LEMMA BeginCheckHolds == SupervisionInv /\ BeginCheck => SupervisionInv'
<1> SUFFICES ASSUME SupervisionInv, BeginCheck PROVE SupervisionInv'
  OBVIOUS
<1>1. checking' = [NoCheck EXCEPT !.step = "jobs"] /\ head' = head /\ Fields
  BY DEF BeginCheck, SupervisionInv
<1>2. NoCheck \in AnyCheck
  BY SecondsAreNumbers DEF NoCheck, AnyCheck
<1>3. checking' \in AnyCheck /\ checking'.step = "jobs"
  BY <1>1, <1>2 DEF AnyCheck
<1>4. observer' \in AnyObserver
  <2>1. observer \in AnyObserver
    BY <1>1 DEF Fields
  <2>2. observer' = [observer EXCEPT !.item = IF @ = "new" THEN "old" ELSE @]
    BY DEF BeginCheck
  <2> QED BY <2>1, <2>2 DEF AnyObserver
<1> QED
  BY <1>1, <1>3, <1>4
  DEF SupervisionInv, Fields, ItemsSeen, ClosedSeen, SuccessSeen, MonitorSeen, Lasting

(* What the first reads note is as they found it.                          *)
LEMMA ReadsHold ==
    SupervisionInv /\ (InventoryJob \/ CountOpen \/ ReadHealth \/ TakeTime) => SupervisionInv'
<1> SUFFICES ASSUME SupervisionInv, InventoryJob \/ CountOpen \/ ReadHealth \/ TakeTime
             PROVE  SupervisionInv'
  OBVIOUS
<1>1. /\ Fields /\ checking \in AnyCheck /\ head \in AnyJob /\ observer \in AnyObserver
      /\ UNCHANGED <<head, observer>>
  BY DEF SupervisionInv, Fields, InventoryJob, CountOpen, ReadHealth, TakeTime, At
<1>2. CASE InventoryJob
  <2>1. /\ checking' = [checking EXCEPT !.step = "items", !.closed = head.closed]
        /\ head.closed \in BOOLEAN
    BY <1>1, <1>2 DEF InventoryJob, At, AnyJob
  <2>2. checking' \in AnyCheck /\ checking'.step = "items" /\ checking'.closed = head.closed
    BY <1>1, <2>1 DEF AnyCheck
  <2> QED
    BY <1>1, <2>2
    DEF SupervisionInv, Fields, ItemsSeen, ClosedSeen, SuccessSeen, MonitorSeen, Lasting
<1>3. CASE CountOpen
  <2> DEFINE open == observer.item # "none"
  <2>1. /\ checking' = [checking EXCEPT !.step = "health", !.open = open]
        /\ checking.step = "items" /\ open \in BOOLEAN /\ (~open => observer.item # "old")
    BY <1>3 DEF CountOpen, At
  <2> HIDE DEF open
  <2>2. /\ checking' \in AnyCheck /\ checking'.step = "health"
        /\ checking'.open = open /\ checking'.closed = checking.closed
    BY <1>1, <2>1 DEF AnyCheck
  <2> QED
    BY <1>1, <2>1, <2>2
    DEF SupervisionInv, Fields, ItemsSeen, ClosedSeen, SuccessSeen, MonitorSeen, Lasting
<1>4. CASE ReadHealth
  <2> DEFINE success == IF observer.state # "running" \/ observer.failing THEN Stale
                        ELSE observer.success
  <2>1. /\ checking' = [checking EXCEPT !.step = "time", !.success = success]
        /\ checking.step = "health" /\ success \in Nat
        /\ success < Stale => observer.success <= success
    BY <1>1, <1>4, SecondsAreNumbers DEF ReadHealth, At, AnyObserver
  <2> HIDE DEF success
  <2>2. /\ checking' \in AnyCheck /\ checking'.step = "time" /\ checking'.success = success
        /\ checking'.open = checking.open /\ checking'.closed = checking.closed
    BY <1>1, <2>1 DEF AnyCheck
  <2> QED
    BY <1>1, <2>1, <2>2
    DEF SupervisionInv, Fields, ItemsSeen, ClosedSeen, SuccessSeen, MonitorSeen, Lasting
<1>5. CASE TakeTime
  <2>1. checking' = [checking EXCEPT !.step = "job"] /\ checking.step = "time"
    BY <1>5 DEF TakeTime, At
  <2>2. /\ checking' \in AnyCheck /\ checking'.step = "job"
        /\ checking'.success = checking.success /\ checking'.elapsed = checking.elapsed
        /\ checking'.open = checking.open /\ checking'.closed = checking.closed
        /\ checking.success \in Nat /\ checking.elapsed \in Nat /\ observer.success \in Nat
    BY <1>1, <2>1 DEF AnyCheck, AnyObserver
  <2>3. SuccessSeen'
    BY <1>1, <2>1, <2>2, SecondsAreNumbers DEF SupervisionInv, SuccessSeen
  <2> QED
    BY <1>1, <2>1, <2>2, <2>3
    DEF SupervisionInv, Fields, ItemsSeen, ClosedSeen, MonitorSeen, Lasting
<1> QED BY <1>2, <1>3, <1>4, <1>5

(* A grant is of what is left of the budget, and only if nothing is open.  *)
LEMMA GrantGives ==
    ASSUME Fields, NEW budget \in Int
    PROVE  \/ Grant(budget) = NoCheck
           \/ /\ ~checking.open /\ budget >= checking.elapsed
              /\ Grant(budget) \in AnyCheck /\ Grant(budget).step = "working"
              /\ Grant(budget).until = budget - checking.elapsed
              /\ Grant(budget).changed = checking.changed
<1>1. checking \in AnyCheck /\ checking.elapsed \in Nat
  BY DEF Fields, AnyCheck
<1>2. CASE checking.open \/ budget < checking.elapsed
  BY <1>2 DEF Grant
<1>3. CASE ~checking.open /\ budget >= checking.elapsed
  <2> DEFINE until == budget - checking.elapsed
  <2>1. until \in Nat
    BY <1>1, <1>3
  <2>2. Grant(budget) = [checking EXCEPT !.step = "working", !.until = until,
                             !.elapsed = 0, !.success = 0, !.monitor = 0, !.future = FALSE]
    BY <1>1, <1>3 DEF Grant
  <2> HIDE DEF until
  <2>3. /\ Grant(budget) \in AnyCheck /\ Grant(budget).step = "working"
        /\ Grant(budget).until = until /\ Grant(budget).changed = checking.changed
    <3> DEFINE granted == Grant(budget)
    <3>1. granted = [checking EXCEPT !.step = "working", !.until = until,
                         !.elapsed = 0, !.success = 0, !.monitor = 0, !.future = FALSE]
      BY <2>2
    <3>2. 0 \in Nat /\ 0 \in Int
      OBVIOUS
    <3> HIDE DEF granted
    <3>3. granted \in AnyCheck
      BY <1>1, <2>1, <3>1, <3>2 DEF AnyCheck
    <3>4. granted.step = "working" /\ granted.until = until /\ granted.changed = checking.changed
      BY <1>1, <3>1 DEF AnyCheck
    <3> QED BY <3>3, <3>4 DEF granted
  <2> QED BY <1>3, <2>3 DEF until
<1> QED BY <1>1, <1>2, <1>3

(* So a check that grants leaves what lasts, if what it found does.        *)
LEMMA GrantHolds ==
    ASSUME SupervisionInv, NEW budget \in Int, checking' = Grant(budget),
           checking.step \in {"job", "lifetime"}, UNCHANGED <<head, observer>>,
           \/ head.closed
           \/ ~checking.changed =>
                  /\ ~head.held
                  /\ head.underway =>
                        /\ head.monitor >= RenewBefore + budget - checking.elapsed
                        /\ observer.success + budget - checking.elapsed <= Stale
                        /\ observer.left >= RenewBefore + budget - checking.elapsed
    PROVE  SupervisionInv'
<1>1. Fields
  BY DEF SupervisionInv
<1>2. CASE checking' = NoCheck
  <2>1. checking' \in AnyCheck /\ checking'.step = "idle"
    BY <1>2, SecondsAreNumbers DEF NoCheck, AnyCheck
  <2> QED
    BY <1>1, <2>1
    DEF SupervisionInv, Fields, ItemsSeen, ClosedSeen, SuccessSeen, MonitorSeen, Lasting
<1>3. CASE /\ ~checking.open
           /\ checking' \in AnyCheck /\ checking'.step = "working"
           /\ checking'.until = budget - checking.elapsed
           /\ checking'.changed = checking.changed
  <2>1. /\ checking.elapsed \in Int /\ observer.success \in Int /\ observer.left \in Int
        /\ head.monitor \in Int
    BY <1>1 DEF Fields, AnyCheck, AnyObserver, AnyJob
  <2>2. Lasting'
    BY <1>3, <2>1, SecondsAreNumbers DEF Lasting
  <2>3. ItemsSeen'
    BY <1>3 DEF SupervisionInv, ItemsSeen
  <2> QED
    BY <1>1, <1>3, <2>2, <2>3
    DEF SupervisionInv, Fields, ClosedSeen, SuccessSeen, MonitorSeen
<1> QED BY <1>1, <1>2, <1>3, GrantGives

(* ... and so is the longest block of work.                                *)
LEMMA LongestIsNumber == Longest \in Int
BY MinOfTwo, SecondsAreNumbers DEF Longest

(* A job without work under way or a target, or a closed one, is covered   *)
(* as it is.                                                               *)
LEMMA LoadJobHolds == SupervisionInv /\ LoadJob => SupervisionInv'
<1> SUFFICES ASSUME SupervisionInv, LoadJob PROVE SupervisionInv'
  OBVIOUS
<1>1. /\ checking.step = "job" /\ UNCHANGED <<head, observer>> /\ Fields
      /\ checking \in AnyCheck
      /\ checking.elapsed \in Nat /\ checking.success \in Nat /\ head.monitor \in Int
      /\ observer.success \in Nat
  BY DEF LoadJob, At, SupervisionInv, Fields, AnyCheck, AnyJob, AnyObserver
<1>2. CASE checking.closed
  <2>1. head.closed /\ checking' = Grant(Longest)
    BY <1>1, <1>2 DEF LoadJob, At, SupervisionInv, ClosedSeen
  <2> QED BY <1>1, <2>1, LongestIsNumber, GrantHolds
<1>3. CASE ~checking.closed /\ (checking.changed \/ head.held)
  <2>1. checking' = NoCheck
    BY <1>3 DEF LoadJob, At
  <2>2. checking' \in AnyCheck /\ checking'.step = "idle"
    BY <2>1, SecondsAreNumbers DEF NoCheck, AnyCheck
  <2> QED
    BY <1>1, <2>2
    DEF SupervisionInv, Fields, ItemsSeen, ClosedSeen, SuccessSeen, MonitorSeen, Lasting
<1>4. CASE ~checking.closed /\ ~checking.changed /\ ~head.held
  <2>1. CASE ~head.underway /\ ~head.recorded
    <3>1. checking' = Grant(Longest)
      BY <1>4, <2>1 DEF LoadJob, At
    <3> QED BY <1>1, <1>4, <2>1, <3>1, LongestIsNumber, GrantHolds
  <2>2. CASE checking' = NoCheck
    <3>1. checking' \in AnyCheck /\ checking'.step = "idle"
      BY <2>2, SecondsAreNumbers DEF NoCheck, AnyCheck
    <3> QED
      BY <1>1, <3>1
      DEF SupervisionInv, Fields, ItemsSeen, ClosedSeen, SuccessSeen, MonitorSeen, Lasting
  <2>3. CASE checking' = [checking EXCEPT !.step = "lifetime", !.monitor = AtCheck(head.monitor)]
    <3>1. AtCheck(head.monitor) = head.monitor + checking.elapsed
      BY DEF AtCheck
    <3>2. /\ checking' \in AnyCheck /\ checking'.step = "lifetime"
          /\ checking'.monitor = head.monitor + checking.elapsed
          /\ checking'.elapsed = checking.elapsed /\ checking'.success = checking.success
          /\ checking'.open = checking.open
      <4>1. head.monitor + checking.elapsed \in Int
        BY <1>1
      <4> QED BY <1>1, <2>3, <3>1, <4>1 DEF AnyCheck
    <3>3. MonitorSeen' /\ SuccessSeen'
      BY <1>1, <1>4, <3>2, SecondsAreNumbers DEF SupervisionInv, MonitorSeen, SuccessSeen
    <3> QED
      BY <1>1, <3>2, <3>3 DEF SupervisionInv, Fields, ItemsSeen, ClosedSeen, Lasting
  <2> QED BY <1>4, <2>1, <2>2, <2>3 DEF LoadJob, At
<1> QED BY <1>1, <1>2, <1>3, <1>4 DEF Fields, AnyCheck

(* No part of what a check needs is shorter than its budget.               *)
LEMMA BudgetLeaves ==
    ASSUME NEW monitor \in Int, NEW lifetime \in Int, NEW success \in Int
    PROVE  /\ Budget(monitor, lifetime, success) \in Int
           /\ Budget(monitor, lifetime, success) <= monitor - RenewBefore
           /\ Budget(monitor, lifetime, success) <= lifetime - RenewBefore
           /\ Budget(monitor, lifetime, success) <= Stale - success
<1> DEFINE m == monitor - RenewBefore  l == lifetime - RenewBefore  s == Stale - success
<1>1. m \in Int /\ l \in Int /\ s \in Int /\ Longest \in Int
  BY LongestIsNumber, SecondsAreNumbers
<1>2. Budget(monitor, lifetime, success) = Min({Longest, m, l, s})
  BY DEF Budget
<1> HIDE DEF m, l, s
<1>3. LET least == Min({Longest, m, l, s})
      IN  least \in Int /\ least <= m /\ least <= l /\ least <= s
  BY <1>1, MinOfFour
<1> QED BY <1>2, <1>3 DEF m, l, s

(* The budget is what the shortest of everything leaves.                   *)
LEMMA ReadLifetimeHolds == SupervisionInv /\ ReadLifetime => SupervisionInv'
<1> SUFFICES ASSUME SupervisionInv, ReadLifetime PROVE SupervisionInv'
  OBVIOUS
<1> DEFINE budget == Budget(checking.monitor, AtCheck(observer.left), checking.success)
           refused == \/ observer.state = "stopped" \/ checking.future
                      \/ AtCheck(observer.left) <= RenewBefore \/ checking.success >= Stale
<1>1. /\ checking.step = "lifetime" /\ UNCHANGED <<head, observer>> /\ Fields
      /\ checking' = IF refused THEN NoCheck ELSE Grant(budget)
      /\ checking.elapsed \in Nat /\ checking.success \in Nat /\ checking.monitor \in Int
      /\ head.monitor \in Int /\ observer.left \in Int /\ observer.success \in Nat
  BY DEF ReadLifetime, At, SupervisionInv, Fields, AnyCheck, AnyJob, AnyObserver
<1>2. CASE refused
  <2>1. checking' \in AnyCheck /\ checking'.step = "idle"
    BY <1>1, <1>2, SecondsAreNumbers DEF NoCheck, AnyCheck
  <2> QED
    BY <1>1, <2>1
    DEF SupervisionInv, Fields, ItemsSeen, ClosedSeen, SuccessSeen, MonitorSeen, Lasting
<1>3. CASE ~refused
  <2>1. AtCheck(observer.left) = observer.left + checking.elapsed
    BY DEF AtCheck
  <2>2. /\ checking.monitor - RenewBefore \in Int
        /\ observer.left + checking.elapsed - RenewBefore \in Int
        /\ Stale - checking.success \in Int /\ Longest \in Int
        /\ observer.left + checking.elapsed \in Int
    BY <1>1, LongestIsNumber, SecondsAreNumbers
  <2>3. /\ budget \in Int /\ budget <= checking.monitor - RenewBefore
        /\ budget <= observer.left + checking.elapsed - RenewBefore
        /\ budget <= Stale - checking.success
    <3> DEFINE left == observer.left + checking.elapsed
    <3>1. checking.monitor \in Int /\ checking.success \in Int /\ left \in Int
      BY <1>1, <2>2
    <3>2. budget = Budget(checking.monitor, left, checking.success)
      BY <2>1
    <3> HIDE DEF budget, left
    <3>3. /\ budget \in Int /\ budget <= checking.monitor - RenewBefore
          /\ budget <= left - RenewBefore /\ budget <= Stale - checking.success
      BY <3>1, <3>2, BudgetLeaves
    <3> QED BY <1>1, <3>3, SecondsAreNumbers DEF left
  <2>4. checking.success < Stale
    BY <1>1, <1>3, SecondsAreNumbers
  <2>5. observer.success <= checking.success + checking.elapsed
    BY <1>1, <2>4 DEF SupervisionInv, SuccessSeen
  <2> HIDE DEF budget
  <2>6. ~checking.changed =>
            /\ ~head.held
            /\ head.monitor >= RenewBefore + budget - checking.elapsed
    <3>1. ~checking.changed => ~head.held /\ head.monitor >= checking.monitor - checking.elapsed
      BY <1>1 DEF SupervisionInv, MonitorSeen
    <3> QED BY <1>1, <2>3, <3>1, SecondsAreNumbers
  <2>7. /\ observer.success + budget - checking.elapsed <= Stale
        /\ observer.left >= RenewBefore + budget - checking.elapsed
    BY <1>1, <2>3, <2>5, SecondsAreNumbers
  <2> QED BY <1>1, <1>3, <2>3, <2>6, <2>7, GrantHolds
<1> QED BY <1>2, <1>3

-----------------------------------------------------------------------------
(* Every step keeps SupervisionInv.                                        *)
LEMMA SupervisionNextHolds ==
    SupervisionInv /\ [SupervisionNext]_supervisionVars => SupervisionInv'
<1> SUFFICES ASSUME SupervisionInv, [SupervisionNext]_supervisionVars PROVE SupervisionInv'
  OBVIOUS
<1>1. CASE UNCHANGED supervisionVars
  BY <1>1
  DEF supervisionVars, SupervisionInv, Fields, ItemsSeen, ClosedSeen, SuccessSeen, MonitorSeen,
      Lasting
<1> QED
  BY <1>1, UpdateJobHolds, RecordResourcesHolds, ObserverHolds, SecondHolds, StartObserverHolds, BeginCheckHolds,
     ReadsHold, LoadJobHolds, ReadLifetimeHolds
  DEF SupervisionNext

(***************************************************************************)
(* Work that a check granted is covered to its end: by a monitor, an       *)
(* observer's lease and a success that last, with nothing left open        *)
(* (supervision.check).                                                    *)
(***************************************************************************)
THEOREM GrantedWorkIsCovered == SupervisionSpec => []WorkIsCovered
<1>1. SupervisionInv => WorkIsCovered
  <2> SUFFICES ASSUME SupervisionInv PROVE WorkIsCovered
    OBVIOUS
  <2>1. /\ checking.until \in Nat /\ head.monitor \in Int /\ observer.success \in Nat
        /\ observer.left \in Int
    BY DEF SupervisionInv, Fields, AnyCheck, AnyJob, AnyObserver
  <2> QED BY <2>1, SecondsAreNumbers DEF SupervisionInv, ItemsSeen, Lasting, WorkIsCovered
<1> QED BY <1>1, SupervisionInitHolds, SupervisionNextHolds, PTL DEF SupervisionSpec

-----------------------------------------------------------------------------
(***************************************************************************)
(* The numbers of a check stay in their ranges: what it has read of the    *)
(* monitor is at the time of the check, which is a while ago, and is still *)
(* no more than a monitor is leased for. SupervisionTypeOK is not          *)
(* inductive: Elapsing adds that the time since the check is counted from  *)
(* when it was taken, and that a job which has not changed since it was    *)
(* read is closed if it was, and its lease has run down meanwhile.         *)
(***************************************************************************)
Elapsing ==
    /\ checking.step \notin {"job", "lifetime"} => checking.elapsed = 0
    /\ checking.step \in {"items", "health", "time", "job"} /\ ~checking.changed =>
           checking.closed = head.closed
    /\ checking.step = "job" /\ ~checking.changed /\ ~checking.closed =>
           head.monitor + checking.elapsed <= Extent

TypeInv == SupervisionTypeOK /\ Elapsing

(* The ranges, and what ends a check.                                      *)
LEMMA RangesHold ==
    /\ Left \subseteq Int /\ Ages \subseteq Nat /\ 0 \in Left /\ 0 \in Ages /\ 0 \in 0..WorkSeconds
    /\ Extent \in Left /\ Stale \in Ages
    /\ NoCheck \in Checking /\ NoCheck.step = "idle" /\ NoCheck.elapsed = 0
    /\ [NoCheck EXCEPT !.step = "jobs"] \in Checking
<1>1. /\ Left \subseteq Int /\ Ages \subseteq Nat /\ 0 \in Left /\ 0 \in Ages /\ 0 \in 0..WorkSeconds
      /\ Extent \in Left /\ Stale \in Ages
  BY SecondsAreNumbers DEF Left, Ages
<1> QED BY <1>1 DEF NoCheck, Checking

(* Nothing is checked at first.                                            *)
LEMMA TypeInitHolds == SupervisionInit => TypeInv
<1> SUFFICES ASSUME SupervisionInit PROVE TypeInv
  OBVIOUS
<1>1. Stale + 1 \in Ages
  BY SecondsAreNumbers DEF Ages
<1>2. head \in JobHead /\ observer \in Observer
  BY <1>1, RangesHold DEF SupervisionInit, NewJob, JobHead, Observer
<1> QED BY <1>2, RangesHold DEF SupervisionInit, TypeInv, SupervisionTypeOK, Elapsing

(* The job changes, and a check that read it knows.                        *)
LEMMA UpdateJobTypes == TypeInv /\ UpdateJob => TypeInv'
<1> SUFFICES ASSUME TypeInv, UpdateJob PROVE TypeInv'
  OBVIOUS
<1> DEFINE c == checking.step \notin {"idle", "jobs"}
<1>1. /\ head \in JobHead /\ observer' \in Observer /\ checking \in Checking /\ c \in BOOLEAN
      /\ checking' = [checking EXCEPT !.changed = c]
  BY DEF TypeInv, SupervisionTypeOK, UpdateJob
<1>2. c <=> checking.step \notin {"idle", "jobs"}
  OBVIOUS
<1> HIDE DEF c
<1>3. head' \in JobHead
  <2>1. NewJob \in JobHead
    BY RangesHold DEF NewJob, JobHead
  <2>2. [NewJob EXCEPT !.closed = TRUE] \in JobHead
    BY <2>1 DEF JobHead
  <2>3. [head EXCEPT !.underway = TRUE] \in JobHead
    BY <1>1 DEF JobHead
  <2>4. \A left \in {0, Extent} : [head EXCEPT !.monitor = left] \in JobHead
    BY <1>1, RangesHold DEF JobHead
  <2>5. [head EXCEPT !.held = ~@] \in JobHead
    BY <1>1 DEF JobHead
  <2>6. FollowUp => head' \in JobHead
    BY <1>1, RangesHold DEF FollowUp, JobHead
  <2> QED BY <2>2, <2>3, <2>4, <2>5, <2>6 DEF UpdateJob
<1>4. /\ checking' \in Checking /\ checking'.step = checking.step
      /\ checking'.elapsed = checking.elapsed /\ checking'.changed = c
  BY <1>1 DEF Checking
<1>5. Elapsing'
  BY <1>2, <1>4 DEF TypeInv, Elapsing
<1> QED BY <1>1, <1>3, <1>4, <1>5 DEF TypeInv, SupervisionTypeOK

(* A recorded target leaves the monitor as it is.                          *)
LEMMA RecordResourcesTypes == TypeInv /\ RecordResources => TypeInv'
<1> SUFFICES ASSUME TypeInv, RecordResources PROVE TypeInv'
  OBVIOUS
<1>1. /\ head \in JobHead /\ head' = [head EXCEPT !.recorded = TRUE]
      /\ UNCHANGED <<observer, checking>>
  BY DEF RecordResources, TypeInv, SupervisionTypeOK
<1>2. head' \in JobHead /\ head'.closed = head.closed /\ head'.monitor = head.monitor
  BY <1>1 DEF JobHead
<1> QED BY <1>1, <1>2 DEF TypeInv, SupervisionTypeOK, Elapsing

(* The observer's steps leave the job and the check's reading alone.       *)
LEMMA ObserverTypes ==
    ASSUME TypeInv,
           \/ StartObserver \/ HandleItem
           \/ \E b \in BOOLEAN : LookAtTarget(b)
           \/ \E s \in {"stopped", "killed"} : EndObserver(s)
    PROVE  TypeInv'
<1>1. head \in JobHead /\ observer \in Observer /\ checking \in Checking
  BY DEF TypeInv, SupervisionTypeOK
<1>2. CASE StartObserver
  <2> DEFINE replaced == checking.step = "working"
             future == checking.elapsed > 0 /\ checking.step # "working"
  <2>1. /\ head' = head /\ observer' = [observer EXCEPT !.state = "running", !.left = Extent]
        /\ checking' = [checking EXCEPT !.replaced = replaced, !.future = future]
        /\ replaced \in BOOLEAN /\ future \in BOOLEAN
    BY <1>2 DEF StartObserver
  <2> HIDE DEF replaced, future
  <2>2. /\ checking' \in Checking /\ checking'.step = checking.step
        /\ checking'.elapsed = checking.elapsed /\ checking'.changed = checking.changed
        /\ checking'.closed = checking.closed
    BY <1>1, <2>1 DEF Checking
  <2>3. observer' \in Observer
    BY <1>1, <2>1, RangesHold DEF Observer
  <2> QED BY <1>1, <2>1, <2>2, <2>3 DEF TypeInv, SupervisionTypeOK, Elapsing
<1>3. ASSUME UNCHANGED <<head, checking>>, observer' \in Observer PROVE TypeInv'
  BY <1>1, <1>3 DEF TypeInv, SupervisionTypeOK, Elapsing
<1>4. ASSUME NEW b \in BOOLEAN, LookAtTarget(b) PROVE TypeInv'
  <2>1. PICK shown \in {observer.item, "new"} :
            observer' = [observer EXCEPT !.success = IF b THEN 0 ELSE @,
                                         !.failing = ~b, !.item = shown]
    BY <1>4 DEF LookAtTarget
  <2>2. shown \in {"none", "new", "old"} /\ (~b) \in BOOLEAN
    BY <1>1 DEF Observer
  <2>3. observer' \in Observer
    BY <1>1, <2>1, <2>2, RangesHold DEF Observer
  <2> QED BY <1>3, <1>4, <2>3 DEF LookAtTarget
<1>5. CASE (\E s \in {"stopped", "killed"} : EndObserver(s)) \/ HandleItem
  <2>1. observer' \in Observer
    BY <1>1, <1>5 DEF EndObserver, HandleItem, Observer
  <2> QED BY <1>3, <1>5, <2>1 DEF EndObserver, HandleItem
<1> QED BY <1>2, <1>4, <1>5

(* A lease runs down as the time since the check goes up.                  *)
LEMMA SecondTypes == TypeInv /\ SecondPasses => TypeInv'
<1> SUFFICES ASSUME TypeInv, SecondPasses PROVE TypeInv'
  OBVIOUS
<1> DEFINE older == [checking EXCEPT !.success = Older(checking.success)]
           later == [checking EXCEPT !.elapsed = checking.elapsed + 1]
           shorter == [checking EXCEPT !.until = checking.until - 1]
<1>1. head \in JobHead /\ observer \in Observer /\ checking \in Checking
  BY DEF TypeInv, SupervisionTypeOK
<1>2. /\ head.monitor \in Left /\ observer.left \in Left /\ observer.success \in Ages
      /\ checking.success \in Ages /\ checking.elapsed \in 0..WorkSeconds
      /\ checking.until \in 0..WorkSeconds
  BY <1>1 DEF JobHead, Observer, Checking
<1>3. ASSUME NEW left \in Left
      PROVE  Less(left) \in Left /\ (Less(left) = -WorkSeconds \/ Less(left) = left - 1)
  <2>1. /\ Less(left) \in {-WorkSeconds, left - 1}
        /\ Less(left) >= -WorkSeconds /\ Less(left) >= left - 1
    <3>1. -WorkSeconds \in Int /\ left - 1 \in Int
      BY SecondsAreNumbers, RangesHold
    <3> QED BY <3>1, MaxOfTwo DEF Less
  <2> QED BY <2>1, SecondsAreNumbers DEF Left
<1>4. ASSUME NEW age \in Ages PROVE Older(age) \in Ages
  <2>1. Older(age) \in {Stale + 1, age + 1} /\ Older(age) <= Stale + 1
    <3>1. Stale + 1 \in Int /\ age + 1 \in Int
      BY SecondsAreNumbers, RangesHold
    <3> QED BY <3>1, MinOfTwo DEF Older
  <2> QED BY <2>1, SecondsAreNumbers DEF Ages
<1>5. /\ head' \in JobHead /\ head'.closed = head.closed
      /\ ~head.closed => head'.monitor = Less(head.monitor)
  <2>1. head' = [head EXCEPT !.monitor = IF head.closed THEN @ ELSE Less(@)]
    BY DEF SecondPasses
  <2> QED BY <1>1, <1>2, <1>3, <2>1 DEF JobHead
<1>6. observer' \in Observer
  <2>1. observer' = [observer EXCEPT !.left = Less(observer.left), !.success = Older(observer.success)]
    BY <1>1 DEF SecondPasses, Observer
  <2>2. Less(observer.left) \in Left /\ Older(observer.success) \in Ages
    BY <1>2, <1>3, <1>4
  <2> QED BY <1>1, <2>1, <2>2 DEF Observer
<1>7. \/ checking.step = "time" /\ checking' = older
      \/ checking.step \in {"job", "lifetime"} /\ checking.elapsed < WorkSeconds /\ checking' = later
      \/ checking.step = "working" /\ checking.until > 0 /\ checking' = shorter
      \/ checking' = NoCheck
      \/ checking.step \notin {"time", "job", "lifetime", "working"} /\ checking' = checking
  BY <1>1 DEF SecondPasses, Checking
<1> HIDE DEF older, later, shorter
<1>8. CASE checking.step = "time" /\ checking' = older
  <2>1. /\ checking' \in Checking /\ checking'.step = "time"
        /\ checking'.elapsed = checking.elapsed /\ checking'.changed = checking.changed
        /\ checking'.closed = checking.closed
    BY <1>1, <1>2, <1>4, <1>8 DEF Checking, older
  <2> QED BY <1>5, <1>6, <1>8, <2>1 DEF TypeInv, SupervisionTypeOK, Elapsing
<1>9. CASE checking.step \in {"job", "lifetime"} /\ checking.elapsed < WorkSeconds /\ checking' = later
  <2>1. checking.elapsed + 1 \in 0..WorkSeconds
    BY <1>2, <1>9, SecondsAreNumbers
  <2>2. /\ checking' \in Checking /\ checking'.step = checking.step
        /\ checking'.elapsed = checking.elapsed + 1 /\ checking'.changed = checking.changed
        /\ checking'.closed = checking.closed
    BY <1>1, <1>9, <2>1 DEF Checking, later
  <2>3. ASSUME checking.step = "job", ~checking.changed, ~checking.closed
        PROVE  head'.monitor + (checking.elapsed + 1) <= Extent
    <3>1. ~head.closed /\ head.monitor + checking.elapsed <= Extent
      BY <1>1, <2>3 DEF TypeInv, Elapsing, JobHead, Checking
    <3>2. head'.monitor = -WorkSeconds \/ head'.monitor = head.monitor - 1
      BY <1>2, <1>3, <1>5, <3>1
    <3>3. head.monitor \in Int /\ checking.elapsed \in Nat
      BY <1>2, RangesHold
    <3> QED BY <1>9, <3>1, <3>2, <3>3, SecondsAreNumbers
  <2>4. Elapsing'
    BY <1>5, <1>9, <2>2, <2>3 DEF TypeInv, Elapsing
  <2> QED BY <1>5, <1>6, <2>2, <2>4 DEF TypeInv, SupervisionTypeOK
<1>10. CASE checking.step = "working" /\ checking.until > 0 /\ checking' = shorter
  <2>1. checking.until - 1 \in 0..WorkSeconds
    BY <1>2, <1>10, SecondsAreNumbers
  <2>2. /\ checking' \in Checking /\ checking'.step = "working"
        /\ checking'.elapsed = checking.elapsed
    BY <1>1, <1>10, <2>1 DEF Checking, shorter
  <2> QED BY <1>5, <1>6, <1>10, <2>2 DEF TypeInv, SupervisionTypeOK, Elapsing
<1>11. CASE checking' = NoCheck
  BY <1>5, <1>6, <1>11, RangesHold DEF TypeInv, SupervisionTypeOK, Elapsing
<1>12. CASE checking.step \notin {"time", "job", "lifetime", "working"} /\ checking' = checking
  BY <1>1, <1>5, <1>6, <1>12 DEF TypeInv, SupervisionTypeOK, Elapsing
<1> QED BY <1>7, <1>8, <1>9, <1>10, <1>11, <1>12

(* What is granted is a part of the longest work.                          *)
LEMMA GrantTypes ==
    ASSUME TypeInv, NEW budget \in Int, budget <= WorkSeconds
    PROVE  /\ Grant(budget) \in Checking /\ Grant(budget).elapsed = 0
           /\ Grant(budget).step \in {"idle", "working"}
<1>1. CASE checking.open \/ budget < checking.elapsed
  BY <1>1, RangesHold DEF Grant
<1>2. CASE ~(checking.open \/ budget < checking.elapsed)
  <2>1. checking \in Checking /\ checking.elapsed \in 0..WorkSeconds
    BY DEF TypeInv, SupervisionTypeOK, Checking
  <2>2. budget - checking.elapsed \in 0..WorkSeconds
    BY <1>2, <2>1, SecondsAreNumbers
  <2>3. Grant(budget) =
            [checking EXCEPT !.step = "working", !.until = budget - checking.elapsed,
                             !.elapsed = 0, !.success = 0, !.monitor = 0, !.future = FALSE]
    BY <1>2 DEF Grant
  <2> HIDE DEF Grant
  <2> QED BY <2>1, <2>2, <2>3, RangesHold DEF Checking
<1> QED BY <1>1, <1>2

(* A check reads what is in range.                                         *)
LEMMA CheckTypes ==
    ASSUME TypeInv,
           BeginCheck \/ InventoryJob \/ CountOpen \/ ReadHealth \/ TakeTime \/ LoadJob \/ ReadLifetime
    PROVE  TypeInv'
<1>1. /\ head \in JobHead /\ observer \in Observer /\ checking \in Checking
      /\ head.monitor \in Left /\ observer.left \in Left /\ observer.success \in Ages
      /\ checking.elapsed \in 0..WorkSeconds
  BY DEF TypeInv, SupervisionTypeOK, JobHead, Observer, Checking
<1>2. Longest \in Int /\ Longest <= WorkSeconds
  BY MinOfTwo, SecondsAreNumbers DEF Longest
<1>3. CASE BeginCheck
  <2>1. observer' \in Observer /\ head' = head
    BY <1>1, <1>3 DEF BeginCheck, Observer
  <2>2. checking' \in Checking /\ checking'.step = "jobs" /\ checking'.elapsed = 0
    BY <1>3, RangesHold DEF BeginCheck, NoCheck
  <2> QED BY <1>1, <2>1, <2>2 DEF TypeInv, SupervisionTypeOK, Elapsing
<1>4. ASSUME UNCHANGED <<head, observer>>, checking' \in Checking, Elapsing' PROVE TypeInv'
  BY <1>1, <1>4 DEF TypeInv, SupervisionTypeOK
<1>5. CASE InventoryJob
  <2>1. /\ UNCHANGED <<head, observer>> /\ checking.step = "jobs" /\ head.closed \in BOOLEAN
        /\ checking' = [checking EXCEPT !.step = "items", !.closed = head.closed]
    BY <1>1, <1>5 DEF InventoryJob, At, JobHead
  <2>2. /\ checking' \in Checking /\ checking'.step = "items"
        /\ checking'.elapsed = checking.elapsed /\ checking'.closed = head.closed
    BY <1>1, <2>1 DEF Checking
  <2>3. Elapsing'
    BY <2>1, <2>2 DEF TypeInv, Elapsing
  <2> QED BY <1>4, <2>1, <2>2, <2>3
<1>6. CASE CountOpen \/ ReadHealth \/ TakeTime
  <2>1. /\ UNCHANGED <<head, observer>> /\ checking' \in Checking
        /\ checking.step \in {"items", "health", "time"}
        /\ checking'.step \in {"health", "time", "job"}
        /\ checking'.elapsed = checking.elapsed /\ checking'.closed = checking.closed
        /\ checking'.changed = checking.changed
    <3>1. CASE CountOpen
      <4> DEFINE open == observer.item # "none"
      <4>1. /\ UNCHANGED <<head, observer>> /\ checking.step = "items" /\ open \in BOOLEAN
            /\ checking' = [checking EXCEPT !.step = "health", !.open = open]
        BY <3>1 DEF CountOpen, At
      <4> HIDE DEF open
      <4> QED BY <1>1, <4>1 DEF Checking
    <3>2. CASE ReadHealth
      <4> DEFINE success == IF observer.state # "running" \/ observer.failing THEN Stale
                              ELSE observer.success
      <4>1. /\ UNCHANGED <<head, observer>> /\ checking.step = "health"
            /\ checking' = [checking EXCEPT !.step = "time", !.success = success]
        BY <3>2 DEF ReadHealth, At
      <4>2. success \in Ages
        BY <1>1, RangesHold
      <4> HIDE DEF success
      <4> QED BY <1>1, <4>1, <4>2 DEF Checking
    <3>3. CASE TakeTime
      BY <1>1, <3>3 DEF TakeTime, At, Checking
    <3> QED BY <1>6, <3>1, <3>2, <3>3
  <2>2. checking.elapsed = 0 /\ head.monitor + 0 <= Extent
    BY <1>1, <2>1, SecondsAreNumbers DEF TypeInv, Elapsing, Left
  <2>3. Elapsing'
    BY <2>1, <2>2 DEF TypeInv, Elapsing
  <2> QED BY <1>4, <2>1, <2>3
<1>7. ASSUME UNCHANGED <<head, observer>>, checking' \in Checking, checking'.elapsed = 0,
             checking'.step \in {"idle", "working"}
      PROVE  TypeInv'
  BY <1>4, <1>7 DEF Elapsing
<1>8. CASE LoadJob
  <2> DEFINE lifetime == [checking EXCEPT !.step = "lifetime", !.monitor = AtCheck(head.monitor)]
  <2>1. UNCHANGED <<head, observer>> /\ checking.step = "job"
    BY <1>8 DEF LoadJob, At
  <2>2. \/ checking' = Grant(Longest) \/ checking' = NoCheck
        \/ /\ ~checking.closed /\ ~checking.changed /\ ~(AtCheck(head.monitor) <= RenewBefore)
           /\ checking' = lifetime
    BY <1>8 DEF LoadJob, At
  <2>3. CASE checking' = Grant(Longest)
    BY <1>2, <1>7, <2>1, <2>3, GrantTypes
  <2>4. CASE checking' = NoCheck
    BY <1>7, <2>1, <2>4, RangesHold
  <2>5. CASE /\ ~checking.closed /\ ~checking.changed /\ ~(AtCheck(head.monitor) <= RenewBefore)
             /\ checking' = lifetime
    <3>1. head.monitor + checking.elapsed <= Extent
      BY <2>1, <2>5 DEF TypeInv, Elapsing
    <3>2. AtCheck(head.monitor) \in Left
      BY <1>1, <2>5, <3>1, SecondsAreNumbers DEF AtCheck, Left
    <3>3. checking' \in Checking /\ checking'.step = "lifetime"
      BY <1>1, <2>5, <3>2 DEF Checking
    <3>4. Elapsing'
      BY <3>3 DEF Elapsing
    <3> QED BY <1>4, <2>1, <3>3, <3>4
  <2> QED BY <2>2, <2>3, <2>4, <2>5
<1>9. CASE ReadLifetime
  <2> DEFINE budget == Budget(checking.monitor, AtCheck(observer.left), checking.success)
  <2>1. /\ UNCHANGED <<head, observer>>
        /\ checking' = NoCheck \/ checking' = Grant(budget)
    BY <1>9 DEF ReadLifetime, At
  <2>2. budget \in Int /\ budget <= WorkSeconds
    <3>1. checking.monitor \in Int /\ checking.success \in Int /\ AtCheck(observer.left) \in Int
      <4>1. checking.monitor \in Left /\ checking.success \in Ages
        BY <1>1 DEF Checking
      <4> QED BY <1>1, <4>1, RangesHold DEF AtCheck
    <3>2. /\ checking.monitor - RenewBefore \in Int
          /\ AtCheck(observer.left) - RenewBefore \in Int
          /\ Stale - checking.success \in Int
      BY <3>1, SecondsAreNumbers
    <3>3. budget \in Int /\ budget <= Longest
      BY <1>2, <3>2, MinOfFour DEF Budget
    <3> QED BY <1>2, <3>3, SecondsAreNumbers
  <2> HIDE DEF budget
  <2>3. CASE checking' = NoCheck
    BY <1>7, <2>1, <2>3, RangesHold
  <2>4. CASE checking' = Grant(budget)
    BY <1>7, <2>1, <2>2, <2>4, GrantTypes
  <2> QED BY <2>1, <2>3, <2>4
<1> QED BY <1>3, <1>5, <1>6, <1>8, <1>9

(* Every number of a check stays in its range (coverage_for).              *)
LEMMA SupervisionTypes == SupervisionSpec => []SupervisionTypeOK
<1>1. TypeInv /\ [SupervisionNext]_supervisionVars => TypeInv'
  <2> SUFFICES ASSUME TypeInv, [SupervisionNext]_supervisionVars PROVE TypeInv'
    OBVIOUS
  <2>1. CASE UNCHANGED supervisionVars
    BY <2>1 DEF supervisionVars, TypeInv, SupervisionTypeOK, Elapsing
  <2> QED
    BY <2>1, UpdateJobTypes, RecordResourcesTypes, ObserverTypes, SecondTypes, CheckTypes
    DEF SupervisionNext
<1>2. TypeInv => SupervisionTypeOK
  BY DEF TypeInv
<1> QED BY <1>1, <1>2, TypeInitHolds, PTL DEF SupervisionSpec

-----------------------------------------------------------------------------
(***************************************************************************)
(* A consumer that has the cursor's token has the view the cursor says it  *)
(* has (RecoveryDelta), for any sets of consumers, rows, versions and      *)
(* filters and every page size. ViewIsDelivered is not inductive: it says  *)
(* nothing of a reply that is on its way. DeltaInv adds what a reader's    *)
(* view will be once it applies the recovery that it runs, or whose reply  *)
(* it awaits. The lock is not needed for it: the token alone keeps         *)
(* consumers apart.                                                        *)
(***************************************************************************)

(* The rows r will know when it has applied its recovery.                  *)
Applied(r) == [k \in Rows |->
    IF k \in call[r].page THEN call[r].found[k]
    ELSE IF call[r].reset THEN Absent ELSE view[r][k]]

(* A running recovery will save, and a reply with the cursor's token is of *)
(* one that saved, the view its reader comes to.                           *)
WillHold ==
    \A r \in Readers :
        /\ Runs(r) => call[r].new.delivered = Applied(r)
        /\ Awaits(r) /\ call[r].fresh => cursor.delivered = Applied(r)

(* As much of the type as the argument needs.                              *)
CursorShape ==
    /\ DOMAIN call = Readers /\ call = [r \in Readers |-> call[r]]
    /\ DOMAIN view = Readers /\ view = [r \in Readers |-> view[r]]
    /\ held \subseteq Readers
    /\ \A r \in Readers :
           /\ Runs(r) => /\ call[r] = [f \in DOMAIN call[r] |-> call[r][f]]
                         /\ {"step", "new", "reset", "page", "found"} \subseteq DOMAIN call[r]
           /\ Awaits(r) => /\ call[r] = [f \in DOMAIN call[r] |-> call[r][f]]
                           /\ {"step", "fresh", "reset", "page", "found"} \subseteq DOMAIN call[r]

DeltaInv == CursorShape /\ WillHold /\ ViewIsDelivered

(* Nothing is delivered and nobody has a token at first.                   *)
LEMMA DeltaInitHolds == DeltaInit => DeltaInv
BY DEF DeltaInit, DeltaInv, CursorShape, WillHold, ViewIsDelivered, Runs, Awaits

(* A recovery starts from the view its reader has, or anew (recover).      *)
LEMMA RecoverHolds ==
    ASSUME DeltaInv, NEW r \in Readers, NEW filter, NEW found, NEW files, NEW complete,
           Recover(r, filter, found, files, complete)
    PROVE  DeltaInv'
<1> DEFINE delivered == IF Resets(r, filter) THEN Empty ELSE cursor.delivered
           pending == IF Resets(r, filter) THEN <<>> ELSE cursor.pending
           queue == Queue(pending, Changed(delivered, found, complete))
           page == {queue[i] : i \in {j \in DOMAIN queue : j <= PageSize}}
           last == Len(queue) <= PageSize /\ complete
           step == IF ~Resets(r, filter) /\ cursor.cache = files THEN "cursor" ELSE "contents"
           saved == [k \in Rows |-> IF k \in page THEN found[k] ELSE delivered[k]]
           told == [k \in Rows |-> IF k \in page \/ last THEN found[k] ELSE Absent]
           new == [filter |-> filter, delivered |-> saved,
                   pending |-> SubSeq(queue, PageSize + 1, Len(queue)), cache |-> files]
           begun == [step |-> step, new |-> new, reset |-> Resets(r, filter), page |-> page,
                     last |-> last, found |-> told]
<1>1. /\ call' = [call EXCEPT ![r] = begun]
      /\ UNCHANGED <<contents, cursor, view, held>>
  BY DEF Recover
<1> HIDE DEF page, last, queue, pending
<1>2. /\ call'[r] = begun
      /\ \A s \in Readers \ {r} : call'[s] = call[s]
      /\ call' = [s \in Readers |-> call'[s]] /\ DOMAIN call' = Readers
  BY <1>1 DEF DeltaInv, CursorShape
<1>3. Applied(r)' = saved
  <2>1. CASE Resets(r, filter)
    BY <1>1, <1>2, <2>1 DEF Applied, Empty
  <2>2. CASE ~Resets(r, filter)
    <3>1. view[r] = cursor.delivered
      BY <2>2 DEF Resets, DeltaInv, ViewIsDelivered
    <3> QED
      BY <1>1, <1>2, <2>2, <3>1 DEF Applied
  <2> QED
    BY <2>1, <2>2
<1>4. begun.step \in {"cursor", "contents"} /\ begun.new.delivered = saved
  OBVIOUS
<1>5. begun = [f \in DOMAIN begun |-> begun[f]]
      /\ {"step", "new", "reset", "page", "found"} \subseteq DOMAIN begun
  OBVIOUS
<1> HIDE DEF begun, saved
<1>6. CursorShape'
  <2>1. begun.step # "reply"
    BY <1>4
  <2>2. ~Awaits(r)'
    BY <1>2, <2>1 DEF Awaits
  <2>3. ASSUME NEW s \in Readers \ {r}
        PROVE  Runs(s)' = Runs(s) /\ Awaits(s)' = Awaits(s) /\ call'[s] = call[s]
    BY <1>2 DEF Runs, Awaits
  <2>4. /\ call'[r] = [f \in DOMAIN call'[r] |-> call'[r][f]]
        /\ {"step", "new", "reset", "page", "found"} \subseteq DOMAIN call'[r]
    BY <1>2, <1>5
  <2>5. ASSUME NEW s \in Readers
        PROVE  /\ Runs(s)' => /\ call'[s] = [f \in DOMAIN call'[s] |-> call'[s][f]]
                               /\ {"step", "new", "reset", "page", "found"}
                                      \subseteq DOMAIN call'[s]
               /\ Awaits(s)' => /\ call'[s] = [f \in DOMAIN call'[s] |-> call'[s][f]]
                                 /\ {"step", "fresh", "reset", "page", "found"}
                                        \subseteq DOMAIN call'[s]
    <3>1. CASE s = r
      BY <2>2, <2>4, <3>1
    <3>2. CASE s # r
      BY <2>3, <3>2 DEF DeltaInv, CursorShape
    <3> QED
      BY <3>1, <3>2
  <2>6. /\ DOMAIN view' = Readers /\ view' = [s \in Readers |-> view'[s]]
        /\ held' \subseteq Readers
    BY <1>1 DEF DeltaInv, CursorShape
  <2> QED
    BY <1>2, <2>5, <2>6 DEF CursorShape
<1>7. WillHold'
  BY <1>1, <1>2, <1>3, <1>4 DEF DeltaInv, WillHold, Applied, Runs, Awaits
<1>8. ViewIsDelivered'
  BY <1>1 DEF DeltaInv, ViewIsDelivered
<1> QED
  BY <1>6, <1>7, <1>8 DEF DeltaInv

(* The first file says nothing of what was delivered (save_cursor).        *)
LEMMA SaveContentsHolds ==
    ASSUME DeltaInv, NEW r \in Readers, SaveContents(r)
    PROVE  DeltaInv'
<1>1. /\ call' = [call EXCEPT ![r].step = "cursor"]
      /\ UNCHANGED <<cursor, view, held>> /\ Runs(r)
  BY DEF SaveContents
<1>2. /\ \A s \in Readers \ {r} : call'[s] = call[s]
      /\ call' = [s \in Readers |-> call'[s]] /\ DOMAIN call' = Readers
      /\ call'[r] = [call[r] EXCEPT !.step = "cursor"]
  BY <1>1 DEF DeltaInv, CursorShape
<1>3. /\ call'[r].new = call[r].new /\ call'[r].page = call[r].page
      /\ call'[r].found = call[r].found /\ call'[r].reset = call[r].reset
      /\ call'[r].step = "cursor" /\ DOMAIN call'[r] = DOMAIN call[r]
      /\ call'[r] = [f \in DOMAIN call'[r] |-> call'[r][f]]
  BY <1>1, <1>2 DEF DeltaInv, CursorShape
<1>4. CursorShape'
  BY <1>1, <1>2, <1>3 DEF DeltaInv, CursorShape, Runs, Awaits
<1>5. WillHold'
  BY <1>1, <1>2, <1>3 DEF DeltaInv, WillHold, Applied, Runs, Awaits
<1>6. ViewIsDelivered'
  BY <1>1 DEF DeltaInv, ViewIsDelivered
<1> QED
  BY <1>4, <1>5, <1>6 DEF DeltaInv

(* The new cursor is what the reply is of, and no older token counts any   *)
(* more (save_cursor, recover).                                            *)
LEMMA SaveCursorHolds ==
    ASSUME DeltaInv, NEW r \in Readers, SaveCursor(r)
    PROVE  DeltaInv'
<1>1. /\ cursor' = call[r].new /\ held' = {} /\ view' = view /\ Runs(r)
      /\ DOMAIN call' = Readers /\ call' = [s \in Readers |-> call'[s]]
  BY DEF SaveCursor
<1>2. call'[r] = [step |-> "reply", fresh |-> TRUE, reset |-> call[r].reset,
                  page |-> call[r].page, found |-> call[r].found, last |-> call[r].last]
  BY DEF SaveCursor
<1>3. ASSUME NEW s \in Readers \ {r}
      PROVE  /\ Awaits(s) => call'[s] = [call[s] EXCEPT !.fresh = FALSE]
             /\ ~Awaits(s) => call'[s] = call[s]
  BY DEF SaveCursor
<1>4. ASSUME NEW s \in Readers \ {r}, Awaits(s)
      PROVE  /\ call'[s].step = "reply" /\ call'[s].fresh = FALSE
             /\ DOMAIN call'[s] = DOMAIN call[s]
             /\ call'[s] = [f \in DOMAIN call'[s] |-> call'[s][f]]
  BY <1>3, <1>4 DEF DeltaInv, CursorShape, Awaits
<1>5. CursorShape'
  BY <1>1, <1>2, <1>3, <1>4 DEF DeltaInv, CursorShape, Runs, Awaits
<1>6. WillHold'
  <2>1. Applied(r)' = Applied(r)
    BY <1>1, <1>2 DEF Applied
  <2>2. Awaits(r)' /\ ~Runs(r)' => cursor.delivered' = Applied(r)'
    BY <1>1, <2>1 DEF DeltaInv, WillHold
  <2>3. ASSUME NEW s \in Readers \ {r}, Runs(s)'
        PROVE  call'[s].new.delivered = Applied(s)'
    <3>1. ~Awaits(s)
      BY <1>4, <2>3 DEF Runs
    <3>2. call'[s] = call[s] /\ Runs(s)
      BY <1>3, <2>3, <3>1 DEF Runs
    <3>3. Applied(s)' = Applied(s)
      BY <1>1, <3>2 DEF Applied
    <3> QED
      BY <3>2, <3>3 DEF DeltaInv, WillHold
  <2>4. ASSUME NEW s \in Readers \ {r}, Awaits(s)', call'[s].fresh
        PROVE  FALSE
    BY <1>3, <1>4, <2>4 DEF Awaits
  <2>5. ~Runs(r)'
    BY <1>2 DEF Runs
  <2>6. ASSUME NEW s \in Readers
        PROVE  /\ Runs(s)' => call'[s].new.delivered = Applied(s)'
               /\ Awaits(s)' /\ call'[s].fresh => cursor'.delivered = Applied(s)'
    <3>1. CASE s = r
      BY <2>2, <2>5, <3>1
    <3>2. CASE s # r
      BY <2>3, <2>4, <3>2
    <3> QED
      BY <3>1, <3>2
  <2> QED
    BY <2>6 DEF WillHold
<1>7. ViewIsDelivered'
  BY <1>1 DEF ViewIsDelivered
<1> QED
  BY <1>5, <1>6, <1>7 DEF DeltaInv

(* The reply that carries the cursor's token makes the view what the       *)
(* cursor says; any other one takes the reader out.                        *)
LEMMA ApplyHolds ==
    ASSUME DeltaInv, NEW r \in Readers, Apply(r)
    PROVE  DeltaInv'
<1>1. /\ call' = [call EXCEPT ![r] = Absent] /\ UNCHANGED <<contents, cursor>>
      /\ view' = [view EXCEPT ![r] = Applied(r)] /\ Awaits(r)
      /\ held' = IF call[r].fresh THEN held \cup {r} ELSE held \ {r}
  BY DEF Apply, Applied
<1>2. /\ call'[r] = Absent /\ view'[r] = Applied(r)
      /\ \A s \in Readers \ {r} : call'[s] = call[s] /\ view'[s] = view[s]
      /\ call' = [s \in Readers |-> call'[s]] /\ DOMAIN call' = Readers
      /\ view' = [s \in Readers |-> view'[s]] /\ DOMAIN view' = Readers
  BY <1>1 DEF DeltaInv, CursorShape
<1>3. CursorShape'
  BY <1>1, <1>2 DEF DeltaInv, CursorShape, Runs, Awaits
<1>4. WillHold'
  BY <1>1, <1>2 DEF DeltaInv, WillHold, Applied, Runs, Awaits
<1>5. ViewIsDelivered'
  BY <1>1, <1>2 DEF DeltaInv, CursorShape, WillHold, ViewIsDelivered
<1> QED
  BY <1>3, <1>4, <1>5 DEF DeltaInv

(* A lost recovery or reply changes nothing that others rely on.           *)
LEMMA LoseHolds ==
    ASSUME DeltaInv, NEW r \in Readers, Lose(r)
    PROVE  DeltaInv'
<1>1. /\ call' = [call EXCEPT ![r] = Absent]
      /\ UNCHANGED <<contents, cursor, view, held>>
  BY DEF Lose
<1>2. /\ call'[r] = Absent
      /\ \A s \in Readers \ {r} : call'[s] = call[s]
      /\ call' = [s \in Readers |-> call'[s]] /\ DOMAIN call' = Readers
  BY <1>1 DEF DeltaInv, CursorShape
<1>3. CursorShape'
  BY <1>1, <1>2 DEF DeltaInv, CursorShape, Runs, Awaits
<1>4. WillHold'
  BY <1>1, <1>2 DEF DeltaInv, WillHold, Applied, Runs, Awaits
<1>5. ViewIsDelivered'
  BY <1>1 DEF DeltaInv, ViewIsDelivered
<1> QED
  BY <1>3, <1>4, <1>5 DEF DeltaInv

(* Every step keeps the invariant.                                         *)
LEMMA DeltaStepHolds == DeltaInv /\ [DeltaNext]_deltaVars => DeltaInv'
<1> SUFFICES ASSUME DeltaInv, [DeltaNext]_deltaVars PROVE DeltaInv'
  OBVIOUS
<1>1. CASE UNCHANGED deltaVars
  BY <1>1, SMTT(30) DEF deltaVars, DeltaInv, CursorShape, WillHold, ViewIsDelivered, Applied, Runs, Awaits
<1>2. ASSUME NEW r \in Readers, NEW filter \in Filters, NEW found \in Table,
             NEW files \in Files, NEW complete \in BOOLEAN,
             Recover(r, filter, found, files, complete)
      PROVE  DeltaInv'
  BY <1>2, RecoverHolds
<1>3. ASSUME NEW r \in Readers, SaveContents(r) PROVE DeltaInv'
  BY <1>3, SaveContentsHolds
<1>4. ASSUME NEW r \in Readers, SaveCursor(r) PROVE DeltaInv'
  BY <1>4, SaveCursorHolds
<1>5. ASSUME NEW r \in Readers, Apply(r) PROVE DeltaInv'
  BY <1>5, ApplyHolds
<1>6. ASSUME NEW r \in Readers, Lose(r) PROVE DeltaInv'
  BY <1>6, LoseHolds
<1> QED
  BY <1>1, <1>2, <1>3, <1>4, <1>5, <1>6 DEF DeltaNext

(* A consumer that has the cursor's token knows what the cursor says was   *)
(* delivered, whatever crashed, was lost or was read by others (recover):  *)
(* the differences it is sent next are differences from what it knows.     *)
THEOREM DeliveredIsKnown == DeltaSpec => []ViewIsDelivered
<1>1. DeltaInv => ViewIsDelivered
  BY DEF DeltaInv
<1> QED
  BY DeltaInitHolds, DeltaStepHolds, <1>1, PTL DEF DeltaSpec

-----------------------------------------------------------------------------
(***************************************************************************)
(* The last reply is all, and queued rows keep their turn (RecoveryDelta), *)
(* for finitely many numbered rows and pages of any size. Neither action   *)
(* property follows from DeltaInv: they depend on what the queue contains, *)
(* and on the cursor that a running recovery has read being still there    *)
(* when it saves. QueueInv adds, for a recovery that runs, that its queue  *)
(* has nothing twice and keeps the turns of the cursor's, and, for a reply *)
(* on its way, that its reader has no token of the cursor's. Here the lock *)
(* is needed. The lemmas before it are about queues as sequences.          *)
(***************************************************************************)

(* InOrder lists a finite set of numbers, each once and in their order:    *)
(* a number's place is how many are not above it.                          *)
LEMMA InOrderLists ==
    ASSUME NEW S \in SUBSET Nat, IsFiniteSet(S)
    PROVE  /\ InOrder(S) \in Seq(S) /\ InOrder(S) \in Seq(Nat)
           /\ Len(InOrder(S)) = Cardinality(S)
           /\ \A k \in S : \E n \in DOMAIN InOrder(S) : InOrder(S)[n] = k
           /\ \A m, n \in DOMAIN InOrder(S) : m < n => InOrder(S)[m] < InOrder(S)[n]
<1> DEFINE N == Cardinality(S)
           upto(k) == {l \in S : l <= k}
           place == [k \in S |-> Cardinality(upto(k))]
<1>1. N \in Nat /\ IsFiniteSet(1..N) /\ Cardinality(1..N) = N
  <2>1. N \in Nat
    BY FS_CardinalityType
  <2>2. QED
    BY <2>1, FS_Interval
<1>2. ASSUME NEW k \in S
      PROVE  IsFiniteSet(upto(k)) /\ Cardinality(upto(k)) \in 1..N
  <2>1. IsFiniteSet(upto(k)) /\ Cardinality(upto(k)) <= N
    BY FS_Subset
  <2>2. k \in upto(k)
    OBVIOUS
  <2>3. Cardinality(upto(k)) \in Nat /\ Cardinality(upto(k)) # 0
    BY <2>1, <2>2, FS_CardinalityType, FS_EmptySet
  <2>4. QED
    BY <1>1, <2>1, <2>3
<1>3. ASSUME NEW k \in S, NEW l \in S, k < l
      PROVE  place[k] < place[l]
  <2>1. upto(k) \subseteq upto(l) /\ l \in upto(l) /\ l \notin upto(k)
    <3>1. k \in Nat /\ l \in Nat /\ \A m \in S : m \in Nat
      OBVIOUS
    <3>2. \A m \in S : m <= k => m <= l
      BY <1>3, <3>1
    <3>3. upto(k) \subseteq upto(l)
      BY <3>2
    <3>4. l <= l /\ ~ (l <= k)
      BY <1>3, <3>1
    <3>5. QED
      BY <3>3, <3>4
  <2>2. Cardinality(upto(k)) <= Cardinality(upto(l)) /\ Cardinality(upto(k)) # Cardinality(upto(l))
    BY <1>2, <2>1, FS_Subset
  <2>3. QED
    BY <1>2, <2>2
<1>4. place \in Injection(S, 1..N)
  <2>1. place \in [S -> 1..N]
    BY <1>2
  <2>2. ASSUME NEW k \in S, NEW l \in S, place[k] = place[l]
        PROVE  k = l
    <3>1. place[k] \in Nat /\ place[l] \in Nat
      BY <1>1, <2>1
    <3>2. ~ (k < l) /\ ~ (l < k)
      BY <1>3, <2>2, <3>1
    <3>3. QED
      BY <3>2
  <2>3. QED
    BY <2>1, <2>2 DEF Injection, IsInjective
<1>5. place \in Surjection(S, 1..N)
  BY <1>1, <1>4, FS_Injection
<1>6. ASSUME NEW n \in 1..N
      PROVE  InOrder(S)[n] \in S /\ place[InOrder(S)[n]] = n
  <2>1. PICK k \in S : place[k] = n
    BY <1>5 DEF Surjection
  <2>2. InOrder(S)[n] = CHOOSE l \in S : Cardinality(upto(l)) = n
    BY DEF InOrder
  <2>3. QED
    BY <2>1, <2>2
<1>7. DOMAIN InOrder(S) = 1..N /\ InOrder(S) \in [1..N -> S]
  <2>1. InOrder(S) = [n \in 1..N |-> CHOOSE l \in S : Cardinality(upto(l)) = n]
    BY DEF InOrder
  <2>2. QED
    BY <1>6, <2>1
<1>8. InOrder(S) \in Seq(S) /\ InOrder(S) \in Seq(Nat) /\ Len(InOrder(S)) = N
  <2> HIDE DEF N
  <2>1. InOrder(S) \in [1..N -> S] /\ InOrder(S) \in [1..N -> Nat]
    BY <1>7
  <2>2. QED
    BY <1>1, <2>1, SeqDef, LenProperties
<1>9. ASSUME NEW k \in S PROVE \E n \in DOMAIN InOrder(S) : InOrder(S)[n] = k
  <2>1. place[k] \in 1..N
    BY <1>4 DEF Injection
  <2>2. InOrder(S)[place[k]] \in S /\ place[InOrder(S)[place[k]]] = place[k]
    BY <1>6, <2>1
  <2>3. InOrder(S)[place[k]] = k
    BY <1>4, <2>2 DEF Injection, IsInjective
  <2>4. QED
    BY <1>7, <2>1, <2>3
<1>10. ASSUME NEW m \in DOMAIN InOrder(S), NEW n \in DOMAIN InOrder(S), m < n
       PROVE  InOrder(S)[m] < InOrder(S)[n]
  <2> DEFINE a == InOrder(S)[m]
             b == InOrder(S)[n]
  <2>1. a \in S /\ place[a] = m /\ b \in S /\ place[b] = n
    BY <1>6, <1>7
  <2>2. m \in Nat /\ n \in Nat /\ a \in Nat /\ b \in Nat
    <3> HIDE DEF a, b, N
    <3>1. m \in Nat /\ n \in Nat
      BY <1>1, <1>7
    <3>2. QED
      BY <2>1, <3>1
  <2>3. b < a => n < m
    BY <1>3, <2>1
  <2> HIDE DEF a, b, place
  <2>4. a # b
    BY <1>10, <2>1, <2>2
  <2>5. a < b
    BY <1>10, <2>2, <2>3, <2>4
  <2>6. QED
    BY <2>5 DEF a, b
<1>11. QED
  BY <1>8, <1>9, <1>10

(* The queue is what has changed, each row once; a row that waited follows *)
(* only rows that it followed while it waited.                             *)
LEMMA QueueKeepsTurn ==
    ASSUME DeltaAssumption, NEW pending \in Seq(Rows), IsInjective(pending),
           NEW changed \in SUBSET Rows
    PROVE  LET q == Queue(pending, changed) IN
           /\ q \in Seq(Rows) /\ IsInjective(q) /\ ToSet(q) = changed
           /\ \A i, j \in DOMAIN q : i < j /\ q[j] \in ToSet(pending) =>
                  \E a, b \in DOMAIN pending : a < b /\ pending[a] = q[i] /\ pending[b] = q[j]
<1> DEFINE places == {i \in DOMAIN pending : pending[i] \in changed}
           kept == InOrder(places)
           fresh == changed \ ToSet(pending)
           u == [n \in DOMAIN kept |-> pending[kept[n]]]
           v == InOrder(fresh)
           q == Queue(pending, changed)
<1>1. q = u \o v
  BY DEF Queue
<1>2. /\ DOMAIN pending = 1..Len(pending) /\ Len(pending) \in Nat
      /\ \A i \in DOMAIN pending : pending[i] \in Rows
      /\ \A k : k \in ToSet(pending) <=> \E i \in DOMAIN pending : pending[i] = k
  BY DEF ToSet
<1>3. places \in SUBSET Nat /\ IsFiniteSet(places)
  <2>1. IsFiniteSet(1..Len(pending))
    BY <1>2, FS_Interval
  <2>2. places \subseteq 1..Len(pending) /\ 1..Len(pending) \subseteq Nat
    BY <1>2
  <2>3. QED
    BY <2>1, <2>2, FS_Subset
<1>4. fresh \in SUBSET Nat /\ IsFiniteSet(fresh)
  BY DeltaAssumption, FS_Subset DEF DeltaAssumption
<1> HIDE DEF places, fresh
<1>5. /\ kept \in Seq(places) /\ Len(kept) \in Nat /\ DOMAIN kept = 1..Len(kept)
      /\ \A i \in places : \E n \in DOMAIN kept : kept[n] = i
      /\ \A m, n \in DOMAIN kept : m < n => kept[m] < kept[n]
      /\ \A n \in DOMAIN kept : kept[n] \in places
  BY <1>3, InOrderLists
<1>6. /\ v \in Seq(fresh) /\ Len(v) \in Nat /\ DOMAIN v = 1..Len(v)
      /\ \A k \in fresh : \E n \in DOMAIN v : v[n] = k
      /\ \A m, n \in DOMAIN v : m < n => v[m] < v[n]
      /\ \A n \in DOMAIN v : v[n] \in fresh
  BY <1>4, InOrderLists
<1> HIDE DEF kept, v, q
<1>7. /\ u \in Seq(Rows) /\ Len(u) = Len(kept) /\ DOMAIN u = 1..Len(kept)
      /\ \A n \in DOMAIN kept : u[n] = pending[kept[n]] /\ u[n] \in changed /\ u[n] \in ToSet(pending)
  <2>1. \A n \in DOMAIN kept : /\ kept[n] \in DOMAIN pending
                               /\ pending[kept[n]] \in changed /\ pending[kept[n]] \in Rows
    BY <1>2, <1>5 DEF places
  <2>2. u \in [1..Len(kept) -> Rows]
    BY <1>5, <2>1
  <2>3. QED
    BY <1>2, <1>5, <2>1, <2>2
<1> HIDE DEF u
<1>8. v \in Seq(Rows)
  <2>1. fresh \subseteq Rows
    BY DEF fresh
  <2>2. QED
    BY <1>6, <2>1, SeqMonotonic
<1>9. /\ q \in Seq(Rows) /\ Len(q) = Len(u) + Len(v) /\ DOMAIN q = 1..Len(q)
      /\ \A i \in 1..Len(u) : q[i] = u[i]
      /\ \A i \in 1..Len(v) : q[Len(u) + i] = v[i]
  <2>1. u \o v \in Seq(Rows) /\ Len(u \o v) = Len(u) + Len(v)
    BY <1>7, <1>8, ConcatProperties
  <2>2. \A i \in 1..Len(u) + Len(v) :
            (u \o v)[i] = IF i <= Len(u) THEN u[i] ELSE v[i - Len(u)]
    BY <1>7, <1>8, ConcatProperties
  <2>3. Len(u) \in Nat /\ Len(v) \in Nat
    BY <1>5, <1>6, <1>7
  <2>4. \A i \in 1..Len(v) : Len(u) + i \in 1..Len(u) + Len(v) /\ ~ (Len(u) + i <= Len(u))
                              /\ (Len(u) + i) - Len(u) = i
    BY <2>3
  <2>5. QED
    BY <1>1, <2>1, <2>2, <2>3, <2>4, LenProperties
<1>10. ASSUME NEW i \in DOMAIN q
       PROVE  \/ /\ i \in 1..Len(u) /\ i \in DOMAIN kept /\ q[i] = u[i]
                 /\ q[i] = pending[kept[i]] /\ q[i] \in changed /\ q[i] \in ToSet(pending)
              \/ /\ i > Len(u) /\ i - Len(u) \in DOMAIN v /\ q[i] = v[i - Len(u)]
                 /\ q[i] \in changed /\ q[i] \notin ToSet(pending)
  <2>1. CASE i <= Len(u)
    BY <1>5, <1>7, <1>9, <2>1
  <2>2. CASE i > Len(u)
    <3>1. i - Len(u) \in 1..Len(v) /\ i = Len(u) + (i - Len(u))
      BY <1>6, <1>7, <1>9, <2>2
    <3>2. q[i] = v[i - Len(u)] /\ q[i] \in fresh
      BY <1>6, <1>9, <3>1
    <3>3. QED
      BY <1>6, <2>2, <3>1, <3>2 DEF fresh
  <2>3. QED
    BY <1>5, <1>7, <1>9, <2>1, <2>2
<1>11. ASSUME NEW i \in DOMAIN q, NEW j \in DOMAIN q, i < j, q[j] \in ToSet(pending)
       PROVE  \E a, b \in DOMAIN pending : a < b /\ pending[a] = q[i] /\ pending[b] = q[j]
  <2>1. j \in DOMAIN kept /\ q[j] = pending[kept[j]] /\ j \in 1..Len(u)
    BY <1>10, <1>11
  <2>2. i \in 1..Len(u)
    BY <1>7, <1>9, <1>11, <2>1
  <2>3. i \in DOMAIN kept /\ q[i] = pending[kept[i]]
    BY <1>5, <1>7, <1>9, <2>2
  <2>4. kept[i] < kept[j] /\ kept[i] \in DOMAIN pending /\ kept[j] \in DOMAIN pending
    BY <1>5, <1>11, <2>1, <2>3 DEF places
  <2>5. QED
    BY <2>1, <2>3, <2>4
<1>12. ASSUME NEW i \in DOMAIN q, NEW j \in DOMAIN q, i < j
       PROVE  q[i] # q[j]
  <2>1. CASE q[j] \in ToSet(pending)
    <3>1. PICK a \in DOMAIN pending, b \in DOMAIN pending :
              a < b /\ pending[a] = q[i] /\ pending[b] = q[j]
      BY <1>11, <1>12, <2>1
    <3>2. a # b
      BY <1>2, <3>1
    <3>3. QED
      BY <3>1, <3>2 DEF IsInjective
  <2>2. CASE q[j] \notin ToSet(pending) /\ q[i] \in ToSet(pending)
    BY <2>2
  <2>3. CASE q[j] \notin ToSet(pending) /\ q[i] \notin ToSet(pending)
    <3>1. /\ i - Len(u) \in DOMAIN v /\ q[i] = v[i - Len(u)]
          /\ j - Len(u) \in DOMAIN v /\ q[j] = v[j - Len(u)]
      BY <1>10, <2>3
    <3>2. i - Len(u) < j - Len(u)
      BY <1>7, <1>9, <1>12, <1>5
    <3>3. v[i - Len(u)] < v[j - Len(u)]
      BY <1>6, <3>1, <3>2
    <3>4. v[i - Len(u)] \in Nat /\ v[j - Len(u)] \in Nat
      BY <1>4, <1>6, <3>1
    <3>5. QED
      BY <3>1, <3>3, <3>4
  <2>4. QED
    BY <2>1, <2>2, <2>3
<1>13. IsInjective(q)
  <2>1. ASSUME NEW i \in DOMAIN q, NEW j \in DOMAIN q, q[i] = q[j]
        PROVE  i = j
    <3>1. i \in Nat /\ j \in Nat
      BY <1>9
    <3>2. ~ (i < j) /\ ~ (j < i)
      BY <1>12, <2>1
    <3>3. QED
      BY <3>1, <3>2
  <2>2. QED
    BY <2>1 DEF IsInjective
<1>14. ToSet(q) = changed
  <2>1. \A i \in DOMAIN q : q[i] \in changed
    BY <1>10
  <2>2. ASSUME NEW k \in changed PROVE \E i \in DOMAIN q : q[i] = k
    <3>1. CASE k \in ToSet(pending)
      <4>1. PICK i \in DOMAIN pending : pending[i] = k
        BY <1>2, <3>1
      <4>2. PICK n \in DOMAIN kept : kept[n] = i
        BY <1>5, <4>1 DEF places
      <4>3. n \in 1..Len(u) /\ n \in DOMAIN q /\ u[n] = k
        BY <1>5, <1>6, <1>7, <1>9, <4>1, <4>2
      <4>4. QED
        BY <1>9, <4>3
    <3>2. CASE k \notin ToSet(pending)
      <4>1. PICK n \in DOMAIN v : v[n] = k
        BY <1>6, <3>2 DEF fresh
      <4>2. Len(u) + n \in DOMAIN q /\ q[Len(u) + n] = k
        <5>1. n \in 1..Len(v) /\ n \in Nat
          BY <1>6, <4>1
        <5>2. Len(u) + n \in 1..Len(q)
          BY <1>5, <1>6, <1>7, <1>9, <5>1
        <5>3. QED
          BY <1>9, <4>1, <5>1, <5>2
      <4>3. QED
        BY <4>2
    <3>3. QED
      BY <3>1, <3>2
  <2>3. QED
    BY <2>1, <2>2 DEF ToSet
<1>15. QED
  BY <1>9, <1>11, <1>13, <1>14 DEF q

(* What a page leaves keeps its turn, if a page has room for a row.        *)
LEMMA RestKeeps ==
    ASSUME DeltaAssumption, NEW pending \in Seq(Rows), IsInjective(pending),
           NEW changed \in SUBSET Rows
    PROVE  LET q == Queue(pending, changed)
               rest == SubSeq(q, PageSize + 1, Len(q))
           IN  rest \in Seq(Rows) /\ IsInjective(rest) /\ Keeps(pending, rest)
<1> DEFINE q == Queue(pending, changed)
           rest == SubSeq(q, PageSize + 1, Len(q))
<1>1. /\ q \in Seq(Rows) /\ IsInjective(q) /\ DOMAIN q = 1..Len(q) /\ Len(q) \in Nat
      /\ \A i, j \in DOMAIN q : i < j /\ q[j] \in ToSet(pending) =>
             \E a, b \in DOMAIN pending : a < b /\ pending[a] = q[i] /\ pending[b] = q[j]
  <2>1. q \in Seq(Rows) /\ IsInjective(q)
        /\ \A i, j \in DOMAIN q : i < j /\ q[j] \in ToSet(pending) =>
             \E a, b \in DOMAIN pending : a < b /\ pending[a] = q[i] /\ pending[b] = q[j]
    BY QueueKeepsTurn
  <2>2. QED
    BY <2>1, LenProperties
<1>2. PageSize \in Nat /\ PageSize >= 1
  BY DEF DeltaAssumption
<1>3. DOMAIN pending = 1..Len(pending) /\ Len(pending) \in Nat
  BY LenProperties
<1> HIDE DEF q
<1>4. /\ rest \in Seq(Rows) /\ DOMAIN rest = 1..Len(rest) /\ Len(rest) \in Nat
      /\ \A i \in DOMAIN rest : /\ i \in Nat /\ i > 0
                                /\ PageSize + i \in DOMAIN q /\ rest[i] = q[PageSize + i]
  <2>1. \A i \in (PageSize + 1)..Len(q) : q[i] \in Rows
    BY <1>1, <1>2, ElementOfSeq
  <2>2. /\ rest \in Seq(Rows)
        /\ Len(rest) = IF PageSize + 1 <= Len(q) THEN Len(q) - (PageSize + 1) + 1 ELSE 0
        /\ \A i \in 1..(Len(q) - (PageSize + 1) + 1) : rest[i] = q[(PageSize + 1) + i - 1]
    BY <1>1, <1>2, <2>1, SubSeqProperties
  <2> HIDE DEF rest
  <2>3. DOMAIN rest = 1..Len(rest) /\ Len(rest) \in Nat
    BY <2>2, LenProperties
  <2>4. ASSUME NEW i \in DOMAIN rest
        PROVE  /\ i \in Nat /\ i > 0
               /\ PageSize + i \in DOMAIN q /\ rest[i] = q[PageSize + i]
    <3>1. i \in 1..Len(rest) /\ Len(rest) = Len(q) - PageSize
      <4>1. i \in 1..Len(rest) /\ Len(rest) # 0
        BY <2>3, <2>4
      <4>2. PageSize + 1 <= Len(q) => Len(q) - (PageSize + 1) + 1 = Len(q) - PageSize
        BY <1>1, <1>2
      <4>3. QED
        BY <2>2, <4>1, <4>2
    <3>2. i \in 1..(Len(q) - (PageSize + 1) + 1) /\ (PageSize + 1) + i - 1 = PageSize + i
      BY <1>1, <1>2, <3>1
    <3>3. rest[i] = q[PageSize + i]
      BY <2>2, <3>2
    <3>4. QED
      BY <1>1, <1>2, <3>1, <3>3
  <2>5. QED
    BY <2>2, <2>3, <2>4
<1> HIDE DEF rest
<1>5. IsInjective(rest)
  <2>1. ASSUME NEW i \in DOMAIN rest, NEW j \in DOMAIN rest, rest[i] = rest[j]
        PROVE  i = j
    <3>1. PageSize + i = PageSize + j
      BY <1>1, <1>4, <2>1 DEF IsInjective
    <3>2. QED
      BY <1>2, <1>4, <3>1
  <2>2. QED
    BY <2>1 DEF IsInjective
<1>6. ASSUME NEW k \in ToSet(pending) \cap ToSet(rest)
      PROVE  k # Head(pending) /\ Before(rest, k) \subseteq Before(pending, k)
  <2>1. PICK l \in DOMAIN rest : rest[l] = k
    BY DEF ToSet
  <2>2. PageSize + l \in DOMAIN q /\ q[PageSize + l] = k /\ l \in Nat
    BY <1>4, <2>1
  <2>3. 1 \in DOMAIN q /\ 1 < PageSize + l
    BY <1>1, <1>2, <1>4, <2>1, <2>2
  <2>4. PICK a \in DOMAIN pending, b \in DOMAIN pending : a < b /\ pending[b] = k
    BY <1>1, <2>2, <2>3
  <2>5. k # Head(pending)
    <3>1. b # 1 /\ 1 \in DOMAIN pending /\ pending # <<>>
      BY <1>3, <2>4
    <3>2. Head(pending) = pending[1]
      BY <3>1
    <3>3. QED
      BY <2>4, <3>1, <3>2 DEF IsInjective
  <2>6. ASSUME NEW x \in Before(rest, k) PROVE x \in Before(pending, k)
    <3>1. PICK i \in DOMAIN rest, m \in DOMAIN rest : x = rest[i] /\ i < m /\ rest[m] = k
      BY <2>6 DEF Before
    <3>2. /\ PageSize + i \in DOMAIN q /\ q[PageSize + i] = x
          /\ PageSize + m \in DOMAIN q /\ q[PageSize + m] = k /\ i \in Nat /\ m \in Nat
      BY <1>4, <3>1
    <3>3. PageSize + i < PageSize + m
      BY <1>2, <3>1, <3>2
    <3>4. PICK c \in DOMAIN pending, d \in DOMAIN pending :
              c < d /\ pending[c] = x /\ pending[d] = k
      BY <1>1, <3>2, <3>3
    <3>5. QED
      BY <3>4 DEF Before
  <2>7. QED
    BY <2>5, <2>6
<1>7. QED
  BY <1>4, <1>5, <1>6 DEF Keeps, rest, q

-----------------------------------------------------------------------------
(* What a recovery that runs, and a reply on its way, have established.    *)
Promised(r) ==
    /\ Runs(r) => /\ IsInjective(call[r].new.pending)
                  /\ call[r].last => call[r].new.delivered = call[r].found
                  /\ ~call[r].reset =>
                         cursor # Absent /\ Keeps(cursor.pending, call[r].new.pending)
    /\ Awaits(r) => r \notin held /\ (call[r].last => Applied(r) = call[r].found)

QueueInv ==
    /\ DeltaTypeOK
    /\ cursor # Absent => IsInjective(cursor.pending)
    /\ \A r \in Readers : Promised(r)

(* At first there is no cursor and no recovery.                            *)
LEMMA QueueInitHolds == DeltaInit => QueueInv
BY DEF DeltaInit, QueueInv, DeltaTypeOK, Promised, Runs, Awaits, Table, Empty

(* A recovery queues what changed: what it leaves keeps its turn, and if   *)
(* it leaves nothing and could read all, it delivers what it found.        *)
LEMMA RecoverQueues ==
    ASSUME DeltaAssumption, QueueInv, NEW r \in Readers, NEW filter \in Filters,
           NEW found \in Table, NEW files \in Files, NEW complete \in BOOLEAN,
           Recover(r, filter, found, files, complete)
    PROVE  QueueInv'
<1> DEFINE reset == Resets(r, filter)
           delivered == IF reset THEN Empty ELSE cursor.delivered
           pending == IF reset THEN <<>> ELSE cursor.pending
           changed == Changed(delivered, found, complete)
           queue == Queue(pending, changed)
           page == {queue[i] : i \in {j \in DOMAIN queue : j <= PageSize}}
           last == Len(queue) <= PageSize /\ complete
           step == IF ~reset /\ cursor.cache = files THEN "cursor" ELSE "contents"
           saved == [k \in Rows |-> IF k \in page THEN found[k] ELSE delivered[k]]
           told == [k \in Rows |-> IF k \in page \/ last THEN found[k] ELSE Absent]
           rest == SubSeq(queue, PageSize + 1, Len(queue))
           new == [filter |-> filter, delivered |-> saved, pending |-> rest, cache |-> files]
           begun == [step |-> step, new |-> new, reset |-> reset, page |-> page,
                     last |-> last, found |-> told]
<1>1. /\ call' = [call EXCEPT ![r] = begun] /\ call[r] = Absent /\ LockFree
      /\ UNCHANGED <<contents, cursor, view, held>>
  BY DEF Recover
<1>2. reset \in BOOLEAN /\ (~reset => cursor # Absent /\ cursor \in Cursor /\ IsInjective(cursor.pending))
  BY DEF Resets, Usable, QueueInv, DeltaTypeOK
<1>3. delivered \in Table /\ pending \in Seq(Rows) /\ IsInjective(pending)
  <2>1. Empty \in Table /\ <<>> \in Seq(Rows) /\ IsInjective(<<>>)
    BY DEF Empty, Table, IsInjective
  <2>2. QED
    BY <1>2, <2>1 DEF Cursor
<1>4. changed \in SUBSET Rows
  BY DEF Changed
<1> HIDE DEF reset, delivered, pending, changed
<1>5. /\ queue \in Seq(Rows) /\ ToSet(queue) = changed
      /\ rest \in Seq(Rows) /\ IsInjective(rest) /\ Keeps(pending, rest)
  BY <1>3, <1>4, QueueKeepsTurn, RestKeeps
<1>6. DOMAIN queue = 1..Len(queue) /\ Len(queue) \in Nat /\ page \subseteq Rows
  BY <1>5, LenProperties
<1>7. last => saved = told
  <2>1. SUFFICES ASSUME last, NEW k \in Rows, k \notin page PROVE delivered[k] = found[k]
    OBVIOUS
  <2>2. k \notin ToSet(queue)
    BY <1>6, <2>1 DEF ToSet
  <2>3. QED
    BY <1>5, <2>1, <2>2 DEF changed, Changed
<1>8. saved \in Table /\ told \in Table /\ last \in BOOLEAN /\ step \in {"contents", "cursor"}
  BY <1>3, <1>6 DEF Table
<1>9. new \in Cursor
  BY <1>5, <1>8 DEF Cursor
<1>10. begun \in Running
  BY <1>2, <1>6, <1>8, <1>9 DEF Running
<1>11. /\ begun.new.pending = rest /\ begun.last = last /\ begun.new.delivered = saved
       /\ begun.found = told /\ begun.reset = reset /\ begun.step # "reply"
  BY <1>8
<1> HIDE DEF begun, new, saved, told, last, step, rest, page, queue
<1>12. /\ call \in [Readers -> Running \cup Reply \cup {Absent}]
       /\ call'[r] = begun /\ \A s \in Readers \ {r} : call'[s] = call[s]
       /\ call' \in [Readers -> Running \cup Reply \cup {Absent}]
  BY <1>1, <1>10 DEF QueueInv, DeltaTypeOK
<1>13. ~ Awaits(r)' /\ \A s \in Readers \ {r} : Runs(s)' = Runs(s) /\ Awaits(s)' = Awaits(s)
  BY <1>11, <1>12 DEF Runs, Awaits
<1>14. \A s \in Readers : ~ Runs(s)
  BY <1>1 DEF LockFree
<1>15. DeltaTypeOK'
  <2>1. \A s, t \in Readers : s # t => ~(Runs(s)' /\ Runs(t)')
    BY <1>13, <1>14
  <2>2. held' \cup {t \in Readers : Awaits(t)' /\ call'[t].fresh}
          \subseteq held \cup {t \in Readers : Awaits(t) /\ call[t].fresh}
    BY <1>1, <1>12, <1>13
  <2>3. \A s, t \in held' \cup {u \in Readers : Awaits(u)' /\ call'[u].fresh} : s = t
    BY <2>2 DEF QueueInv, DeltaTypeOK
  <2>4. QED
    BY <1>1, <1>12, <2>1, <2>3 DEF QueueInv, DeltaTypeOK
<1>16. ASSUME NEW s \in Readers PROVE Promised(s)'
  <2>1. CASE s = r
    <3>1. ~reset => pending = cursor.pending
      BY DEF pending
    <3>2. QED
      BY <1>1, <1>2, <1>5, <1>7, <1>11, <1>12, <1>13, <2>1, <3>1 DEF Promised
  <2>2. CASE s # r
    <3>1. Applied(s)' = Applied(s)
      BY <1>1, <1>12, <2>2 DEF Applied
    <3>2. ~ Runs(s)'
      BY <1>13, <1>14, <2>2
    <3>3. QED
      BY <1>1, <1>12, <1>13, <2>2, <3>1, <3>2 DEF Promised, QueueInv
  <2>3. QED
    BY <2>1, <2>2
<1>17. QED
  BY <1>1, <1>15, <1>16 DEF QueueInv

(* The first file says nothing of rows (save_cursor).                      *)
LEMMA SaveContentsQueues ==
    ASSUME QueueInv, NEW r \in Readers, SaveContents(r)
    PROVE  QueueInv'
<1>1. /\ call' = [call EXCEPT ![r].step = "cursor"] /\ Runs(r) /\ contents' = call[r].new.cache
      /\ UNCHANGED <<cursor, view, held>>
  BY DEF SaveContents
<1>2. call[r] \in Running /\ call[r].new \in Cursor
  BY <1>1 DEF QueueInv, DeltaTypeOK, Runs, Running, Reply
<1>3. /\ call'[r] = [call[r] EXCEPT !.step = "cursor"]
      /\ \A s \in Readers \ {r} : call'[s] = call[s]
  BY <1>1 DEF QueueInv, DeltaTypeOK
<1>4. /\ call'[r] \in Running
      /\ call'[r].new = call[r].new /\ call'[r].page = call[r].page
      /\ call'[r].found = call[r].found /\ call'[r].reset = call[r].reset
      /\ call'[r].last = call[r].last /\ call'[r].step = "cursor"
  BY <1>2, <1>3 DEF Running
<1>5. /\ contents' \in Files \cup {Absent}
      /\ call' \in [Readers -> Running \cup Reply \cup {Absent}]
  BY <1>1, <1>2, <1>3, <1>4 DEF QueueInv, DeltaTypeOK, Cursor
<1>6. /\ ~ Awaits(r)' /\ ~ Awaits(r)
      /\ \A s \in Readers \ {r} : Runs(s)' = Runs(s) /\ Awaits(s)' = Awaits(s)
  BY <1>1, <1>3, <1>4 DEF Runs, Awaits
<1>7. DeltaTypeOK'
  <2>1. \A s, t \in Readers : s # t => ~(Runs(s)' /\ Runs(t)')
    BY <1>1, <1>6 DEF QueueInv, DeltaTypeOK
  <2>2. held' \cup {t \in Readers : Awaits(t)' /\ call'[t].fresh}
          \subseteq held \cup {t \in Readers : Awaits(t) /\ call[t].fresh}
    BY <1>1, <1>3, <1>6
  <2>3. \A s, t \in held' \cup {u \in Readers : Awaits(u)' /\ call'[u].fresh} : s = t
    BY <2>2 DEF QueueInv, DeltaTypeOK
  <2>4. QED
    BY <1>1, <1>5, <2>1, <2>3 DEF QueueInv, DeltaTypeOK
<1>8. ASSUME NEW s \in Readers PROVE Promised(s)'
  <2>1. CASE s = r
    BY <1>1, <1>4, <1>6, <2>1 DEF Promised, QueueInv
  <2>2. CASE s # r
    <3>1. Applied(s)' = Applied(s)
      BY <1>1, <1>3, <2>2 DEF Applied
    <3>2. QED
      BY <1>1, <1>3, <1>6, <2>2, <3>1 DEF Promised, QueueInv
  <2>3. QED
    BY <2>1, <2>2
<1>9. QED
  BY <1>1, <1>7, <1>8 DEF QueueInv

(* The lock kept the cursor as the recovery saw it, and takes every token  *)
(* but the one in its reply away (save_cursor).                            *)
LEMMA SaveCursorQueues ==
    ASSUME DeltaInv, QueueInv, NEW r \in Readers, SaveCursor(r)
    PROVE  QueueInv'
<1> DEFINE reply == [step |-> "reply", fresh |-> TRUE, reset |-> call[r].reset,
                     page |-> call[r].page, found |-> call[r].found, last |-> call[r].last]
<1>1. /\ cursor' = call[r].new /\ held' = {} /\ view' = view /\ contents' = contents /\ Runs(r)
      /\ call' = [s \in Readers |->
           IF s = r THEN reply
           ELSE IF Awaits(s) THEN [call[s] EXCEPT !.fresh = FALSE] ELSE call[s]]
  BY DEF SaveCursor
<1>2. call[r] \in Running /\ call[r].new \in Cursor
  BY <1>1 DEF QueueInv, DeltaTypeOK, Runs, Running, Reply
<1>3. /\ reply \in Reply /\ reply.step = "reply" /\ reply.page = call[r].page
      /\ reply.found = call[r].found /\ reply.reset = call[r].reset /\ reply.last = call[r].last
  BY <1>2 DEF Running, Reply
<1> HIDE DEF reply
<1>4. call'[r] = reply
  BY <1>1
<1>5. ASSUME NEW s \in Readers \ {r}, Awaits(s)
      PROVE  /\ call[s] \in Reply /\ call'[s] = [call[s] EXCEPT !.fresh = FALSE]
             /\ call'[s] \in Reply /\ call'[s].step = "reply" /\ call'[s].fresh = FALSE
             /\ call'[s].page = call[s].page /\ call'[s].found = call[s].found
             /\ call'[s].reset = call[s].reset /\ call'[s].last = call[s].last
  <2>1. call[s] \in Reply
    BY <1>5 DEF QueueInv, DeltaTypeOK, Awaits, Running, Reply
  <2>2. call'[s] = [call[s] EXCEPT !.fresh = FALSE]
    BY <1>1, <1>5
  <2>3. QED
    BY <2>1, <2>2 DEF Reply
<1>6. ASSUME NEW s \in Readers \ {r}, ~ Awaits(s)
      PROVE  call'[s] = call[s] /\ call[s] = Absent /\ ~ Runs(s)' /\ ~ Awaits(s)'
  <2>1. call'[s] = call[s] /\ ~ Runs(s)
    BY <1>1, <1>6 DEF QueueInv, DeltaTypeOK
  <2>2. call[s] = Absent
    BY <1>6, <2>1 DEF Runs, Awaits
  <2>3. QED
    BY <2>1, <2>2 DEF Runs, Awaits
<1>7. ~ Runs(r)' /\ \A s \in Readers \ {r} : ~ Runs(s)'
  BY <1>3, <1>4, <1>5, <1>6 DEF Runs
<1>8. call' \in [Readers -> Running \cup Reply \cup {Absent}]
  <2>1. ASSUME NEW s \in Readers PROVE call'[s] \in Running \cup Reply \cup {Absent}
    BY <1>3, <1>4, <1>5, <1>6
  <2>2. QED
    BY <1>1, <2>1
<1>9. DeltaTypeOK'
  <2>1. ASSUME NEW s \in Readers, Awaits(s)', call'[s].fresh PROVE s = r
    BY <1>5, <1>6, <2>1
  <2>2. QED
    BY <1>1, <1>2, <1>7, <1>8, <2>1 DEF QueueInv, DeltaTypeOK
<1>10. ASSUME NEW s \in Readers PROVE Promised(s)'
  <2>1. CASE s = r
    <3>1. Applied(r)' = Applied(r)
      BY <1>1, <1>3, <1>4 DEF Applied
    <3>2. call[r].last => Applied(r) = call[r].found
      BY <1>1 DEF QueueInv, Promised, DeltaInv, WillHold
    <3>3. QED
      BY <1>1, <1>3, <1>4, <1>7, <2>1, <3>1, <3>2 DEF Promised
  <2>2. CASE s # r /\ Awaits(s)
    <3>1. /\ call'[s].page = call[s].page /\ call'[s].found = call[s].found
          /\ call'[s].reset = call[s].reset /\ call'[s].last = call[s].last
          /\ call'[s].fresh = FALSE /\ view'[s] = view[s]
      BY <1>1, <1>5, <2>2
    <3>2. Applied(s)' = Applied(s)
      BY <3>1 DEF Applied
    <3>3. s \notin held' /\ (call[s].last => Applied(s) = call[s].found)
      BY <1>1, <2>2 DEF Promised, QueueInv
    <3>4. QED
      BY <1>7, <2>2, <3>1, <3>2, <3>3 DEF Promised
  <2>3. CASE s # r /\ ~ Awaits(s)
    BY <1>6, <2>3 DEF Promised
  <2>4. QED
    BY <2>1, <2>2, <2>3
<1>11. QED
  BY <1>1, <1>9, <1>10 DEF QueueInv, Promised

(* A reply that is applied hands the token over that it carries, if that   *)
(* still counts.                                                           *)
LEMMA ApplyQueues ==
    ASSUME QueueInv, NEW r \in Readers, Apply(r)
    PROVE  QueueInv' /\ view'[r] = Applied(r)
<1>1. /\ call' = [call EXCEPT ![r] = Absent] /\ UNCHANGED <<contents, cursor>>
      /\ view' = [view EXCEPT ![r] = Applied(r)] /\ Awaits(r)
      /\ held' = IF call[r].fresh THEN held \cup {r} ELSE held \ {r}
  BY DEF Apply, Applied
<1>2. /\ call'[r] = Absent /\ view'[r] = Applied(r)
      /\ \A s \in Readers \ {r} : call'[s] = call[s] /\ view'[s] = view[s]
      /\ call' \in [Readers -> Running \cup Reply \cup {Absent}]
  BY <1>1 DEF QueueInv, DeltaTypeOK
<1>3. Applied(r) \in Table
  <2>1. call[r] \in Reply /\ view[r] \in Table
    BY <1>1 DEF QueueInv, DeltaTypeOK, Awaits, Running, Reply
  <2>2. QED
    BY <2>1 DEF Applied, Reply, Table
<1>4. view' \in [Readers -> Table] /\ held' \subseteq Readers
  BY <1>1, <1>3 DEF QueueInv, DeltaTypeOK
<1>5. /\ ~ Runs(r)' /\ ~ Awaits(r)'
      /\ \A s \in Readers \ {r} : Runs(s)' = Runs(s) /\ Awaits(s)' = Awaits(s)
  BY <1>2 DEF Runs, Awaits
<1>6. DeltaTypeOK'
  <2>1. \A s, t \in Readers : s # t => ~(Runs(s)' /\ Runs(t)')
    BY <1>5 DEF QueueInv, DeltaTypeOK
  <2>2. held' \cup {t \in Readers : Awaits(t)' /\ call'[t].fresh}
          \subseteq held \cup {t \in Readers : Awaits(t) /\ call[t].fresh}
    BY <1>1, <1>2, <1>5
  <2>3. \A s, t \in held' \cup {u \in Readers : Awaits(u)' /\ call'[u].fresh} : s = t
    BY <2>2 DEF QueueInv, DeltaTypeOK
  <2>4. QED
    BY <1>1, <1>2, <1>4, <2>1, <2>3 DEF QueueInv, DeltaTypeOK
<1>7. ASSUME NEW s \in Readers PROVE Promised(s)'
  <2>1. CASE s = r
    BY <1>5, <2>1 DEF Promised
  <2>2. CASE s # r
    <3>1. Applied(s)' = Applied(s)
      BY <1>1, <1>2, <2>2 DEF Applied
    <3>2. s \in held' => s \in held
      BY <1>1, <2>2
    <3>3. QED
      BY <1>1, <1>2, <1>5, <2>2, <3>1, <3>2 DEF Promised, QueueInv
  <2>3. QED
    BY <2>1, <2>2
<1>8. QED
  BY <1>1, <1>2, <1>6, <1>7 DEF QueueInv

(* A recovery or a reply that is lost only ends.                           *)
LEMMA LoseQueues ==
    ASSUME QueueInv, NEW r \in Readers, Lose(r)
    PROVE  QueueInv'
<1>1. call' = [call EXCEPT ![r] = Absent] /\ UNCHANGED <<contents, cursor, view, held>>
  BY DEF Lose
<1>2. /\ call'[r] = Absent /\ \A s \in Readers \ {r} : call'[s] = call[s]
      /\ call' \in [Readers -> Running \cup Reply \cup {Absent}]
  BY <1>1 DEF QueueInv, DeltaTypeOK
<1>3. /\ ~ Runs(r)' /\ ~ Awaits(r)'
      /\ \A s \in Readers \ {r} : Runs(s)' = Runs(s) /\ Awaits(s)' = Awaits(s)
  BY <1>2 DEF Runs, Awaits
<1>4. DeltaTypeOK'
  <2>1. \A s, t \in Readers : s # t => ~(Runs(s)' /\ Runs(t)')
    BY <1>3 DEF QueueInv, DeltaTypeOK
  <2>2. held' \cup {t \in Readers : Awaits(t)' /\ call'[t].fresh}
          \subseteq held \cup {t \in Readers : Awaits(t) /\ call[t].fresh}
    BY <1>1, <1>2, <1>3
  <2>3. \A s, t \in held' \cup {u \in Readers : Awaits(u)' /\ call'[u].fresh} : s = t
    BY <2>2 DEF QueueInv, DeltaTypeOK
  <2>4. QED
    BY <1>1, <1>2, <2>1, <2>3 DEF QueueInv, DeltaTypeOK
<1>5. ASSUME NEW s \in Readers PROVE Promised(s)'
  <2>1. CASE s = r
    BY <1>3, <2>1 DEF Promised
  <2>2. CASE s # r
    <3>1. Applied(s)' = Applied(s)
      BY <1>1, <1>2, <2>2 DEF Applied
    <3>2. QED
      BY <1>1, <1>2, <1>3, <2>2, <3>1 DEF Promised, QueueInv
  <2>3. QED
    BY <2>1, <2>2
<1>6. QED
  BY <1>1, <1>4, <1>5 DEF QueueInv

(* Every step keeps the invariant.                                         *)
LEMMA QueueStepHolds ==
    ASSUME DeltaAssumption, DeltaInv, QueueInv, [DeltaNext]_deltaVars
    PROVE  QueueInv'
<1>1. CASE UNCHANGED deltaVars
  <2>1. UNCHANGED <<contents, cursor, call, view, held>>
    BY <1>1 DEF deltaVars
  <2>2. DeltaTypeOK'
    BY <2>1 DEF QueueInv, DeltaTypeOK, Runs, Awaits
  <2>3. ASSUME NEW s \in Readers PROVE Promised(s)'
    BY <2>1 DEF QueueInv, Promised, Runs, Awaits, Applied
  <2>4. QED
    BY <2>1, <2>2, <2>3 DEF QueueInv
<1>2. ASSUME NEW r \in Readers, NEW filter \in Filters, NEW found \in Table,
             NEW files \in Files, NEW complete \in BOOLEAN,
             Recover(r, filter, found, files, complete)
      PROVE  QueueInv'
  BY <1>2, RecoverQueues
<1>3. ASSUME NEW r \in Readers, SaveContents(r) PROVE QueueInv'
  BY <1>3, SaveContentsQueues
<1>4. ASSUME NEW r \in Readers, SaveCursor(r) PROVE QueueInv'
  BY <1>4, SaveCursorQueues
<1>5. ASSUME NEW r \in Readers, Apply(r) PROVE QueueInv'
  BY <1>5, ApplyQueues
<1>6. ASSUME NEW r \in Readers, Lose(r) PROVE QueueInv'
  BY <1>6, LoseQueues
<1>7. QED
  BY <1>1, <1>2, <1>3, <1>4, <1>5, <1>6 DEF DeltaNext

(* Both invariants hold of every recovery.                                 *)
LEMMA DeltaCorrect == DeltaSpec => [](DeltaInv /\ QueueInv)
<1>1. DeltaInit => DeltaInv /\ QueueInv
  BY DeltaInitHolds, QueueInitHolds
<1>2. DeltaInv /\ QueueInv /\ [DeltaNext]_deltaVars => (DeltaInv /\ QueueInv)'
  BY DeltaStepHolds, QueueStepHolds, DeltaAssumption
<1>3. QED
  BY <1>1, <1>2, PTL DEF DeltaSpec

(* A reader that applies a reply that says nothing more is to come, of a   *)
(* recovery that could read everything, knows the rows that were found     *)
(* (more_job_changes).                                                     *)
THEOREM LastReplyIsAll == DeltaSpec => CaughtUp
<1>1. ASSUME DeltaInv, QueueInv, [DeltaNext]_deltaVars, NEW r \in Readers,
             Awaits(r), call'[r] = Absent, call[r].last, r \in held' \/ view'[r] # view[r]
      PROVE  view'[r] = call[r].found
  <2>1. ~ Runs(r) /\ call[r] # Absent /\ r \notin held
    BY <1>1 DEF Runs, Awaits, QueueInv, Promised
  <2>2. CASE Apply(r)
    BY <1>1, <2>2, ApplyQueues DEF QueueInv, Promised
  <2>3. ASSUME NEW s \in Readers, Apply(s), s # r PROVE FALSE
    <3>1. call'[r] = call[r]
      BY <2>3 DEF Apply, QueueInv, DeltaTypeOK
    <3>2. QED
      BY <1>1, <2>1, <3>1
  <2>4. ASSUME UNCHANGED <<held, view>> PROVE FALSE
    BY <1>1, <2>1, <2>4
  <2>5. ASSUME held' = {}, view' = view PROVE FALSE
    BY <1>1, <2>5
  <2>6. CASE UNCHANGED deltaVars
    BY <2>4, <2>6 DEF deltaVars
  <2>7. ASSUME NEW s \in Readers, NEW filter \in Filters, NEW found \in Table,
               NEW files \in Files, NEW complete \in BOOLEAN,
               Recover(s, filter, found, files, complete)
        PROVE  FALSE
    BY <2>4, <2>7 DEF Recover
  <2>8. ASSUME NEW s \in Readers, SaveContents(s) \/ Lose(s) PROVE FALSE
    BY <2>4, <2>8 DEF SaveContents, Lose
  <2>9. ASSUME NEW s \in Readers, SaveCursor(s) PROVE FALSE
    BY <2>5, <2>9 DEF SaveCursor
  <2>10. QED
    BY <1>1, <2>2, <2>3, <2>6, <2>7, <2>8, <2>9 DEF DeltaNext
<1> DEFINE Caught == \A r \in Readers :
           /\ Awaits(r) /\ call'[r] = Absent /\ call[r].last
           /\ r \in held' \/ view'[r] # view[r]
           => view'[r] = call[r].found
<1>2. DeltaInv /\ QueueInv /\ [DeltaNext]_deltaVars => Caught
  BY <1>1
<1> HIDE DEF Caught
<1>3. DeltaSpec => [][Caught]_deltaVars
  BY <1>2, DeltaCorrect, PTL DEF DeltaSpec
<1>4. QED
  BY <1>3 DEF CaughtUp, Caught

(* With every reply that does not start anew the row at the head of the    *)
(* queue is served or is no change any more, and no row gets one before it *)
(* that was not before it (recovery-delta.md; changes).                    *)
THEOREM QueuedKeepTheirTurn == DeltaSpec => TurnKept
<1>1. ASSUME DeltaInv, QueueInv, [DeltaNext]_deltaVars, cursor # Absent, cursor' # cursor,
             NEW r \in Readers, Runs(r), cursor' = call[r].new, ~call[r].reset
      PROVE  Keeps(cursor.pending, cursor'.pending)
  BY <1>1 DEF QueueInv, Promised
<1> DEFINE Turn == cursor # Absent /\ cursor' # cursor
                      /\ (\E r \in Readers : Runs(r) /\ cursor' = call[r].new /\ ~call[r].reset)
                   => Keeps(cursor.pending, cursor'.pending)
<1>2. DeltaInv /\ QueueInv /\ [DeltaNext]_deltaVars => Turn
  BY <1>1
<1> HIDE DEF Turn
<1>3. DeltaSpec => [][Turn]_deltaVars
  BY <1>2, DeltaCorrect, PTL DEF DeltaSpec
<1>4. QED
  BY <1>3 DEF TurnKept, Turn

-----------------------------------------------------------------------------
(***************************************************************************)
(* A decision is recorded once, and takes nothing unseen from the queue    *)
(* (Reviews), for any reviewers, issues and notes and any number of        *)
(* events. Neither says anything of what a reviewer is doing. ReviewInv    *)
(* adds that what was read of an event is no newer than what it has, that  *)
(* an item stands for every older reminder of its issue that nobody has    *)
(* settled, and that a receipt once written stays: receipts are only       *)
(* added.                                                                  *)
(***************************************************************************)

(* What was read of an event is no newer than what it has, and an event    *)
(* without a receipt is open.                                              *)
ScanOK(p) ==
    scan[p] # Blank =>
        /\ item[p] = Blank
        /\ Len(scan[p].read) <= scan[p].total /\ scan[p].total <= Len(posted)
        /\ \A n \in DOMAIN scan[p].read :
               /\ scan[p].read[n].revision <= Len(receipts[n])
               /\ scan[p].read[n].revision = 0 => scan[p].read[n].status = "open"

(* Event n has a receipt, or a later reminder of its issue has one.        *)
Settled(n) ==
    \/ receipts[n] # <<>>
    \/ \E m \in DOMAIN posted : m > n /\ Grouped(m, n) /\ receipts[m] # <<>>

(* An item that is a reminder without a receipt stands for all older ones  *)
(* of its issue that are not settled.                                      *)
ItemOK(p) ==
    item[p] # Blank =>
        /\ item[p].seq \in DOMAIN posted
        /\ posted[item[p].seq].kind = "review_due" /\ item[p].expected = 0 =>
               \A n \in DOMAIN posted :
                   n < item[p].seq /\ Grouped(n, item[p].seq) =>
                       n \in item[p].stands \/ Settled(n)

(* What was written is still there.                                        *)
WrittenOK(p) ==
    /\ written[p] \in {0, 1}
    /\ written[p] = 1 => item[p] # Blank /\ Len(receipts[item[p].seq]) > item[p].expected

ReviewInv ==
    /\ ReviewTypeOK
    /\ \A p \in Reviewers : ScanOK(p) /\ ItemOK(p) /\ WrittenOK(p)

-----------------------------------------------------------------------------
(* Every event that waits is shown, or another that stands for it.         *)
LEMMA OutstandingWait ==
    ASSUME NEW N \in Nat, NEW read, DOMAIN read = 1..N
    PROVE  Outstanding(read) = Explicit(read) \cup Waiting(read) \cup Reminders(read)
<1>1. Reminders(read) \in SUBSET (0..N) /\ Reminders(read) \subseteq DOMAIN read
  BY DEF Reminders
<1>2. ASSUME NEW n \in Outstanding(read)
      PROVE  n \in Explicit(read) \cup Waiting(read) \cup Reminders(read)
  <2>1. PICK m \in Shown(read) : n \in Stands(read, m)
    BY <1>2 DEF Outstanding
  <2>2. QED
    BY <2>1 DEF Shown, Stands
<1>3. ASSUME NEW n \in Explicit(read) \cup Waiting(read)
      PROVE  n \in Outstanding(read)
  <2>1. n \in Shown(read)
    BY <1>3 DEF Shown
  <2>2. n \in Stands(read, n)
    BY DEF Stands, Reminders, Grouped
  <2>3. QED
    BY <2>1, <2>2 DEF Outstanding
<1>4. ASSUME NEW n \in Reminders(read)
      PROVE  n \in Outstanding(read)
  <2> DEFINE group == {m \in Reminders(read) : Grouped(m, n)}
  <2>1. n \in group /\ group \in SUBSET (0..N)
    BY <1>1, <1>4 DEF Reminders, Grouped
  <2>2. PICK k \in group : \A m \in group : m <= k
    BY <2>1, GreatestExists
  <2>3. \A m \in Reminders(read) : Grouped(m, k) => Grouped(m, n)
    BY <2>2 DEF Grouped
  <2>4. k \in Shown(read)
    BY <2>2, <2>3 DEF Shown
  <2>5. n \in Stands(read, k)
    BY <1>4, <2>2 DEF Stands, Grouped
  <2>6. QED
    BY <2>4, <2>5 DEF Outstanding
<1>5. QED
  BY <1>2, <1>3, <1>4

(* What was read of an event that has a receipt.                           *)
LEMMA LatestIs ==
    ASSUME ReviewTypeOK, NEW n \in DOMAIN posted
    PROVE  /\ LatestReview(n) \in Latest
           /\ LatestReview(n).revision = Len(receipts[n]) /\ Len(receipts[n]) \in Nat
           /\ LatestReview(n).revision = 0 => LatestReview(n).status = "open"
           /\ Len(receipts[n]) = 0 <=> receipts[n] = <<>>
<1>1. /\ receipts[n] \in Seq(Receipt) /\ Len(receipts[n]) \in Nat
      /\ Len(receipts[n]) = 0 <=> receipts[n] = <<>>
  BY DEF ReviewTypeOK
<1>2. receipts[n] # <<>> => Last(receipts[n]) \in Receipt
  BY <1>1 DEF Last
<1>3. LatestReview(n) \in Latest
  BY <1>1, <1>2 DEF LatestReview, Latest, Receipt
<1>4. QED
  BY <1>1, <1>3 DEF LatestReview

(* Receipts are only added, and so are events.                             *)
Grown ==
    /\ DOMAIN posted \subseteq DOMAIN posted' /\ Len(posted) <= Len(posted')
    /\ \A n \in DOMAIN posted : /\ posted'[n] = posted[n]
                                /\ Len(receipts[n]) <= Len(receipts'[n])
                                /\ receipts[n] # <<>> => receipts'[n] # <<>>

(* They leave what a reviewer took, saw and wrote as it is.                *)
LEMMA GrownKeeps ==
    ASSUME ReviewInv, ReviewTypeOK', Grown, NEW p \in Reviewers,
           scan'[p] = scan[p], item'[p] = item[p], written'[p] = written[p]
    PROVE  ScanOK(p)' /\ ItemOK(p)' /\ WrittenOK(p)'
<1>1. /\ Len(posted) \in Nat /\ Len(posted') \in Nat
      /\ DOMAIN posted = 1..Len(posted)
      /\ \A n \in DOMAIN posted : Len(receipts[n]) \in Nat /\ Len(receipts'[n]) \in Nat
  BY DEF ReviewInv, ReviewTypeOK, Grown
<1>2. ScanOK(p) /\ ItemOK(p) /\ WrittenOK(p)
  BY DEF ReviewInv
<1>3. ScanOK(p)'
  <2>1. SUFFICES ASSUME scan[p] # Blank PROVE ScanOK(p)'
    BY DEF ScanOK
  <2>2. /\ scan[p].total \in Nat /\ Len(scan[p].read) \in Nat
        /\ DOMAIN scan[p].read = 1..Len(scan[p].read)
        /\ \A n \in DOMAIN scan[p].read : scan[p].read[n].revision \in Nat
    <3>1. scan[p] \in Scan
      BY <2>1 DEF ReviewInv, ReviewTypeOK
    <3>2. scan[p].total \in Nat /\ scan[p].read \in Seq(Latest)
      BY <3>1 DEF Scan
    <3>3. \A n \in DOMAIN scan[p].read : scan[p].read[n] \in Latest
      BY <3>2
    <3>4. QED
      BY <3>2, <3>3 DEF Latest
  <2>3. scan[p].total <= Len(posted')
    BY <1>1, <1>2, <2>1, <2>2 DEF ScanOK, Grown
  <2>4. ASSUME NEW n \in DOMAIN scan[p].read
        PROVE  scan[p].read[n].revision <= Len(receipts'[n])
    <3>1. n \in DOMAIN posted
      BY <1>1, <1>2, <2>1, <2>2 DEF ScanOK
    <3>2. scan[p].read[n].revision <= Len(receipts[n])
      BY <1>2, <2>1 DEF ScanOK
    <3>3. QED
      BY <1>1, <2>2, <3>1, <3>2, SMTT(30) DEF Grown
  <2>5. QED
    BY <1>2, <2>1, <2>3, <2>4 DEF ScanOK
<1>4. ItemOK(p)'
  <2>1. SUFFICES ASSUME item[p] # Blank PROVE ItemOK(p)'
    BY DEF ItemOK
  <2>2. item[p].seq \in DOMAIN posted /\ item[p].seq \in DOMAIN posted'
    BY <1>2, <2>1 DEF ItemOK, Grown
  <2>3. \A m, n \in DOMAIN posted : Grouped(m, n)' <=> Grouped(m, n)
    BY DEF Grown, Grouped
  <2>4. \A n \in DOMAIN posted : Settled(n) => Settled(n)'
    BY <2>3 DEF Settled, Grown
  <2>5. \A n \in DOMAIN posted' : n < item[p].seq => n \in DOMAIN posted
    BY <1>1, <2>2 DEF ReviewTypeOK
  <2>6. \A n \in DOMAIN posted : Grouped(n, item[p].seq)' <=> Grouped(n, item[p].seq)
    BY <2>2 DEF Grown, Grouped
  <2>7. QED
    BY <1>2, <2>1, <2>2, <2>4, <2>5, <2>6 DEF ItemOK, Grown
<1>5. WrittenOK(p)'
  <2>1. SUFFICES ASSUME written[p] = 1 PROVE WrittenOK(p)'
    BY <1>2 DEF WrittenOK
  <2>2. item[p] # Blank /\ item[p].seq \in DOMAIN posted /\ item[p].expected \in Nat
    BY <1>2, <2>1 DEF WrittenOK, ItemOK, ReviewInv, ReviewTypeOK, Item
  <2>3. Len(receipts'[item[p].seq]) > item[p].expected
    BY <1>1, <1>2, <2>1, <2>2 DEF WrittenOK, Grown
  <2>4. QED
    BY <1>2, <2>2, <2>3 DEF WrittenOK
<1>6. QED
  BY <1>3, <1>4, <1>5

(* Nothing is posted at first.                                             *)
LEMMA ReviewInitHolds == ReviewInit => ReviewInv
BY DEF ReviewInit, ReviewInv, ReviewTypeOK, ScanOK, ItemOK, WrittenOK

(* An event is posted: no receipt is of it.                                *)
LEMMA PostHolds ==
    ASSUME ReviewInv, NEW event \in Posted, Post(event)
    PROVE  ReviewInv'
<1>1. /\ posted' = Append(posted, event) /\ receipts' = Append(receipts, <<>>)
      /\ UNCHANGED <<scan, item, written>>
  BY DEF Post
<1>2. /\ posted \in Seq(Posted) /\ receipts \in Seq(Seq(Receipt)) /\ Len(receipts) = Len(posted)
      /\ Len(posted) \in Nat /\ DOMAIN posted = 1..Len(posted)
  BY DEF ReviewInv, ReviewTypeOK
<1>3. /\ posted' \in Seq(Posted) /\ receipts' \in Seq(Seq(Receipt))
      /\ Len(receipts') = Len(posted') /\ Len(posted') = Len(posted) + 1
      /\ DOMAIN posted' = 1..(Len(posted) + 1)
  <2>1. <<>> \in Seq(Receipt)
    OBVIOUS
  <2>2. QED
    BY <1>1, <1>2, <2>1
<1>4. \A n \in DOMAIN posted : posted'[n] = posted[n] /\ receipts'[n] = receipts[n]
  BY <1>1, <1>2
<1>5. ReviewTypeOK'
  BY <1>1, <1>3 DEF ReviewInv, ReviewTypeOK
<1>6. Grown
  <2>1. \A n \in DOMAIN posted : Len(receipts[n]) \in Nat
    BY <1>2
  <2>2. \A n \in DOMAIN posted : Len(receipts[n]) <= Len(receipts'[n])
    BY <1>4, <2>1
  <2>3. DOMAIN posted \subseteq DOMAIN posted' /\ Len(posted) <= Len(posted')
    BY <1>2, <1>3
  <2>4. QED
    BY <1>4, <2>2, <2>3 DEF Grown
<1>7. QED
  BY <1>1, <1>5, <1>6, GrownKeeps DEF ReviewInv

(* A step of one reviewer that writes no receipt.                          *)
LEMMA ReviewerHolds ==
    ASSUME ReviewInv, NEW p \in Reviewers, posted' = posted, receipts' = receipts,
           ReviewTypeOK', ScanOK(p)', ItemOK(p)', WrittenOK(p)',
           \A q \in Reviewers \ {p} :
               scan'[q] = scan[q] /\ item'[q] = item[q] /\ written'[q] = written[q]
    PROVE  ReviewInv'
<1>1. Grown
  <2>1. Len(posted) \in Nat /\ \A n \in DOMAIN posted : Len(receipts[n]) \in Nat
    BY DEF ReviewInv, ReviewTypeOK
  <2>2. QED
    BY <2>1 DEF Grown
<1>2. \A q \in Reviewers \ {p} : ScanOK(q)' /\ ItemOK(q)' /\ WrittenOK(q)'
  BY <1>1, GrownKeeps
<1>3. QED
  BY <1>2 DEF ReviewInv

(* The queue is listed and read.                                           *)
LEMMA ReadHolds ==
    ASSUME ReviewInv, NEW p \in Reviewers, ListEvents(p) \/ ReadReceipts(p)
    PROVE  ReviewInv'
<1>1. /\ posted \in Seq(Posted) /\ Len(posted) \in Nat /\ DOMAIN posted = 1..Len(posted)
      /\ scan \in [Reviewers -> Scan \cup {Blank}]
      /\ ScanOK(p) /\ ItemOK(p) /\ WrittenOK(p)
  BY DEF ReviewInv, ReviewTypeOK
<1>2. CASE ListEvents(p)
  <2> DEFINE new == [total |-> Len(posted), read |-> <<>>]
  <2>1. /\ UNCHANGED <<posted, receipts, item, written>> /\ item[p] = Blank
        /\ scan' = [scan EXCEPT ![p] = new]
    BY <1>2 DEF ListEvents
  <2>2. new \in Scan /\ new.total = Len(posted) /\ new.read = <<>> /\ Len(new.read) = 0
    BY <1>1 DEF Scan
  <2> HIDE DEF new
  <2>3. scan' \in [Reviewers -> Scan \cup {Blank}] /\ scan'[p] = new
    BY <1>1, <2>1, <2>2
  <2>4. ReviewTypeOK'
    BY <2>1, <2>3 DEF ReviewInv, ReviewTypeOK
  <2>5. ScanOK(p)'
    BY <1>1, <2>1, <2>2, <2>3 DEF ScanOK
  <2>6. ItemOK(p)' /\ WrittenOK(p)'
    BY <1>1, <2>1 DEF ItemOK, WrittenOK, Settled, Grouped
  <2>7. QED
    BY <1>1, <2>1, <2>4, <2>5, <2>6, ReviewerHolds
<1>3. CASE ReadReceipts(p)
  <2> DEFINE old == scan[p]
             n == Len(old.read) + 1
             latest == LatestReview(n)
             read == Append(old.read, latest)
             new == [old EXCEPT !.read = read]
  <2>1. /\ UNCHANGED <<posted, receipts, item, written>>
        /\ old # Blank /\ Len(old.read) < old.total
        /\ scan' = [scan EXCEPT ![p].read = Append(@, LatestReview(Len(@) + 1))]
    BY <1>3 DEF ReadReceipts
  <2>2. old \in Scan /\ Len(old.read) \in Nat /\ old.total \in Nat /\ old.read \in Seq(Latest)
    BY <1>1, <2>1 DEF Scan
  <2>3. n \in DOMAIN posted
    BY <1>1, <2>1, <2>2 DEF ScanOK
  <2>4. /\ latest \in Latest /\ latest.revision = Len(receipts[n]) /\ Len(receipts[n]) \in Nat
        /\ latest.revision = 0 => latest.status = "open"
    BY <2>3, LatestIs DEF ReviewInv
  <2>5. scan' = [scan EXCEPT ![p] = new]
    BY <1>1, <2>1
  <2> HIDE DEF latest
  <2>6. /\ read \in Seq(Latest) /\ Len(read) = n /\ DOMAIN read = 1..n /\ read[n] = latest
        /\ \A i \in 1..Len(old.read) : read[i] = old.read[i]
    BY <2>2, <2>4
  <2> HIDE DEF read
  <2>7. new \in Scan /\ new.total = old.total /\ new.read = read
    BY <2>2, <2>6 DEF Scan
  <2> HIDE DEF new
  <2>8. scan' \in [Reviewers -> Scan \cup {Blank}] /\ scan'[p] = new
    BY <1>1, <2>5, <2>7
  <2>9. ReviewTypeOK'
    BY <2>1, <2>8 DEF ReviewInv, ReviewTypeOK
  <2>10. ScanOK(p)'
    <3>1. Len(read) <= old.total /\ old.total <= Len(posted)
      BY <1>1, <2>1, <2>2, <2>6 DEF ScanOK
    <3>2. ASSUME NEW i \in DOMAIN read
          PROVE  /\ read[i].revision <= Len(receipts[i])
                 /\ read[i].revision = 0 => read[i].status = "open"
      <4>1. CASE i = n
        BY <2>4, <2>6, <4>1
      <4>2. CASE i # n
        <5>1. i \in 1..Len(old.read) /\ i \in DOMAIN old.read /\ read[i] = old.read[i]
          BY <2>2, <2>6, <4>2, SMTT(30)
        <5>2. QED
          BY <1>1, <2>1, <5>1 DEF ScanOK
      <4>3. QED
        BY <4>1, <4>2
    <3>3. item[p] = Blank
      BY <1>1, <2>1 DEF ScanOK
    <3>4. QED
      BY <2>1, <2>7, <2>8, <3>1, <3>2, <3>3 DEF ScanOK
  <2>11. ItemOK(p)' /\ WrittenOK(p)'
    BY <1>1, <2>1 DEF ItemOK, WrittenOK, Settled, Grouped
  <2>12. QED
    BY <1>1, <2>1, <2>5, <2>9, <2>10, <2>11, ReviewerHolds
<1>4. QED
  BY <1>2, <1>3

(* An item is taken: the older reminders of its issue that it does not     *)
(* stand for were settled when they were read, and are still.              *)
LEMMA DecideHolds ==
    ASSUME ReviewInv, NEW p \in Reviewers, Decide(p)
    PROVE  ReviewInv'
<1> DEFINE read == scan[p].read
<1>1. /\ UNCHANGED <<posted, receipts, written>>
      /\ scan[p] # Blank /\ Len(read) = scan[p].total
      /\ scan' = [scan EXCEPT ![p] = Blank]
  BY DEF Decide
<1>2. /\ posted \in Seq(Posted) /\ Len(posted) \in Nat /\ DOMAIN posted = 1..Len(posted)
      /\ scan \in [Reviewers -> Scan \cup {Blank}]
      /\ item \in [Reviewers -> Item \cup {Blank}]
      /\ ScanOK(p) /\ WrittenOK(p)
      /\ \A q \in Reviewers : item[q] # Blank => item[q].seq \in item[q].stands
  BY DEF ReviewInv, ReviewTypeOK
<1>3. /\ item[p] = Blank /\ written[p] = 0
      /\ read \in Seq(Latest) /\ DOMAIN read = 1..Len(read) /\ Len(read) \in Nat
      /\ Len(read) <= Len(posted)
      /\ \A n \in DOMAIN read : /\ read[n].revision <= Len(receipts[n])
                                /\ read[n].revision = 0 => read[n].status = "open"
  BY <1>1, <1>2 DEF ScanOK, WrittenOK, Scan
<1>4. scan' \in [Reviewers -> Scan \cup {Blank}] /\ scan'[p] = Blank
  BY <1>1, <1>2
<1>5. ScanOK(p)'
  BY <1>4 DEF ScanOK
<1>6. WrittenOK(p)'
  BY <1>1, <1>3 DEF WrittenOK
<1> HIDE DEF read
<1>7. CASE item' = item
  <2>1. ReviewTypeOK'
    BY <1>1, <1>4, <1>7 DEF ReviewInv, ReviewTypeOK
  <2>2. ItemOK(p)'
    BY <1>3, <1>7 DEF ItemOK
  <2>3. QED
    BY <1>1, <1>2, <1>5, <1>6, <1>7, <2>1, <2>2, ReviewerHolds
<1>8. CASE item' # item
  <2>1. PICK n \in Shown(read), status \in {"open", "waiting_user", "handled"}, note \in Notes :
            item' = [item EXCEPT ![p] =
                [seq |-> n, expected |-> read[n].revision, stands |-> Stands(read, n),
                 receipt |-> [status |-> status, note |-> note]]]
    BY <1>8 DEF Decide, read
  <2> DEFINE r == read[n].revision
             s == Stands(read, n)
             receipt == [status |-> status, note |-> note]
             new == [seq |-> n, expected |-> r, stands |-> s, receipt |-> receipt]
  <2>2. n \in DOMAIN read /\ n \in DOMAIN posted /\ n \in Nat \ {0}
    BY <1>2, <1>3 DEF Shown, Explicit, Waiting, Reminders
  <2>3. r \in Nat /\ receipt \in Receipt
    <3>1. read[n] \in Latest
      BY <1>3, <2>2
    <3>2. r \in Nat
      BY <3>1 DEF Latest
    <3>3. receipt \in Receipt
      BY <2>1 DEF Receipt
    <3>4. QED
      BY <3>2, <3>3
  <2>4. s \in SUBSET (Nat \ {0}) /\ n \in s
    <3>1. DOMAIN read \subseteq Nat \ {0}
      BY <1>3
    <3>2. QED
      BY <2>2, <3>1 DEF Stands, Reminders, Grouped
  <2>5. item' = [item EXCEPT ![p] = new]
    BY <2>1
  <2>6. ASSUME posted[n].kind = "review_due", r = 0,
               NEW m \in DOMAIN posted, m < n, Grouped(m, n), m \notin s
        PROVE  Settled(m)
    <3>1. n \in Reminders(read)
      <4>1. n \notin Explicit(read) /\ n \notin Waiting(read)
        BY <1>3, <2>2, <2>6 DEF Explicit, Waiting
      <4>2. QED
        BY <4>1 DEF Shown
    <3>2. s = {i \in Reminders(read) : Grouped(i, n)}
      BY <3>1 DEF Stands
    <3>3. m \in DOMAIN read /\ m \notin Reminders(read)
      BY <1>2, <1>3, <2>2, <2>6, <3>2
    <3>4. posted[m].kind = "review_due"
      BY <2>6 DEF Grouped
    <3>5. read[m].revision # 0 \/ Covered(read, m)
      BY <3>3, <3>4 DEF Reminders
    <3>6. \A i \in DOMAIN read : /\ i \in DOMAIN posted /\ read[i].revision \in Nat
                                 /\ Len(receipts[i]) = 0 <=> receipts[i] = <<>>
                                 /\ Len(receipts[i]) \in Nat
      <4>1. \A i \in DOMAIN read : i \in DOMAIN posted /\ read[i].revision \in Nat
        <5>1. \A i \in DOMAIN read : read[i] \in Latest
          BY <1>3
        <5>2. DOMAIN read \subseteq DOMAIN posted
          BY <1>2, <1>3
        <5>3. QED
          BY <5>1, <5>2 DEF Latest
      <4>2. QED
        BY <4>1, LatestIs DEF ReviewInv
    <3>7. \A i \in DOMAIN read : read[i].revision # 0 => receipts[i] # <<>>
      BY <1>3, <3>6
    <3>8. CASE read[m].revision # 0
      BY <3>3, <3>7, <3>8 DEF Settled
    <3>9. CASE Covered(read, m)
      <4>1. PICK i \in DOMAIN read : i > m /\ Grouped(i, m) /\ read[i].revision > 0
        BY <3>9 DEF Covered
      <4>2. i \in DOMAIN posted /\ receipts[i] # <<>>
        BY <3>6, <3>7, <4>1
      <4>3. QED
        BY <4>1, <4>2 DEF Settled
    <3>10. QED
      BY <3>5, <3>8, <3>9
  <2> HIDE DEF r, s, receipt
  <2>7. new \in Item /\ new.seq = n /\ new.expected = r /\ new.stands = s
    BY <2>2, <2>3, <2>4 DEF Item
  <2> HIDE DEF new
  <2>8. item' \in [Reviewers -> Item \cup {Blank}] /\ item'[p] = new
    BY <1>2, <2>5, <2>7
  <2>9. \A q \in Reviewers : item'[q] # Blank => item'[q].seq \in item'[q].stands
    BY <1>2, <2>4, <2>5, <2>7, <2>8
  <2>10. ReviewTypeOK'
    BY <1>1, <1>4, <2>8, <2>9 DEF ReviewInv, ReviewTypeOK
  <2>11. \A m, i : (Grouped(m, i)' <=> Grouped(m, i)) /\ (Settled(m)' <=> Settled(m))
    BY <1>1 DEF Grouped, Settled
  <2>12. ItemOK(p)'
    <3>1. \A m : Grouped(m, item[p].seq)' <=> Grouped(m, n)
      BY <1>1, <2>7, <2>8 DEF Grouped
    <3>2. QED
      BY <1>1, <2>2, <2>6, <2>7, <2>8, <2>11, <3>1 DEF ItemOK
  <2>13. QED
    BY <1>1, <1>2, <1>5, <1>6, <2>5, <2>10, <2>12, ReviewerHolds
<1>9. QED
  BY <1>7, <1>8

(* What recording a review does to the receipts.                           *)
LEMMA RecordFields ==
    ASSUME ReviewInv, NEW p \in Reviewers, RecordReview(p)
    PROVE  LET k == item[p].seq IN
           /\ k \in DOMAIN posted /\ item[p] # Blank
           /\ Len(receipts[k]) = item[p].expected /\ posted' = posted
           /\ receipts' \in Seq(Seq(Receipt)) /\ Len(receipts') = Len(receipts)
           /\ Len(receipts'[k]) = Len(receipts[k]) + 1 /\ receipts'[k] # <<>>
           /\ receipts'[k] # receipts[k]
           /\ \A n \in DOMAIN posted \ {k} : receipts'[n] = receipts[n]
           /\ \A n \in DOMAIN posted : Len(receipts[n]) \in Nat
<1> DEFINE k == item[p].seq
           chain == Append(receipts[k], item[p].receipt)
<1>1. /\ item[p] # Blank /\ Len(receipts[k]) = item[p].expected /\ posted' = posted
      /\ receipts' = [receipts EXCEPT ![k] = chain]
  BY DEF RecordReview, Appendable
<1>2. /\ k \in DOMAIN posted /\ item[p].receipt \in Receipt
      /\ receipts \in Seq(Seq(Receipt)) /\ Len(receipts) = Len(posted)
      /\ DOMAIN receipts = DOMAIN posted /\ \A n \in DOMAIN posted : Len(receipts[n]) \in Nat
  BY <1>1 DEF ReviewInv, ReviewTypeOK, ItemOK, Item
<1>3. chain \in Seq(Receipt) /\ Len(chain) = Len(receipts[k]) + 1
  BY <1>2
<1>4. chain # <<>> /\ chain # receipts[k]
  <2>1. Len(chain) # 0 /\ Len(chain) # Len(receipts[k])
    BY <1>2, <1>3
  <2>2. QED
    BY <2>1, SMTT(30)
<1> HIDE DEF chain
<1>5. /\ receipts' \in Seq(Seq(Receipt)) /\ Len(receipts') = Len(receipts) /\ receipts'[k] = chain
      /\ \A n \in DOMAIN posted \ {k} : receipts'[n] = receipts[n]
  BY <1>1, <1>2, <1>3
<1>6. QED
  BY <1>1, <1>2, <1>3, <1>4, <1>5

(* A receipt is written by whoever has not yet written it.                 *)
LEMMA RecordReviewHolds ==
    ASSUME ReviewInv, NEW p \in Reviewers, RecordReview(p)
    PROVE  ReviewInv'
<1> DEFINE k == item[p].seq
<1>1. /\ k \in DOMAIN posted /\ item[p] # Blank
      /\ Len(receipts[k]) = item[p].expected /\ posted' = posted
      /\ receipts' \in Seq(Seq(Receipt)) /\ Len(receipts') = Len(receipts)
      /\ Len(receipts'[k]) = Len(receipts[k]) + 1 /\ receipts'[k] # <<>>
      /\ \A n \in DOMAIN posted \ {k} : receipts'[n] = receipts[n]
      /\ \A n \in DOMAIN posted : Len(receipts[n]) \in Nat
  BY RecordFields
<1>2. scan' = scan /\ item' = item /\ written' = [written EXCEPT ![p] = @ + 1]
  BY DEF RecordReview
<1>3. written \in [Reviewers -> Nat] /\ written[p] \in Nat /\ WrittenOK(p) /\ ScanOK(p) /\ ItemOK(p)
      /\ Len(posted) \in Nat
  BY DEF ReviewInv, ReviewTypeOK
<1>4. written[p] = 0
  <2>1. ~ (Len(receipts[k]) > item[p].expected)
    BY <1>1
  <2>2. QED
    BY <1>3, <2>1 DEF WrittenOK
<1>5. /\ written' \in [Reviewers -> Nat] /\ written'[p] = 1
      /\ \A q \in Reviewers \ {p} : written'[q] = written[q]
  BY <1>2, <1>3, <1>4
<1>6. ReviewTypeOK'
  BY <1>1, <1>2, <1>5 DEF ReviewInv, ReviewTypeOK
<1>7. Grown
  <2>1. \A n \in DOMAIN posted : /\ Len(receipts[n]) <= Len(receipts'[n])
                                 /\ receipts[n] # <<>> => receipts'[n] # <<>>
    <3>1. SUFFICES ASSUME NEW n \in DOMAIN posted
                   PROVE  /\ Len(receipts[n]) <= Len(receipts'[n])
                          /\ receipts[n] # <<>> => receipts'[n] # <<>>
      OBVIOUS
    <3>2. CASE n = k
      BY <1>1, <3>2
    <3>3. CASE n # k
      BY <1>1, <3>3
    <3>4. QED
      BY <3>2, <3>3
  <2>2. QED
    BY <1>1, <1>3, <2>1 DEF Grown
<1>8. \A q \in Reviewers \ {p} : ScanOK(q)' /\ ItemOK(q)' /\ WrittenOK(q)'
  BY <1>2, <1>5, <1>6, <1>7, GrownKeeps
<1>9. WrittenOK(p)'
  <2>1. Len(receipts'[k]) > item[p].expected
    BY <1>1
  <2>2. QED
    BY <1>1, <1>2, <1>5, <2>1 DEF WrittenOK
<1>10. ScanOK(p)'
  BY <1>1, <1>2, <1>3 DEF ScanOK
<1>11. ItemOK(p)'
  <2>1. \A m, n \in DOMAIN posted : Grouped(m, n)' <=> Grouped(m, n)
    BY <1>1 DEF Grouped
  <2>2. \A n \in DOMAIN posted : Settled(n) => Settled(n)'
    BY <1>1, <1>7, <2>1 DEF Settled, Grown
  <2>3. \A n : Grouped(n, item[p].seq)' <=> Grouped(n, item[p].seq)
    BY <1>1, <1>2 DEF Grouped
  <2>4. QED
    BY <1>1, <1>2, <1>3, <2>2, <2>3 DEF ItemOK
<1>12. QED
  BY <1>6, <1>8, <1>9, <1>10, <1>11 DEF ReviewInv

(* The item is laid down.                                                  *)
LEMMA LayDownHolds ==
    ASSUME ReviewInv, NEW p \in Reviewers, LayDown(p)
    PROVE  ReviewInv'
<1>1. /\ posted' = posted /\ receipts' = receipts /\ scan' = scan
      /\ item' = [item EXCEPT ![p] = Blank] /\ written' = [written EXCEPT ![p] = 0]
  BY DEF LayDown
<1>2. /\ item \in [Reviewers -> Item \cup {Blank}] /\ written \in [Reviewers -> Nat] /\ ScanOK(p)
      /\ \A q \in Reviewers : item[q] # Blank => item[q].seq \in item[q].stands
  BY DEF ReviewInv, ReviewTypeOK
<1>3. /\ item' \in [Reviewers -> Item \cup {Blank}] /\ written' \in [Reviewers -> Nat]
      /\ item'[p] = Blank /\ written'[p] = 0
      /\ \A q \in Reviewers : item'[q] # Blank => item'[q].seq \in item'[q].stands
  BY <1>1, <1>2
<1>4. ReviewTypeOK'
  BY <1>1, <1>3 DEF ReviewInv, ReviewTypeOK
<1>5. ScanOK(p)' /\ ItemOK(p)' /\ WrittenOK(p)'
  BY <1>1, <1>2, <1>3 DEF ScanOK, ItemOK, WrittenOK
<1>6. QED
  BY <1>1, <1>2, <1>4, <1>5, ReviewerHolds DEF ReviewInv, ReviewTypeOK

(* Every step of the queue.                                                *)
LEMMA ReviewNextHolds == ReviewInv /\ [ReviewNext]_reviewVars => ReviewInv'
<1>1. ASSUME ReviewInv, UNCHANGED reviewVars PROVE ReviewInv'
  <2>1. /\ posted' = posted /\ receipts' = receipts /\ scan' = scan
        /\ item' = item /\ written' = written
    BY <1>1 DEF reviewVars
  <2>2. ReviewTypeOK'
    BY <1>1, <2>1 DEF ReviewInv, ReviewTypeOK
  <2>3. QED
    BY <1>1, <2>1, <2>2 DEF ReviewInv, ScanOK, ItemOK, WrittenOK, Settled, Grouped
<1>2. QED
  BY <1>1, PostHolds, ReadHolds, DecideHolds, RecordReviewHolds, LayDownHolds DEF ReviewNext

(* What leaves the queue was settled, or stood for by the item.            *)
LEMMA RecordTakesItem ==
    ASSUME ReviewInv, NEW p \in Reviewers, RecordReview(p),
           NEW n \in Outstanding(Current) \ Outstanding(Current')
    PROVE  n \in item[p].stands /\ posted[n] = posted[item[p].seq]
<1> DEFINE k == item[p].seq
           now == Current
           then == Current'
<1>1. /\ k \in DOMAIN posted /\ item[p] # Blank
      /\ Len(receipts[k]) = item[p].expected /\ posted' = posted
      /\ \A i \in DOMAIN posted \ {k} : receipts'[i] = receipts[i]
  BY RecordFields
<1>2. /\ ItemOK(p) /\ k \in item[p].stands
      /\ posted \in Seq(Posted) /\ DOMAIN posted = 1..Len(posted) /\ Len(posted) \in Nat
  BY <1>1 DEF ReviewInv, ReviewTypeOK
<1>3. /\ DOMAIN now = 1..Len(posted) /\ DOMAIN then = 1..Len(posted)
      /\ \A i \in DOMAIN posted : now[i] = LatestReview(i)
      /\ \A i \in DOMAIN posted \ {k} : then[i] = now[i]
  BY <1>1, <1>2 DEF Current, LatestReview
<1> HIDE DEF now, then
<1>4. /\ n \in Explicit(now) \cup Waiting(now) \cup Reminders(now)
      /\ n \notin Explicit(then) \cup Waiting(then) \cup Reminders(then)
  BY <1>2, <1>3, OutstandingWait DEF now, then
<1>5. n \in DOMAIN posted
  BY <1>2, <1>3, <1>4 DEF Explicit, Waiting, Reminders
<1>6. CASE n = k
  BY <1>2, <1>6
<1>7. CASE n # k
  <2>1. n \in Reminders(now) /\ n \notin Reminders(then) /\ then[n] = now[n]
    BY <1>2, <1>3, <1>4, <1>5, <1>7 DEF Explicit, Waiting
  <2>2. /\ posted[n].kind = "review_due" /\ now[n].revision = 0
        /\ ~ Covered(now, n) /\ Covered(then, n)
    BY <1>2, <1>3, <1>5, <2>1 DEF Reminders
  <2>3. k > n /\ Grouped(k, n)
    BY <1>3, <2>2 DEF Covered
  <2>4. \A i \in DOMAIN posted : /\ now[i].revision = Len(receipts[i]) /\ Len(receipts[i]) \in Nat
                                 /\ Len(receipts[i]) = 0 <=> receipts[i] = <<>>
    BY <1>3, LatestIs DEF ReviewInv
  <2>5. item[p].expected = 0
    BY <1>1, <1>2, <1>3, <2>2, <2>3, <2>4 DEF Covered
  <2>6. ~ Settled(n)
    <3>1. receipts[n] = <<>>
      BY <1>5, <2>2, <2>4
    <3>2. \A m \in DOMAIN posted : m > n /\ Grouped(m, n) => receipts[m] = <<>>
      BY <1>2, <1>3, <2>2, <2>4 DEF Covered
    <3>3. QED
      BY <3>1, <3>2 DEF Settled
  <2>7. n < k /\ Grouped(n, k) /\ posted[k].kind = "review_due"
    BY <1>1, <1>2, <1>5, <2>3 DEF Grouped
  <2>8. n \in item[p].stands
    BY <1>1, <1>2, <1>5, <2>5, <2>6, <2>7 DEF ItemOK
  <2>9. posted[n] = posted[k]
    <3>1. posted[n] \in Posted /\ posted[k] \in Posted
      BY <1>1, <1>2, <1>5
    <3>2. posted[n].kind = posted[k].kind /\ posted[n].issue = posted[k].issue
      BY <2>7 DEF Grouped
    <3>3. QED
      BY <3>1, <3>2 DEF Posted
  <2>10. QED
    BY <2>8, <2>9
<1>8. QED
  BY <1>6, <1>7

-----------------------------------------------------------------------------
(* The invariant of the queue.                                             *)
LEMMA ReviewsCorrect == ReviewSpec => []ReviewInv
BY ReviewInitHolds, ReviewNextHolds, PTL DEF ReviewSpec

(* A decision is recorded at most once, however often it is repeated       *)
(* (record_review).                                                        *)
THEOREM DecisionsOnce == ReviewSpec => []RecordedOnce
<1>1. ReviewInv => RecordedOnce
  BY DEF ReviewInv, WrittenOK, RecordedOnce
<1>2. QED
  BY <1>1, ReviewsCorrect, PTL

(* A receipt takes from the queue no more than its reviewer was shown      *)
(* (pending_items, record_review).                                         *)
THEOREM NothingLeavesUnseen == ReviewSpec => LeavesOnlyIfShown
<1>1. ReviewInv /\ [ReviewNext]_reviewVars =>
          [receipts' # receipts /\ posted' = posted =>
               \E p \in Reviewers :
                   /\ item[p] # Blank
                   /\ receipts'[item[p].seq] # receipts[item[p].seq]
                   /\ \A n \in Outstanding(Current) \ Outstanding(Current') :
                          n \in item[p].stands /\ posted[n] = posted[item[p].seq]]_reviewVars
  <2>1. SUFFICES ASSUME ReviewInv, ReviewNext, receipts' # receipts, posted' = posted
                 PROVE  \E p \in Reviewers :
                            /\ item[p] # Blank
                            /\ receipts'[item[p].seq] # receipts[item[p].seq]
                            /\ \A n \in Outstanding(Current) \ Outstanding(Current') :
                                   n \in item[p].stands /\ posted[n] = posted[item[p].seq]
    OBVIOUS
  <2>2. ASSUME NEW event \in Posted, Post(event) PROVE FALSE
    <3>1. posted \in Seq(Posted) /\ posted' = Append(posted, event)
      BY <2>1, <2>2 DEF Post, ReviewInv, ReviewTypeOK
    <3>2. Len(posted') = Len(posted) + 1 /\ Len(posted) \in Nat
      BY <3>1
    <3>3. QED
      BY <2>1, <3>2
  <2>3. PICK p \in Reviewers : RecordReview(p)
    BY <2>1, <2>2 DEF ReviewNext, ListEvents, ReadReceipts, Decide, LayDown
  <2>4. item[p] # Blank /\ receipts'[item[p].seq] # receipts[item[p].seq]
    BY <2>1, <2>3, RecordFields
  <2>5. QED
    BY <2>1, <2>3, <2>4, RecordTakesItem
<1>2. QED
  BY <1>1, ReviewsCorrect, PTL DEF ReviewSpec, LeavesOnlyIfShown

-----------------------------------------------------------------------------
(***************************************************************************)
(* Every match up to the cursor was returned by exactly one wait           *)
(* (WaitOutput), for logs of any number and length and every size of a     *)
(* read. EveryMatchReturned speaks only of the cursor. WaitInv adds where  *)
(* a running wait is: its position is the start of a line of its file, no  *)
(* match lies between the cursor it began at and that position, and what   *)
(* it has read follows the position in the file. That the bytes of a       *)
(* stretch of the log have the same lines and matches as the log has there *)
(* (StretchMatches) is why the reads may cut lines anywhere.               *)
(***************************************************************************)

(* The bytes a wait has read but not consumed are those of its file behind *)
(* its position.                                                           *)
Follows(buffer, log, after) ==
    /\ after + Len(buffer) <= Len(log)
    /\ \A i \in 1..Len(buffer) : buffer[i] = log[after + i]

Returned(log, after) == {k \in Matching(log) : k <= after}

(* The caller's cursor: at the start of a line behind the returned matches *)
ResumeOK ==
    IF resume.file = NoFile
      THEN matches = 0 /\ resume.after = 0
      ELSE /\ resume.file \in DOMAIN logs
           /\ resume.after \in {0} \cup LineEnds(logs[resume.file])
           /\ matches = Cardinality(Returned(logs[resume.file], resume.after))

(* The wait's position: at the start of a line, and no match since the     *)
(* cursor it began at.                                                     *)
Positioned(log) ==
    /\ wait.after \in {0} \cup LineEnds(log)
    /\ resume.after <= wait.after
    /\ \A k \in Matching(log) : ~(resume.after < k /\ k <= wait.after)
    /\ Follows(wait.buffer, log, wait.after)

PositionOK ==
    /\ wait.state = "closed" =>
           wait.after = resume.after /\ wait.file = NoFile /\ wait.buffer = <<>>
    /\ wait.state \in {"open", "checked", "read"} =>
           /\ wait.file \in DOMAIN logs /\ resume.file \in {NoFile, wait.file}
           /\ Positioned(logs[wait.file])

WaitInv == WaitTypeOK /\ ResumeOK /\ PositionOK

-----------------------------------------------------------------------------
(* The lines of a stretch of a log that begins with a line are those of    *)
(* the log.                                                                *)
LEMMA StretchMatches ==
    ASSUME NEW log \in Seq(Bytes), NEW after \in Nat, NEW buffer \in Seq(Bytes),
           Follows(buffer, log, after), after \in {0} \cup LineEnds(log)
    PROVE  \A k \in 1..Len(buffer) : /\ k \in LineEnds(buffer) <=> after + k \in LineEnds(log)
                                     /\ k \in Matching(buffer) <=> after + k \in Matching(log)
<1>1. /\ Len(log) \in Nat /\ DOMAIN log = 1..Len(log)
      /\ Len(buffer) \in Nat /\ DOMAIN buffer = 1..Len(buffer)
      /\ after + Len(buffer) <= Len(log)
      /\ \A i \in 1..Len(buffer) : buffer[i] = log[after + i]
  BY DEF Follows
<1>2. \A i \in 1..Len(buffer) : after + i \in DOMAIN log
  BY <1>1
<1>3. \A k \in 1..Len(buffer) : k \in LineEnds(buffer) <=> after + k \in LineEnds(log)
  BY <1>1, <1>2 DEF LineEnds
<1>4. /\ LineEnds(buffer) \subseteq 1..Len(buffer) /\ LineEnds(log) \subseteq 1..Len(log)
  BY <1>1 DEF LineEnds
<1>5. ASSUME NEW k \in 1..Len(buffer), NEW i \in 1..k
      PROVE  i \in LineOf(buffer, k) <=> after + i \in LineOf(log, after + k)
  <2>1. ASSUME i \in LineOf(buffer, k), NEW e \in LineEnds(log), after + i <= e, e < after + k
        PROVE  FALSE
    <3>1. e \in Nat /\ e - after \in 1..Len(buffer) /\ after + (e - after) = e
          /\ i <= e - after /\ ~(e - after >= k)
      BY <1>1, <1>4, <2>1
    <3>2. e - after \in LineEnds(buffer)
      BY <1>3, <3>1
    <3>3. QED
      BY <2>1, <3>1, <3>2 DEF LineOf
  <2>2. ASSUME after + i \in LineOf(log, after + k), NEW e \in LineEnds(buffer), i <= e, e < k
        PROVE  FALSE
    <3>1. e \in 1..Len(buffer) /\ after + i <= after + e /\ ~(after + e >= after + k)
      BY <1>1, <1>4, <2>2
    <3>2. after + e \in LineEnds(log)
      BY <1>3, <3>1
    <3>3. QED
      BY <2>2, <3>1, <3>2 DEF LineOf
  <2>3. after + i \in 1..(after + k)
    BY <1>1
  <2>4. \A e \in LineEnds(log) :
            (after + i <= e => e >= after + k) \/ (after + i <= e /\ e < after + k)
    BY <1>1, <1>4
  <2>5. \A e \in LineEnds(buffer) : (i <= e => e >= k) \/ (i <= e /\ e < k)
    BY <1>1, <1>4
  <2>6. QED
    BY <2>1, <2>2, <2>3, <2>4, <2>5 DEF LineOf
<1>6. ASSUME NEW k \in 1..Len(buffer), NEW i \in LineOf(log, after + k)
      PROVE  i - after \in 1..k /\ after + (i - after) = i
  <2>1. i \in 1..(after + k) /\ \A e \in LineEnds(log) : i <= e => e >= after + k
    BY DEF LineOf
  <2>2. ~(i <= after)
    <3>1. CASE after = 0
      BY <2>1, <3>1
    <3>2. CASE after \in LineEnds(log)
      BY <2>1, <3>2
    <3>3. QED
      BY <3>1, <3>2
  <2>3. QED
    BY <2>1, <2>2
<1>7. ASSUME NEW k \in 1..Len(buffer)
      PROVE  k \in Matching(buffer) <=> after + k \in Matching(log)
  <2>1. ASSUME k \in Matching(buffer) PROVE after + k \in Matching(log)
    <3>1. PICK i \in LineOf(buffer, k) : buffer[i] = "m"
      BY <2>1 DEF Matching
    <3>2. i \in 1..k
      BY DEF LineOf
    <3>3. i \in 1..Len(buffer)
      BY <1>1, <3>2
    <3>4. after + i \in LineOf(log, after + k) /\ log[after + i] = "m"
      BY <1>1, <1>5, <3>1, <3>2, <3>3
    <3>5. after + k \in LineEnds(log)
      BY <1>3, <2>1 DEF Matching
    <3>6. QED
      BY <3>4, <3>5 DEF Matching
  <2>2. ASSUME after + k \in Matching(log) PROVE k \in Matching(buffer)
    <3>1. PICK j \in LineOf(log, after + k) : log[j] = "m"
      BY <2>2 DEF Matching
    <3>2. PICK i \in 1..k : i = j - after /\ after + i = j
      BY <1>6
    <3>3. i \in 1..Len(buffer)
      BY <1>1, <3>2
    <3>4. i \in LineOf(buffer, k) /\ buffer[i] = "m"
      BY <1>1, <1>5, <3>1, <3>2, <3>3
    <3>5. k \in LineEnds(buffer)
      BY <1>3, <2>2 DEF Matching
    <3>6. QED
      BY <3>4, <3>5 DEF Matching
  <2>3. QED
    BY <2>1, <2>2
<1>8. QED
  BY <1>3, <1>7

(* Line ends and matches are positions in the log; there are finitely many *)
LEMMA ReturnedFinite ==
    ASSUME NEW log \in Seq(Bytes), NEW after
    PROVE  /\ Matching(log) \subseteq LineEnds(log) /\ LineEnds(log) \subseteq 1..Len(log)
           /\ Len(log) \in Nat
           /\ IsFiniteSet(Returned(log, after)) /\ Cardinality(Returned(log, after)) \in Nat
<1>1. /\ Matching(log) \subseteq LineEnds(log) /\ LineEnds(log) \subseteq 1..Len(log)
      /\ Len(log) \in Nat
  BY DEF Matching, LineEnds
<1>2. Returned(log, after) \in SUBSET (1..Len(log)) /\ 1 \in Int
  BY <1>1 DEF Returned
<1>3. IsFiniteSet(1..Len(log))
  BY <1>1, <1>2, FS_Interval
<1>4. IsFiniteSet(Returned(log, after))
  BY <1>2, <1>3, FS_Subset
<1>5. QED
  BY <1>1, <1>4, FS_CardinalityType

(* A log that grows keeps its lines, and what was returned of it.          *)
LEMMA GrowthKeeps ==
    ASSUME NEW log \in Seq(Bytes), NEW more \in Seq(Bytes), Follows(log, more, 0)
    PROVE  /\ \A k \in 1..Len(log) : /\ k \in LineEnds(log) <=> k \in LineEnds(more)
                                     /\ k \in Matching(log) <=> k \in Matching(more)
           /\ \A after \in {0} \cup LineEnds(log) : Returned(more, after) = Returned(log, after)
<1>1. \A k \in 1..Len(log) : /\ k \in LineEnds(log) <=> 0 + k \in LineEnds(more)
                             /\ k \in Matching(log) <=> 0 + k \in Matching(more)
  BY StretchMatches
<1>2. \A k \in 1..Len(log) : 0 + k = k
  OBVIOUS
<1>3. \A k \in 1..Len(log) : /\ k \in LineEnds(log) <=> k \in LineEnds(more)
                             /\ k \in Matching(log) <=> k \in Matching(more)
  BY <1>1, <1>2
<1>4. /\ Matching(log) \subseteq 1..Len(log) /\ Matching(more) \subseteq 1..Len(more)
      /\ LineEnds(log) \subseteq 1..Len(log) /\ Len(log) \in Nat /\ Len(more) \in Nat
  BY DEF Matching, LineEnds
<1>5. ASSUME NEW after \in {0} \cup LineEnds(log)
      PROVE  Returned(more, after) = Returned(log, after)
  <2>1. \A k \in Matching(more) : k <= after => k \in 1..Len(log)
    BY <1>4
  <2>2. QED
    BY <1>3, <1>4, <2>1 DEF Returned
<1>6. QED
  BY <1>3, <1>5

-----------------------------------------------------------------------------
(* The invariant of the cursor is kept when logs only grow.                *)
Longer ==
    /\ DOMAIN logs \subseteq DOMAIN logs'
    /\ \A f \in DOMAIN logs : Follows(logs[f], logs'[f], 0)

(* What holds of the cursor and of the wait holds of longer logs.          *)
LEMMA LongerKeeps ==
    ASSUME WaitInv, Longer, logs' \in Seq(Seq(Bytes)), Len(logs') <= MaxLogs,
           UNCHANGED <<resume, wait, matches>>
    PROVE  WaitInv'
<1>1. WaitTypeOK' /\ logs \in Seq(Seq(Bytes))
  BY DEF WaitInv, WaitTypeOK
<1>2. ASSUME NEW f \in DOMAIN logs
      PROVE  /\ logs[f] \in Seq(Bytes) /\ logs'[f] \in Seq(Bytes) /\ f \in DOMAIN logs'
             /\ Follows(logs[f], logs'[f], 0)
             /\ \A k \in 1..Len(logs[f]) : /\ k \in LineEnds(logs[f]) <=> k \in LineEnds(logs'[f])
                                           /\ k \in Matching(logs[f]) <=> k \in Matching(logs'[f])
             /\ \A after \in {0} \cup LineEnds(logs[f]) :
                    Returned(logs'[f], after) = Returned(logs[f], after)
  <2>1. logs[f] \in Seq(Bytes) /\ logs'[f] \in Seq(Bytes) /\ f \in DOMAIN logs'
        /\ Follows(logs[f], logs'[f], 0)
    BY <1>1 DEF Longer
  <2>2. \A log, more \in Seq(Bytes) : Follows(log, more, 0) =>
            /\ \A k \in 1..Len(log) : /\ k \in LineEnds(log) <=> k \in LineEnds(more)
                                      /\ k \in Matching(log) <=> k \in Matching(more)
            /\ \A after \in {0} \cup LineEnds(log) : Returned(more, after) = Returned(log, after)
    BY GrowthKeeps
  <2>3. QED
    BY <2>1, <2>2
<1>3. ResumeOK'
  <2>1. CASE resume.file = NoFile
    BY <2>1 DEF WaitInv, ResumeOK
  <2>2. CASE resume.file # NoFile
    <3>1. PICK f, after : f = resume.file /\ after = resume.after
      OBVIOUS
    <3>2. /\ f \in DOMAIN logs /\ after \in {0} \cup LineEnds(logs[f])
          /\ matches = Cardinality(Returned(logs[f], after))
      BY <2>2, <3>1 DEF WaitInv, ResumeOK
    <3>3. LineEnds(logs[f]) \subseteq 1..Len(logs[f])
      BY <1>2, <3>2, ReturnedFinite
    <3>4. /\ after \in {0} \cup LineEnds(logs'[f])
          /\ Returned(logs'[f], after) = Returned(logs[f], after)
      BY <1>2, <3>2, <3>3
    <3>5. f \in DOMAIN logs' /\ matches' = Cardinality(Returned(logs'[f], after))
      BY <1>2, <3>2, <3>4
    <3>6. resume'.file = f /\ resume'.after = after
      BY <3>1
    <3>7. QED
      BY <2>2, <3>1, <3>4, <3>5, <3>6 DEF ResumeOK
  <2>3. QED
    BY <2>1, <2>2
<1>4. PositionOK'
  <2>1. SUFFICES ASSUME wait.state \in {"open", "checked", "read"} PROVE PositionOK'
    BY DEF WaitInv, PositionOK
  <2>2. PICK f, after, buffer, from : /\ f = wait.file /\ after = wait.after /\ buffer = wait.buffer
                                      /\ from = resume.after
    OBVIOUS
  <2>3. /\ f \in DOMAIN logs /\ resume.file \in {NoFile, f} /\ after \in {0} \cup LineEnds(logs[f])
        /\ from <= after /\ from \in Nat /\ after \in Nat
        /\ \A k \in Matching(logs[f]) : ~(from < k /\ k <= after)
        /\ Follows(buffer, logs[f], after) /\ buffer \in Seq(Bytes)
    BY <2>1, <2>2 DEF WaitInv, WaitTypeOK, PositionOK, Positioned
  <2> DEFINE log == logs[f]
             more == logs'[f]
  <2>4. /\ log \in Seq(Bytes) /\ more \in Seq(Bytes) /\ f \in DOMAIN logs'
        /\ Follows(log, more, 0)
        /\ \A k \in 1..Len(log) : /\ k \in LineEnds(log) <=> k \in LineEnds(more)
                                  /\ k \in Matching(log) <=> k \in Matching(more)
    BY <1>2, <2>3
  <2>5. log = logs[f] /\ more = logs'[f]
    OBVIOUS
  <2> HIDE DEF log, more
  <2>6. LineEnds(log) \subseteq 1..Len(log) /\ Matching(more) \subseteq 1..Len(more)
        /\ Len(log) \in Nat /\ Len(more) \in Nat /\ Len(buffer) \in Nat
    BY <2>3, <2>4 DEF LineEnds, Matching
  <2>7. after \in {0} \cup LineEnds(more)
    BY <2>3, <2>4, <2>5, <2>6
  <2>8. \A k \in Matching(more) : ~(from < k /\ k <= after)
    <3>1. SUFFICES ASSUME NEW k \in Matching(more), from < k, k <= after PROVE FALSE
      OBVIOUS
    <3>2. k \in 1..Len(log)
      BY <2>3, <2>5, <2>6, <3>1
    <3>3. QED
      BY <2>3, <2>4, <2>5, <3>1, <3>2
  <2>9. Follows(buffer, more, after)
    <3>1. /\ Len(log) <= Len(more) /\ \A i \in 1..Len(log) : log[i] = more[0 + i]
          /\ after + Len(buffer) <= Len(log) /\ \A i \in 1..Len(buffer) : buffer[i] = log[after + i]
      BY <2>3, <2>4, <2>5, <2>6 DEF Follows
    <3>2. after + Len(buffer) <= Len(more)
      BY <2>3, <2>6, <3>1
    <3>3. ASSUME NEW i \in 1..Len(buffer) PROVE buffer[i] = more[after + i]
      <4>1. after + i \in 1..Len(log) /\ 0 + (after + i) = after + i
        BY <2>3, <2>6, <3>1
      <4>2. QED
        BY <3>1, <4>1
    <3>4. QED
      BY <3>2, <3>3 DEF Follows
  <2>10. /\ wait'.file = f /\ wait'.after = after /\ wait'.buffer = buffer /\ resume'.after = from
         /\ resume'.file = resume.file /\ wait'.state = wait.state
    BY <2>2
  <2>11. Positioned(logs[f])'
    BY <2>3, <2>5, <2>7, <2>8, <2>9, <2>10 DEF Positioned
  <2>12. Positioned(logs[wait.file])'
    BY <2>10, <2>11 DEF Positioned
  <2>13. QED
    BY <2>1, <2>3, <2>4, <2>10, <2>12 DEF PositionOK
<1>5. QED
  BY <1>1, <1>3, <1>4 DEF WaitInv

-----------------------------------------------------------------------------
(* There is no log at first, and no cursor.                                *)
LEMMA WaitInitHolds == WaitInit => WaitInv
<1> SUFFICES ASSUME WaitInit PROVE WaitInv
  OBVIOUS
<1>1. /\ logs = <<>> /\ resume = [after |-> 0, file |-> NoFile] /\ wait = Idle /\ matches = 0
  BY DEF WaitInit
<1>2. /\ logs \in Seq(Seq(Bytes)) /\ Len(logs) = 0 /\ MaxLogs \in Nat
  BY <1>1, WaitAssumption
<1>3. WaitTypeOK
  BY <1>1, <1>2 DEF WaitTypeOK, Idle
<1>4. QED
  BY <1>1, <1>3 DEF WaitInv, ResumeOK, PositionOK, Idle

(* A log grows, or another file takes its name.                            *)
LEMMA WriterHolds ==
    ASSUME WaitInv, Rotate \/ \E byte \in Bytes : WriteByte(byte)
    PROVE  WaitInv'
<1>1. /\ logs \in Seq(Seq(Bytes)) /\ Len(logs) <= MaxLogs /\ Len(logs) \in Nat
      /\ DOMAIN logs = 1..Len(logs) /\ MaxLogs \in Nat
      /\ \A f \in DOMAIN logs : logs[f] \in Seq(Bytes)
  BY WaitAssumption DEF WaitInv, WaitTypeOK
<1>2. \A log \in Seq(Bytes) : Follows(log, log, 0)
  <2>1. SUFFICES ASSUME NEW log \in Seq(Bytes) PROVE Follows(log, log, 0)
    OBVIOUS
  <2>2. Len(log) \in Nat /\ 0 + Len(log) <= Len(log) /\ \A i \in 1..Len(log) : 0 + i = i
    OBVIOUS
  <2>3. QED
    BY <2>2 DEF Follows
<1>3. CASE Rotate
  <2>1. /\ Len(logs) < MaxLogs /\ logs' = Append(logs, <<>>) /\ UNCHANGED <<resume, wait, matches>>
    BY <1>3 DEF Rotate
  <2>2. <<>> \in Seq(Bytes)
    OBVIOUS
  <2>3. /\ logs' \in Seq(Seq(Bytes)) /\ Len(logs') = Len(logs) + 1
        /\ DOMAIN logs \subseteq DOMAIN logs' /\ \A f \in DOMAIN logs : logs'[f] = logs[f]
    BY <1>1, <2>1, <2>2
  <2>4. Longer
    BY <1>1, <1>2, <2>3 DEF Longer
  <2>5. Len(logs') <= MaxLogs
    BY <1>1, <2>1, <2>3
  <2>6. QED
    BY <2>1, <2>3, <2>4, <2>5, LongerKeeps
<1>4. CASE \E byte \in Bytes : WriteByte(byte)
  <2>1. PICK byte \in Bytes : WriteByte(byte)
    BY <1>4
  <2> DEFINE last == Len(logs)
             more == Append(logs[last], byte)
  <2>2. /\ logs # <<>> /\ logs' = [logs EXCEPT ![last] = more]
        /\ UNCHANGED <<resume, wait, matches>>
    BY <2>1 DEF WriteByte
  <2>3. last \in DOMAIN logs /\ logs[last] \in Seq(Bytes)
    BY <1>1, <2>2
  <2>4. /\ more \in Seq(Bytes) /\ Len(more) = Len(logs[last]) + 1
        /\ \A i \in 1..Len(logs[last]) : more[i] = logs[last][i]
    BY <2>1, <2>3
  <2> HIDE DEF more
  <2>5. Follows(logs[last], more, 0)
    <3>1. Len(logs[last]) \in Nat /\ \A i \in 1..Len(logs[last]) : 0 + i = i
      BY <2>3
    <3>2. 0 + Len(logs[last]) <= Len(more)
      BY <2>4, <3>1
    <3>3. QED
      BY <2>4, <3>1, <3>2 DEF Follows
  <2>6. /\ logs' \in Seq(Seq(Bytes)) /\ Len(logs') = Len(logs) /\ DOMAIN logs' = DOMAIN logs
        /\ logs'[last] = more /\ \A f \in DOMAIN logs \ {last} : logs'[f] = logs[f]
    BY <1>1, <2>2, <2>3, <2>4
  <2>7. Longer
    BY <1>1, <1>2, <2>5, <2>6 DEF Longer
  <2>8. QED
    BY <1>1, <2>2, <2>6, <2>7, LongerKeeps
<1>5. QED
  BY <1>3, <1>4

(* A wait starts, opens the log and looks at its name.                     *)
LEMMA OpeningHolds ==
    ASSUME WaitInv, StartWait \/ OpenLog \/ CheckPath
    PROVE  WaitInv'
<1>1. /\ logs \in Seq(Seq(Bytes)) /\ Len(logs) <= MaxLogs /\ Len(logs) \in Nat
      /\ DOMAIN logs = 1..Len(logs) /\ MaxLogs \in Nat
      /\ resume.after \in Nat /\ resume.file \in {NoFile} \cup FileIds
      /\ wait \in [state : {"idle", "closed", "open", "checked", "read"},
                   file : {NoFile} \cup FileIds, after : Nat, buffer : Seq(Bytes)]
  BY WaitAssumption DEF WaitInv, WaitTypeOK
<1>2. UNCHANGED <<logs, resume, matches>>
  BY DEF StartWait, OpenLog, CheckPath
<1>3. ResumeOK'
  BY <1>2 DEF WaitInv, ResumeOK
<1>4. ASSUME wait' \in [state : {"idle", "closed", "open", "checked", "read"},
                        file : {NoFile} \cup FileIds, after : Nat, buffer : Seq(Bytes)],
             PositionOK'
      PROVE  WaitInv'
  <2>1. WaitTypeOK'
    BY <1>2, <1>4 DEF WaitInv, WaitTypeOK
  <2>2. QED
    BY <1>3, <1>4, <2>1 DEF WaitInv
<1>5. CASE StartWait
  <2>1. wait' = [state |-> "closed", file |-> NoFile, after |-> resume.after, buffer |-> <<>>]
    BY <1>5 DEF StartWait, Idle
  <2>2. PositionOK'
    BY <1>2, <2>1 DEF PositionOK
  <2>3. QED
    BY <1>1, <1>4, <2>1, <2>2
<1>6. CASE OpenLog
  <2> DEFINE f == Len(logs)
             new == [wait EXCEPT !.state = "open", !.file = f]
  <2>1. /\ wait.state = "closed" /\ logs # <<>> /\ resume.file \in {NoFile, f} /\ wait' = new
    BY <1>6 DEF OpenLog
  <2>2. f \in DOMAIN logs /\ f \in FileIds
    BY <1>1, <2>1 DEF FileIds
  <2>3. wait.after = resume.after /\ wait.buffer = <<>>
    BY <2>1 DEF WaitInv, PositionOK
  <2>4. resume.after \in {0} \cup LineEnds(logs[f])
    BY <2>1 DEF WaitInv, ResumeOK
  <2>5. f = Len(logs)
    OBVIOUS
  <2> HIDE DEF f
  <2>6. /\ new \in [state : {"idle", "closed", "open", "checked", "read"},
                    file : {NoFile} \cup FileIds, after : Nat, buffer : Seq(Bytes)]
        /\ new.state = "open" /\ new.file = f /\ new.after = resume.after /\ new.buffer = <<>>
    BY <1>1, <2>2, <2>3
  <2> HIDE DEF new
  <2>7. logs[f] \in Seq(Bytes) /\ Len(logs[f]) \in Nat
    BY <1>1, <2>2
  <2>8. /\ resume.after <= resume.after
        /\ \A k \in Matching(logs[f]) : ~(resume.after < k /\ k <= resume.after)
        /\ resume.after + 0 <= Len(logs[f])
    <3>1. LineEnds(logs[f]) \subseteq 1..Len(logs[f]) /\ Matching(logs[f]) \subseteq 1..Len(logs[f])
      BY <2>7 DEF LineEnds, Matching
    <3>2. QED
      BY <1>1, <2>4, <2>7, <3>1
  <2>9. Follows(<<>>, logs[f], resume.after)
    BY <2>8 DEF Follows
  <2>10. PositionOK'
    BY <1>2, <2>1, <2>2, <2>4, <2>6, <2>8, <2>9 DEF PositionOK, Positioned
  <2>11. QED
    BY <1>4, <2>1, <2>6, <2>10
<1>7. CASE CheckPath
  <2> DEFINE new == [wait EXCEPT !.state = "checked"]
  <2>1. wait.state \in {"open", "read"} /\ wait' = new
    BY <1>7 DEF CheckPath
  <2>2. /\ new \in [state : {"idle", "closed", "open", "checked", "read"},
                    file : {NoFile} \cup FileIds, after : Nat, buffer : Seq(Bytes)]
        /\ new.state = "checked" /\ new.file = wait.file /\ new.after = wait.after
        /\ new.buffer = wait.buffer
    BY <1>1
  <2> HIDE DEF new
  <2>3. /\ wait.file \in DOMAIN logs /\ resume.file \in {NoFile, wait.file}
        /\ Positioned(logs[wait.file])
    BY <2>1 DEF WaitInv, PositionOK
  <2>4. Positioned(logs[wait.file])'
    BY <1>2, <2>1, <2>2, <2>3 DEF Positioned
  <2>5. PositionOK'
    BY <1>2, <2>1, <2>2, <2>3, <2>4 DEF PositionOK
  <2>6. QED
    BY <1>4, <2>1, <2>2, <2>5
<1>8. QED
  BY <1>5, <1>6, <1>7

(* What a wait has read follows the log up to where it has read.           *)
LEMMA ReadFollows ==
    ASSUME NEW log \in Seq(Bytes), NEW old \in Seq(Bytes), NEW after \in Nat,
           Follows(old, log, after)
    PROVE  LET from == after + Len(old)
               upto == Min({Len(log), from + ChunkBytes})
               buffer == old \o SubSeq(log, from + 1, upto)
           IN  buffer \in Seq(Bytes) /\ Follows(buffer, log, after)
<1> DEFINE from == after + Len(old)
           upto == Min({Len(log), from + ChunkBytes})
           next == SubSeq(log, from + 1, upto)
           buffer == old \o next
<1>1. /\ Len(log) \in Nat /\ Len(old) \in Nat /\ from \in Nat /\ from <= Len(log)
      /\ ChunkBytes \in Nat
      /\ \A i \in 1..Len(old) : old[i] = log[after + i]
  BY WaitAssumption DEF Follows
<1>2. upto \in Nat /\ from <= upto /\ upto <= Len(log)
  <2>1. {Len(log), from + ChunkBytes} \in SUBSET Nat /\ {Len(log), from + ChunkBytes} # {}
    BY <1>1
  <2>2. upto \in {Len(log), from + ChunkBytes} /\ upto <= Len(log)
    BY <2>1, MinIsLeast
  <2>3. QED
    BY <1>1, <2>2
<1> HIDE DEF upto
<1>3. from = after + Len(old)
  OBVIOUS
<1> HIDE DEF from
<1>4. /\ next \in Seq(Bytes) /\ Len(next) = upto - from
      /\ \A i \in 1..(upto - from) : next[i] = log[from + i]
  <2>1. \A i \in (from + 1)..upto : log[i] \in Bytes
    BY <1>1, <1>2
  <2>2. Len(next) = upto - from /\ \A i \in 1..(upto - from) : next[i] = log[from + i]
    BY <1>1, <1>2
  <2>3. next \in Seq(Bytes)
    BY <1>1, <1>2
  <2>4. QED
    BY <2>2, <2>3
<1> HIDE DEF next
<1>5. /\ buffer \in Seq(Bytes) /\ Len(buffer) = Len(old) + (upto - from)
      /\ \A i \in 1..Len(buffer) : buffer[i] = IF i <= Len(old) THEN old[i] ELSE next[i - Len(old)]
  BY <1>1, <1>2, <1>4
<1> HIDE DEF buffer
<1>6. after + Len(buffer) <= Len(log)
  BY <1>1, <1>2, <1>3, <1>5
<1>7. ASSUME NEW i \in 1..Len(buffer) PROVE buffer[i] = log[after + i]
  <2>1. CASE i <= Len(old)
    <3>1. i \in 1..Len(old)
      BY <1>1, <1>2, <1>5, <2>1
    <3>2. QED
      BY <1>1, <1>5, <2>1, <3>1
  <2>2. CASE ~(i <= Len(old))
    <3>1. i - Len(old) \in 1..(upto - from) /\ from + (i - Len(old)) = after + i
      BY <1>1, <1>2, <1>3, <1>5, <2>2
    <3>2. QED
      BY <1>4, <1>5, <2>2, <3>1
  <2>3. QED
    BY <2>1, <2>2
<1>8. Follows(buffer, log, after)
  BY <1>6, <1>7 DEF Follows
<1>9. QED
  BY <1>5, <1>8 DEF buffer, next, upto, from

(* One more match is returned: the first after the wait's position.        *)
LEMMA OneMoreReturned ==
    ASSUME NEW log \in Seq(Bytes), NEW from \in Nat, NEW after \in Nat, from <= after,
           \A k \in Matching(log) : ~(from < k /\ k <= after),
           NEW at \in Matching(log), after < at,
           \A k \in Matching(log) : after < k => at <= k
    PROVE  Cardinality(Returned(log, at)) = Cardinality(Returned(log, from)) + 1
<1>1. at \in Nat /\ \A k \in Matching(log) : k \in Nat
  BY ReturnedFinite
<1>2. Returned(log, at) = Returned(log, from) \cup {at} /\ at \notin Returned(log, from)
  <2>1. \A k \in Matching(log) : k <= at <=> (k <= from \/ k = at)
    BY <1>1
  <2>2. ~(at <= from)
    BY <1>1
  <2>3. QED
    BY <2>1, <2>2 DEF Returned
<1>3. IsFiniteSet(Returned(log, from))
  BY ReturnedFinite
<1>4. /\ Cardinality(Returned(log, from) \cup {at}) =
             IF at \in Returned(log, from) THEN Cardinality(Returned(log, from))
                                           ELSE Cardinality(Returned(log, from)) + 1
  BY <1>3, FS_AddElement
<1>5. QED
  BY <1>2, <1>4

(* Nothing was returned between the cursor and a position without a match. *)
LEMMA NoneBetween ==
    ASSUME NEW log \in Seq(Bytes), NEW from \in Nat, NEW after \in Nat, from <= after,
           \A k \in Matching(log) : ~(from < k /\ k <= after)
    PROVE  Returned(log, after) = Returned(log, from)
<1>1. \A k \in Matching(log) : k \in Nat
  BY ReturnedFinite
<1>2. QED
  BY <1>1 DEF Returned

(* Before the first line nothing was returned.                             *)
LEMMA NoneAtStart ==
    ASSUME NEW log \in Seq(Bytes)
    PROVE  Returned(log, 0) = {} /\ Cardinality(Returned(log, 0)) = 0
<1>1. \A k \in Matching(log) : k \in 1..Len(log) /\ ~(k <= 0)
  BY ReturnedFinite
<1>2. Returned(log, 0) = {}
  BY <1>1 DEF Returned
<1>3. QED
  BY <1>2, FS_EmptySet

(* What the cursor of a running wait has returned.                         *)
LEMMA ReturnedSoFar ==
    ASSUME WaitInv, wait.state \in {"open", "checked", "read"}
    PROVE  /\ wait.file \in DOMAIN logs /\ wait.file # NoFile
           /\ wait.file \in FileIds /\ logs[wait.file] \in Seq(Bytes)
           /\ wait.after \in Nat /\ resume.after \in Nat /\ wait.buffer \in Seq(Bytes)
           /\ Positioned(logs[wait.file])
           /\ matches = Cardinality(Returned(logs[wait.file], resume.after))
<1>1. /\ wait.file \in DOMAIN logs /\ resume.file \in {NoFile, wait.file}
      /\ Positioned(logs[wait.file])
  BY DEF WaitInv, PositionOK
<1>2. /\ logs \in Seq(Seq(Bytes)) /\ wait.after \in Nat /\ resume.after \in Nat
      /\ wait.buffer \in Seq(Bytes) /\ Len(logs) <= MaxLogs
  BY DEF WaitInv, WaitTypeOK
<1>3. /\ logs[wait.file] \in Seq(Bytes) /\ wait.file \in 1..Len(logs) /\ Len(logs) \in Nat
  BY <1>1, <1>2
<1>4. wait.file # NoFile /\ wait.file \in FileIds
  BY <1>2, <1>3, WaitAssumption DEF NoFile, FileIds
<1>5. matches = Cardinality(Returned(logs[wait.file], resume.after))
  <2>1. CASE resume.file = NoFile
    <3>1. matches = 0 /\ resume.after = 0
      BY <2>1 DEF WaitInv, ResumeOK
    <3>2. QED
      BY <1>3, <3>1, NoneAtStart
  <2>2. CASE resume.file # NoFile
    <3>1. resume.file = wait.file
      BY <1>1, <2>2
    <3>2. QED
      BY <2>2, <3>1 DEF WaitInv, ResumeOK
  <2>3. QED
    BY <2>1, <2>2
<1>6. QED
  BY <1>1, <1>2, <1>3, <1>4, <1>5

(* A chunk is read: the first match of it is the first behind the          *)
(* position, and without one there is none in the consumed lines.          *)
LEMMA ReadChunkHolds ==
    ASSUME WaitInv, ReadChunk
    PROVE  WaitInv'
<1> DEFINE f == wait.file
           log == logs[f]
           after == wait.after
           upto == Min({Len(log), after + Len(wait.buffer) + ChunkBytes})
           buffer == wait.buffer \o SubSeq(log, after + Len(wait.buffer) + 1, upto)
<1>1. /\ wait.state = "checked" /\ UNCHANGED logs
      /\ IF Matching(buffer) # {}
           THEN /\ resume' = [after |-> after + Min(Matching(buffer)), file |-> f]
                /\ matches' = matches + 1
                /\ wait' = Idle
           ELSE /\ wait' = [wait EXCEPT !.state = "read", !.after = @ + Consumed(buffer),
                                !.buffer = SubSeq(buffer, Consumed(buffer) + 1, Len(buffer))]
                /\ UNCHANGED <<resume, matches>>
  BY DEF ReadChunk
<1>2. /\ f \in DOMAIN logs /\ f # NoFile /\ f \in FileIds /\ log \in Seq(Bytes) /\ after \in Nat
      /\ resume.after \in Nat /\ wait.buffer \in Seq(Bytes)
      /\ matches = Cardinality(Returned(log, resume.after))
      /\ after \in {0} \cup LineEnds(log) /\ resume.after <= after
      /\ \A k \in Matching(log) : ~(resume.after < k /\ k <= after)
      /\ Follows(wait.buffer, log, after)
  BY <1>1, ReturnedSoFar DEF Positioned
<1>3. buffer \in Seq(Bytes) /\ Follows(buffer, log, after)
  BY <1>2, ReadFollows
<1>4. /\ wait \in [state : {"idle", "closed", "open", "checked", "read"},
                   file : {NoFile} \cup FileIds, after : Nat, buffer : Seq(Bytes)]
      /\ logs \in Seq(Seq(Bytes)) /\ Len(logs) <= MaxLogs /\ matches \in Nat
      /\ resume \in [after : Nat, file : {NoFile} \cup FileIds]
      /\ resume.file \in {NoFile, f}
  BY <1>1 DEF WaitInv, WaitTypeOK, PositionOK
<1>5. f = wait.file /\ log = logs[f] /\ after = wait.after
  OBVIOUS
<1> HIDE DEF f, log, after, upto, buffer
<1>6. /\ Len(log) \in Nat /\ Len(buffer) \in Nat /\ after + Len(buffer) <= Len(log)
      /\ \A i \in 1..Len(buffer) : buffer[i] = log[after + i]
  BY <1>2, <1>3 DEF Follows
<1>7. /\ Matching(log) \subseteq LineEnds(log) /\ LineEnds(log) \subseteq 1..Len(log)
      /\ Matching(buffer) \subseteq LineEnds(buffer) /\ LineEnds(buffer) \subseteq 1..Len(buffer)
  BY <1>2, <1>3, ReturnedFinite
<1>8. \A k \in 1..Len(buffer) : /\ k \in LineEnds(buffer) <=> after + k \in LineEnds(log)
                                /\ k \in Matching(buffer) <=> after + k \in Matching(log)
  BY <1>2, <1>3, StretchMatches
<1>9. CASE Matching(buffer) # {}
  <2> DEFINE at == Min(Matching(buffer))
             new == after + at
  <2>1. Matching(buffer) \in SUBSET Nat
    BY <1>7
  <2>2. at \in Matching(buffer) /\ \A k \in Matching(buffer) : at <= k
    BY <1>9, <2>1, MinIsLeast
  <2>3. /\ resume' = [after |-> new, file |-> f] /\ matches' = matches + 1 /\ wait' = Idle
    BY <1>1, <1>9 DEF buffer, after, f, log, upto
  <2> HIDE DEF at
  <2>4. at \in 1..Len(buffer) /\ at \in Nat
    BY <1>6, <1>7, <2>2
  <2>5. new \in Matching(log) /\ new \in LineEnds(log) /\ new \in Nat /\ after < new
    BY <1>2, <1>7, <1>8, <2>2, <2>4
  <2>6. ASSUME NEW k \in Matching(log), after < k, k < new PROVE FALSE
    <3>1. k \in Nat /\ k - after \in 1..Len(buffer) /\ after + (k - after) = k
      <4>1. k \in Nat /\ after \in Nat
        BY <1>2, <1>6, <1>7
      <4>2. k < after + at
        BY <2>6
      <4>3. QED
        BY <1>6, <2>4, <2>6, <4>1, <4>2
    <3>2. k - after \in Matching(buffer)
      BY <1>8, <3>1
    <3>3. ~(at <= k - after)
      BY <1>2, <2>4, <2>6, <3>1
    <3>4. QED
      BY <2>2, <3>2, <3>3
  <2> HIDE DEF new
  <2>7. \A k \in Matching(log) : after < k => new <= k
    <3>1. \A k \in Matching(log) : k \in Nat
      BY <1>6, <1>7
    <3>2. QED
      BY <2>5, <2>6, <3>1
  <2>8. Cardinality(Returned(log, new)) = Cardinality(Returned(log, resume.after)) + 1
    BY <1>2, <2>5, <2>7, OneMoreReturned
  <2>9. /\ resume' \in [after : Nat, file : {NoFile} \cup FileIds] /\ resume'.file = f
        /\ resume'.after = new
    BY <1>2, <2>3, <2>5
  <2>10. ResumeOK'
    BY <1>1, <1>2, <1>5, <2>3, <2>5, <2>8, <2>9 DEF ResumeOK
  <2>11. WaitTypeOK'
    BY <1>1, <1>4, <2>3, <2>9 DEF WaitTypeOK, Idle
  <2>12. PositionOK'
    BY <2>3 DEF PositionOK, Idle
  <2>13. QED
    BY <2>10, <2>11, <2>12 DEF WaitInv
<1>10. CASE Matching(buffer) = {}
  <2> DEFINE c == Consumed(buffer)
             rest == SubSeq(buffer, c + 1, Len(buffer))
             pos == after + c
             new == [wait EXCEPT !.state = "read", !.after = pos, !.buffer = rest]
  <2>1. /\ wait' = new /\ UNCHANGED <<resume, matches>>
    BY <1>1, <1>10 DEF buffer, after, f, log, upto
  <2>2. c \in {0} \cup LineEnds(buffer) /\ c \in 0..Len(buffer)
    <3>1. {0} \cup LineEnds(buffer) \in SUBSET (0..Len(buffer))
      BY <1>6, <1>7
    <3>2. c \in {0} \cup LineEnds(buffer)
      BY <1>6, <3>1, MaxIsGreatest DEF Consumed
    <3>3. QED
      BY <3>1, <3>2
  <2> HIDE DEF c
  <2>3. /\ rest \in Seq(Bytes) /\ Len(rest) = Len(buffer) - c
        /\ \A i \in 1..(Len(buffer) - c) : rest[i] = buffer[c + i]
    <3>1. c \in Nat /\ c <= Len(buffer)
      BY <1>6, <2>2
    <3>2. Len(rest) = Len(buffer) - c /\ \A i \in 1..(Len(buffer) - c) : rest[i] = buffer[c + i]
      BY <1>3, <1>6, <3>1
    <3>3. rest \in Seq(Bytes)
      BY <1>3, <1>6, <3>1
    <3>4. QED
      BY <3>2, <3>3
  <2> HIDE DEF rest
  <2>4. pos \in Nat /\ after <= pos /\ resume.after <= pos /\ c \in Nat /\ pos = after + c
    BY <1>2, <1>6, <2>2
  <2>5. pos \in {0} \cup LineEnds(log)
    <3>1. CASE c = 0
      BY <1>2, <3>1
    <3>2. CASE c \in LineEnds(buffer)
      BY <1>7, <1>8, <3>2
    <3>3. QED
      BY <2>2, <3>1, <3>2
  <2>6. \A k \in Matching(log) : ~(resume.after < k /\ k <= pos)
    <3>1. SUFFICES ASSUME NEW k \in Matching(log), resume.after < k, k <= pos PROVE FALSE
      OBVIOUS
    <3>2. k \in Nat /\ after < k
      BY <1>2, <1>6, <1>7, <3>1
    <3>3. k - after \in 1..Len(buffer) /\ after + (k - after) = k
      BY <1>2, <1>6, <2>2, <2>4, <3>1, <3>2
    <3>4. k - after \in Matching(buffer)
      BY <1>8, <3>3
    <3>5. QED
      BY <1>10, <3>4
  <2> HIDE DEF pos
  <2>7. Follows(rest, log, pos)
    <3>1. pos + Len(rest) <= Len(log)
      BY <1>2, <1>6, <2>2, <2>3, <2>4
    <3>2. ASSUME NEW i \in 1..Len(rest) PROVE rest[i] = log[pos + i]
      <4>1. i \in 1..(Len(buffer) - c) /\ c + i \in 1..Len(buffer) /\ after + (c + i) = pos + i
        BY <1>2, <1>6, <2>2, <2>3, <2>4, SMTT(30)
      <4>2. QED
        BY <1>6, <2>3, <4>1
    <3>3. QED
      BY <3>1, <3>2 DEF Follows
  <2>8. /\ new \in [state : {"idle", "closed", "open", "checked", "read"},
                    file : {NoFile} \cup FileIds, after : Nat, buffer : Seq(Bytes)]
        /\ new.state = "read" /\ new.after = pos /\ new.buffer = rest /\ new.file = f
    BY <1>4, <1>5, <2>3, <2>4
  <2> HIDE DEF new
  <2>9. WaitTypeOK'
    BY <1>1, <1>4, <2>1, <2>8 DEF WaitTypeOK
  <2>10. Positioned(logs[wait.file])'
    BY <1>1, <1>5, <2>1, <2>4, <2>5, <2>6, <2>7, <2>8 DEF Positioned
  <2>11. PositionOK'
    BY <1>1, <1>2, <1>4, <2>1, <2>8, <2>10 DEF PositionOK
  <2>12. ResumeOK'
    BY <1>1, <2>1 DEF WaitInv, ResumeOK
  <2>13. QED
    BY <2>9, <2>11, <2>12 DEF WaitInv
<1>11. QED
  BY <1>9, <1>10

(* The wait ends without a match: its position is the next cursor, or the  *)
(* caller starts over.                                                     *)
LEMMA GivingUpHolds ==
    ASSUME WaitInv, TimeOut \/ Replaced
    PROVE  WaitInv'
<1>1. /\ logs \in Seq(Seq(Bytes)) /\ Len(logs) <= MaxLogs /\ matches \in Nat
      /\ wait.after \in Nat /\ wait.file \in {NoFile} \cup FileIds
      /\ UNCHANGED logs /\ wait' = Idle
  BY DEF WaitInv, WaitTypeOK, TimeOut, Replaced
<1>2. PositionOK'
  BY <1>1 DEF PositionOK, Idle
<1>3. ASSUME resume' \in [after : Nat, file : {NoFile} \cup FileIds], matches' \in Nat, ResumeOK'
      PROVE  WaitInv'
  <2>1. WaitTypeOK'
    BY <1>1, <1>3 DEF WaitTypeOK, Idle
  <2>2. QED
    BY <1>2, <1>3, <2>1 DEF WaitInv
<1>4. CASE Replaced
  <2>1. resume' = [after |-> 0, file |-> NoFile] /\ matches' = 0
    BY <1>4 DEF Replaced
  <2>2. QED
    BY <1>3, <2>1 DEF ResumeOK
<1>5. CASE TimeOut
  <2>1. resume' = [after |-> wait.after, file |-> wait.file] /\ matches' = matches
    BY <1>5 DEF TimeOut
  <2>2. resume' \in [after : Nat, file : {NoFile} \cup FileIds]
    BY <1>1, <2>1
  <2>3. CASE wait.state = "closed" /\ resume.file = NoFile
    <3>1. wait.after = 0 /\ wait.file = NoFile /\ matches = 0
      BY <2>3 DEF WaitInv, PositionOK, ResumeOK
    <3>2. ResumeOK'
      BY <2>1, <3>1 DEF ResumeOK
    <3>3. QED
      BY <1>1, <1>3, <2>1, <2>2, <3>2
  <2>4. CASE wait.state = "read"
    <3>1. PICK f, after, from, log : /\ f = wait.file /\ after = wait.after /\ from = resume.after
                                     /\ log = logs[f]
      OBVIOUS
    <3>2. /\ f \in DOMAIN logs /\ f # NoFile /\ log \in Seq(Bytes)
          /\ after \in Nat /\ from \in Nat /\ matches = Cardinality(Returned(log, from))
          /\ after \in {0} \cup LineEnds(log) /\ from <= after
          /\ \A k \in Matching(log) : ~(from < k /\ k <= after)
      BY <2>4, <3>1, ReturnedSoFar DEF Positioned
    <3>3. Returned(log, after) = Returned(log, from)
      BY <3>2, NoneBetween
    <3>4. resume'.file = f /\ resume'.after = after /\ logs'[f] = log /\ DOMAIN logs' = DOMAIN logs
      BY <1>1, <2>1, <3>1
    <3>5. ResumeOK'
      BY <2>1, <3>2, <3>3, <3>4 DEF ResumeOK
    <3>6. QED
      BY <1>1, <1>3, <2>1, <2>2, <3>5
  <2>5. QED
    BY <1>5, <2>3, <2>4 DEF TimeOut
<1>6. QED
  BY <1>4, <1>5

(* Every step of the log and its waits.                                    *)
LEMMA WaitNextHolds == WaitInv /\ [WaitNext]_waitVars => WaitInv'
<1>1. ASSUME WaitInv, UNCHANGED waitVars PROVE WaitInv'
  <2>1. logs' = logs /\ resume' = resume /\ wait' = wait /\ matches' = matches
    BY <1>1 DEF waitVars
  <2>2. WaitTypeOK' /\ ResumeOK' /\ PositionOK'
    BY <1>1, <2>1 DEF WaitInv, WaitTypeOK, ResumeOK, PositionOK, Positioned
  <2>3. QED
    BY <2>2 DEF WaitInv
<1>2. QED
  BY <1>1, WriterHolds, OpeningHolds, ReadChunkHolds, GivingUpHolds DEF WaitNext

(* The invariant of the waits.                                             *)
LEMMA WaitsCorrect == WaitSpec => []WaitInv
BY WaitInitHolds, WaitNextHolds, PTL DEF WaitSpec

(* Every line up to the cursor that contains the pattern was returned, by  *)
(* exactly one wait (wait_output).                                         *)
THEOREM MatchesAreReturned == WaitSpec => []EveryMatchReturned
<1>1. WaitInv => EveryMatchReturned
  BY DEF WaitInv, ResumeOK, Returned, EveryMatchReturned
<1>2. QED
  BY <1>1, WaitsCorrect, PTL
=============================================================================
