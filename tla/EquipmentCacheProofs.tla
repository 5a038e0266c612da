-------------------------- MODULE EquipmentCacheProofs --------------------------
(***************************************************************************)
(* Proofs about EquipmentCache: its types, and that a mail is admitted on  *)
(* recent word of MES only, for every set of devices and status codes,     *)
(* every setting from_env accepts and any number of failures.              *)
(***************************************************************************)
EXTENDS EquipmentCache, TLAPS

CountIsZeroed == \A d \in Device : mes[d] \in AlertCodes => since[d] = 0

(* What a device shows as alerting it was, not longer ago than the time its *)
(* row has been on the way: in the answer, the copy and the look at it.    *)
AnswerIsYoung ==
    phase = "fetch" =>
        /\ timer <= CallTime
        /\ \A d \in Device : rows[d] \in AlertCodes => since[d] <= timer

CopyIsDated ==
    available => \A d \in Device : statuses[d] \in AlertCodes => since[d] <= age + CallTime

LookIsDated ==
    pc = "asked" /\ seen.available /\ seen.code \in AlertCodes
        => since[seen.device] <= seen.age + CallTime

(* A copy is as old as the wait that followed it. *)
WaitIsBounded ==
    /\ phase = "wait" /\ timer # 0 => Finite(refresh) /\ timer <= refresh + Lateness
    /\ phase = "wait" /\ available => age = timer
    /\ phase = "loop" /\ available => age = 0 \/ (Finite(refresh) /\ age <= refresh + Lateness)

IInv == TypeOK /\ CountIsZeroed /\ AnswerIsYoung /\ CopyIsDated /\ LookIsDated /\ WaitIsBounded

LEMMA LaterIsNat ==
    ASSUME NEW n \in 0 .. Horizon
    PROVE  /\ Later(n) \in 0 .. Horizon /\ n <= Later(n) /\ Later(n) <= n + 1
           /\ \A k \in 0 .. Horizon : n <= k => Later(n) <= Later(k)
BY CacheAssumption DEF CacheAssumption, Later

LEMMA SettingsAreNumbers ==
    ASSUME NEW s \in Seconds \cup {NaN, Inf}
    PROVE  /\ Finite(s) => s \in Nat /\ s + CallTime < Horizon /\ s + Lateness < Horizon
           /\ s = 0 => Finite(s)
BY CacheAssumption DEF CacheAssumption, Finite

(* The limit, when it is a number, is not below the wait or the age asked  *)
(* about.                                                                  *)
LEMMA BelowOnNumbers ==
    ASSUME NEW x \in Seconds \cup {NaN, Inf}, NEW n \in Nat
    PROVE  Below(x, n) <=> (Finite(x) /\ x < n)
BY CacheAssumption DEF CacheAssumption, Below, Finite

LEMMA NoRowsType == NoRows \in [Device -> Status]
BY DEF NoRows, Status

(* What the thread and its callers do leaves MES alone.                    *)
LEMMA WorldIsApart ==
    ASSUME [Next]_vars
    PROVE  \/ \E d \in Device, s \in Status : ChangeStatus(d, s)
           \/ Tick
           \/ ThreadStep /\ UNCHANGED world
           \/ CallerStep /\ UNCHANGED <<world, thread, cache>>
           \/ UNCHANGED <<world, thread, cache>>
<1>1. ThreadStep => UNCHANGED world
  BY DEF ThreadStep, EnterQuery, Execute, Hang, QueryFails, Publish, EndWait, WaitRaises, Refreshing
<1>2. CallerStep => UNCHANGED <<world, thread, cache>>
  BY DEF CallerStep, Ask, Decide, Judge, Answer, Stop, Joined
<1>3. UNCHANGED vars => UNCHANGED <<world, thread, cache>>
  BY DEF vars
<1> QED
  BY <1>1, <1>2, <1>3 DEF Next

(* The step that admits a mail is the end of alert_decision.               *)
LEMMA OnlyDecideAdmits ==
    ASSUME IInv, Next, NEW d \in Device, verdict # verdict',
           verdict' = [device |-> d, reason |-> "alerts"]
    PROVE  pc = "asked" /\ Decide
<1> USE CacheAssumption DEF CacheAssumption
<1>1. ASSUME NEW e \in Device, NEW s \in Status, ChangeStatus(e, s)
      PROVE  FALSE
  BY <1>1 DEF ChangeStatus, caller
<1>2. ~Tick /\ ~Joined
  BY DEF Tick, Joined
<1>3. ~ThreadStep
  BY DEF ThreadStep, EnterQuery, Execute, Hang, QueryFails, Publish, EndWait, WaitRaises,
         Refreshing, caller
<1>4. ~Stop /\ \A e \in Device : ~Ask(e)
  <2>1. verdict' # None
    OBVIOUS
  <2> QED
    BY <2>1 DEF Stop, Ask
<1> QED
  BY <1>1, <1>2, <1>3, <1>4 DEF Next, CallerStep, Decide

LEMMA HoldsAtInit == Init => IInv
<1> SUFFICES ASSUME Init PROVE IInv
  OBVIOUS
<1> USE CacheAssumption DEF CacheAssumption
<1>1. TypeOK
  <2>1. since \in [Device -> 0 .. Horizon]
    BY DEF Init
  <2>2. age \in 0 .. Horizon /\ timer \in 0 .. Horizon /\ faults \in 0 .. MaxFaults /\ joining \in 0 .. JoinTime
    BY DEF Init
  <2> QED
    BY <2>1, <2>2, NoRowsType DEF Init, TypeOK
<1>2. CountIsZeroed /\ AnswerIsYoung /\ CopyIsDated /\ LookIsDated
  BY DEF Init, CountIsZeroed, AnswerIsYoung, CopyIsDated, LookIsDated
<1>3. WaitIsBounded
  BY DEF Init, WaitIsBounded
<1> QED
  BY <1>1, <1>2, <1>3 DEF IInv

LEMMA TypeStep ==
    ASSUME TypeOK, [Next]_vars
    PROVE  TypeOK'
<1> USE CacheAssumption DEF CacheAssumption
<1>1. ASSUME NEW d \in Device, NEW s \in Status, ChangeStatus(d, s)
      PROVE  TypeOK'
  BY <1>1 DEF ChangeStatus, TypeOK, settings, thread, cache, caller
<1>2. CASE Tick
  <2>1. timer' \in 0 .. Horizon /\ age' \in 0 .. Horizon
    BY <1>2, LaterIsNat DEF Tick, TypeOK
  <2>2. since' \in [Device -> 0 .. Horizon]
    BY <1>2, LaterIsNat DEF Tick, TypeOK
  <2>3. IF pc' = "asked" THEN seen' \in Sight ELSE seen' = NoSight
    BY <1>2, LaterIsNat DEF Tick, TypeOK, Sight
  <2>4. joining' \in 0 .. JoinTime
    BY <1>2 DEF Tick, TypeOK
  <2> QED
    BY <1>2, <2>1, <2>2, <2>3, <2>4 DEF Tick, TypeOK, settings
<1>3. CASE EnterQuery
  BY <1>3 DEF EnterQuery, Refreshing, TypeOK, settings, world, cache, caller
<1>4. CASE Execute
  BY <1>4 DEF Execute, Refreshing, TypeOK, settings, world, cache, caller
<1>5. CASE Hang
  BY <1>5 DEF Hang, Fault, Refreshing, TypeOK, settings, world, cache, caller
<1>6. CASE QueryFails
  <2>1. faults' \in 0 .. MaxFaults
    BY <1>6 DEF QueryFails, Fault, TypeOK
  <2>2. timer' \in 0 .. Horizon
    BY <1>6 DEF QueryFails
  <2>3. available' = FALSE
    BY <1>6, Zenon DEF QueryFails
  <2> QED
    BY <1>6, <2>1, <2>2, <2>3, NoRowsType DEF QueryFails, Refreshing, TypeOK, settings, world, caller
<1>7. CASE Publish
  BY <1>7, NoRowsType DEF Publish, Refreshing, TypeOK, settings, world, caller
<1>8. CASE EndWait
  BY <1>8 DEF EndWait, Refreshing, TypeOK, settings, world, cache, caller
<1>9. CASE WaitRaises
  BY <1>9 DEF WaitRaises, Refreshing, TypeOK, settings, world, cache, caller
<1>10. ASSUME NEW d \in Device, Ask(d)
       PROVE  TypeOK'
  <2>1. seen' \in Sight
    BY <1>10 DEF Ask, TypeOK, Sight
  <2> QED
    BY <1>10, <2>1 DEF Ask, TypeOK, settings, world, thread, cache
<1>11. CASE Decide
  <2>1. verdict' \in Verdict
    BY <1>11 DEF Decide, Judge, Answer, TypeOK, Sight, Verdict
  <2> QED
    BY <1>11, <2>1 DEF Decide, Judge, Answer, TypeOK, settings, world, thread, cache
<1>12. CASE Stop
  BY <1>12 DEF Stop, TypeOK, settings, world, thread, cache
<1>13. CASE Joined
  BY <1>13 DEF Joined, TypeOK, settings, world, thread, cache
<1>14. CASE UNCHANGED vars
  BY <1>14 DEF vars, TypeOK, settings, world, thread, cache, caller
<1> QED
  BY <1>1, <1>2, <1>3, <1>4, <1>5, <1>6, <1>7, <1>8, <1>9, <1>10, <1>11, <1>12, <1>13, <1>14
  DEF Next, ThreadStep, CallerStep

LEMMA CountStep ==
    ASSUME TypeOK, CountIsZeroed, [Next]_vars
    PROVE  CountIsZeroed'
<1>1. ASSUME NEW d \in Device, NEW s \in Status, ChangeStatus(d, s)
      PROVE  CountIsZeroed'
  BY <1>1 DEF ChangeStatus, CountIsZeroed, TypeOK
<1>2. CASE Tick
  BY <1>2 DEF Tick, CountIsZeroed
<1>3. CASE UNCHANGED world
  BY <1>3 DEF world, CountIsZeroed
<1> QED
  BY <1>1, <1>2, <1>3, WorldIsApart

LEMMA AnswerStep ==
    ASSUME TypeOK, CountIsZeroed, AnswerIsYoung, [Next]_vars
    PROVE  AnswerIsYoung'
<1> USE CacheAssumption DEF CacheAssumption
<1>1. ASSUME NEW d \in Device, NEW s \in Status, ChangeStatus(d, s)
      PROVE  AnswerIsYoung'
  BY <1>1 DEF ChangeStatus, AnswerIsYoung, TypeOK, thread
<1>2. CASE Tick
  <2> SUFFICES ASSUME phase' = "fetch"
               PROVE  /\ timer' <= CallTime
                      /\ \A d \in Device : rows'[d] \in AlertCodes => since'[d] <= timer'
    BY DEF AnswerIsYoung
  <2>1. phase = "fetch" /\ timer < CallTime /\ timer' = Later(timer)
    BY <1>2 DEF Tick, MayTakeTime
  <2>2. timer' <= CallTime
    BY <2>1, LaterIsNat DEF TypeOK
  <2>3. ASSUME NEW d \in Device, rows'[d] \in AlertCodes
        PROVE  since'[d] <= timer'
    <3>1. since[d] <= timer /\ since[d] \in 0 .. Horizon /\ timer \in 0 .. Horizon
      BY <2>1, <2>3, <1>2 DEF Tick, AnswerIsYoung, TypeOK
    <3>2. since'[d] \in {0, Later(since[d])}
      BY <1>2 DEF Tick
    <3> QED
      BY <3>1, <3>2, <2>1, LaterIsNat
  <2> QED
    BY <2>2, <2>3
<1>3. CASE Execute
  BY <1>3 DEF Execute, Refreshing, AnswerIsYoung, CountIsZeroed, world
<1>4. CASE EnterQuery \/ Hang \/ QueryFails \/ Publish \/ EndWait \/ WaitRaises
  BY <1>4 DEF EnterQuery, Hang, QueryFails, Publish, EndWait, WaitRaises, AnswerIsYoung
<1>5. CASE UNCHANGED <<world, thread>>
  BY <1>5 DEF world, thread, AnswerIsYoung
<1> QED
  BY <1>1, <1>2, <1>3, <1>4, <1>5, WorldIsApart DEF ThreadStep

LEMMA CopyStep ==
    ASSUME TypeOK, AnswerIsYoung, CopyIsDated, [Next]_vars
    PROVE  CopyIsDated'
<1> USE CacheAssumption DEF CacheAssumption
<1>1. ASSUME NEW d \in Device, NEW s \in Status, ChangeStatus(d, s)
      PROVE  CopyIsDated'
  BY <1>1 DEF ChangeStatus, CopyIsDated, TypeOK, cache
<1>2. CASE Tick
  <2> SUFFICES ASSUME available, NEW d \in Device, statuses[d] \in AlertCodes
               PROVE  since'[d] <= age' + CallTime
    BY <1>2 DEF CopyIsDated, Tick
  <2>1. since[d] <= age + CallTime /\ since[d] \in 0 .. Horizon /\ age \in 0 .. Horizon
    BY DEF CopyIsDated, TypeOK
  <2>2. since'[d] \in {0, Later(since[d])} /\ age' = Later(age)
    BY <1>2 DEF Tick
  <2> QED
    BY <2>1, <2>2 DEF Later
<1>3. CASE Publish
  BY <1>3 DEF Publish, Refreshing, CopyIsDated, AnswerIsYoung, TypeOK, world
<1>4. CASE QueryFails
  BY <1>4 DEF QueryFails, CopyIsDated
<1>5. CASE UNCHANGED <<world, cache>>
  BY <1>5 DEF world, cache, CopyIsDated
<1>6. EnterQuery \/ Execute \/ Hang \/ EndWait \/ WaitRaises => UNCHANGED <<world, cache>>
  BY DEF EnterQuery, Execute, Hang, EndWait, WaitRaises, Refreshing
<1> QED
  BY <1>1, <1>2, <1>3, <1>4, <1>5, <1>6, WorldIsApart DEF ThreadStep

LEMMA LookStep ==
    ASSUME TypeOK, CopyIsDated, LookIsDated, [Next]_vars
    PROVE  LookIsDated'
<1> USE CacheAssumption DEF CacheAssumption
<1>1. ASSUME NEW d \in Device, NEW s \in Status, ChangeStatus(d, s)
      PROVE  LookIsDated'
  BY <1>1 DEF ChangeStatus, LookIsDated, TypeOK, Sight, caller
<1>2. CASE Tick
  <2> SUFFICES ASSUME pc = "asked", seen.available, seen.code \in AlertCodes
               PROVE  since'[seen.device] <= Later(seen.age) + CallTime
    BY <1>2 DEF LookIsDated, Tick, TypeOK, Sight
  <2>1. /\ seen.device \in Device /\ seen.age \in 0 .. Horizon
        /\ since[seen.device] \in 0 .. Horizon
        /\ since[seen.device] <= seen.age + CallTime
    BY DEF LookIsDated, TypeOK, Sight
  <2>2. since'[seen.device] \in {0, Later(since[seen.device])}
    BY <1>2, <2>1 DEF Tick
  <2> QED
    BY <2>1, <2>2 DEF Later
<1>3. ASSUME NEW d \in Device, Ask(d)
      PROVE  LookIsDated'
  BY <1>3 DEF Ask, LookIsDated, CopyIsDated, TypeOK, world
<1>4. CASE Decide \/ Stop \/ Joined
  BY <1>4 DEF Decide, Judge, Answer, Stop, Joined, LookIsDated
<1>5. CASE UNCHANGED <<world, caller>>
  BY <1>5 DEF world, caller, LookIsDated
<1>6. ThreadStep => UNCHANGED <<world, caller>>
  BY DEF ThreadStep, EnterQuery, Execute, Hang, QueryFails, Publish, EndWait, WaitRaises, Refreshing
<1>7. UNCHANGED vars => UNCHANGED <<world, caller>>
  BY DEF vars
<1> QED
  BY <1>1, <1>2, <1>3, <1>4, <1>5, <1>6, <1>7 DEF Next, CallerStep

LEMMA WaitStep ==
    ASSUME TypeOK, WaitIsBounded, [Next]_vars
    PROVE  WaitIsBounded'
<1> USE CacheAssumption DEF CacheAssumption
<1>1. CASE Tick
  <2>1. phase # "loop" /\ UNCHANGED <<refresh, maxAge, phase, available>>
    BY <1>1 DEF Tick, MayTakeTime, settings
  <2>2. CASE phase = "wait"
    <3>1. /\ Finite(refresh) /\ refresh \in Nat /\ refresh + Lateness < Horizon
          /\ timer < refresh + Lateness /\ timer \in Nat
      BY <1>1, <2>2, SettingsAreNumbers DEF Tick, MayTakeTime, TypeOK
    <3>3. timer' = timer + 1
      BY <1>1, <2>2, <3>1 DEF Tick, Later
    <3>2. age' = Later(age)
      BY <1>1 DEF Tick
    <3> QED
      BY <2>1, <2>2, <3>1, <3>2, <3>3 DEF WaitIsBounded, TypeOK, Later
  <2> QED
    BY <2>1, <2>2 DEF WaitIsBounded
<1>2. CASE EndWait
  BY <1>2 DEF EndWait, Refreshing, WaitIsBounded, settings, cache, TypeOK
<1>3. CASE EnterQuery \/ Execute \/ Hang \/ QueryFails \/ Publish \/ WaitRaises
  BY <1>3 DEF EnterQuery, Execute, Hang, QueryFails, Publish, WaitRaises, Refreshing,
              WaitIsBounded, settings
<1>4. CASE UNCHANGED <<settings, thread, cache>>
  BY <1>4 DEF settings, thread, cache, WaitIsBounded
<1>5. (\E d \in Device, s \in Status : ChangeStatus(d, s)) \/ CallerStep \/ UNCHANGED vars
        => UNCHANGED <<settings, thread, cache>>
  BY DEF ChangeStatus, CallerStep, Ask, Decide, Judge, Answer, Stop, Joined, vars
<1> QED
  BY <1>1, <1>2, <1>3, <1>4, <1>5 DEF Next, ThreadStep

(* The inductive invariant.                                                *)
THEOREM Inductive == Spec => []IInv
<1>1. Init => IInv
  BY HoldsAtInit
<1>2. IInv /\ [Next]_vars => IInv'
  BY TypeStep, CountStep, AnswerStep, CopyStep, LookStep, WaitStep DEF IInv
<1> QED
  BY <1>1, <1>2, PTL DEF Spec

(* Every variable keeps its type, clocks and counters their bounds.        *)
THEOREM TypeCorrect == Spec => []TypeOK
<1>1. IInv => TypeOK
  BY DEF IInv
<1> QED
  BY <1>1, Inductive, PTL

(* A copy that a query filled does not expire while the thread waits for   *)
(* its next turn, if the limit is the wait and its lateness or more.       *)
THEOREM WaitingKeepsTheCopy == Spec => []FreshWhileWaiting
<1>1. IInv => FreshWhileWaiting
  <2> SUFFICES ASSUME IInv, phase \in {"wait", "loop"}, LeavesRoom, available
               PROVE  ~Expired(age)
    BY DEF FreshWhileWaiting, Usable
  <2> USE CacheAssumption DEF CacheAssumption
  <2>1. age \in Nat /\ (age = 0 \/ (Finite(refresh) /\ age <= refresh + Lateness))
    BY DEF IInv, TypeOK, WaitIsBounded
  <2>2. refresh \in Seconds \cup {NaN, Inf} /\ maxAge \in Seconds \cup {NaN, Inf}
    BY DEF IInv, TypeOK
  <2>3. Finite(maxAge) => maxAge \in Nat
    BY <2>2, SettingsAreNumbers
  <2>4. Finite(refresh) => refresh \in Nat
    BY <2>2, SettingsAreNumbers
  <2>5. Finite(refresh) => ~Below(maxAge, refresh + Lateness)
    BY DEF LeavesRoom
  <2> QED
    BY <2>1, <2>2, <2>3, <2>4, <2>5, BelowOnNumbers DEF Expired
<1> QED
  BY <1>1, Inductive, PTL

(* No mail is admitted for a device that MES last had in an alert status   *)
(* longer ago than the cache limit and one call.                           *)
THEOREM AdmissionsRestOnMes == Spec => AdmissionsAreRecent
<1>1. IInv /\ [Next]_vars =>
        [\A d \in Device :
            verdict # verdict' /\ verdict' = [device |-> d, reason |-> "alerts"] /\ Finite(maxAge)
              => RecentlyAlerting(d)]_vars
  <2> SUFFICES ASSUME IInv, Next, NEW d \in Device, verdict # verdict',
                      verdict' = [device |-> d, reason |-> "alerts"], Finite(maxAge)
               PROVE  RecentlyAlerting(d)
    OBVIOUS
  <2> USE CacheAssumption DEF CacheAssumption
  <2>1. pc = "asked" /\ Decide
    BY OnlyDecideAdmits
  <2>2. /\ seen \in Sight /\ maxAge \in Nat
        /\ maxAge \in Seconds \cup {NaN, Inf}
    BY <2>1, SettingsAreNumbers DEF IInv, TypeOK
  <2>3. /\ seen.device = d /\ seen.available /\ ~Expired(seen.age) /\ seen.code \in AlertCodes
    BY <2>1 DEF Decide, Judge, Answer
  <2>4. seen.age \in Nat /\ seen.age <= maxAge
    BY <2>2, <2>3, BelowOnNumbers DEF Expired, Sight
  <2>5. since[d] <= seen.age + CallTime /\ since[d] \in Nat
    BY <2>1, <2>3 DEF IInv, LookIsDated, TypeOK
  <2> QED
    BY <2>2, <2>4, <2>5 DEF RecentlyAlerting
<1> QED
  BY <1>1, Inductive, PTL DEF Spec, AdmissionsAreRecent
=============================================================================
