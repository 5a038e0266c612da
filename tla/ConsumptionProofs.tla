-------------------------- MODULE ConsumptionProofs --------------------------
(***************************************************************************)
(* Proofs about Consumption, for any partitions, log lengths, intervals    *)
(* and faults.                                                             *)
(*                                                                         *)
(* IInv is inductive.  Beside the types it says how the client's place,    *)
(* the offsets the broker keeps and the database lie relative to each      *)
(* other (Places, HandledBelow, RollbackRoom), and what an open or opening *)
(* gate knows (HealthIsRecent, DebtBounded, GateKnows).                    *)
(***************************************************************************)
EXTENDS Consumption, TLAPS

(* What the client delivers comes from below the watermark, and the         *)
(* position it reports is the place it reads, unless the log was cut off    *)
(* above it and the client went on after the cut.                           *)
Places ==
    \A p \in Partition :
        /\ newest[p] <= high[p] /\ applied[p] <= newest[p]
        /\ fetch[p] # None => fetch[p] <= high[p]
        /\ committed[p] # None => committed[p] <= high[p]
        /\ position[p] # None =>
              /\ fetch[p] # None
              /\ position[p] = fetch[p] \/ (position[p] < low[p] /\ position[p] <= fetch[p])
        /\ committed[p] # None =>
              /\ position[p] # None => committed[p] <= position[p]
              /\ position[p] = None /\ fetch[p] # None => committed[p] <= fetch[p]

(* Everything before the client's place is handled, except a record in hand *)
(* whose transaction has not committed.                                     *)
HandledBelow ==
    /\ CommitFollowsDatabase
    /\ \A p \in Partition : fetch[p] # None =>
          \A o \in Offset : o < fetch[p] =>
              \/ o \in handled[p]
              \/ record = p /\ pc = "process" /\ o = position[p] - 1
    /\ pc = "commit" => applied[record] = position[record]
                        /\ position[record] - 1 \in handled[record]

(* Under the policy latest a place below what was once saved, with the log  *)
(* still there, is due to a committed offset.                               *)
RollbackRoom ==
    \A p \in Partition :
        /\ committed[p] # None => committed[p] <= applied[p]
        /\ StartsAtEnd =>
              /\ fetch[p] # None /\ low[p] <= fetch[p] /\ fetch[p] < newest[p] =>
                    committed[p] # None /\ low[p] <= committed[p]
              /\ low[p] <= applied[p] /\ applied[p] < newest[p] =>
                    committed[p] # None /\ low[p] <= committed[p]

(* The outage is younger than the last successful check, which knew the    *)
(* assignment and has targets for it.                                       *)
HealthIsRecent == healthy => outage <= sinceSuccess /\ keys = assigned /\ targets # None

DebtBounded == \A p \in Partition : debt[p] <= high[p] /\ (Interrupted => debt[p] = high[p])

(* The backlog of the last interruption of p is consumed. *)
Reached(p) == debt[p] <= NextOffset(p) /\ (record = p => debt[p] < position[p])

(* A group that never committed under latest is the exception that the run  *)
(* new_group shows.                                                         *)
Locatable == ~StartsAtEnd \/ \A p \in Partition : committed[p] # None

GateKnows ==
    ~Interrupted =>
        \A p \in assigned : IF p \in DOMAIN targets THEN debt[p] <= targets[p] ELSE Reached(p)

IInv ==
    /\ TypeOK /\ Places /\ HandledBelow /\ RollbackRoom /\ RollbackIsRedelivered
    /\ HealthIsRecent /\ DebtBounded

(***************************************************************************)
(* The place of the client                                                 *)
(***************************************************************************)

(* The next offset is in the log that is left. *)
LEMMA NextOffsetInLog ==
    ASSUME TypeOK, NEW p \in Partition
    PROVE  /\ ResetOffset(p) \in Offset /\ low[p] <= ResetOffset(p)
           /\ NextOffset(p) \in Offset /\ low[p] <= NextOffset(p)
<1>1. low[p] \in Offset /\ high[p] \in Offset /\ low[p] <= high[p]
  BY DEF TypeOK
<1>2. fetch[p] \in Offset \cup {None} /\ committed[p] \in Offset \cup {None}
  BY DEF TypeOK
<1>3. MaxRecords \in Nat /\ None \notin Offset
  BY ConsumptionBounds DEF Offset
<1>4. ResetOffset(p) \in Offset /\ low[p] <= ResetOffset(p)
  BY <1>1, <1>3 DEF ResetOffset, Offset
<1> QED
  BY <1>1, <1>2, <1>3, <1>4 DEF NextOffset, Placed, Resumable, Offset

(* What an effective offset may be. *)
LEMMA EffectiveOffsetInLog ==
    ASSUME TypeOK, NEW p \in Partition
    PROVE  EffectiveOffset(p) \in Offset
  BY NextOffsetInLog, ConsumptionBounds DEF TypeOK, EffectiveOffset, Offset

(***************************************************************************)
(* Types                                                                   *)
(***************************************************************************)
LEMMA InitTypes == Init => TypeOK
<1> SUFFICES ASSUME Init PROVE TypeOK
  OBVIOUS
<1>1. reachable \in BOOLEAN /\ healthy \in BOOLEAN
  BY Zenon DEF Init
<1>2. reachable => outage = 0
  BY DEF Init
<1> QED
  BY <1>1, <1>2, SettingsAssumption, ConsumptionBounds DEF Init, TypeOK, Offset, Unknown

(* Ages stay between 0 and the cap. *)
LEMMA ElapseTypes ==
    ASSUME TypeOK, NEW n \in Nat, Elapse(n)
    PROVE  /\ sinceCheck' \in 0 .. Interval
           /\ sinceSuccess' \in 0 .. MaxAge + 1
           /\ outage' \in 0 .. MaxAge + 1 /\ (reachable => outage' = 0)
           /\ sinceSuccess <= sinceSuccess'
           /\ outage <= sinceSuccess => outage' <= sinceSuccess'
  BY SettingsAssumption DEF TypeOK, Elapse, Capped

LEMMA NoteDebtTypes ==
    ASSUME high' \in [Partition -> Offset], debt \in [Partition -> Offset], NoteDebt
    PROVE  debt' \in [Partition -> Offset]
  BY DEF NoteDebt

LEMMA FaultTypes ==
    ASSUME TypeOK, NEW kind, Fault(kind)
    PROVE  faults' \in 0 .. MaxFaults
  BY ConsumptionBounds DEF TypeOK, Fault

LEMMA UnhealthyTypes ==
    ASSUME TypeOK, MarkUnhealthy
    PROVE  healthy' \in BOOLEAN /\ targets' = None /\ keys' \subseteq Partition
<1>1. healthy' \in BOOLEAN
  BY Zenon DEF MarkUnhealthy
<1> QED
  BY <1>1 DEF TypeOK, MarkUnhealthy

(* Targets are offsets of some of the partitions. *)
LEMMA TargetsTaken ==
    ASSUME TypeOK, CheckSucceeds
    PROVE  \E S \in SUBSET Partition : targets' \in [S -> Offset]
<1> DEFINE goal == IF StartsOver \/ targets = None
                   THEN [p \in assigned |-> high[p]] ELSE targets
<1>1. PICK T \in SUBSET Partition : goal \in [T -> Offset]
  BY DEF TypeOK
<1>2. Behind(goal) \subseteq T /\ targets' = [p \in Behind(goal) |-> goal[p]]
  BY <1>1 DEF CheckSucceeds, Behind
<1> HIDE DEF goal
<1> QED
  BY <1>1, <1>2

LEMMA LoopTypes == ASSUME TypeOK, LoopStep PROVE TypeOK'
<1> USE SettingsAssumption, ConsumptionBounds, NoteDebtTypes
<1>1. CASE PollNothing
  BY <1>1 DEF TypeOK, PollNothing, topic, client, clocks, gate, database
<1>2. CASE PollError
  BY <1>2, UnhealthyTypes, FaultTypes DEF TypeOK, PollError, topic, client, clocks, database
<1>3. ASSUME NEW p \in Partition, PollRecord(p) PROVE TypeOK'
  BY <1>3 DEF TypeOK, PollRecord, Placed, topic, clocks, gate, database, Offset
<1>4. CASE Process
  BY <1>4 DEF TypeOK, Process, topic, client, clocks, gate, Offset
<1>5. CASE Commit
  BY <1>5 DEF TypeOK, Commit, client, clocks, gate, database, Offset
<1>6. CASE CommitFails
  BY <1>6, UnhealthyTypes, FaultTypes DEF TypeOK, CommitFails, client, clocks, database, Offset
<1>7. CASE SkipCheck
  BY <1>7 DEF TypeOK, SkipCheck, topic, client, clocks, gate, database
<1>8. CASE CheckFails
  <2>1. sinceCheck' \in 0 .. Interval /\ faults' \in 0 .. MaxFaults
    <3>1. sinceCheck' = 0
      BY <1>8 DEF CheckFails
    <3>2. faults' = faults \/ Fault("check fails")
      BY <1>8 DEF CheckFails
    <3>3. faults' \in 0 .. MaxFaults
      BY <3>2, FaultTypes DEF TypeOK
    <3> QED
      BY <3>1, <3>3
  <2>2. healthy' \in BOOLEAN /\ targets' = None /\ keys' \subseteq Partition
    BY <1>8, UnhealthyTypes DEF CheckFails
  <2>3. UNCHANGED <<topic, client, outage, sinceSuccess, record, database>> /\ NoteDebt
        /\ pc = "health" /\ pc' = "stale"
    BY <1>8 DEF CheckFails
  <2> QED
    BY <2>1, <2>2, <2>3 DEF TypeOK, topic, client, database
<1>9. CASE CheckSucceeds
  <2>1. healthy' \in BOOLEAN
    BY <1>9, Zenon DEF CheckSucceeds
  <2>2. \E S \in SUBSET Partition : targets' \in [S -> Offset]
    BY <1>9, TargetsTaken
  <2> QED
    <3>1. sinceCheck' \in 0 .. Interval /\ sinceSuccess' \in 0 .. MaxAge + 1
          /\ keys' \subseteq Partition
      BY <1>9 DEF CheckSucceeds, TypeOK
    <3>2. UNCHANGED <<topic, client, outage, record, database, faults>> /\ NoteDebt
          /\ pc = "health" /\ pc' = "stale"
      BY <1>9 DEF CheckSucceeds
    <3> QED
      BY <2>1, <2>2, <3>1, <3>2 DEF TypeOK, topic, client, database
<1>10. CASE CheckStale
  BY <1>10 DEF TypeOK, CheckStale, topic, client, clocks, gate, database
<1> QED
  BY <1>1, <1>2, <1>3, <1>4, <1>5, <1>6, <1>7, <1>8, <1>9, <1>10 DEF LoopStep

LEMMA KafkaTypes == ASSUME TypeOK, KafkaStep PROVE TypeOK'
<1> USE SettingsAssumption, ConsumptionBounds, NoteDebtTypes
<1>1. ASSUME NEW p \in Partition, Append(p) PROVE TypeOK'
  BY <1>1 DEF TypeOK, Append, client, clocks, gate, database, Offset
<1>2. ASSUME NEW p \in Partition, Retain(p) PROVE TypeOK'
  BY <1>2 DEF TypeOK, Retain, Fault, client, clocks, gate, database, Offset
<1>3. ASSUME NEW p \in Partition, Locate(p) PROVE TypeOK'
  BY <1>3, NextOffsetInLog DEF TypeOK, Locate, topic, clocks, gate, Offset
<1>4. CASE BrokerLost
  <2>1. reachable' \in BOOLEAN /\ ~reachable'
    BY <1>4, Zenon DEF BrokerLost
  <2> QED
    BY <1>4, <2>1, FaultTypes DEF TypeOK, BrokerLost, client, clocks, gate, database
<1>5. CASE BrokerBack
  BY <1>5 DEF TypeOK, BrokerBack, client, clocks, gate, database
<1>6. CASE Join
  BY <1>6, UnhealthyTypes DEF TypeOK, Join, Assign, Unknown, topic, clocks, database
<1>7. ASSUME NEW S \in SUBSET Partition, Rebalance(S) PROVE TypeOK'
  BY <1>7, UnhealthyTypes, FaultTypes
  DEF TypeOK, Rebalance, Assign, Unknown, topic, clocks, database
<1> QED
  BY <1>1, <1>2, <1>3, <1>4, <1>5, <1>6, <1>7 DEF KafkaStep

LEMMA TypesStep == ASSUME TypeOK, [Next]_vars PROVE TypeOK'
<1> USE SettingsAssumption, ConsumptionBounds, NoteDebtTypes
<1>1. CASE Tick
  BY <1>1, ElapseTypes DEF TypeOK, Tick, topic, client, gate, database
<1>2. CASE Delay
  BY <1>2, ElapseTypes DEF TypeOK, Delay, Fault, topic, client, gate, database
<1>3. CASE Crash
  <2>1. healthy' \in BOOLEAN
    BY <1>3, Zenon DEF Crash
  <2> QED
    BY <1>3, <2>1, FaultTypes DEF TypeOK, Crash, Unknown, topic, database
<1>4. CASE Restart
  BY <1>4 DEF TypeOK, Restart, topic, client, clocks, gate, database
<1>5. CASE UNCHANGED vars
  BY <1>5 DEF TypeOK, vars, topic, client, clocks, gate, database
<1> QED
  BY <1>1, <1>2, <1>3, <1>4, <1>5, LoopTypes, KafkaTypes DEF Next

(***************************************************************************)
(* The log, the client and the database                                    *)
(***************************************************************************)

(* A step that touches neither the log nor the client nor the database. *)
Quiet ==
    /\ UNCHANGED <<low, high, committed, client, database, record>>
    /\ pc' = pc \/ (pc \notin {"process", "commit"} /\ pc' \notin {"process", "commit"})

LogInv == Places /\ HandledBelow /\ RollbackRoom /\ RollbackIsRedelivered

LEMMA StepKinds ==
    ASSUME TypeOK, [Next]_vars
    PROVE  \/ Quiet \/ Process \/ Commit \/ CommitFails \/ Crash
           \/ \E p \in Partition : Append(p) \/ Retain(p) \/ Locate(p) \/ PollRecord(p)
           \/ \E S \in SUBSET Partition : Assign(S)
<1> USE DEF Quiet, topic, client, database
<1>1. CASE LoopStep
  <2>1. CASE PollNothing
    BY <2>1 DEF PollNothing
  <2>2. CASE PollError
    BY <2>2 DEF PollError
  <2>3. CASE SkipCheck
    BY <2>3 DEF SkipCheck
  <2>4. CASE CheckFails
    BY <2>4 DEF CheckFails
  <2>5. CASE CheckSucceeds
    BY <2>5 DEF CheckSucceeds
  <2>6. CASE CheckStale
    BY <2>6 DEF CheckStale
  <2> QED
    BY <1>1, <2>1, <2>2, <2>3, <2>4, <2>5, <2>6 DEF LoopStep
<1>2. CASE KafkaStep
  <2>1. CASE BrokerLost
    BY <2>1 DEF BrokerLost
  <2>2. CASE BrokerBack
    BY <2>2 DEF BrokerBack
  <2>3. CASE Join
    BY <2>3 DEF Join
  <2>4. ASSUME NEW S \in SUBSET Partition, Rebalance(S) PROVE Assign(S)
    BY <2>4 DEF Rebalance
  <2> QED
    BY <1>2, <2>1, <2>2, <2>3, <2>4 DEF KafkaStep
<1>3. CASE Tick
  BY <1>3 DEF Tick
<1>4. CASE Delay
  BY <1>4 DEF Delay
<1>5. CASE Restart
  BY <1>5 DEF Restart
<1>6. CASE UNCHANGED vars
  BY <1>6 DEF vars
<1> QED
  BY <1>1, <1>2, <1>3, <1>4, <1>5, <1>6 DEF Next

LEMMA QuietKeepsLog == ASSUME TypeOK, LogInv, Quiet PROVE LogInv'
  BY DEF LogInv, Quiet, Places, HandledBelow, CommitFollowsDatabase, RollbackRoom,
         RollbackIsRedelivered, NextToApply, NextOffset, Placed, Resumable, ResetOffset,
         client, database, Offset

(* A longer log moves only where the policy latest starts. *)
LEMMA AppendKeepsLog ==
    ASSUME TypeOK, LogInv, NEW q \in Partition, Append(q) PROVE LogInv'
<1>1. /\ high' = [high EXCEPT ![q] = @ + 1] /\ high \in [Partition -> Offset]
      /\ UNCHANGED <<low, committed, fetch, position, handled, applied, newest, record, pc>>
  BY DEF Append, TypeOK, client, database
<1>2. Places'
  BY <1>1, ConsumptionBounds DEF LogInv, Places, TypeOK, Offset
<1>3. HandledBelow' /\ RollbackRoom'
  BY <1>1 DEF LogInv, HandledBelow, CommitFollowsDatabase, RollbackRoom
<1>4. RollbackIsRedelivered'
  <2> SUFFICES ASSUME NEW p \in Partition, applied[p] < newest[p], low[p] <= applied[p]
               PROVE  NextToApply(p)' <= applied[p]
    BY <1>1 DEF RollbackIsRedelivered
  <2>1. NextToApply(p) <= applied[p]
    BY DEF LogInv, RollbackIsRedelivered
  <2>2. NextToApply(p)' = NextToApply(p) \/ NextToApply(p) = high[p]
    BY <1>1 DEF NextToApply, NextOffset, Placed, Resumable, ResetOffset
  <2>3. newest[p] <= high[p]
    BY DEF LogInv, Places
  <2> QED
    BY <2>1, <2>2, <2>3 DEF TypeOK, Offset
<1> QED
  BY <1>2, <1>3, <1>4 DEF LogInv

(* Nothing that was saved survives a cut of the log at its end. *)
LEMMA RetainKeepsLog ==
    ASSUME TypeOK, LogInv, NEW q \in Partition, Retain(q) PROVE LogInv'
<1>1. /\ low' = [low EXCEPT ![q] = high[q]] /\ low \in [Partition -> Offset]
      /\ UNCHANGED <<high, committed, fetch, position, handled, applied, newest, record, pc>>
  BY DEF Retain, TypeOK, client, database
<1>2. Places'
  BY <1>1 DEF LogInv, Places, TypeOK, Offset
<1>3. HandledBelow'
  BY <1>1 DEF LogInv, HandledBelow, CommitFollowsDatabase
<1>4. /\ newest[q] <= high[q]
      /\ fetch[q] # None => fetch[q] <= high[q]
      /\ newest[q] \in Nat /\ applied[q] \in Nat /\ high[q] \in Nat
      /\ fetch[q] # None => fetch[q] \in Nat
  BY DEF LogInv, Places, TypeOK, Offset
<1>5. RollbackRoom'
  BY <1>1, <1>4 DEF LogInv, RollbackRoom
<1>6. RollbackIsRedelivered'
  BY <1>1, <1>4 DEF LogInv, RollbackIsRedelivered, NextToApply, NextOffset, Placed, Resumable,
                     ResetOffset
<1> QED
  BY <1>2, <1>3, <1>5, <1>6 DEF LogInv

(* The client starts at the offset it was to start at. *)
LEMMA LocateKeepsLog ==
    ASSUME TypeOK, LogInv, NEW q \in Partition, Locate(q) PROVE LogInv'
<1>1. /\ fetch' = [fetch EXCEPT ![q] = NextOffset(q)] /\ ~Placed(q)
      /\ UNCHANGED <<low, high, committed, position, applied, newest, record, pc>>
      /\ handled' = IF Resumable(q) THEN handled
                    ELSE [handled EXCEPT ![q] =
                             @ \cup {o \in 0 .. MaxRecords : o < NextOffset(q)}]
  BY DEF Locate, topic
<1>2. /\ NextOffset(q) \in Offset /\ low[q] <= NextOffset(q) /\ NextOffset(q) <= high[q]
      /\ NextOffset(q) = IF Resumable(q) THEN committed[q] ELSE ResetOffset(q)
  BY <1>1, NextOffsetInLog DEF LogInv, Places, NextOffset, Resumable, ResetOffset, TypeOK, Offset
<1>3. None \notin Offset
  BY ConsumptionBounds DEF Offset
<1>4. fetch'[q] = NextOffset(q) /\ \A p \in Partition \ {q} : fetch'[p] = fetch[p]
  BY <1>1 DEF TypeOK
<1>5. \A p \in Partition : handled[p] \subseteq handled'[p]
  BY <1>1 DEF TypeOK
<1>6. position[q] # None => position[q] <= fetch[q] /\ fetch[q] < NextOffset(q)
                           /\ position[q] < low[q]
  <2>1. fetch[q] # None => fetch[q] < low[q]
    BY <1>1 DEF Placed, TypeOK, Offset
  <2> QED
    BY <2>1, <1>2 DEF LogInv, Places, TypeOK, Offset
<1>7. Places'
  <2>1. position[q] = None /\ committed[q] # None => committed[q] <= NextOffset(q)
    BY <1>1, <1>2 DEF Resumable, Placed, LogInv, Places, TypeOK, Offset
  <2>2. position[q] # None => position[q] <= NextOffset(q)
    BY <1>6, <1>2 DEF TypeOK, Offset
  <2> QED
    BY <1>1, <1>2, <1>3, <1>4, <1>6, <2>1, <2>2 DEF LogInv, Places
<1>8. HandledBelow'
  <2>1. \A o \in Offset : o < NextOffset(q) => o \in handled'[q]
    <3>1. CASE Resumable(q)
      BY <1>1, <1>2, <3>1 DEF Resumable, LogInv, HandledBelow, CommitFollowsDatabase, Offset
    <3>2. CASE ~Resumable(q)
      BY <1>1, <3>2 DEF TypeOK, Offset
    <3> QED
      BY <3>1, <3>2
  <2>2. CommitFollowsDatabase'
    BY <1>1, <1>5 DEF LogInv, HandledBelow, CommitFollowsDatabase
  <2>3. pc = "commit" => record \in Partition
    BY DEF TypeOK
  <2> QED
    BY <1>1, <1>4, <1>5, <2>1, <2>2, <2>3 DEF LogInv, HandledBelow
<1>9. RollbackRoom'
  <2>1. /\ StartsAtEnd /\ NextOffset(q) < newest[q]
        => committed[q] # None /\ low[q] <= committed[q]
    BY <1>2 DEF Resumable, ResetOffset, LogInv, Places, TypeOK, Offset
  <2> QED
    BY <1>1, <1>4, <2>1 DEF LogInv, RollbackRoom
<1>10. RollbackIsRedelivered'
  <2>1. \A p \in Partition : NextToApply(p)' = NextToApply(p)
    <3>1. Placed(q)' /\ NextOffset(q)' = NextOffset(q)
      BY <1>1, <1>2, <1>3, <1>4 DEF Placed, NextOffset
    <3>2. \A p \in Partition \ {q} : NextOffset(p)' = NextOffset(p)
      BY <1>1, <1>4 DEF NextOffset, Placed, Resumable, ResetOffset
    <3> QED
      BY <1>1, <3>1, <3>2 DEF NextToApply
  <2> QED
    BY <1>1, <2>1 DEF LogInv, RollbackIsRedelivered
<1> QED
  BY <1>7, <1>8, <1>9, <1>10 DEF LogInv

(* A restart and a rebalance both forget the place of the client. *)
Forgets ==
    /\ fetch' = Unknown /\ position' = Unknown /\ record' = None
    /\ pc' \notin {"process", "commit"}
    /\ UNCHANGED <<topic, database>>

LEMMA ForgettingKeepsLog == ASSUME TypeOK, LogInv, Forgets PROVE LogInv'
<1>1. /\ \A p \in Partition : fetch'[p] = None /\ position'[p] = None
      /\ record' = None /\ pc' \notin {"process", "commit"}
      /\ UNCHANGED <<low, high, committed, handled, applied, newest>>
  BY DEF Forgets, Unknown, topic, database
<1>2. Places'
  BY <1>1 DEF LogInv, Places
<1>3. HandledBelow'
  BY <1>1 DEF LogInv, HandledBelow, CommitFollowsDatabase
<1>4. RollbackRoom'
  BY <1>1 DEF LogInv, RollbackRoom
<1>5. RollbackIsRedelivered'
  <2> SUFFICES ASSUME NEW p \in Partition, applied[p] < newest[p], low[p] <= applied[p]
               PROVE  NextToApply(p)' <= applied[p]
    BY <1>1 DEF RollbackIsRedelivered
  <2>1. NextToApply(p)' = IF committed[p] # None /\ committed[p] >= low[p]
                          THEN committed[p] ELSE ResetOffset(p)
    BY <1>1 DEF NextToApply, NextOffset, Placed, Resumable, ResetOffset
  <2>2. committed[p] # None => committed[p] <= applied[p]
    BY DEF LogInv, RollbackRoom
  <2>3. CASE StartsAtEnd
    BY <2>1, <2>2, <2>3 DEF LogInv, RollbackRoom
  <2>4. CASE ~StartsAtEnd
    BY <2>1, <2>2, <2>4 DEF ResetOffset
  <2> QED
    BY <2>3, <2>4
<1> QED
  BY <1>2, <1>3, <1>4, <1>5 DEF LogInv

LEMMA PollRecordKeepsLog ==
    ASSUME TypeOK, LogInv, NEW q \in Partition, PollRecord(q) PROVE LogInv'
<1>1. /\ pc = "poll" /\ record = None /\ Placed(q) /\ fetch[q] < high[q]
      /\ fetch' = [fetch EXCEPT ![q] = @ + 1]
      /\ position' = [position EXCEPT ![q] = fetch[q] + 1]
      /\ record' = q /\ pc' = "process"
      /\ UNCHANGED <<low, high, committed, handled, applied, newest>>
  BY DEF PollRecord, TypeOK, topic, database
<1>2. fetch[q] \in Offset /\ fetch[q] # None /\ low[q] <= fetch[q] /\ None \notin Nat
  BY <1>1, ConsumptionBounds DEF Placed, TypeOK
<1>3. /\ fetch'[q] = fetch[q] + 1 /\ position'[q] = fetch[q] + 1
      /\ \A p \in Partition \ {q} : fetch'[p] = fetch[p] /\ position'[p] = position[p]
  BY <1>1 DEF TypeOK
<1>4. high[q] \in Nat /\ low[q] \in Nat
  BY DEF TypeOK, Offset
<1>5. Places'
  <2>1. fetch[q] + 1 <= high[q] /\ fetch[q] + 1 # None
    BY <1>1, <1>2, <1>4 DEF Offset
  <2>2. committed[q] # None => committed[q] <= fetch[q] + 1
    BY <1>2, <1>4 DEF LogInv, Places, TypeOK, Offset
  <2>3. \A p \in Partition : newest[p] <= high[p] /\ applied[p] <= newest[p]
                            /\ (committed[p] # None => committed[p] <= high[p])
    BY DEF LogInv, Places
  <2>4. fetch[q] + 1 <= fetch[q] + 1
    BY <1>2 DEF Offset
  <2> QED
    BY <1>1, <1>3, <2>1, <2>2, <2>3, <2>4 DEF LogInv, Places
<1>6. HandledBelow'
  <2>1. \A o \in Offset : o < fetch[q] + 1 => o \in handled[q] \/ o = fetch[q] + 1 - 1
    BY <1>1, <1>2 DEF LogInv, HandledBelow, Offset
  <2>2. \A p \in Partition : fetch[p] # None =>
           \A o \in Offset : o < fetch[p] => o \in handled[p]
    BY <1>1 DEF LogInv, HandledBelow
  <2>3. CommitFollowsDatabase'
    BY <1>1 DEF LogInv, HandledBelow, CommitFollowsDatabase
  <2>4. ASSUME NEW p \in Partition, fetch'[p] # None, NEW o \in Offset, o < fetch'[p]
        PROVE  o \in handled[p] \/ (record' = p /\ o = position'[p] - 1)
    <3>1. CASE p = q
      BY <1>1, <1>2, <1>3, <2>1, <2>4, <3>1 DEF Offset
    <3>2. CASE p # q
      BY <1>3, <2>2, <2>4, <3>2
    <3> QED
      BY <3>1, <3>2
  <2> QED
    BY <1>1, <2>3, <2>4 DEF HandledBelow
<1>7. RollbackRoom'
  <2>1. fetch[q] + 1 < newest[q] => fetch[q] < newest[q]
    BY <1>2 DEF TypeOK, Offset
  <2> QED
    BY <1>1, <1>2, <1>3, <2>1 DEF LogInv, RollbackRoom
<1>8. RollbackIsRedelivered'
  <2>1. NextToApply(q)' = fetch[q] /\ NextToApply(q) = fetch[q]
    BY <1>1, <1>2, <1>3, ConsumptionBounds DEF NextToApply, NextOffset, Placed, Offset
  <2>2. \A p \in Partition \ {q} : NextToApply(p)' = NextToApply(p)
    BY <1>1, <1>3 DEF NextToApply, NextOffset, Placed, Resumable, ResetOffset
  <2> QED
    BY <1>1, <2>1, <2>2 DEF LogInv, RollbackIsRedelivered
<1> QED
  BY <1>5, <1>6, <1>7, <1>8 DEF LogInv

(* The record in hand was the next to be saved.  Once saved, the client is  *)
(* at the one after, or the log was cut above it.                           *)
LEMMA ProcessKeepsLog == ASSUME TypeOK, LogInv, Process PROVE LogInv'
<1>0. PICK q \in Partition, c \in 1 .. MaxRecords : q = record /\ c = position[q]
  BY DEF Process, TypeOK
<1>1. /\ pc = "process" /\ q \in Partition /\ c \in 1 .. MaxRecords /\ c # None
      /\ handled' = [handled EXCEPT ![q] = @ \cup {c - 1}]
      /\ applied' = [applied EXCEPT ![q] = c]
      /\ newest' = [newest EXCEPT ![q] = IF @ < c THEN c ELSE @]
      /\ pc' = "commit" /\ record' = record
      /\ UNCHANGED <<low, high, committed, fetch, position>>
  BY <1>0, ConsumptionBounds DEF Process, TypeOK, topic, client
<1>2. /\ applied'[q] = c /\ newest'[q] = (IF newest[q] < c THEN c ELSE newest[q])
      /\ handled'[q] = handled[q] \cup {c - 1}
      /\ \A p \in Partition \ {q} : applied'[p] = applied[p] /\ newest'[p] = newest[p]
                                   /\ handled'[p] = handled[p]
  BY <1>0, <1>1 DEF TypeOK
<1>3. /\ fetch[q] \in Offset /\ fetch[q] # None /\ fetch[q] <= high[q]
      /\ c = fetch[q] \/ (c < low[q] /\ c <= fetch[q])
      /\ high[q] \in Offset /\ low[q] \in Offset /\ newest[q] \in Offset
      /\ applied[q] \in Offset
  BY <1>0, <1>1 DEF LogInv, Places, TypeOK
<1>4. /\ committed[q] # None => committed[q] <= c
      /\ low[q] <= c => c = fetch[q]
  BY <1>0, <1>1, <1>3 DEF LogInv, Places, Offset
<1>5. Places'
  BY <1>1, <1>2, <1>3 DEF LogInv, Places, Offset
<1>6. HandledBelow'
  <2>1. \A p \in Partition : handled[p] \subseteq handled'[p]
    BY <1>2
  <2>2. CommitFollowsDatabase'
    BY <1>1, <2>1 DEF LogInv, HandledBelow, CommitFollowsDatabase
  <2>3. \A p \in Partition : fetch[p] # None =>
           \A o \in Offset : o < fetch[p] => o \in handled'[p]
    BY <1>0, <1>1, <1>2, <2>1 DEF LogInv, HandledBelow
  <2> QED
    BY <1>0, <1>1, <1>2, <2>2, <2>3 DEF HandledBelow
<1>7. RollbackRoom'
  <2>1. /\ fetch[q] < newest'[q] => fetch[q] < newest[q]
        /\ low[q] <= c /\ c < newest'[q] => low[q] <= fetch[q] /\ fetch[q] < newest[q]
    BY <1>1, <1>2, <1>3, <1>4 DEF Offset
  <2> QED
    BY <1>1, <1>2, <1>3, <1>4, <2>1 DEF LogInv, RollbackRoom
<1>8. RollbackIsRedelivered'
  <2>1. low[q] <= c => NextToApply(q)' <= c
    <3>1. low[q] <= c => NextToApply(q)' = fetch[q]
      BY <1>1, <1>3, <1>4 DEF NextToApply, NextOffset, Placed
    <3> QED
      BY <1>1, <1>3, <1>4, <3>1 DEF Offset
  <2>2. \A p \in Partition \ {q} : NextToApply(p)' = NextToApply(p)
    BY <1>0, <1>1 DEF NextToApply, NextOffset, Placed, Resumable, ResetOffset
  <2>3. \A p \in Partition \ {q} :
           applied'[p] < newest'[p] /\ low'[p] <= applied'[p] => NextToApply(p)' <= applied'[p]
    BY <1>1, <1>2, <2>2 DEF LogInv, RollbackIsRedelivered
  <2>4. low'[q] <= applied'[q] => NextToApply(q)' <= applied'[q]
    BY <1>1, <1>2, <2>1
  <2> QED
    BY <2>3, <2>4 DEF RollbackIsRedelivered
<1> QED
  BY <1>5, <1>6, <1>7, <1>8 DEF LogInv

(* The offset of the record in hand is committed, or it is not. *)
Acknowledges ==
    /\ pc = "commit" /\ pc' \notin {"process", "commit"} /\ record' = None
    /\ committed' \in {committed, [committed EXCEPT ![record] = position[record]]}
    /\ UNCHANGED <<low, high, client, database>>

LEMMA AcknowledgingKeepsLog == ASSUME TypeOK, LogInv, Acknowledges PROVE LogInv'
<1>0. PICK q \in Partition, c \in 1 .. MaxRecords : q = record /\ c = position[q]
  BY DEF Acknowledges, TypeOK
<1>1. /\ pc = "commit" /\ pc' \notin {"process", "commit"} /\ record' = None
      /\ q \in Partition /\ c \in 1 .. MaxRecords /\ c # None
      /\ UNCHANGED <<low, high, fetch, position, handled, applied, newest>>
  BY <1>0, ConsumptionBounds DEF Acknowledges, TypeOK, client, database
<1>2. /\ committed'[q] = committed[q] \/ committed'[q] = c
      /\ \A p \in Partition \ {q} : committed'[p] = committed[p]
  BY <1>0, <1>1 DEF Acknowledges, TypeOK
<1>3. /\ fetch[q] \in Offset /\ fetch[q] # None /\ fetch[q] <= high[q] /\ c <= fetch[q]
      /\ high[q] \in Offset /\ low[q] \in Offset /\ newest[q] \in Offset
      /\ committed[q] # None => committed[q] \in Offset /\ committed[q] <= c
  BY <1>0, <1>1 DEF LogInv, Places, TypeOK, Offset
<1>4. applied[q] = c
  BY <1>0, <1>1 DEF LogInv, HandledBelow
<1>5. \A p \in Partition : fetch[p] # None =>
         \A o \in Offset : o < fetch[p] => o \in handled[p]
  BY <1>1 DEF LogInv, HandledBelow
<1>6. Places'
  <2>1. committed'[q] # None => committed'[q] <= high[q] /\ committed'[q] <= c
    BY <1>1, <1>2, <1>3 DEF Offset
  <2> QED
    BY <1>0, <1>1, <1>2, <2>1 DEF LogInv, Places
<1>7. HandledBelow'
  <2>1. \A o \in Offset : o < c => o \in handled[q]
    BY <1>1, <1>3, <1>5 DEF Offset
  <2>2. CommitFollowsDatabase'
    BY <1>1, <1>2, <2>1 DEF LogInv, HandledBelow, CommitFollowsDatabase, Offset
  <2> QED
    BY <1>1, <1>5, <2>2 DEF HandledBelow
<1>8. RollbackRoom'
  BY <1>1, <1>2, <1>3, <1>4 DEF LogInv, RollbackRoom, Offset
<1>9. RollbackIsRedelivered'
  <2>1. \A p \in Partition : NextToApply(p)' = NextToApply(p)
    <3>1. NextOffset(q)' = NextOffset(q)
      <4>1. UNCHANGED <<low, high, fetch>> /\ fetch[q] # None
        BY <1>1, <1>3
      <4> QED
        BY <4>1 DEF NextOffset, Placed, Resumable, ResetOffset
    <3>2. \A p \in Partition \ {q} : NextOffset(p)' = NextOffset(p)
      <4>1. UNCHANGED <<low, high, fetch>>
        BY <1>1
      <4> QED
        BY <1>2, <4>1 DEF NextOffset, Placed, Resumable, ResetOffset
    <3>3. \A p \in Partition : NextOffset(p)' = NextOffset(p)
      BY <3>1, <3>2
    <3> QED
      BY <1>1, <3>3 DEF NextToApply
  <2> QED
    BY <1>1, <2>1 DEF LogInv, RollbackIsRedelivered
<1> QED
  BY <1>6, <1>7, <1>8, <1>9 DEF LogInv

LEMMA LogStep == ASSUME TypeOK, LogInv, [Next]_vars PROVE LogInv'
<1>1. CASE Quiet
  BY <1>1, QuietKeepsLog
<1>2. CASE Process
  BY <1>2, ProcessKeepsLog
<1>3. CASE Commit
  BY <1>3, AcknowledgingKeepsLog DEF Commit, Acknowledges
<1>4. CASE CommitFails
  BY <1>4, AcknowledgingKeepsLog DEF CommitFails, Acknowledges
<1>5. CASE Crash
  BY <1>5, ForgettingKeepsLog DEF Crash, Forgets
<1>6. ASSUME NEW p \in Partition, Append(p) \/ Retain(p) \/ Locate(p) \/ PollRecord(p)
      PROVE  LogInv'
  BY <1>6, AppendKeepsLog, RetainKeepsLog, LocateKeepsLog, PollRecordKeepsLog
<1>7. ASSUME NEW S \in SUBSET Partition, Assign(S) PROVE LogInv'
  BY <1>7, ForgettingKeepsLog DEF Assign, Forgets, TypeOK
<1> QED
  BY <1>1, <1>2, <1>3, <1>4, <1>5, <1>6, <1>7, StepKinds

LEMMA InitLog == Init => LogInv
<1> SUFFICES ASSUME Init PROVE LogInv
  OBVIOUS
<1>1. \A p \in Partition :
         /\ low[p] = 0 /\ high[p] = 0 /\ applied[p] = 0 /\ newest[p] = 0
         /\ committed[p] \in {0, None} /\ fetch[p] = None /\ position[p] = None
  BY DEF Init, Unknown
<1>2. record = None /\ pc = "poll" /\ None # 0
  BY ConsumptionBounds DEF Init
<1> QED
  BY <1>1, <1>2 DEF LogInv, Places, HandledBelow, CommitFollowsDatabase, RollbackRoom,
                    RollbackIsRedelivered, Offset

(***************************************************************************)
(* The gate                                                                *)
(***************************************************************************)

(* A step keeps what the gate knows, or shuts it, or is a successful check. *)
GateKept ==
    /\ UNCHANGED <<healthy, targets, keys, assigned>>
    /\ sinceSuccess <= sinceSuccess'
    /\ outage <= sinceSuccess => outage' <= sinceSuccess'

LEMMA GateSteps ==
    ASSUME TypeOK, [Next]_vars
    PROVE  /\ GateKept \/ (healthy' = FALSE /\ targets' = None) \/ CheckSucceeds
           /\ NoteDebt \/ UNCHANGED <<high, debt, healthy, sinceSuccess>>
           /\ \A p \in Partition : high[p] <= high'[p]
<1> USE DEF GateKept, gate, client, clocks
<1>0. /\ sinceSuccess <= sinceSuccess /\ outage <= outage
      /\ 0 <= sinceSuccess
      /\ \A p \in Partition : high[p] <= high[p] /\ high[p] <= high[p] + 1
  BY DEF TypeOK, Offset
<1> USE <1>0
<1>1. CASE LoopStep
  <2>1. CASE PollNothing
    BY <2>1 DEF PollNothing, topic
  <2>2. CASE PollError
    BY <2>2 DEF PollError, MarkUnhealthy, topic
  <2>3. ASSUME NEW p \in Partition, PollRecord(p) PROVE GateKept /\ NoteDebt /\ high' = high
    BY <2>3 DEF PollRecord, topic
  <2>4. CASE Process
    BY <2>4 DEF Process, topic
  <2>5. CASE Commit
    BY <2>5 DEF Commit
  <2>6. CASE CommitFails
    BY <2>6 DEF CommitFails, MarkUnhealthy
  <2>7. CASE SkipCheck
    BY <2>7 DEF SkipCheck, topic
  <2>8. CASE CheckFails
    BY <2>8 DEF CheckFails, MarkUnhealthy, topic
  <2>9. CASE CheckSucceeds
    BY <2>9 DEF CheckSucceeds, topic
  <2>10. CASE CheckStale
    BY <2>10 DEF CheckStale, topic
  <2> QED
    BY <1>1, <2>1, <2>2, <2>3, <2>4, <2>5, <2>6, <2>7, <2>8, <2>9, <2>10 DEF LoopStep
<1>2. CASE KafkaStep
  <2>1. ASSUME NEW p \in Partition, Append(p)
        PROVE  GateKept /\ NoteDebt /\ \A q \in Partition : high[q] <= high'[q]
    BY <2>1 DEF Append, TypeOK
  <2>2. ASSUME NEW p \in Partition, Retain(p) PROVE GateKept /\ NoteDebt /\ high' = high
    BY <2>2 DEF Retain
  <2>3. ASSUME NEW p \in Partition, Locate(p) PROVE GateKept /\ NoteDebt /\ high' = high
    BY <2>3 DEF Locate, topic
  <2>4. CASE BrokerLost
    BY <2>4 DEF BrokerLost
  <2>5. CASE BrokerBack
    BY <2>5 DEF BrokerBack
  <2>6. ASSUME NEW S \in SUBSET Partition, Assign(S)
        PROVE  healthy' = FALSE /\ targets' = None /\ NoteDebt /\ high' = high
    BY <2>6 DEF Assign, MarkUnhealthy, topic
  <2> QED
    BY <1>2, <2>1, <2>2, <2>3, <2>4, <2>5, <2>6 DEF KafkaStep, Join, Rebalance, TypeOK
<1>3. CASE Tick
  BY <1>3, ElapseTypes DEF Tick, topic
<1>4. CASE Delay
  BY <1>4, ElapseTypes, SettingsAssumption DEF Delay, topic
<1>5. CASE Crash
  BY <1>5 DEF Crash, topic
<1>6. CASE Restart
  BY <1>6 DEF Restart, topic
<1>7. CASE UNCHANGED vars
  BY <1>7 DEF vars, topic
<1> QED
  BY <1>1, <1>2, <1>3, <1>4, <1>5, <1>6, <1>7 DEF Next

LEMMA HealthStep == ASSUME TypeOK, HealthIsRecent, [Next]_vars PROVE HealthIsRecent'
<1>1. CASE GateKept
  BY <1>1 DEF GateKept, HealthIsRecent
<1>2. CASE healthy' = FALSE
  BY <1>2 DEF HealthIsRecent
<1>3. CASE CheckSucceeds
  <2>1. outage' = 0 /\ sinceSuccess' = 0 /\ keys' = assigned /\ assigned' = assigned
    BY <1>3 DEF CheckSucceeds, TypeOK, client
  <2>2. targets' # None
    BY <1>3, TargetsTaken, ConsumptionBounds DEF Offset
  <2> QED
    BY <2>1, <2>2 DEF HealthIsRecent
<1> QED
  BY <1>1, <1>2, <1>3, GateSteps

LEMMA DebtStep == ASSUME TypeOK, TypeOK', DebtBounded, [Next]_vars PROVE DebtBounded'
<1>1. \A p \in Partition : debt[p] <= high[p] /\ high[p] <= high'[p]
                          /\ debt[p] \in Nat /\ high[p] \in Nat /\ high'[p] \in Nat
  <2>1. \A p \in Partition : debt[p] <= high[p] /\ high[p] <= high'[p]
    BY GateSteps DEF DebtBounded
  <2>2. \A p \in Partition : debt[p] \in Nat /\ high[p] \in Nat /\ high'[p] \in Nat
    BY DEF TypeOK, Offset
  <2> QED
    BY <2>1, <2>2
<1>2. CASE NoteDebt
  BY <1>1, <1>2 DEF NoteDebt, DebtBounded
<1>3. CASE UNCHANGED <<high, debt, healthy, sinceSuccess>>
  BY <1>3 DEF DebtBounded, Interrupted
<1> QED
  BY <1>2, <1>3, GateSteps

(***************************************************************************)
(* The backlog                                                             *)
(***************************************************************************)

(* The health check does not overrate where the client is. *)
LEMMA EffectiveBelowNext ==
    ASSUME TypeOK, Places, Locatable, NEW p \in Partition
    PROVE  EffectiveOffset(p) <= NextOffset(p)
<1>1. /\ low[p] \in Nat /\ high[p] \in Nat /\ low[p] <= high[p]
      /\ fetch[p] # None => fetch[p] \in Nat
      /\ committed[p] # None => committed[p] \in Nat
      /\ position[p] # None => position[p] \in Nat
      /\ low[p] <= NextOffset(p) /\ NextOffset(p) \in Nat
  BY NextOffsetInLog DEF TypeOK, Offset
<1>2. /\ position[p] # None => fetch[p] # None /\ position[p] <= fetch[p]
      /\ committed[p] # None /\ position[p] = None /\ fetch[p] # None => committed[p] <= fetch[p]
  BY <1>1 DEF Places
<1>3. fetch[p] # None => fetch[p] <= NextOffset(p)
  BY <1>1 DEF NextOffset, Placed
<1>4. CASE position[p] # None
  BY <1>1, <1>2, <1>3, <1>4 DEF EffectiveOffset
<1>5. CASE position[p] = None /\ committed[p] # None
  <2>1. CASE fetch[p] = None
    BY <1>1, <1>5, <2>1 DEF EffectiveOffset, NextOffset, Placed, Resumable
  <2>2. CASE fetch[p] # None
    BY <1>1, <1>2, <1>3, <1>5, <2>2 DEF EffectiveOffset
  <2> QED
    BY <2>1, <2>2
<1>6. CASE position[p] = None /\ committed[p] = None
  BY <1>1, <1>6, SettingsAssumption DEF Locatable, EffectiveOffset, ResetOffset
<1> QED
  BY <1>4, <1>5, <1>6

(* While the assignment stays, no step puts the client back. *)
LEMMA ReachedStays ==
    ASSUME TypeOK, TypeOK', LogInv, [Next]_vars, GateKept, healthy,
           NEW p \in assigned, Reached(p), debt' = debt
    PROVE  Reached(p)'
<1>0. p \in Partition /\ low[p] \in Nat /\ high[p] \in Nat /\ debt[p] \in Nat
      /\ NextOffset(p) \in Nat /\ low[p] <= NextOffset(p)
      /\ debt[p] <= NextOffset(p) /\ (record = p => debt[p] < position[p])
  BY NextOffsetInLog DEF TypeOK, Offset, Reached
<1>1. CASE Quiet
  BY <1>1 DEF Quiet, Reached, NextOffset, Placed, Resumable, ResetOffset, client
<1>2. CASE Process
  BY <1>2 DEF Process, Reached, NextOffset, Placed, Resumable, ResetOffset, client, topic
<1>3. CASE Commit
  <2>1. /\ record' = None /\ UNCHANGED <<low, high, fetch>>
        /\ committed' = [committed EXCEPT ![record] = position[record]]
    BY <1>3 DEF Commit, client
  <2>2. record = p \/ committed'[p] = committed[p]
    BY <1>0, <2>1 DEF TypeOK
  <2>3. record = p => position[p] # None
    BY <1>3, ConsumptionBounds DEF Commit, TypeOK
  <2>4. record = p => fetch[p] # None
    BY <1>0, <2>3 DEF LogInv, Places
  <2>5. NextOffset(p)' = NextOffset(p)
    BY <1>0, <2>1, <2>2, <2>4 DEF NextOffset, Placed, Resumable, ResetOffset
  <2> QED
    BY <1>0, <1>3, <2>1, <2>5, ConsumptionBounds DEF Commit, Reached
<1>4. ASSUME NEW q \in Partition, Append(q) PROVE Reached(p)'
  <2>1. /\ UNCHANGED <<low, committed, fetch, position, record>> /\ high[p] <= high'[p]
        /\ high'[p] \in Nat
    BY <1>0, <1>4, GateSteps DEF Append, client, TypeOK, Offset
  <2>2. NextOffset(p) <= NextOffset(p)' /\ NextOffset(p)' \in Nat
    BY <1>0, <2>1 DEF NextOffset, Placed, Resumable, ResetOffset
  <2> QED
    BY <1>0, <2>1, <2>2 DEF Reached
<1>5. ASSUME NEW q \in Partition, Retain(q) PROVE Reached(p)'
  <2>1. /\ UNCHANGED <<high, committed, fetch, position, record>>
        /\ low' = [low EXCEPT ![q] = high[q]] /\ low \in [Partition -> Offset]
    BY <1>5 DEF Retain, client, TypeOK
  <2>2. NextOffset(p) <= high[p]
    BY <1>0 DEF LogInv, Places, NextOffset, Placed, Resumable, ResetOffset, TypeOK, Offset
  <2>3. NextOffset(p)' = NextOffset(p) \/ high[p] <= NextOffset(p)'
    <3>1. CASE p = q
      BY <1>0, <2>1, <3>1 DEF NextOffset, Placed, Resumable, ResetOffset
    <3>2. CASE p # q
      BY <1>0, <2>1, <3>2 DEF NextOffset, Placed, Resumable, ResetOffset
    <3> QED
      BY <3>1, <3>2
  <2>4. NextOffset(p)' \in Nat
    <3>1. /\ fetch[p] # None => fetch[p] \in Nat
          /\ committed[p] # None => committed[p] \in Nat
          /\ high[p] \in Nat /\ low'[p] \in Nat
      BY <1>0, <2>1 DEF TypeOK, Offset
    <3> QED
      BY <2>1, <3>1 DEF NextOffset, Placed, Resumable, ResetOffset
  <2> QED
    BY <1>0, <2>1, <2>2, <2>3, <2>4 DEF Reached
<1>6. ASSUME NEW q \in Partition, Locate(q) PROVE Reached(p)'
  <2>1. /\ fetch' = [fetch EXCEPT ![q] = NextOffset(q)] /\ fetch \in [Partition -> Offset \cup {None}]
        /\ UNCHANGED <<low, high, committed, position, record>>
    BY <1>6 DEF Locate, topic, TypeOK
  <2>2. NextOffset(q) \in Offset /\ low[q] <= NextOffset(q) /\ None \notin Offset
    BY NextOffsetInLog, ConsumptionBounds DEF Offset
  <2>3. NextOffset(p)' = NextOffset(p)
    <3>1. CASE p = q
      BY <1>0, <2>1, <2>2, <3>1 DEF NextOffset, Placed
    <3>2. CASE p # q
      BY <1>0, <2>1, <3>2 DEF NextOffset, Placed, Resumable, ResetOffset
    <3> QED
      BY <3>1, <3>2
  <2> QED
    BY <1>0, <2>1, <2>3 DEF Reached
<1>7. ASSUME NEW q \in Partition, PollRecord(q) PROVE Reached(p)'
  <2>1. /\ fetch' = [fetch EXCEPT ![q] = @ + 1] /\ fetch \in [Partition -> Offset \cup {None}]
        /\ position' = [position EXCEPT ![q] = fetch[q] + 1]
        /\ position \in [Partition -> Offset \cup {None}]
        /\ record' = q /\ UNCHANGED <<low, high, committed>> /\ Placed(q)
    BY <1>7 DEF PollRecord, topic, TypeOK
  <2>2. CASE p = q
    <3>1. fetch[q] \in Nat /\ low[q] <= fetch[q] /\ NextOffset(q) = fetch[q]
      BY <2>1 DEF Placed, Offset, NextOffset
    <3>2. fetch'[q] = fetch[q] + 1 /\ position'[q] = fetch[q] + 1 /\ fetch[q] + 1 # None
      BY <2>1, <3>1, ConsumptionBounds
    <3>3. NextOffset(q)' = fetch[q] + 1
      BY <1>0, <2>1, <2>2, <3>1, <3>2 DEF NextOffset, Placed
    <3> QED
      BY <1>0, <2>1, <2>2, <3>1, <3>2, <3>3 DEF Reached
  <2>3. CASE p # q
    <3>1. NextOffset(p)' = NextOffset(p)
      BY <1>0, <2>1, <2>3 DEF NextOffset, Placed, Resumable, ResetOffset
    <3> QED
      BY <1>0, <2>1, <2>3, <3>1 DEF Reached
  <2> QED
    BY <2>2, <2>3
<1>8. ASSUME CommitFails \/ Crash \/ \E S \in SUBSET Partition : Assign(S) PROVE FALSE
  BY <1>8 DEF CommitFails, Crash, Assign, MarkUnhealthy, GateKept
<1> QED
  BY <1>1, <1>2, <1>3, <1>4, <1>5, <1>6, <1>7, <1>8, StepKinds

LEMMA GateStep ==
    ASSUME IInv, IInv', Locatable, GateKnows, [Next]_vars PROVE GateKnows'
<1> SUFFICES ASSUME ~Interrupted', NEW p \in assigned'
             PROVE  (IF p \in DOMAIN targets THEN debt[p] <= targets[p] ELSE Reached(p))'
  BY DEF GateKnows
<1>1. healthy' /\ sinceSuccess' <= MaxAge
  BY SettingsAssumption DEF IInv, TypeOK, Interrupted
<1>2. debt' = debt
  BY GateSteps DEF NoteDebt, IInv
<1>3. CASE GateKept
  <2>1. healthy /\ ~Interrupted /\ assigned' = assigned /\ targets' = targets
    <3>1. /\ healthy' = healthy /\ assigned' = assigned /\ targets' = targets
          /\ sinceSuccess <= sinceSuccess'
      BY <1>3 DEF GateKept
    <3>2. healthy
      BY <1>1, <3>1, Zenon
    <3>3. ~(sinceSuccess > MaxAge)
      <4>1. sinceSuccess \in Nat /\ sinceSuccess' \in Nat /\ MaxAge \in Nat
        BY SettingsAssumption DEF IInv, TypeOK
      <4> QED
        BY <1>1, <3>1, <4>1
    <3> QED
      BY <3>1, <3>2, <3>3, Zenon DEF Interrupted
  <2>2. CASE p \in DOMAIN targets
    BY <1>2, <2>1, <2>2 DEF GateKnows
  <2>3. CASE p \notin DOMAIN targets
    <3>1. Reached(p)
      BY <2>1, <2>3 DEF GateKnows
    <3>2. Reached(p)'
      BY <1>2, <1>3, <2>1, <3>1, ReachedStays DEF IInv, LogInv
    <3> QED
      BY <2>1, <2>3, <3>2
  <2> QED
    BY <2>2, <2>3
<1>4. CASE CheckSucceeds
  <2> DEFINE goal == IF StartsOver \/ targets = None
                     THEN [q \in assigned |-> high[q]] ELSE targets
  <2>1. /\ assigned' = assigned /\ p \in Partition /\ record' = None
        /\ UNCHANGED <<low, high, fetch, committed, position>>
        /\ targets' = [q \in Behind(goal) |-> goal[q]]
    BY <1>4 DEF CheckSucceeds, IInv, TypeOK, topic, client
  <2>2. /\ debt[p] \in Nat /\ NextOffset(p) \in Nat /\ EffectiveOffset(p) \in Nat
        /\ EffectiveOffset(p) <= NextOffset(p) /\ debt[p] <= high[p] /\ high[p] \in Nat
    BY <2>1, NextOffsetInLog, EffectiveOffsetInLog, EffectiveBelowNext
    DEF IInv, TypeOK, Offset, DebtBounded
  <2>3. NextOffset(p)' = NextOffset(p)
    BY <2>1 DEF NextOffset, Placed, Resumable, ResetOffset
  <2>4. debt[p] <= NextOffset(p) => Reached(p)'
    BY <1>2, <2>1, <2>3, ConsumptionBounds DEF Reached
  <2>5. IF p \in DOMAIN goal THEN debt[p] <= goal[p] /\ goal[p] \in Nat
        ELSE debt[p] <= NextOffset(p)
    <3>1. CASE StartsOver \/ targets = None
      BY <2>1, <2>2, <3>1
    <3>2. CASE ~(StartsOver \/ targets = None)
      <4>1. ~Interrupted
        BY <3>2 DEF StartsOver, Interrupted
      <4>2. IF p \in DOMAIN targets THEN debt[p] <= targets[p] ELSE Reached(p)
        BY <2>1, <4>1 DEF GateKnows
      <4>3. p \in DOMAIN targets => targets[p] \in Nat
        BY <3>2 DEF IInv, TypeOK, Offset
      <4> QED
        BY <3>2, <4>2, <4>3 DEF Reached
    <3> QED
      BY <3>1, <3>2
  <2> HIDE DEF goal
  <2>6. CASE p \in Behind(goal)
    BY <1>2, <2>1, <2>5, <2>6 DEF Behind
  <2>7. CASE p \notin Behind(goal)
    <3>1. debt[p] <= NextOffset(p)
      BY <2>2, <2>5, <2>7 DEF Behind
    <3> QED
      BY <2>1, <2>4, <2>7, <3>1
  <2> QED
    BY <2>6, <2>7
<1> QED
  BY <1>1, <1>3, <1>4, GateSteps DEF IInv

(***************************************************************************)
(* Theorems                                                                *)
(***************************************************************************)
LEMMA InitIInv == Init => IInv
<1> SUFFICES ASSUME Init PROVE IInv
  OBVIOUS
<1>1. TypeOK /\ LogInv
  BY InitTypes, InitLog
<1>2. HealthIsRecent
  BY Zenon DEF Init, HealthIsRecent
<1>3. DebtBounded
  BY DEF Init, DebtBounded
<1> QED
  BY <1>1, <1>2, <1>3 DEF IInv, LogInv

LEMMA IInvStep == IInv /\ [Next]_vars => IInv'
<1> SUFFICES ASSUME IInv, [Next]_vars PROVE IInv'
  OBVIOUS
<1>1. TypeOK'
  BY TypesStep DEF IInv
<1>2. LogInv'
  BY LogStep DEF IInv, LogInv
<1>3. HealthIsRecent'
  BY HealthStep DEF IInv
<1>4. DebtBounded'
  BY <1>1, DebtStep DEF IInv
<1> QED
  BY <1>1, <1>2, <1>3, <1>4 DEF IInv, LogInv

(* The strengthened invariant holds in every state. *)
THEOREM Inductive == Spec => []IInv
<1> QED
  BY InitIInv, IInvStep, PTL DEF Spec

(* Every variable has its type: offsets stay within the log. *)
THEOREM TypeCorrect == Spec => []TypeOK
<1>1. IInv => TypeOK
  BY DEF IInv
<1> QED
  BY <1>1, Inductive, PTL

(* No offset is committed before its record, and every one before it, is in *)
(* the database or was passed over by the reset policy.                     *)
THEOREM OffsetsFollowDatabase == Spec => []CommitFollowsDatabase
<1>1. IInv => CommitFollowsDatabase
  BY DEF IInv, HandledBelow
<1> QED
  BY <1>1, Inductive, PTL

(* A state of the devices that save put back is always overtaken by the     *)
(* redelivery of the records after it, as far as the log still holds them.  *)
THEOREM RollbacksEnd == Spec => []RollbackIsRedelivered
<1>1. IInv => RollbackIsRedelivered
  BY DEF IInv
<1> QED
  BY <1>1, Inductive, PTL

(* The stale check never runs after an outage of more than MaxAge. *)
THEOREM FreshDecisions == Spec => []DecisionsAreFresh
<1>1. IInv => DecisionsAreFresh
  BY SettingsAssumption DEF IInv, TypeOK, HealthIsRecent, DecisionsAreFresh, Open
<1> QED
  BY <1>1, Inductive, PTL

(* Between two interruptions no target is added and none is moved. *)
THEOREM TargetsOnlyShrink == Spec => TargetsDoNotGrow
<1> DEFINE Shrinks ==
      /\ targets # None /\ targets' # None
      /\ DOMAIN targets' \subseteq DOMAIN targets
      /\ \A p \in DOMAIN targets' : targets'[p] = targets[p]
<1>1. IInv /\ [Next]_vars => [~Interrupted /\ ~Interrupted' => Shrinks]_vars
  <2> SUFFICES ASSUME IInv, [Next]_vars, ~Interrupted, ~Interrupted' PROVE Shrinks
    OBVIOUS
  <2>1. healthy /\ healthy' /\ ~(sinceSuccess > MaxAge)
    BY Zenon DEF Interrupted
  <2>2. targets # None /\ assigned = keys
    BY <2>1, Zenon DEF IInv, HealthIsRecent
  <2>3. CASE GateKept
    BY <2>2, <2>3 DEF GateKept
  <2>4. CASE CheckSucceeds
    <3>1. ~StartsOver
      BY <2>1, <2>2, Zenon DEF StartsOver
    <3>2. targets' = [p \in Behind(targets) |-> targets[p]]
      BY <2>2, <2>4, <3>1 DEF CheckSucceeds
    <3>3. targets' # None
      BY <2>4, TargetsTaken, ConsumptionBounds DEF IInv, Offset
    <3> QED
      BY <2>2, <3>2, <3>3 DEF Behind
  <2>5. ~(healthy' = FALSE)
    BY <2>1, Zenon
  <2> QED
    BY <2>3, <2>4, <2>5, GateSteps, Zenon DEF IInv
<1> QED
  BY <1>1, Inductive, PTL DEF Spec, TargetsDoNotGrow

(* The targets are high watermarks of assigned partitions, and the logs      *)
(* have only grown since.                                                   *)
TargetsInLog ==
    targets # None =>
        DOMAIN targets \subseteq assigned /\ \A p \in DOMAIN targets : targets[p] <= high[p]

(* Before its first delivery the client stands where the health check takes *)
(* it to stand.                                                             *)
PlaceKnown ==
    \A p \in Partition : fetch[p] # None /\ position[p] = None =>
        /\ committed[p] # None /\ low[p] <= committed[p] => fetch[p] = committed[p]
        /\ committed[p] = None /\ ~StartsAtEnd => fetch[p] <= low[p]

LEMMA TargetsStep ==
    ASSUME IInv, IInv', TargetsInLog, [Next]_vars PROVE TargetsInLog'
<1>1. \A p \in Partition : high[p] <= high'[p] /\ high[p] \in Nat /\ high'[p] \in Nat
  <2>1. \A p \in Partition : high[p] <= high'[p]
    BY GateSteps DEF IInv
  <2>2. \A p \in Partition : high[p] \in Nat /\ high'[p] \in Nat
    BY DEF IInv, TypeOK, Offset
  <2> QED
    BY <2>1, <2>2
<1>2. assigned \subseteq Partition
  BY DEF IInv, TypeOK
<1>3. CASE GateKept
  <2> SUFFICES ASSUME targets # None
               PROVE  /\ DOMAIN targets \subseteq assigned
                      /\ \A p \in DOMAIN targets : targets[p] <= high'[p]
    BY <1>3 DEF GateKept, TargetsInLog
  <2>1. DOMAIN targets \subseteq assigned /\ \A p \in DOMAIN targets : targets[p] <= high[p]
    BY DEF TargetsInLog
  <2>2. \A p \in DOMAIN targets : targets[p] \in Nat
    BY DEF IInv, TypeOK, Offset
  <2> QED
    BY <1>1, <1>2, <2>1, <2>2
<1>4. CASE CheckSucceeds
  <2> DEFINE goal == IF StartsOver \/ targets = None
                     THEN [p \in assigned |-> high[p]] ELSE targets
  <2>1. DOMAIN goal \subseteq assigned /\ \A p \in DOMAIN goal : goal[p] <= high[p]
    <3>1. CASE StartsOver \/ targets = None
      BY <1>1, <1>2, <3>1
    <3>2. CASE ~(StartsOver \/ targets = None)
      BY <3>2 DEF TargetsInLog
    <3> QED
      BY <3>1, <3>2
  <2>2. /\ targets' = [p \in Behind(goal) |-> goal[p]]
        /\ assigned' = assigned /\ high' = high
    BY <1>4 DEF CheckSucceeds, topic, client
  <2> HIDE DEF goal
  <2> QED
    BY <2>1, <2>2 DEF TargetsInLog, Behind
<1>5. CASE targets' = None
  BY <1>5 DEF TargetsInLog
<1> QED
  BY <1>3, <1>4, <1>5, GateSteps DEF IInv

LEMMA PlaceStep == ASSUME IInv, PlaceKnown, [Next]_vars PROVE PlaceKnown'
<1>0. /\ low \in [Partition -> Nat] /\ high \in [Partition -> Nat]
      /\ \A p \in Partition : low[p] <= high[p]
      /\ \A p \in Partition : fetch[p] # None => fetch[p] \in Nat
      /\ \A p \in Partition : committed[p] # None => committed[p] \in Nat
      /\ None \notin Nat
  BY ConsumptionBounds DEF IInv, TypeOK, Offset
<1>1. CASE UNCHANGED <<low, committed, fetch, position>>
  BY <1>1 DEF PlaceKnown
<1>2. CASE fetch' = Unknown
  BY <1>2 DEF PlaceKnown, Unknown
<1>3. CASE Commit \/ CommitFails
  <2>1. record \in Partition /\ position[record] # None
    <3>1. pc = "commit"
      BY <1>3 DEF Commit, CommitFails
    <3> QED
      BY <3>1, ConsumptionBounds DEF IInv, TypeOK
  <2>2. /\ committed' \in {committed, [committed EXCEPT ![record] = position[record]]}
        /\ UNCHANGED <<low, fetch, position>>
    BY <1>3 DEF Commit, CommitFails, client
  <2>3. \A p \in Partition : position[p] = None => committed'[p] = committed[p]
    BY <2>1, <2>2 DEF IInv, TypeOK
  <2> QED
    BY <2>2, <2>3 DEF PlaceKnown
<1>4. ASSUME NEW q \in Partition, Retain(q) PROVE PlaceKnown'
  <2>1. low' = [low EXCEPT ![q] = high[q]] /\ UNCHANGED <<committed, fetch, position>>
    BY <1>4 DEF Retain, client
  <2>2. \A p \in Partition : low[p] <= low'[p] /\ low'[p] \in Nat
    BY <1>0, <2>1
  <2> QED
    BY <1>0, <2>1, <2>2 DEF PlaceKnown
<1>5. ASSUME NEW q \in Partition, Locate(q) PROVE PlaceKnown'
  <2>1. /\ ~Placed(q) /\ fetch' = [fetch EXCEPT ![q] = NextOffset(q)]
        /\ UNCHANGED <<low, committed, position>> /\ fetch \in [Partition -> Offset \cup {None}]
    BY <1>5 DEF Locate, topic, IInv, TypeOK
  <2> SUFFICES ASSUME NEW p \in Partition, fetch'[p] # None, position[p] = None
               PROVE  /\ committed[p] # None /\ low[p] <= committed[p] =>
                             fetch'[p] = committed[p]
                      /\ committed[p] = None /\ ~StartsAtEnd =>
                             fetch'[p] <= low[p]
    BY <2>1 DEF PlaceKnown
  <2>2. CASE p # q
    BY <2>1, <2>2 DEF PlaceKnown
  <2>3. CASE p = q
    <3>1. fetch'[p] = IF Resumable(p) THEN committed[p] ELSE ResetOffset(p)
      BY <2>1, <2>3 DEF NextOffset
    <3>2. committed[p] # None /\ low[p] <= committed[p] => fetch[p] = None
      BY <1>0, <2>1, <2>3 DEF PlaceKnown, Placed
    <3> QED
      BY <1>0, <3>1, <3>2 DEF Resumable, ResetOffset
  <2> QED
    BY <2>2, <2>3
<1>6. ASSUME NEW q \in Partition, PollRecord(q) PROVE PlaceKnown'
  <2>1. /\ fetch' = [fetch EXCEPT ![q] = @ + 1]
        /\ position' = [position EXCEPT ![q] = fetch[q] + 1]
        /\ UNCHANGED <<low, committed>> /\ fetch[q] \in Nat
        /\ fetch \in [Partition -> Offset \cup {None}]
        /\ position \in [Partition -> Offset \cup {None}]
    BY <1>0, <1>6 DEF PollRecord, Placed, topic, IInv, TypeOK
  <2>2. position'[q] # None
    BY <1>0, <2>1
  <2>3. \A p \in Partition \ {q} : fetch'[p] = fetch[p] /\ position'[p] = position[p]
    BY <2>1
  <2> QED
    BY <2>1, <2>2, <2>3 DEF PlaceKnown
<1>7. CASE Quiet \/ Process
  BY <1>1, <1>7 DEF Quiet, Process, topic, client
<1>8. CASE Crash
  BY <1>2, <1>8 DEF Crash
<1>9. ASSUME NEW S \in SUBSET Partition, Assign(S) PROVE PlaceKnown'
  BY <1>2, <1>9 DEF Assign
<1>10. ASSUME NEW q \in Partition, Append(q) PROVE PlaceKnown'
  BY <1>1, <1>10 DEF Append, client
<1> QED
  BY <1>3, <1>4, <1>5, <1>6, <1>7, <1>8, <1>9, <1>10, StepKinds DEF IInv

(* The gate waits only for records that the log still holds and the client  *)
(* will deliver, unless retention has cut off the place where the health    *)
(* check takes it to stand: with the run gate_stuck, the one reason for a   *)
(* gate that stays shut.                                                    *)
THEOREM ShutOnlyForRecords == Spec => []ShutForAReason
<1>1. Init => TargetsInLog /\ PlaceKnown
  <2> SUFFICES ASSUME Init PROVE TargetsInLog /\ PlaceKnown
    OBVIOUS
  <2>1. targets = None /\ fetch = [p \in Partition |-> None]
    BY DEF Init, Unknown
  <2> QED
    BY <2>1 DEF TargetsInLog, PlaceKnown
<1>2. IInv /\ IInv' /\ TargetsInLog /\ [Next]_vars => TargetsInLog'
  BY TargetsStep
<1>3. IInv /\ PlaceKnown /\ [Next]_vars => PlaceKnown'
  BY PlaceStep
<1>4. IInv /\ TargetsInLog /\ PlaceKnown => ShutForAReason
  <2> SUFFICES ASSUME IInv, TargetsInLog, PlaceKnown, targets # None,
                      NEW p \in Behind(targets), low[p] <= EffectiveOffset(p)
               PROVE  p \in assigned /\ NextOffset(p) < high[p]
    BY DEF ShutForAReason
  <2>1. /\ p \in assigned /\ p \in Partition /\ p \in DOMAIN targets
        /\ targets[p] <= high[p] /\ EffectiveOffset(p) < targets[p]
    BY DEF Behind, TargetsInLog, IInv, TypeOK
  <2>2. /\ targets[p] \in Nat /\ low[p] \in Nat /\ high[p] \in Nat /\ low[p] <= high[p]
        /\ fetch[p] # None => fetch[p] \in Nat
        /\ committed[p] # None => committed[p] \in Nat
        /\ position[p] # None => position[p] \in Nat
        /\ EffectiveOffset(p) \in Nat
    BY <2>1, EffectiveOffsetInLog DEF IInv, TypeOK, Offset
  <2>3. EffectiveOffset(p) < high[p]
    BY <2>1, <2>2
  <2>4. CASE position[p] # None
    <3>1. EffectiveOffset(p) = position[p]
      BY <2>4 DEF EffectiveOffset
    <3>2. fetch[p] # None /\ fetch[p] = position[p]
      BY <2>1, <2>2, <2>4, <3>1 DEF IInv, Places
    <3> QED
      BY <2>1, <2>2, <2>3, <3>1, <3>2 DEF NextOffset, Placed
  <2>5. CASE position[p] = None /\ committed[p] # None
    <3>1. EffectiveOffset(p) = committed[p]
      BY <2>5 DEF EffectiveOffset
    <3>2. fetch[p] # None => fetch[p] = committed[p]
      BY <2>1, <2>5, <3>1 DEF PlaceKnown
    <3> QED
      BY <2>1, <2>2, <2>3, <2>5, <3>1, <3>2 DEF NextOffset, Placed, Resumable
  <2>6. CASE position[p] = None /\ committed[p] = None
    <3>1. EffectiveOffset(p) = ResetOffset(p)
      BY <2>6 DEF EffectiveOffset
    <3>2. ~StartsAtEnd /\ ResetOffset(p) = low[p] /\ low[p] < high[p]
      BY <2>2, <2>3, <3>1, SettingsAssumption DEF ResetOffset
    <3>3. fetch[p] # None => fetch[p] <= low[p]
      BY <2>1, <2>6, <3>2 DEF PlaceKnown
    <3> QED
      BY <2>1, <2>2, <2>6, <3>2, <3>3 DEF NextOffset, Placed, Resumable
  <2> QED
    BY <2>4, <2>5, <2>6
<1> QED
  BY <1>1, <1>2, <1>3, <1>4, Inductive, PTL DEF Spec

(* A group that has committed, or starts at the beginning, can always tell  *)
(* where the client is.                                                     *)
LEMMA GroupsAreLocatable ==
    ASSUME KnownGroup \/ ~StartsAtEnd
    PROVE  Spec => []Locatable
<1>1. Init => Locatable
  BY ConsumptionBounds DEF Init, Locatable
<1>2. IInv /\ Locatable /\ [Next]_vars => Locatable'
  <2> SUFFICES ASSUME IInv, [Next]_vars, \A p \in Partition : committed[p] # None
               PROVE  \A p \in Partition : committed'[p] # None
    BY DEF Locatable
  <2>1. CASE Commit \/ CommitFails
    <3>1. record \in Partition /\ position[record] # None
      <4>1. pc = "commit"
        BY <2>1 DEF Commit, CommitFails
      <4> QED
        BY <4>1, ConsumptionBounds DEF IInv, TypeOK
    <3>2. committed' \in {committed, [committed EXCEPT ![record] = position[record]]}
      BY <2>1 DEF Commit, CommitFails
    <3> QED
      BY <3>1, <3>2 DEF IInv, TypeOK
  <2>2. CASE Quiet \/ Process \/ Crash
    BY <2>2 DEF Quiet, Process, Crash, topic
  <2>3. ASSUME NEW p \in Partition, Append(p) \/ Retain(p) \/ Locate(p) \/ PollRecord(p)
        PROVE  committed' = committed
    BY <2>3 DEF Append, Retain, Locate, PollRecord, topic
  <2>4. ASSUME NEW S \in SUBSET Partition, Assign(S) PROVE committed' = committed
    BY <2>4 DEF Assign, topic
  <2> QED
    BY <2>1, <2>2, <2>3, <2>4, StepKinds DEF IInv
<1> QED
  BY <1>1, <1>2, Inductive, PTL DEF Spec

(* The stale check runs only when the backlog of the last interruption is   *)
(* processed, in a group that has committed before or starts at the         *)
(* beginning of the log.  (The run new_group shows why the assumption.)     *)
THEOREM BacklogsConsumed ==
    ASSUME KnownGroup \/ ~StartsAtEnd
    PROVE  Spec => []BacklogConsumed
<1>1. Init => GateKnows
  <2> SUFFICES ASSUME Init PROVE GateKnows
    OBVIOUS
  <2>1. assigned = {}
    BY DEF Init
  <2> QED
    BY <2>1 DEF GateKnows
<1>2. IInv /\ IInv' /\ Locatable /\ GateKnows /\ [Next]_vars => GateKnows'
  BY GateStep
<1>3. IInv /\ GateKnows => BacklogConsumed
  <2> SUFFICES ASSUME IInv, GateKnows, Open, NEW p \in assigned
               PROVE  NextOffset(p) >= debt[p] /\ (record = p => position[p] > debt[p])
    BY DEF BacklogConsumed
  <2>1. ~Interrupted /\ DOMAIN targets = {}
    BY SettingsAssumption DEF Open, Interrupted, IInv, TypeOK
  <2>2. Reached(p)
    BY <2>1 DEF GateKnows
  <2> QED
    BY <2>2 DEF Reached
<1> QED
  BY <1>1, <1>2, <1>3, Inductive, GroupsAreLocatable, PTL DEF Spec
=============================================================================
