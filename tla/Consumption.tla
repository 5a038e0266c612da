----------------------------- MODULE Consumption -----------------------------
(***************************************************************************)
(* The Kafka side of the consumer thread: the loop of HeartbeatNotifier.run,*)
(* the commit of offsets after the database, and the gate that holds back  *)
(* the stale check while Kafka is unhealthy or a backlog is being worked   *)
(* off.  What processing a record and the stale check do to the database   *)
(* is in Delivery; here they are steps of the loop.                        *)
(*                                                                         *)
(* Kafka itself is external: a topic of partitions, a broker that may be   *)
(* out of reach, a group coordinator, and the client library that finds    *)
(* where to start and delivers records in order.                           *)
(*                                                                         *)
(* Time is counted in ticks and only as far as the code compares it.       *)
(***************************************************************************)
EXTENDS Naturals, FiniteSets

CONSTANTS
    Partition,     \* the partitions of the topic
    None,          \* no offset, no record, no targets
    ResetPolicy,   \* auto.offset.reset
    KnownGroup,    \* has the consumer group committed before?
    Interval,      \* settings.kafka_health_check_interval_seconds, in ticks
    MaxAge,        \* settings.kafka_health_max_age_seconds, in ticks
    MaxRecords,    \* bound on the records of a partition
    FaultKind,     \* the kinds of fault that may happen
    MaxFaults      \* bound on how many of them do

(* from_env refuses a MaxAge below the Interval, and takes any ResetPolicy. *)
(* Left out is "error", under which the client never finds where to start.  *)
ASSUME SettingsAssumption ==
    /\ ResetPolicy \in {"latest", "end", "earliest", "beginning"} /\ KnownGroup \in BOOLEAN
    /\ Interval \in Nat \ {0} /\ MaxAge \in Nat /\ Interval <= MaxAge
ASSUME ConsumptionBounds ==
    /\ MaxRecords \in Nat /\ MaxFaults \in Nat
    /\ None \notin Nat /\ None \notin Partition
    /\ \A S \in SUBSET Partition : None \notin [S -> Nat]

VARIABLES
    low, high,     \* watermarks of each partition
    reachable,     \* can the consumer talk to the broker?
    outage,        \* ticks since it last could, 0 while it can
    committed,     \* the group's committed offset of each partition, or None
    assigned,      \* the partitions assigned to the consumer
    fetch,         \* the next offset the client delivers, None until it knows
    position,      \* what position() answers, None before the first delivery
    pc,            \* the next step of the loop
    record,        \* the partition of the record in hand, or None
    healthy,       \* _kafka_healthy
    targets,       \* _catchup_targets, or None
    keys,          \* _assigned_keys
    sinceCheck,    \* ticks since _last_kafka_health_check_at
    sinceSuccess,  \* ticks since _last_kafka_health_success_at
    handled,       \* offsets processed in the database or passed over
    applied,       \* device_states: one past the last offset saved to it
    newest,        \* one past the newest offset ever saved to it
    debt,          \* high watermarks at the last moment of an interruption
    faults         \* faults so far

topic == <<low, high, reachable, committed>>
client == <<assigned, fetch, position>>
clocks == <<outage, sinceCheck, sinceSuccess>>
gate == <<healthy, targets, keys>>
database == <<handled, applied, newest>>
vars == <<topic, client, clocks, gate, database, pc, record, debt, faults>>

Fault(kind) == kind \in FaultKind /\ faults < MaxFaults /\ faults' = faults + 1

Unknown == [p \in Partition |-> None]

Init ==
    /\ low = [p \in Partition |-> 0] /\ high = low
    /\ reachable = TRUE /\ committed = IF KnownGroup THEN low ELSE Unknown
    /\ assigned = {} /\ fetch = Unknown /\ position = Unknown
    /\ outage = 0 /\ sinceCheck = Interval /\ sinceSuccess = MaxAge + 1
    /\ healthy = FALSE /\ targets = None /\ keys = {}
    /\ pc = "poll" /\ record = None
    /\ handled = [p \in Partition |-> {}] /\ debt = high
    /\ applied = low /\ newest = low
    /\ faults = 0

(* Slip: a health check is trusted however old it is. *)
OpenHoweverOld == healthy /\ targets # None /\ DOMAIN targets = {}

(* _stale_block_reason is None. *)
Open ==
    /\ healthy
    /\ sinceSuccess <= MaxAge
    /\ targets # None /\ DOMAIN targets = {}

(* _mark_kafka_unhealthy *)
MarkUnhealthy == healthy' = FALSE /\ targets' = None /\ UNCHANGED keys

(* History: while the gate is shut by an interruption, all that the topic   *)
(* holds becomes backlog.  Every action ends with it.                       *)
Interrupted == ~healthy \/ sinceSuccess > MaxAge
NoteDebt == debt' = IF Interrupted' THEN high' ELSE debt

(***************************************************************************)
(* Time.  A tick passes while the loop waits in poll; a delay elsewhere,   *)
(* in a database transaction or a health check, may exceed every limit.    *)
(***************************************************************************)
Capped(n, limit) == IF n > limit THEN limit ELSE n

Elapse(n) ==
    /\ sinceCheck' = Capped(sinceCheck + n, Interval)
    /\ sinceSuccess' = Capped(sinceSuccess + n, MaxAge + 1)
    /\ outage' = IF reachable THEN 0 ELSE Capped(outage + n, MaxAge + 1)

Tick ==
    /\ pc = "poll"
    /\ Elapse(1)
    /\ UNCHANGED <<topic, client, gate, pc, record, database, faults>>
    /\ NoteDebt

Delay ==
    /\ pc # "down" /\ Fault("delay")
    /\ Elapse(MaxAge + 1)
    /\ UNCHANGED <<topic, client, gate, pc, record, database>>
    /\ NoteDebt

(***************************************************************************)
(* Kafka                                                                   *)
(***************************************************************************)
Append(p) ==
    /\ high[p] < MaxRecords
    /\ high' = [high EXCEPT ![p] = @ + 1]
    /\ UNCHANGED <<low, reachable, committed, client, clocks, gate, pc, record, database, faults>>
    /\ NoteDebt

(* Old records are deleted, consumed or not. *)
Retain(p) ==
    /\ Fault("retention")
    /\ low[p] < high[p]
    /\ low' = [low EXCEPT ![p] = high[p]]
    /\ UNCHANGED <<high, reachable, committed, client, clocks, gate, pc, record, database>>
    /\ NoteDebt

BrokerLost ==
    /\ reachable /\ Fault("outage")
    /\ reachable' = FALSE
    /\ UNCHANGED <<low, high, committed, client, clocks, gate, pc, record, database>>
    /\ NoteDebt

BrokerBack ==
    /\ ~reachable
    /\ reachable' = TRUE /\ outage' = 0
    /\ UNCHANGED <<low, high, committed, client, sinceCheck, sinceSuccess, gate, pc, record,
                   database, faults>>
    /\ NoteDebt

(* Where the reset policy starts. *)
StartsAtEnd == ResetPolicy \in {"latest", "end"}
ResetOffset(p) == IF StartsAtEnd THEN high[p] ELSE low[p]

(* The client knows where it reads, and the log still holds that place. *)
Placed(p) == fetch[p] # None /\ fetch[p] >= low[p]

(* It is to start at the committed offset. *)
Resumable(p) == fetch[p] = None /\ committed[p] # None /\ committed[p] >= low[p]

(* The next offset the client will deliver, once it has found its place. *)
NextOffset(p) ==
    IF Placed(p) THEN fetch[p] ELSE IF Resumable(p) THEN committed[p] ELSE ResetOffset(p)

(* The client finds where to start.  What the reset policy skips is passed  *)
(* over.                                                                    *)
Locate(p) ==
    /\ p \in assigned /\ reachable /\ ~Placed(p)
    /\ fetch' = [fetch EXCEPT ![p] = NextOffset(p)]
    /\ handled' = IF Resumable(p) THEN handled
                  ELSE [handled EXCEPT ![p] = @ \cup {o \in 0 .. MaxRecords : o < NextOffset(p)}]
    /\ UNCHANGED <<topic, assigned, position, clocks, gate, applied, newest, pc, record, faults>>
    /\ NoteDebt

(* A rebalance, inside poll: on_assign, on_revoke and on_lost are all       *)
(* _on_assignment_change.                                                   *)
Assign(S) ==
    /\ pc = "poll"
    /\ assigned' = S /\ fetch' = Unknown /\ position' = Unknown
    /\ MarkUnhealthy
    /\ sinceCheck' = Interval
    /\ UNCHANGED <<topic, outage, sinceSuccess, pc, record, database>>
    /\ NoteDebt

(* The only member of the group gets every partition. *)
Join == reachable /\ assigned # Partition /\ Assign(Partition) /\ UNCHANGED faults

Rebalance(S) == Fault("rebalance") /\ Assign(S)

(***************************************************************************)
(* The loop of run.  A partition EOF is logged and polled past: no step.   *)
(***************************************************************************)
PollNothing ==
    /\ pc = "poll"
    /\ pc' = "health"
    /\ UNCHANGED <<topic, client, clocks, gate, record, database, faults>>
    /\ NoteDebt

(* An error record, or a KafkaException of poll itself. *)
PollError ==
    /\ pc = "poll"
    /\ \/ ~reachable /\ UNCHANGED faults
       \/ Fault("poll error")
    /\ MarkUnhealthy
    /\ UNCHANGED <<topic, client, clocks, pc, record, database>>
    /\ NoteDebt

(* Slip: the client commits what it delivers. *)
PollRecordCommits(p) ==
    /\ pc = "poll" /\ p \in assigned
    /\ Placed(p) /\ fetch[p] < high[p]
    /\ fetch' = [fetch EXCEPT ![p] = @ + 1]
    /\ position' = [position EXCEPT ![p] = fetch[p] + 1]
    /\ committed' = [committed EXCEPT ![p] = fetch[p] + 1]
    /\ record' = p /\ pc' = "process"
    /\ UNCHANGED <<low, high, reachable, assigned, clocks, gate, database, faults>>
    /\ NoteDebt

PollRecord(p) ==
    /\ pc = "poll" /\ p \in assigned
    /\ Placed(p) /\ fetch[p] < high[p]
    /\ fetch' = [fetch EXCEPT ![p] = @ + 1]
    /\ position' = [position EXCEPT ![p] = fetch[p] + 1]
    /\ record' = p /\ pc' = "process"
    /\ UNCHANGED <<topic, assigned, clocks, gate, database, faults>>
    /\ NoteDebt

(* The transaction of _process commits.  save overwrites the rows of the     *)
(* devices of the partition, whichever offset they came from.               *)
Process ==
    /\ pc = "process"
    /\ handled' = [handled EXCEPT ![record] = @ \cup {position[record] - 1}]
    /\ applied' = [applied EXCEPT ![record] = position[record]]
    /\ newest' = [newest EXCEPT ![record] = IF @ < position[record] THEN position[record] ELSE @]
    /\ pc' = "commit"
    /\ UNCHANGED <<topic, client, clocks, gate, record, faults>>
    /\ NoteDebt

(* Slip: the commit skips a record. *)
CommitPast ==
    /\ pc = "commit" /\ reachable
    /\ committed' = [committed EXCEPT ![record] = position[record] + 1]
    /\ record' = None /\ pc' = "health"
    /\ UNCHANGED <<low, high, reachable, client, clocks, gate, database, faults>>
    /\ NoteDebt

Commit ==
    /\ pc = "commit" /\ reachable
    /\ committed' = [committed EXCEPT ![record] = position[record]]
    /\ record' = None /\ pc' = "health"
    /\ UNCHANGED <<low, high, reachable, client, clocks, gate, database, faults>>
    /\ NoteDebt

(* The synchronous commit raises a KafkaException, whether or not it took   *)
(* effect, and the loop polls on.                                           *)
CommitFails ==
    /\ pc = "commit"
    /\ \/ ~reachable /\ UNCHANGED <<faults, committed>>
       \/ /\ Fault("commit fails")
          /\ committed' \in {committed, [committed EXCEPT ![record] = position[record]]}
    /\ MarkUnhealthy
    /\ record' = None /\ pc' = "poll"
    /\ UNCHANGED <<low, high, reachable, client, clocks, database>>
    /\ NoteDebt

(***************************************************************************)
(* _refresh_kafka_health                                                   *)
(***************************************************************************)
Due == sinceCheck >= Interval

SkipCheck ==
    /\ pc = "health" /\ ~Due
    /\ pc' = "stale"
    /\ UNCHANGED <<topic, client, clocks, gate, record, database, faults>>
    /\ NoteDebt

(* The check finds an offset for the partition, or knows the reset policy.  *)
HasOffset(p) ==
    position[p] # None \/ committed[p] # None \/ ResetPolicy \in {"latest", "earliest"}

(* Any of the queries fails, a partition has no offset, or nothing is       *)
(* assigned.                                                                *)
CheckFails ==
    /\ pc = "health" /\ Due
    /\ \/ /\ ~reachable \/ assigned = {} \/ \E p \in assigned : ~HasOffset(p)
          /\ UNCHANGED faults
       \/ Fault("check fails")
    /\ MarkUnhealthy
    /\ sinceCheck' = 0
    /\ pc' = "stale"
    /\ UNCHANGED <<topic, client, outage, sinceSuccess, record, database>>
    /\ NoteDebt

(* effective_offset: the position, else the committed offset, else where    *)
(* the reset policy would start.                                            *)
EffectiveOffset(p) ==
    CASE position[p] # None -> position[p]
      [] position[p] = None /\ committed[p] # None -> committed[p]
      [] OTHER -> ResetOffset(p)

(* Slip: a check that succeeds after a long gap keeps its targets. *)
StartsOverUnlessHealthy == ~healthy \/ assigned # keys

(* Slip: every check takes new targets. *)
StartsOverAlways == TRUE

(* The targets are taken anew after an interruption. *)
StartsOver == ~healthy \/ sinceSuccess > MaxAge \/ assigned # keys

(* Slip: a target that is just reached still counts. *)
BehindOrAt(t) == {p \in DOMAIN t : EffectiveOffset(p) <= t[p]}

(* The partitions whose target is not reached. *)
Behind(t) == {p \in DOMAIN t : EffectiveOffset(p) < t[p]}

CheckSucceeds ==
    /\ pc = "health" /\ Due /\ reachable /\ assigned # {}
    /\ \A p \in assigned : HasOffset(p)
    /\ LET goal == IF StartsOver \/ targets = None
                   THEN [p \in assigned |-> high[p]] ELSE targets
       IN targets' = [p \in Behind(goal) |-> goal[p]]
    /\ healthy' = TRUE /\ keys' = assigned
    /\ sinceCheck' = 0 /\ sinceSuccess' = 0
    /\ pc' = "stale"
    /\ UNCHANGED <<topic, client, outage, record, database, faults>>
    /\ NoteDebt

(* _notify_stale_devices, which looks for silent devices if Open. *)
CheckStale ==
    /\ pc = "stale"
    /\ pc' = "poll"
    /\ UNCHANGED <<topic, client, clocks, gate, record, database, faults>>
    /\ NoteDebt

(* The process ends: killed, or by a psycopg.Error in a transaction. *)
Crash ==
    /\ pc # "down" /\ Fault("crash")
    /\ pc' = "down" /\ record' = None
    /\ assigned' = {} /\ fetch' = Unknown /\ position' = Unknown
    /\ healthy' = FALSE /\ targets' = None /\ keys' = {}
    /\ sinceCheck' = Interval /\ sinceSuccess' = MaxAge + 1
    /\ UNCHANGED <<topic, outage, database>>
    /\ NoteDebt

Restart ==
    /\ pc = "down"
    /\ pc' = "poll"
    /\ UNCHANGED <<topic, client, clocks, gate, record, database, faults>>
    /\ NoteDebt

----------------------------------------------------------------------------
LoopStep ==
    \/ PollNothing \/ PollError \/ \E p \in Partition : PollRecord(p)
    \/ Process \/ Commit \/ CommitFails
    \/ SkipCheck \/ CheckFails \/ CheckSucceeds
    \/ CheckStale

KafkaStep ==
    \/ \E p \in Partition : Append(p) \/ Retain(p) \/ Locate(p)
    \/ BrokerLost \/ BrokerBack
    \/ Join \/ \E S \in SUBSET Partition : Rebalance(S)

Next == LoopStep \/ KafkaStep \/ Tick \/ Delay \/ Crash \/ Restart

Spec == Init /\ [][Next]_vars

(***************************************************************************)
(* Fairness.  Time passes while the loop waits; poll returns, and in time  *)
(* with a record of each partition that has some; the broker comes back;   *)
(* the coordinator answers the only member of its group; the client finds  *)
(* where to start; the deployment restarts the process.                    *)
(***************************************************************************)
FairSpec ==
    /\ Spec
    /\ SF_vars(Tick)
    /\ WF_vars(LoopStep)
    /\ \A p \in Partition :
          /\ SF_vars(PollRecord(p))
          /\ WF_vars(Locate(p))
    /\ SF_vars(Join)
    /\ WF_vars(BrokerBack)
    /\ WF_vars(Restart)

----------------------------------------------------------------------------
(***************************************************************************)
(* Properties                                                              *)
(***************************************************************************)
Offset == 0 .. MaxRecords

(* Every variable has its type, and offsets stay within the log. *)
TypeOK ==
    /\ low \in [Partition -> Offset] /\ high \in [Partition -> Offset]
    /\ \A p \in Partition : low[p] <= high[p]
    /\ reachable \in BOOLEAN
    /\ outage \in 0 .. MaxAge + 1 /\ (reachable => outage = 0)
    /\ committed \in [Partition -> Offset \cup {None}]
    /\ assigned \subseteq Partition
    /\ fetch \in [Partition -> Offset \cup {None}]
    /\ position \in [Partition -> Offset \cup {None}]
    /\ pc \in {"poll", "process", "commit", "health", "stale", "down"}
    /\ IF pc \in {"process", "commit"}
       THEN record \in assigned /\ position[record] \in 1 .. MaxRecords ELSE record = None
    /\ healthy \in BOOLEAN
    /\ targets = None \/ \E S \in SUBSET Partition : targets \in [S -> Offset]
    /\ keys \subseteq Partition
    /\ sinceCheck \in 0 .. Interval /\ sinceSuccess \in 0 .. MaxAge + 1
    /\ handled \in [Partition -> SUBSET Offset]
    /\ applied \in [Partition -> Offset] /\ newest \in [Partition -> Offset]
    /\ debt \in [Partition -> Offset]
    /\ faults \in 0 .. MaxFaults

(* When the stale check may run, no record that was in an assigned          *)
(* partition during the last interruption (a start, an outage, a            *)
(* rebalance, a gap without a health check) is still to be processed: a     *)
(* device is not taken for silent because its heartbeat waits in that       *)
(* backlog.                                                                 *)
BacklogConsumed ==
    Open => \A p \in assigned :
        /\ NextOffset(p) >= debt[p]
        /\ record = p => position[p] > debt[p]

(* The stale check does not run when the broker has been out of reach for   *)
(* longer than MaxAge, however long a transaction or a check took.          *)
DecisionsAreFresh == Open => outage <= MaxAge

(* An offset is committed only when every record before it is processed in  *)
(* the database or was passed over by the reset policy (README: the state   *)
(* and the queue are committed before the offset).                          *)
CommitFollowsDatabase ==
    \A p \in Partition : committed[p] # None =>
        \A o \in 0 .. MaxRecords : o < committed[p] => o \in handled[p]

(* The next offset of a partition to be saved. *)
NextToApply(p) ==
    IF record = p /\ pc = "process" THEN position[p] - 1 ELSE NextOffset(p)

(* A redelivered record puts device_states back to an older heartbeat, for  *)
(* save does not compare offsets.  As long as the log holds the records it  *)
(* had saved since, they are delivered again, from the one after: no state  *)
(* stays rolled back.                                                       *)
RollbackIsRedelivered ==
    \A p \in Partition :
        applied[p] < newest[p] /\ low[p] <= applied[p] => NextToApply(p) <= applied[p]

(* Between two interruptions a partition may leave the targets but none is  *)
(* added, and none is moved: what a check took the first time stays what    *)
(* has to be reached (README: targets do not grow).                         *)
TargetsDoNotGrow ==
    [][~Interrupted /\ ~Interrupted' =>
         /\ targets # None /\ targets' # None
         /\ DOMAIN targets' \subseteq DOMAIN targets
         /\ \A p \in DOMAIN targets' : targets'[p] = targets[p]]_vars

(* The gate waits only for what can still come: a partition behind its      *)
(* target is assigned and the log holds a record the client will deliver of *)
(* it.  The exception is an offset that retention has cut off, which the    *)
(* run gate_stuck shows.                                                    *)
ShutForAReason ==
    targets # None =>
        \A p \in Behind(targets) :
            low[p] <= EffectiveOffset(p) => p \in assigned /\ NextOffset(p) < high[p]

(* The stale check gets its turn again and again once the faults stop: no   *)
(* backlog keeps the gate shut for ever.                                    *)
GateReopens == []<>(pc = "stale" /\ Open)

(* Every record is processed, or passed over by the reset policy. *)
EveryRecordHandled ==
    \A p \in Partition, o \in 0 .. MaxRecords - 1 : high[p] > o ~> o \in handled[p]
=============================================================================
