---------------------------- MODULE EquipmentCache ----------------------------
(***************************************************************************)
(* OracleEquipmentStatusCache: a thread copies the status of every device  *)
(* from MES (Oracle) into memory, the consumer thread asks the copy        *)
(* whether a mail about a device may be queued, and stop() ends it all.    *)
(*                                                                         *)
(* MES is external: its statuses change at any moment, an answer is the    *)
(* statuses of one moment, a connection may fail, and a connection attempt, *)
(* which has no timeout, may never return.                                 *)
(*                                                                         *)
(* Time is counted in ticks.  Between two ticks a thread finishes whatever *)
(* does not wait: only connecting, fetching, waiting and being scheduled   *)
(* in the middle of alert_decision take time.                              *)
(***************************************************************************)
EXTENDS Naturals

CONSTANTS
    Device,
    Code,          \* MAIN_STAT_CD, trimmed and in upper case
    AlertCodes,    \* settings.oracle_alert_status_codes
    None,          \* no usable row of a device, no verdict
    Seconds,       \* the finite values, in ticks, a setting is given
    NaN, Inf,      \* what float() also makes of an environment variable
    CallTime,      \* the round trips of a query, each within oracle_call_timeout_ms
    Lateness,      \* how much later than its timeout a wait may return
    JoinTime,      \* the timeout of stop()
    Horizon,       \* clocks stop counting here
    MaxFaults      \* bound on failed queries and hung connections

ASSUME CacheAssumption ==
    /\ AlertCodes \subseteq Code /\ None \notin Code
    /\ \A d \in Device : None # [device |-> d, reason |-> "alerts"]
    /\ Seconds \subseteq Nat /\ NaN \notin Nat /\ Inf \notin Nat
    /\ CallTime \in Nat /\ JoinTime \in Nat /\ Horizon \in Nat /\ MaxFaults \in Nat
    /\ Lateness \in Nat \ {0}
    /\ \A s \in Seconds : s + CallTime < Horizon /\ s + Lateness < Horizon

VARIABLES
    refresh,       \* settings.oracle_refresh_seconds
    maxAge,        \* settings.oracle_cache_max_age_seconds
    mes,           \* the status MES has of each device now
    since,         \* history: ticks since that status was one that alerts
    phase,         \* where the refreshing thread is
    timer,         \* ticks it has been there
    rows,          \* the answer fetched, not yet published
    statuses,      \* _statuses
    available,     \* _available
    age,           \* ticks since _last_success_at
    stopping,      \* _stop_event
    pc,            \* where the consumer thread is
    seen,          \* what alert_decision read under the lock
    verdict,       \* its last answer
    joining,       \* ticks stop() has been waiting
    faults         \* faults so far

settings == <<refresh, maxAge>>
world == <<mes, since>>
thread == <<phase, timer, rows>>
cache == <<statuses, available, age>>
caller == <<pc, seen, verdict, joining>>
vars == <<settings, world, thread, cache, stopping, caller, faults>>

Status == Code \cup {None}
Finite(s) == s \notin {NaN, Inf}

(* x < y of two floats: false when either is NaN. *)
Below(x, y) == x # NaN /\ x # Inf /\ y # NaN /\ (y = Inf \/ x < y)

(* What from_env does not refuse. *)
Accepted(refreshSeconds, ageSeconds) ==
    /\ ~(refreshSeconds = 0)
    /\ ~Below(ageSeconds, refreshSeconds)

NoRows == [d \in Device |-> None]
NoSight == [device |-> None, available |-> FALSE, age |-> 0, code |-> None]

Init ==
    /\ refresh \in Seconds \cup {NaN, Inf} /\ maxAge \in Seconds \cup {NaN, Inf}
    /\ Accepted(refresh, maxAge)
    /\ mes \in [Device -> Status]
    /\ since = [d \in Device |-> IF mes[d] \in AlertCodes THEN 0 ELSE Horizon]
    /\ phase = "loop" /\ timer = 0
    /\ rows = NoRows /\ statuses = NoRows
    /\ available = FALSE /\ age \in {0, Horizon}
    /\ stopping = FALSE /\ faults = 0
    /\ pc = "idle" /\ seen = NoSight /\ verdict = None /\ joining = 0

(***************************************************************************)
(* MES and the clock                                                       *)
(***************************************************************************)
Later(n) == IF n < Horizon THEN n + 1 ELSE Horizon

ChangeStatus(d, s) ==
    /\ mes' = [mes EXCEPT ![d] = s]
    /\ since' = [since EXCEPT ![d] = IF s \in AlertCodes THEN 0 ELSE @]
    /\ UNCHANGED <<settings, thread, cache, stopping, caller, faults>>

(* Does the thread spend time where it is? *)
MayTakeTime ==
    \/ phase \in {"connect", "hung", "ended", "died"}
    \/ (phase = "fetch" /\ timer < CallTime)
    \/ (phase = "wait" /\ Finite(refresh) /\ timer < refresh + Lateness /\ ~stopping)

Tick ==
    /\ MayTakeTime
    /\ pc = "join" => joining < JoinTime
    /\ timer' = IF phase \in {"fetch", "wait"} THEN Later(timer) ELSE timer
    /\ since' = [d \in Device |-> IF mes[d] \in AlertCodes THEN 0 ELSE Later(since[d])]
    /\ age' = Later(age)
    /\ seen' = IF pc = "asked" THEN [seen EXCEPT !.age = Later(@)] ELSE seen
    /\ joining' = IF pc = "join" THEN joining + 1 ELSE joining
    /\ UNCHANGED <<settings, mes, phase, rows, statuses, available, stopping, pc, verdict, faults>>

(***************************************************************************)
(* The refreshing thread                                                   *)
(***************************************************************************)
Refreshing == UNCHANGED <<settings, world, stopping, caller>>
Fault == faults < MaxFaults /\ faults' = faults + 1

EnterQuery ==
    /\ phase = "loop"
    /\ phase' = IF stopping THEN "ended" ELSE "connect"
    /\ Refreshing /\ UNCHANGED <<timer, rows, cache, faults>>

(* The connection is made and MES answers with its statuses of this moment. *)
Execute ==
    /\ phase = "connect"
    /\ phase' = "fetch" /\ timer' = 0 /\ rows' = mes
    /\ Refreshing /\ UNCHANGED <<cache, faults>>

Hang ==
    /\ phase = "connect" /\ Fault
    /\ phase' = "hung"
    /\ Refreshing /\ UNCHANGED <<timer, rows, cache>>

(* Slip: availability is forgotten instead of denied. *)
QueryFailsUnset ==
    /\ phase \in {"connect", "fetch"} /\ Fault
    /\ available' = None
    /\ phase' = "wait" /\ timer' = 0 /\ rows' = NoRows
    /\ Refreshing /\ UNCHANGED <<statuses, age>>

(* Slip: the copy made before stays in use. *)
QueryFailsQuietly ==
    /\ phase \in {"connect", "fetch"} /\ Fault
    /\ phase' = "wait" /\ timer' = 0 /\ rows' = NoRows
    /\ Refreshing /\ UNCHANGED cache

(* Connecting or querying raised, or the call timed out. *)
QueryFails ==
    /\ phase \in {"connect", "fetch"} /\ Fault
    /\ available' = FALSE
    /\ phase' = "wait" /\ timer' = 0 /\ rows' = NoRows
    /\ Refreshing /\ UNCHANGED <<statuses, age>>

(* Slip: the copy keeps the time of the one before it. *)
PublishWithoutTime ==
    /\ phase = "fetch"
    /\ statuses' = rows /\ available' = TRUE /\ UNCHANGED age
    /\ phase' = "wait" /\ timer' = 0 /\ rows' = NoRows
    /\ Refreshing /\ UNCHANGED faults

Publish ==
    /\ phase = "fetch"
    /\ statuses' = rows /\ available' = TRUE /\ age' = 0
    /\ phase' = "wait" /\ timer' = 0 /\ rows' = NoRows
    /\ Refreshing /\ UNCHANGED faults

(* wait returns once its time has passed or the event is set, and at once  *)
(* when the time is not a number.  It begins after the copy was dated, so  *)
(* it ends later than its timeout after that.                              *)
EndWait ==
    /\ phase = "wait"
    /\ stopping \/ refresh = NaN \/ (Finite(refresh) /\ timer > refresh)
    /\ phase' = "loop" /\ timer' = 0
    /\ Refreshing /\ UNCHANGED <<rows, cache, faults>>

(* wait raises OverflowError when its time is infinite. *)
WaitRaises ==
    /\ phase = "wait" /\ ~stopping /\ refresh = Inf
    /\ phase' = "died"
    /\ Refreshing /\ UNCHANGED <<timer, rows, cache, faults>>

(***************************************************************************)
(* alert_decision: one look under the lock, then the age by a later clock  *)
(***************************************************************************)
Expired(n) == Below(maxAge, n)

Ask(d) ==
    /\ pc = "idle"
    /\ seen' = [device |-> d, available |-> available, age |-> age, code |-> statuses[d]]
    /\ pc' = "asked" /\ verdict' = None
    /\ UNCHANGED <<settings, world, thread, cache, stopping, joining, faults>>

Answer(reason) ==
    /\ verdict' = [device |-> seen.device, reason |-> reason]
    /\ pc' = "idle" /\ seen' = NoSight
    /\ UNCHANGED <<settings, world, thread, cache, stopping, joining, faults>>

Judge(trusted) ==
    \/ ~trusted /\ Answer("unknown")
    \/ trusted /\ seen.code = None /\ Answer("missing")
    \/ trusted /\ seen.code \in AlertCodes /\ Answer("alerts")
    \/ trusted /\ seen.code \in Code \ AlertCodes /\ Answer("silent")

(* Slip: the age of what the cache holds by now is taken for that of what  *)
(* was read from it.                                                       *)
DecideByNewAge == pc = "asked" /\ Judge(seen.available /\ ~Expired(age))

Decide == pc = "asked" /\ Judge(seen.available /\ ~Expired(seen.age))

(***************************************************************************)
(* stop, then the end of the process and with it of its daemon threads     *)
(***************************************************************************)
Stop ==
    /\ pc = "idle"
    /\ stopping' = TRUE /\ pc' = "join" /\ verdict' = None
    /\ UNCHANGED <<settings, world, thread, cache, seen, joining, faults>>

(* Slip: stop waits for the thread however long it takes. *)
JoinWithoutTimeout ==
    /\ pc = "join" /\ phase \in {"ended", "died"}
    /\ pc' = "exited"
    /\ UNCHANGED <<settings, world, thread, cache, stopping, seen, verdict, joining, faults>>

Joined ==
    /\ pc = "join"
    /\ phase \in {"ended", "died"} \/ joining = JoinTime
    /\ pc' = "exited"
    /\ UNCHANGED <<settings, world, thread, cache, stopping, seen, verdict, joining, faults>>

ThreadStep ==
    EnterQuery \/ Execute \/ Hang \/ QueryFails \/ Publish \/ EndWait \/ WaitRaises

CallerStep == (\E d \in Device : Ask(d)) \/ Decide \/ Stop \/ Joined

Next ==
    /\ pc # "exited"
    /\ \/ \E d \in Device, s \in Status : ChangeStatus(d, s)
       \/ Tick
       \/ ThreadStep
       \/ CallerStep

(* The threads are scheduled and time passes; that anyone asks or stops is *)
(* not assumed.                                                            *)
Fairness ==
    /\ WF_vars(Tick)
    /\ WF_vars(EnterQuery) /\ WF_vars(Execute) /\ WF_vars(Publish)
    /\ WF_vars(EndWait) /\ WF_vars(WaitRaises)
    /\ WF_vars(Decide) /\ WF_vars(Joined)

Spec == Init /\ [][Next]_vars /\ Fairness

-----------------------------------------------------------------------------
Sight == [device : Device, available : BOOLEAN, age : 0 .. Horizon, code : Status]
Verdict == [device : Device, reason : {"unknown", "missing", "alerts", "silent"}]

TypeOK ==
    /\ refresh \in Seconds \cup {NaN, Inf} /\ maxAge \in Seconds \cup {NaN, Inf}
    /\ mes \in [Device -> Status] /\ since \in [Device -> 0 .. Horizon]
    /\ phase \in {"loop", "connect", "hung", "fetch", "wait", "ended", "died"}
    /\ timer \in 0 .. Horizon
    /\ rows \in [Device -> Status] /\ statuses \in [Device -> Status]
    /\ available \in BOOLEAN /\ age \in 0 .. Horizon /\ stopping \in BOOLEAN
    /\ pc \in {"idle", "asked", "join", "exited"}
    /\ IF pc = "asked" THEN seen \in Sight ELSE seen = NoSight
    /\ verdict \in Verdict \cup {None}
    /\ joining \in 0 .. JoinTime /\ faults \in 0 .. MaxFaults

(***************************************************************************)
(* A mail is admitted only for a device that MES had in one of the alert   *)
(* statuses at most the cache limit and one call ago, whatever the thread  *)
(* published, failed at or hung on between the look and the clock.         *)
(***************************************************************************)
RecentlyAlerting(d) == since[d] <= maxAge + CallTime

AdmissionsAreRecent ==
    [][\A d \in Device :
          verdict # verdict' /\ verdict' = [device |-> d, reason |-> "alerts"] /\ Finite(maxAge)
            => RecentlyAlerting(d)]_vars

(***************************************************************************)
(* With a limit that leaves room for a wait and its lateness, a copy does  *)
(* not expire while the thread waits for its next turn, only during a      *)
(* query or when the thread hangs or died: the last query replaced it or   *)
(* denied it.  from_env accepts a limit that is equal to the wait, which   *)
(* leaves no room: then every copy has expired when the wait ends.         *)
(***************************************************************************)
Usable == available /\ ~Expired(age)
LeavesRoom == Finite(refresh) => ~Below(maxAge, refresh + Lateness)
FreshWhileWaiting == phase \in {"wait", "loop"} /\ LeavesRoom /\ available => Usable

(***************************************************************************)
(* Whatever failed before, as long as queries are answered again the copy  *)
(* becomes usable again, until stop is called, a connection attempt never  *)
(* returns, or the wait is infinite.                                       *)
(***************************************************************************)
Recovers == []<>(Usable \/ stopping \/ phase = "hung" \/ refresh = Inf)

(* stop() returns, also while a connection attempt hangs. *)
StopReturns == pc = "join" ~> pc = "exited"
=============================================================================
