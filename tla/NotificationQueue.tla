-------------------------- MODULE NotificationQueue --------------------------
(***************************************************************************)
(* The notification_queue table of the PostgreSQL repository: its rows,    *)
(* the key under which an active row is unique, and what each statement of *)
(* src/heartbeat_mailer/postgres.py does to the table.  The table is a     *)
(* sequence: its identity column orders the rows and no row is removed, so *)
(* the index of a row is its id.                                           *)
(*                                                                         *)
(* The module has no state.  A statement is an operator from the table     *)
(* before it to the table after it.                                        *)
(***************************************************************************)
EXTENDS Naturals, Sequences, FiniteSets

CONSTANTS
    Device,        \* device ids, numbered in the order of ORDER BY device_id
    Signature,     \* the (status level, status code) pairs a heartbeat reports
    UpSignature,   \* those whose level is UP
    MaxAttempts    \* settings.mail_max_retry_attempts

ASSUME DeviceAssumption == Device \subseteq Nat /\ IsFiniteSet(Device)
ASSUME SignatureAssumption == UpSignature \subseteq Signature
ASSUME MaxAttemptsAssumption == MaxAttempts \in Nat \ {0}

Type == {"ALERT", "RECOVERY", "MISSING", "RECEIVING"}

Claimable == {"PENDING", "RETRY"}
Active == Claimable \cup {"SENDING"}
Terminal == {"SENT", "DEAD", "CANCELLED"}

(***************************************************************************)
(* A row.  due abstracts next_attempt_at: has that time come?  A new row   *)
(* is due as soon as the wall clock that stamped it goes on.  mails is not *)
(* a column: it counts how often the SMTP server accepted the mail of the  *)
(* row, and no guard reads it.                                             *)
(***************************************************************************)
Job == [device : Device, type : Type, signature : Signature,
        status : Active \cup Terminal, attempts : Nat, due : BOOLEAN, mails : Nat]

NewJob(d, type, sig) ==
    [device |-> d, type |-> type, signature |-> sig,
     status |-> "PENDING", attempts |-> 0, due |-> TRUE, mails |-> 0]

IsActive(job) == job.status \in Active

(***************************************************************************)
(* dedupe_key: the device, the type and, except for MISSING, the reported  *)
(* level and code.                                                         *)
(***************************************************************************)
SameKey(j, k) ==
    /\ j.device = k.device
    /\ j.type = k.type
    /\ j.type = "MISSING" \/ j.signature = k.signature

(* Slip: the index leaves out the rows a worker has claimed. *)
DuplicateUnclaimed(table, job) ==
    \E i \in DOMAIN table : table[i].status \in Claimable /\ SameKey(table[i], job)

(* The unique partial index holds an active row with the key of the job. *)
Duplicate(table, job) ==
    \E i \in DOMAIN table : IsActive(table[i]) /\ SameKey(table[i], job)

(* INSERT ... ON CONFLICT DO NOTHING, once no transaction in progress has  *)
(* updated a row with the key of the job.                                  *)
Inserted(table, job) == IF Duplicate(table, job) THEN table ELSE Append(table, job)

(* Slip: a failed row is not selected again. *)
DueUntried(table) == {i \in DOMAIN table : table[i].status = "PENDING" /\ table[i].due}

(* The rows claim_next may select, and the one ORDER BY id LIMIT 1 leaves  *)
(* when SKIP LOCKED passes over those another transaction has locked.      *)
DueIds(table) == {i \in DOMAIN table : table[i].status \in Claimable /\ table[i].due}

(* Slip: the ORDER BY is lost. *)
IsAnyDue(table, locked, i) == i \in DueIds(table) \ locked

IsOldestDue(table, locked, i) ==
    i \in DueIds(table) \ locked /\ \A j \in DueIds(table) \ locked : i <= j

ClaimedRow(table, i) == [table EXCEPT ![i].status = "SENDING"]

(* delivery_guard and mark_sent: WHERE id = i AND status = 'SENDING' *)
SettledRow(table, i, status) ==
    IF table[i].status = "SENDING" THEN [table EXCEPT ![i].status = status] ELSE table

FailedJob(job, dead) ==
    [job EXCEPT !.status = IF dead THEN "DEAD" ELSE "RETRY",
                !.attempts = @ + 1, !.due = FALSE]

(* Slip: the update names the row by its id alone. *)
FailedRowById(table, i, dead) == [table EXCEPT ![i] = FailedJob(@, dead)]

(* mark_failed: WHERE id = i AND status = 'SENDING' *)
FailedRow(table, i, dead) ==
    IF table[i].status = "SENDING"
    THEN [table EXCEPT ![i] = FailedJob(@, dead)] ELSE table

(* Slip: the update spares the rows a worker has claimed. *)
CancelledUnclaimed(table, d) ==
    [i \in DOMAIN table |->
        IF table[i].device = d /\ table[i].status \in Claimable
        THEN [table[i] EXCEPT !.status = "CANCELLED"] ELSE table[i]]

(* manage: WHERE device_id = d AND status IN ('PENDING','RETRY','SENDING') *)
CancelledFor(table, d) ==
    [i \in DOMAIN table |->
        IF table[i].device = d /\ IsActive(table[i])
        THEN [table[i] EXCEPT !.status = "CANCELLED"] ELSE table[i]]

(* Slip: recovery takes up every row that was not sent. *)
RecoveredUnsent(table) ==
    [i \in DOMAIN table |->
        IF table[i].status # "SENT"
        THEN [table[i] EXCEPT !.status = "RETRY", !.due = TRUE] ELSE table[i]]

(* Slip: recovery sets a status no other statement knows. *)
RecoveredMisspelt(table) ==
    [i \in DOMAIN table |->
        IF table[i].status = "SENDING"
        THEN [table[i] EXCEPT !.status = "RETRYING", !.due = TRUE] ELSE table[i]]

(* Slip: the process starts without recover_jobs. *)
NotRecovered(table) == table

(* recover_jobs: WHERE status = 'SENDING', due at once, no attempt counted *)
Recovered(table) ==
    [i \in DOMAIN table |->
        IF table[i].status = "SENDING"
        THEN [table[i] EXCEPT !.status = "RETRY", !.due = TRUE] ELSE table[i]]
=============================================================================
