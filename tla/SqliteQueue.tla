---------------------------- MODULE SqliteQueue ----------------------------
(***************************************************************************)
(* SQLiteNotificationQueueRepository: the queue that the tests of the SMTP *)
(* worker run on and that older deployments used.  Its table is a set of   *)
(* rows with a dedupe_key column, and a statement is an operator from rows *)
(* to rows.  Agrees says that it does to the same table what the statement *)
(* of the PostgreSQL repository does (NotificationQueue), so that what is  *)
(* tested on one holds of the other.                                       *)
(*                                                                         *)
(* The repository has no devices table, no guard and no cancellation; its  *)
(* statements are compared, not its transactions, of which each commits    *)
(* one statement.                                                          *)
(***************************************************************************)
EXTENDS NotificationQueue

(* _dedupe_key *)
Key(j) == IF j.type = "MISSING" THEN <<j.device, j.type>> ELSE <<j.device, j.type, j.signature>>

Row(i, j) == [id |-> i, key |-> Key(j), status |-> j.status,
              attempts |-> j.attempts, due |-> j.due]
Rows(table) == {Row(i, table[i]) : i \in DOMAIN table}

(* UPDATE notification_queue SET ... WHERE ... *)
Update(rows, Set(_), Where(_)) == {IF Where(r) THEN Set(r) ELSE r : r \in rows}

(* INSERT OR IGNORE, against the unique index of the active rows.  No row   *)
(* is ever deleted, so AUTOINCREMENT counts them.                          *)
SqliteEnqueue(rows, job) ==
    IF \E r \in rows : r.status \in Active /\ r.key = Key(job)
    THEN rows
    ELSE rows \cup {Row(Cardinality(rows) + 1, job)}

SqliteClaimNext(rows) ==
    LET due == {r \in rows : r.status \in Claimable /\ r.due}
        oldest(r) == r \in due /\ \A q \in due : r.id <= q.id
    IN Update(rows, LAMBDA r : [r EXCEPT !.status = "SENDING"], oldest)

SqliteMarkSent(rows, id) ==
    Update(rows, LAMBDA r : [r EXCEPT !.status = "SENT"],
                 LAMBDA r : r.id = id /\ r.status = "SENDING")

(* Slip: the WHERE clause names the row by its id alone. *)
SqliteMarkFailedById(rows, id, dead) ==
    Update(rows, LAMBDA r : [r EXCEPT !.status = IF dead THEN "DEAD" ELSE "RETRY",
                                      !.attempts = @ + 1, !.due = FALSE],
                 LAMBDA r : r.id = id)

SqliteMarkFailed(rows, id, dead) ==
    Update(rows, LAMBDA r : [r EXCEPT !.status = IF dead THEN "DEAD" ELSE "RETRY",
                                      !.attempts = @ + 1, !.due = FALSE],
                 LAMBDA r : r.id = id /\ r.status = "SENDING")

SqliteRecover(rows) ==
    Update(rows, LAMBDA r : [r EXCEPT !.status = "RETRY", !.due = TRUE],
                 LAMBDA r : r.status = "SENDING")

(* On a table as the PostgreSQL repository leaves it, every statement of    *)
(* the SQLite repository has the effect of its counterpart: the same mails  *)
(* are duplicates, the same row is claimed, and the same rows are settled,  *)
(* failed and recovered.                                                    *)
Agrees(table) ==
    /\ \A d \in Device, t \in Type, s \in Signature :
          SqliteEnqueue(Rows(table), NewJob(d, t, s)) = Rows(Inserted(table, NewJob(d, t, s)))
    /\ DueIds(table) = {} => SqliteClaimNext(Rows(table)) = Rows(table)
    /\ \A i \in DOMAIN table :
          /\ IsOldestDue(table, {}, i) => SqliteClaimNext(Rows(table)) = Rows(ClaimedRow(table, i))
          /\ SqliteMarkSent(Rows(table), i) = Rows(SettledRow(table, i, "SENT"))
          /\ \A dead \in BOOLEAN :
                SqliteMarkFailed(Rows(table), i, dead) = Rows(FailedRow(table, i, dead))
    /\ SqliteRecover(Rows(table)) = Rows(Recovered(table))
=============================================================================
