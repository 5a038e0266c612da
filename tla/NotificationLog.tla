--------------------------- MODULE NotificationLog ---------------------------
(***************************************************************************)
(* What the notification queue promises to those who read the mails, with  *)
(* no transaction, lock, claim, retry or restart in it.                    *)
(*                                                                         *)
(* A notice is open from the moment it is queued until it has one of three *)
(* outcomes, and the outcome is for good.  One attempt to mail is under    *)
(* way at a time.  An attempt may fail, or have its mail accepted and not  *)
(* know it: a notice may be mailed more than once.  As long as the attempt *)
(* is covered by its database session, nobody withdraws its notice.        *)
(***************************************************************************)
EXTENDS Naturals, Sequences

CONSTANTS
    Notice,        \* what may be notified
    Same           \* the pairs of notices of which only one is to be open

VARIABLES
    log,           \* the notices in the order in which they were queued
    attempt,       \* index of the notice being mailed, 0 for none
    covered        \* is that notice protected from being withdrawn?

Entry == [notice : Notice, outcome : {"open", "sent", "dead", "cancelled"}, mails : Nat]

IsOpen(entry) == entry.outcome = "open"
Opens == {i \in DOMAIN log : IsOpen(log[i])}

Init == log = <<>> /\ attempt = 0 /\ covered = FALSE

(* One or more notices are queued, none of them like one that is open. *)
Notify ==
    /\ log' \in Seq(Entry) /\ Len(log) < Len(log')
    /\ \A i \in DOMAIN log : log'[i] = log[i]
    /\ \A i \in DOMAIN log' \ DOMAIN log :
          /\ IsOpen(log'[i]) /\ log'[i].mails = 0
          /\ \A j \in 1 .. i - 1 :
                IsOpen(log'[j]) => <<log'[i].notice, log'[j].notice>> \notin Same
    /\ UNCHANGED <<attempt, covered>>

StartAttempt(i) ==
    /\ attempt = 0 /\ i \in Opens
    /\ attempt' = i /\ covered' = TRUE
    /\ UNCHANGED log

EndAttempt == attempt' = 0 /\ covered' = FALSE

(* The SMTP server takes the mail, and the answer arrives or gets lost. *)
Accept ==
    /\ attempt # 0
    /\ log' = [log EXCEPT ![attempt].mails = @ + 1]
    /\ UNCHANGED <<attempt, covered>> \/ EndAttempt

(* The attempt ends, and the notice stays as it is, or is sent if its mail  *)
(* was accepted and the session lives.                                      *)
FinishAttempt ==
    /\ attempt # 0
    /\ EndAttempt
    /\ \/ UNCHANGED log
       \/ /\ covered /\ attempt \in Opens /\ log[attempt].mails >= 1
          /\ log' = [log EXCEPT ![attempt].outcome = "sent"]

LoseCover == covered /\ covered' = FALSE /\ UNCHANGED <<log, attempt>>

GiveUp(i) ==
    /\ attempt = 0 /\ i \in Opens
    /\ log' = [log EXCEPT ![i].outcome = "dead"]
    /\ UNCHANGED <<attempt, covered>>

Withdraw(S) ==
    /\ S # {} /\ (covered => attempt \notin S)
    /\ log' = [i \in DOMAIN log |->
                  IF i \in S THEN [log[i] EXCEPT !.outcome = "cancelled"] ELSE log[i]]
    /\ UNCHANGED <<attempt, covered>>

Next ==
    \/ Notify
    \/ \E i \in DOMAIN log : StartAttempt(i) \/ GiveUp(i)
    \/ Accept \/ FinishAttempt \/ LoseCover
    \/ \E S \in SUBSET Opens : Withdraw(S)

Spec == Init /\ [][Next]_<<log, attempt, covered>>
=============================================================================
