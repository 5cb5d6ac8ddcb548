---------------------------- MODULE ReviewContract ----------------------------
(***************************************************************************)
(* What the review of a Token promises its requester and its auditors,     *)
(* with no thread, revision or restart in sight: one decision, an          *)
(* onboarding that goes back to approved only when it made no job, at most *)
(* one job, a bounded number of messages, and one event of the ledger for  *)
(* every change of the row.                                                *)
(***************************************************************************)
EXTENDS Naturals

CONSTANTS
  MaxMails,   \* messages of one review
  MaxEvents   \* events of its ledger

VARIABLES
  status,     \* of the review
  mails,      \* messages sent
  jobs,       \* onboarding jobs created
  events      \* length of the ledger

Init == status = "none" /\ mails = 0 /\ jobs = 0 /\ events = 0

Logged == events < MaxEvents /\ events' = events + 1

Submit ==
  /\ status = "none"
  /\ status' = "pending_review"
  /\ events' = 1
  /\ UNCHANGED <<mails, jobs>>

Decide ==
  /\ status = "pending_review"
  /\ status' \in {"approved", "rejected"}
  /\ Logged
  /\ UNCHANGED <<mails, jobs>>

Start ==
  /\ status = "approved"
  /\ jobs = 0
  /\ status' = "onboarding_starting"
  /\ Logged
  /\ UNCHANGED <<mails, jobs>>

CreateJob ==
  /\ status = "onboarding_starting"
  /\ jobs = 0
  /\ jobs' = 1
  /\ UNCHANGED <<status, mails, events>>

Conclude ==
  /\ status = "onboarding_starting"
  /\ status' = IF jobs = 1 THEN "onboarding_queued" ELSE "approved"
  /\ Logged
  /\ UNCHANGED <<mails, jobs>>

\* The mail is claimed, given up, or its result is recorded.
NoteMail ==
  /\ status # "none"
  /\ Logged
  /\ UNCHANGED <<status, mails, jobs>>

Mail ==
  /\ status # "none"
  /\ mails < MaxMails
  /\ mails' = mails + 1
  /\ UNCHANGED <<status, jobs, events>>

Next == Submit \/ Decide \/ Start \/ CreateJob \/ Conclude \/ NoteMail \/ Mail

Spec == Init /\ [][Next]_<<status, mails, jobs, events>>
=============================================================================
