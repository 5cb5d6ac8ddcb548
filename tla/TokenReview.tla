----------------------------- MODULE TokenReview -----------------------------
(***************************************************************************)
(* dashboard/token_reviews.py and the review methods of AdminService in    *)
(* dashboard/admin.py: the review of one Token contract.  Request threads  *)
(* submit it, mail the reviewer, retry the mail, decide and start the      *)
(* onboarding.  Between its read or reservation and its next write a       *)
(* thread holds a revision; every committed write makes the revisions held *)
(* by other threads stale, so "current" says all there is to a revision.   *)
(***************************************************************************)
EXTENDS Naturals

CONSTANTS
  Threads,       \* request threads of the server
  MaxAttempts,   \* mail attempts of one review
  MaxAudit       \* audit events of one review

ASSUME ReviewOK ==
  /\ MaxAttempts \in Nat
  /\ MaxAudit \in Nat \ {0}

Statuses == {"none", "pending_review", "approved", "rejected",
             "onboarding_starting", "onboarding_queued"}
Notices  == {"pending", "disabled", "unconfigured", "sending", "sent", "failed"}
Steps    == {"idle", "claim", "send", "record", "decide", "start", "create", "finish"}
Effects  == {"none", "sent", "failed", "job", "no job"}

Unavailable == {"disabled", "unconfigured"}
Claimable   == {"pending", "failed"} \cup Unavailable
Retryable   == {"failed"} \cup Unavailable

VARIABLES
  status,    \* of the review
  notice,    \* state of the mail to the reviewer
  attempts,  \* mail attempts reserved so far
  audit,     \* length of the audit ledger
  step,      \* where each thread is
  current,   \* the threads that hold the current revision
  reserved,  \* the notice the thread's effect was reserved under
  effect,    \* what the thread's effect came to
  tries,     \* writes its effect has lost to other threads
  mails,     \* messages handed to the mailer
  jobs,      \* onboarding jobs created for the review
  crashed,   \* has the server died?
  unwritten  \* has a database error kept the result of a start from the review?

row  == <<status, notice, attempts, audit>>
vars == <<row, step, current, reserved, effect, tries, mails, jobs, crashed, unwritten>>

Init ==
  /\ status = "none"
  /\ notice = "pending"
  /\ attempts = 0
  /\ audit = 0
  /\ step = [t \in Threads |-> "idle"]
  /\ current = {}
  /\ reserved = [t \in Threads |-> "pending"]
  /\ effect = [t \in Threads |-> "none"]
  /\ tries = [t \in Threads |-> 0]
  /\ mails = 0
  /\ jobs = 0
  /\ crashed = FALSE
  /\ unwritten = FALSE

Goto(t, s) == step' = [step EXCEPT ![t] = s]

-----------------------------------------------------------------------------
(* The store: every write compares the revision, appends an audit event    *)
(* and is rolled back when the ledger is full.                             *)

\* Faulty variant: an event beyond the limit is dropped, the write is kept.
WriteBeyondLimit(t) ==
  /\ t \in current
  /\ audit' = audit + 1
  /\ current' = {t}

Write(t) ==
  /\ t \in current
  /\ audit < MaxAudit
  /\ audit' = audit + 1
  /\ current' = {t}

\* Faulty variant: a start may be reserved again.
MayStartAgain == status \in {"approved", "onboarding_starting"}

MayStart == status = "approved"

-----------------------------------------------------------------------------
(* Requests.                                                               *)

\* create_or_get finds no row of this contract; a duplicate changes nothing.
Submit(t) ==
  /\ step[t] = "idle"
  /\ status = "none"
  /\ status' = "pending_review"
  /\ audit' = 1
  /\ current' = {t}
  /\ reserved' = [reserved EXCEPT ![t] = "pending"]
  /\ Goto(t, "claim")
  /\ UNCHANGED <<notice, attempts, effect, tries, mails, jobs, crashed, unwritten>>

\* the row is read; a revision that is not the current one is refused at once
Read(t) ==
  /\ step[t] = "idle"
  /\ status # "none"
  /\ current' = current \cup {t}

Retry(t) ==
  /\ Read(t)
  /\ notice \in Retryable
  /\ attempts < MaxAttempts
  /\ reserved' = [reserved EXCEPT ![t] = notice]
  /\ Goto(t, "claim")
  /\ UNCHANGED <<row, effect, tries, mails, jobs, crashed, unwritten>>

OpenDecision(t) ==
  /\ Read(t)
  /\ status = "pending_review"
  /\ Goto(t, "decide")
  /\ UNCHANGED <<row, reserved, effect, tries, mails, jobs, crashed, unwritten>>

OpenStart(t) ==
  /\ Read(t)
  /\ Goto(t, "start")
  /\ UNCHANGED <<row, reserved, effect, tries, mails, jobs, crashed, unwritten>>

Decide(t) ==
  /\ step[t] = "decide"
  /\ status = "pending_review"
  /\ Write(t)
  /\ status' \in {"approved", "rejected"}
  /\ Goto(t, "idle")
  /\ UNCHANGED <<notice, attempts, reserved, effect, tries, mails, jobs, crashed, unwritten>>

\* Mail is switched off or not configured: recorded without an attempt.
MailUnavailable(t) ==
  /\ step[t] = "claim"
  /\ notice \in Claimable \cup {"sending"}
  /\ Write(t)
  /\ notice' \in Unavailable
  /\ Goto(t, "idle")
  /\ tries' = [tries EXCEPT ![t] = 0]
  /\ UNCHANGED <<status, attempts, reserved, effect, mails, jobs, crashed, unwritten>>

\* Faulty variant: the claim relies on the row as the request read it.
ClaimAsRead(t) ==
  /\ step[t] = "claim"
  /\ audit < MaxAudit
  /\ audit' = audit + 1
  /\ notice' = "sending"
  /\ attempts' = attempts + 1
  /\ current' = {t}
  /\ reserved' = [reserved EXCEPT ![t] = "sending"]
  /\ Goto(t, "send")
  /\ tries' = [tries EXCEPT ![t] = 0]
  /\ UNCHANGED <<status, effect, mails, jobs, crashed, unwritten>>

\* One attempt is reserved before the mailer has any side effect.
Claim(t) ==
  /\ step[t] = "claim"
  /\ notice \in Claimable
  /\ attempts < MaxAttempts
  /\ Write(t)
  /\ notice' = "sending"
  /\ attempts' = attempts + 1
  /\ reserved' = [reserved EXCEPT ![t] = "sending"]
  /\ Goto(t, "send")
  /\ tries' = [tries EXCEPT ![t] = 0]
  /\ UNCHANGED <<status, effect, mails, jobs, crashed, unwritten>>

Send(t) ==
  /\ step[t] = "send"
  /\ mails' = mails + 1
  /\ \E e \in {"sent", "failed"} : effect' = [effect EXCEPT ![t] = e]
  /\ Goto(t, "record")
  /\ UNCHANGED <<row, current, reserved, tries, jobs, crashed, unwritten>>

EffectDone(t) ==
  /\ effect' = [effect EXCEPT ![t] = "none"]
  /\ tries' = [tries EXCEPT ![t] = 0]
  /\ Goto(t, "idle")

Record(t) ==
  /\ step[t] = "record"
  /\ notice = "sending"
  /\ Write(t)
  /\ notice' = effect[t]
  /\ EffectDone(t)
  /\ UNCHANGED <<status, attempts, reserved, mails, jobs, crashed, unwritten>>

Reserve(t) ==
  /\ step[t] = "start"
  /\ MayStart
  /\ Write(t)
  /\ status' = "onboarding_starting"
  /\ Goto(t, "create")
  /\ UNCHANGED <<notice, attempts, reserved, effect, tries, mails, jobs, crashed, unwritten>>

\* The identity has drifted, another job is active, or the worker does not start;
\* or else the job is created.
CreateJob(t) ==
  /\ step[t] = "create"
  /\ \/ jobs' = jobs + 1 /\ effect' = [effect EXCEPT ![t] = "job"]
     \/ UNCHANGED jobs   /\ effect' = [effect EXCEPT ![t] = "no job"]
  /\ Goto(t, "finish")
  /\ UNCHANGED <<row, current, reserved, tries, mails, crashed, unwritten>>

\* Faulty variant: the review goes back to "approved" although it has a job.
FinishApproved(t) ==
  /\ step[t] = "finish"
  /\ status = "onboarding_starting"
  /\ Write(t)
  /\ status' = "approved"
  /\ EffectDone(t)
  /\ UNCHANGED <<notice, attempts, reserved, mails, jobs, crashed, unwritten>>

Finish(t) ==
  /\ step[t] = "finish"
  /\ status = "onboarding_starting"
  /\ Write(t)
  /\ status' = IF effect[t] = "job" THEN "onboarding_queued" ELSE "approved"
  /\ EffectDone(t)
  /\ UNCHANGED <<notice, attempts, reserved, mails, jobs, crashed, unwritten>>

-----------------------------------------------------------------------------
(* Lost writes.                                                            *)

\* does this write go through _complete_token_review_effect?
Insists(t) == \/ step[t] \in {"record", "finish"}
              \/ step[t] = "claim" /\ reserved[t] = "pending"

\* is the field of the effect as it was when the effect was reserved?
Unmoved(t) == IF step[t] = "finish" THEN status = "onboarding_starting"
                                    ELSE notice = reserved[t]

\* Faulty variant: a write lost to another thread is not tried again.
TryOnce(t) ==
  /\ Insists(t)
  /\ t \notin current
  /\ EffectDone(t)
  /\ UNCHANGED <<row, current, reserved, mails, jobs, crashed, unwritten>>

\* Faulty variant: the write is repeated without reading the row again.
TryBlindly(t) ==
  /\ Insists(t)
  /\ t \notin current
  /\ tries[t] < MaxAudit
  /\ tries' = [tries EXCEPT ![t] = @ + 1]
  /\ UNCHANGED <<row, step, current, reserved, effect, mails, jobs, crashed, unwritten>>

\* The row is read again and the write repeated, without repeating the effect.
TryAgain(t) ==
  /\ Insists(t)
  /\ t \notin current
  /\ Unmoved(t)
  /\ tries[t] < MaxAudit
  /\ tries' = [tries EXCEPT ![t] = @ + 1]
  /\ current' = current \cup {t}
  /\ UNCHANGED <<row, step, reserved, effect, mails, jobs, crashed, unwritten>>

\* The error goes to the caller: a stale revision that is not tried again, a status
\* that does not allow the write, or a full ledger.
Refused(t) ==
  /\ step[t] \in {"claim", "decide", "start", "record", "finish"}
  /\ \/ t \notin current /\ (~Insists(t) \/ ~Unmoved(t) \/ tries[t] = MaxAudit)
     \/ step[t] = "start" /\ ~MayStart
     \/ t \in current /\ audit = MaxAudit
  /\ EffectDone(t)
  /\ UNCHANGED <<row, current, reserved, mails, jobs, crashed, unwritten>>

\* A read or a write of the thread meets an error of SQLite.  The transaction is gone,
\* and the error goes to the caller: only a stale revision is tried again.
DatabaseFails(t) ==
  /\ step[t] \in {"claim", "decide", "start", "record", "finish"}
  /\ EffectDone(t)
  /\ unwritten' = (unwritten \/ step[t] = "finish")
  /\ UNCHANGED <<row, current, reserved, mails, jobs, crashed>>

\* The server dies and is started again.
Crash ==
  /\ step' = [t \in Threads |-> "idle"]
  /\ effect' = [t \in Threads |-> "none"]
  /\ tries' = [t \in Threads |-> 0]
  /\ crashed' = TRUE
  /\ UNCHANGED <<row, current, reserved, mails, jobs, unwritten>>

ThreadStep(t) ==
  \/ Submit(t) \/ Retry(t)  \/ OpenDecision(t) \/ OpenStart(t)
  \/ Decide(t) \/ MailUnavailable(t) \/ Claim(t) \/ Send(t) \/ Record(t)
  \/ Reserve(t) \/ CreateJob(t) \/ Finish(t) \/ TryAgain(t) \/ Refused(t)
  \/ DatabaseFails(t)

Next == (\E t \in Threads : ThreadStep(t)) \/ Crash

Spec == Init /\ [][Next]_vars

-----------------------------------------------------------------------------

\* Every variable has its type, and the ledger respects its bound.
TypeOK ==
  /\ status \in Statuses
  /\ notice \in Notices
  /\ attempts \in 0..MaxAttempts
  /\ audit \in 0..MaxAudit
  /\ step \in [Threads -> Steps]
  /\ current \subseteq Threads
  /\ reserved \in [Threads -> Notices]
  /\ effect \in [Threads -> Effects]
  /\ tries \in [Threads -> 0..MaxAudit]
  /\ mails \in Nat
  /\ jobs \in Nat
  /\ crashed \in BOOLEAN
  /\ unwritten \in BOOLEAN

\* between the reservation of an effect and its result
Mailing(t)  == step[t] \in {"send", "record"}
Starting(t) == step[t] \in {"create", "finish"}

\* However many administrators press Start, retry after a failure, or restart the
\* server, the review gets one onboarding job, and only after it was approved.
OneJob ==
  /\ jobs <= 1
  /\ jobs = 1 => status \in {"onboarding_starting", "onboarding_queued"}

\* At most three messages leave the server for a review ("a maximum of three
\* attempts", token-review-gate-design.md), whatever threads interleave or die.
MailBudget == mails <= MaxAttempts

\* A thread between its reservation and its result is the only one, and nobody
\* changes the reserved field under it ("Initial delivery owns the pending outbox
\* entry", admin.py:614).
OwnsEffect ==
  /\ \A t \in Threads : (step[t] = "send" \/ Insists(t)) => Unmoved(t)
  /\ \A t \in Threads : step[t] = "create" => status = "onboarding_starting"
  /\ \A t, u \in Threads : Mailing(t) /\ Mailing(u) => t = u
  /\ \A t, u \in Threads : Starting(t) /\ Starting(u) => t = u

\* An effect never loses more writes than the ledger has events, so the loop of
\* _complete_token_review_effect is never used up (admin.py:643-645).
LoopSuffices == \A t \in Threads : tries[t] < MaxAudit

\* a created job whose request is over, with nothing to blame but the review itself
Concluded ==
  /\ jobs = 1
  /\ \A t \in Threads : step[t] # "finish"
  /\ ~crashed
  /\ ~unwritten

\* A created job is recorded on the review when its request is over, unless the
\* server died, the ledger is full, or SQLite failed when the result was written
\* (token_reviews.py:705-706; admin.py:649-651 tries only stale revisions again).
JobRecordedUnlessFull == Concluded /\ audit < MaxAudit => status = "onboarding_queued"

\* "The returned job id is recorded as onboarding_queued" (step 7 of the flow in
\* token-review-gate-design.md), unless the server died or SQLite failed in between.
JobRecorded == Concluded => status = "onboarding_queued"
=============================================================================
