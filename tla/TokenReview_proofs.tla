------------------------- MODULE TokenReview_proofs -------------------------
(***************************************************************************)
(* Proofs about one review, for any number of request threads and any      *)
(* bounds.  The inductive invariant says who owns which field of the row:  *)
(* a thread that holds the current revision knows the notice it read, the  *)
(* thread that reserved an effect is alone, and every write another thread *)
(* makes it lose is paid for by an event of the ledger.                    *)
(***************************************************************************)
EXTENDS TokenReview, TLAPS

\* The row of a request in flight exists.
RowExists ==
  /\ \A t \in Threads : step[t] # "idle" => status # "none"
  /\ status # "none" => audit >= 1
  /\ status = "none" => notice = "pending"

\* A thread about to claim the mail knows the notice, unless its revision is stale.
ClaimsKnow ==
  \A t \in Threads : step[t] = "claim" =>
    /\ reserved[t] \in Claimable
    /\ reserved[t] = "pending" => notice = "pending"
    /\ t \in current => notice = reserved[t]

\* Only the thread that created the review claims its pending mail.
PendingAlone ==
  \A t, u \in Threads :
    /\ step[t] = "claim" /\ reserved[t] = "pending"
    /\ step[u] = "claim" /\ reserved[u] = "pending"
    => t = u

\* One thread mails at a time, and the row says so.
MailsAlone ==
  /\ \A t \in Threads : Mailing(t) => reserved[t] = "sending" /\ notice = "sending"
  /\ \A t, u \in Threads : Mailing(t) /\ Mailing(u) => t = u
  /\ \A t \in Threads : step[t] = "record" => effect[t] \in {"sent", "failed"}

\* One thread starts the onboarding at a time, and the row says so.
StartsAlone ==
  /\ \A t \in Threads : Starting(t) => status = "onboarding_starting"
  /\ \A t, u \in Threads : Starting(t) /\ Starting(u) => t = u

Reservations == RowExists /\ ClaimsKnow /\ PendingAlone /\ MailsAlone /\ StartsAlone

\* Every message was paid for with an attempt.
MailsPaid ==
  /\ mails <= attempts
  /\ \A t \in Threads : step[t] = "send" => mails < attempts

\* No job before its thread has created it, one afterwards.
JobCount ==
  /\ OneJob
  /\ \A t \in Threads : step[t] = "create" => jobs = 0
  /\ \A t \in Threads : step[t] = "finish" /\ effect[t] # "job" => jobs = 0

\* between a reservation that is insisted on and its result
Effecting(t) == \/ step[t] \in {"send", "record", "create", "finish"}
                \/ step[t] = "claim" /\ reserved[t] = "pending"

\* Every lost write is paid for with an event of the ledger.
LedgerPays ==
  \A t \in Threads :
    /\ ~Effecting(t) => tries[t] = 0
    /\ Effecting(t) => tries[t] + (IF t \in current THEN 1 ELSE 2) <= audit

LEMMA Bounds == MaxAttempts \in Nat /\ MaxAudit \in Nat /\ MaxAudit > 0
BY ReviewOK DEF ReviewOK

\* What TypeOK says of the variables the reservations are about.
LEMMA Typing == TypeOK => /\ step \in [Threads -> Steps]
                          /\ reserved \in [Threads -> Notices]
                          /\ effect \in [Threads -> Effects]
                          /\ current \subseteq Threads
                          /\ notice \in Notices
BY DEF TypeOK

\* What it says of the counters.
LEMMA Counters == TypeOK => /\ tries \in [Threads -> Nat]
                            /\ attempts \in Nat
                            /\ audit \in Nat
                            /\ audit <= MaxAudit
                            /\ attempts <= MaxAttempts
                            /\ mails \in Nat
                            /\ jobs \in Nat
<1> SUFFICES ASSUME TypeOK PROVE /\ tries \in [Threads -> Nat]
                                 /\ attempts \in Nat /\ audit \in Nat
                                 /\ audit <= MaxAudit /\ attempts <= MaxAttempts
                                 /\ mails \in Nat /\ jobs \in Nat
  OBVIOUS
<1>1. tries \in [Threads -> Nat]
  BY Bounds DEF TypeOK
<1>2. attempts \in Nat /\ audit \in Nat /\ audit <= MaxAudit /\ attempts <= MaxAttempts
  BY Bounds DEF TypeOK
<1> QED BY <1>1, <1>2 DEF TypeOK

-----------------------------------------------------------------------------

LEMMA InitialState == Init => TypeOK /\ Reservations /\ MailsPaid /\ JobCount /\ LedgerPays
<1> SUFFICES ASSUME Init PROVE TypeOK /\ Reservations /\ MailsPaid /\ JobCount /\ LedgerPays
  OBVIOUS
<1>1. tries \in [Threads -> 0..MaxAudit] /\ attempts \in 0..MaxAttempts /\ audit \in 0..MaxAudit
  BY Bounds DEF Init
<1>2. TypeOK
  BY <1>1 DEF Init, TypeOK, Statuses, Notices, Steps, Effects
<1>3. Reservations
  BY DEF Init, Reservations, RowExists, ClaimsKnow, PendingAlone, MailsAlone, StartsAlone,
     Mailing, Starting
<1>4. MailsPaid /\ JobCount
  BY DEF Init, MailsPaid, JobCount, OneJob
<1>5. LedgerPays
  BY DEF Init, LedgerPays, Effecting
<1> QED BY <1>2, <1>3, <1>4, <1>5

LEMMA TypeStep ==
  TypeOK /\ Reservations /\ [Next]_vars => TypeOK'
<1> SUFFICES ASSUME TypeOK, Reservations, [Next]_vars PROVE TypeOK'
  OBVIOUS
<1> USE DEF row
<1>0. ASSUME NEW t \in Threads, ThreadStep(t) PROVE TypeOK'
  <2>1. CASE Submit(t)
    <3>1. status' \in Statuses
      BY <1>0, <2>1 DEF Submit, Statuses, TypeOK
    <3>2. audit' \in 0..MaxAudit
      BY <1>0, <2>1, Bounds DEF Submit, TypeOK
    <3>3. step' \in [Threads -> Steps]
      BY <1>0, <2>1 DEF Submit, Steps, Goto, TypeOK
    <3>4. current' \subseteq Threads
      BY <1>0, <2>1 DEF Submit, TypeOK
    <3>5. reserved' \in [Threads -> Notices]
      BY <1>0, <2>1 DEF Submit, Notices, TypeOK
    <3>6. UNCHANGED <<notice, attempts, effect, tries, mails, jobs, crashed, unwritten>>
      BY <2>1 DEF Submit, row
    <3> QED BY <3>1, <3>2, <3>3, <3>4, <3>5, <3>6 DEF TypeOK
  <2>2. CASE Retry(t)
    BY <1>0, <2>2 DEF Retry, Read, TypeOK, Goto, Steps, Notices, Retryable, Unavailable
  <2>3. CASE OpenDecision(t)
    BY <1>0, <2>3 DEF OpenDecision, Read, TypeOK, Goto, Steps, Notices, Retryable, Unavailable
  <2>4. CASE OpenStart(t)
    BY <1>0, <2>4 DEF OpenStart, Read, TypeOK, Goto, Steps, Notices, Retryable, Unavailable
  <2>5. CASE Decide(t)
    <3>1. status' \in Statuses
      BY <1>0, <2>5 DEF Decide, Write, Statuses, TypeOK
    <3>2. audit' \in 0..MaxAudit
      BY <1>0, <2>5, Bounds DEF Decide, Write, TypeOK
    <3>3. step' \in [Threads -> Steps]
      BY <1>0, <2>5 DEF Decide, Write, Steps, Goto, TypeOK
    <3>4. current' \subseteq Threads
      BY <1>0, <2>5 DEF Decide, Write, TypeOK
    <3>5. UNCHANGED <<notice, attempts, reserved, effect, tries, mails, jobs, crashed, unwritten>>
      BY <2>5 DEF Decide, Write, row
    <3> QED BY <3>1, <3>2, <3>3, <3>4, <3>5 DEF TypeOK
  <2>6. CASE MailUnavailable(t)
    <3>1. notice' \in Notices
      BY <1>0, <2>6 DEF MailUnavailable, Write, Notices, Unavailable, TypeOK
    <3>2. audit' \in 0..MaxAudit
      BY <1>0, <2>6, Bounds DEF MailUnavailable, Write, TypeOK
    <3>3. step' \in [Threads -> Steps]
      BY <1>0, <2>6 DEF MailUnavailable, Write, Steps, Goto, TypeOK
    <3>4. current' \subseteq Threads
      BY <1>0, <2>6 DEF MailUnavailable, Write, TypeOK
    <3>5. tries' \in [Threads -> 0..MaxAudit]
      BY <1>0, <2>6, Bounds DEF MailUnavailable, Write, TypeOK
    <3>6. UNCHANGED <<status, attempts, reserved, effect, mails, jobs, crashed, unwritten>>
      BY <2>6 DEF MailUnavailable, Write, row
    <3> QED BY <3>1, <3>2, <3>3, <3>4, <3>5, <3>6 DEF TypeOK
  <2>7. CASE Claim(t)
    <3>1. notice' \in Notices
      BY <1>0, <2>7 DEF Claim, Write, Notices, Unavailable, TypeOK
    <3>2. attempts' \in 0..MaxAttempts
      BY <1>0, <2>7, Bounds DEF Claim, Write, TypeOK
    <3>3. audit' \in 0..MaxAudit
      BY <1>0, <2>7, Bounds DEF Claim, Write, TypeOK
    <3>4. step' \in [Threads -> Steps]
      BY <1>0, <2>7 DEF Claim, Write, Steps, Goto, TypeOK
    <3>5. current' \subseteq Threads
      BY <1>0, <2>7 DEF Claim, Write, TypeOK
    <3>6. reserved' \in [Threads -> Notices]
      BY <1>0, <2>7 DEF Claim, Write, Notices, TypeOK
    <3>7. tries' \in [Threads -> 0..MaxAudit]
      BY <1>0, <2>7, Bounds DEF Claim, Write, TypeOK
    <3>8. UNCHANGED <<status, effect, mails, jobs, crashed, unwritten>>
      BY <2>7 DEF Claim, Write, row
    <3> QED BY <3>1, <3>2, <3>3, <3>4, <3>5, <3>6, <3>7, <3>8 DEF TypeOK
  <2>8. CASE Send(t)
    <3>1. step' \in [Threads -> Steps]
      BY <1>0, <2>8 DEF Send, Steps, Goto, TypeOK
    <3>2. effect' \in [Threads -> Effects]
      BY <1>0, <2>8 DEF Send, Effects, TypeOK
    <3>3. mails' \in Nat
      BY <1>0, <2>8, Counters DEF Send
    <3>4. UNCHANGED <<status, notice, attempts, audit, current, reserved, tries, jobs,
       crashed, unwritten>>
      BY <2>8 DEF Send, row
    <3> QED BY <3>1, <3>2, <3>3, <3>4 DEF TypeOK
  <2>9. CASE Record(t)
    <3>1. notice' \in Notices
      BY <1>0, <2>9 DEF Record, Reservations, MailsAlone, Notices
    <3>2. audit' \in 0..MaxAudit
      BY <1>0, <2>9, Bounds DEF Record, Write, EffectDone, TypeOK
    <3>3. step' \in [Threads -> Steps]
      BY <1>0, <2>9 DEF Record, Write, EffectDone, Steps, Goto, TypeOK
    <3>4. current' \subseteq Threads
      BY <1>0, <2>9 DEF Record, Write, EffectDone, TypeOK
    <3>5. effect' \in [Threads -> Effects]
      BY <1>0, <2>9 DEF Record, Write, EffectDone, Effects, TypeOK
    <3>6. tries' \in [Threads -> 0..MaxAudit]
      BY <1>0, <2>9, Bounds DEF Record, Write, EffectDone, TypeOK
    <3>7. UNCHANGED <<status, attempts, reserved, mails, jobs, crashed, unwritten>>
      BY <2>9 DEF Record, Write, EffectDone, row
    <3> QED BY <3>1, <3>2, <3>3, <3>4, <3>5, <3>6, <3>7 DEF TypeOK
  <2>10. CASE Reserve(t)
    <3>1. status' \in Statuses
      BY <1>0, <2>10 DEF Reserve, Write, MayStart, Statuses, TypeOK
    <3>2. audit' \in 0..MaxAudit
      BY <1>0, <2>10, Bounds DEF Reserve, Write, MayStart, TypeOK
    <3>3. step' \in [Threads -> Steps]
      BY <1>0, <2>10 DEF Reserve, Write, MayStart, Steps, Goto, TypeOK
    <3>4. current' \subseteq Threads
      BY <1>0, <2>10 DEF Reserve, Write, MayStart, TypeOK
    <3>5. UNCHANGED <<notice, attempts, reserved, effect, tries, mails, jobs, crashed, unwritten>>
      BY <2>10 DEF Reserve, Write, MayStart, row
    <3> QED BY <3>1, <3>2, <3>3, <3>4, <3>5 DEF TypeOK
  <2>11. CASE CreateJob(t)
    <3>1. step' \in [Threads -> Steps]
      BY <1>0, <2>11 DEF CreateJob, Steps, Goto, TypeOK
    <3>2. effect' \in [Threads -> Effects]
      BY <1>0, <2>11 DEF CreateJob, Effects, TypeOK
    <3>3. jobs' \in Nat
      <4>1. jobs \in Nat
        BY <1>0, Counters
      <4>2. jobs' = jobs + 1 \/ jobs' = jobs
        BY <2>11 DEF CreateJob
      <4> QED BY <4>1, <4>2
    <3>4. UNCHANGED <<status, notice, attempts, audit, current, reserved, tries, mails,
       crashed, unwritten>>
      BY <2>11 DEF CreateJob, row
    <3> QED BY <3>1, <3>2, <3>3, <3>4 DEF TypeOK
  <2>12. CASE Finish(t)
    <3>1. status' \in Statuses
      BY <1>0, <2>12 DEF Finish, Write, EffectDone, Statuses, TypeOK
    <3>2. audit' \in 0..MaxAudit
      BY <1>0, <2>12, Bounds DEF Finish, Write, EffectDone, TypeOK
    <3>3. step' \in [Threads -> Steps]
      BY <1>0, <2>12 DEF Finish, Write, EffectDone, Steps, Goto, TypeOK
    <3>4. current' \subseteq Threads
      BY <1>0, <2>12 DEF Finish, Write, EffectDone, TypeOK
    <3>5. effect' \in [Threads -> Effects]
      BY <1>0, <2>12 DEF Finish, Write, EffectDone, Effects, TypeOK
    <3>6. tries' \in [Threads -> 0..MaxAudit]
      BY <1>0, <2>12, Bounds DEF Finish, Write, EffectDone, TypeOK
    <3>7. UNCHANGED <<notice, attempts, reserved, mails, jobs, crashed, unwritten>>
      BY <2>12 DEF Finish, Write, EffectDone, row
    <3> QED BY <3>1, <3>2, <3>3, <3>4, <3>5, <3>6, <3>7 DEF TypeOK
  <2>13. CASE TryAgain(t)
    <3>1. current' \subseteq Threads
      BY <1>0, <2>13 DEF TryAgain, Insists, Unmoved, TypeOK
    <3>2. tries' \in [Threads -> 0..MaxAudit]
      BY <1>0, <2>13, Bounds DEF TryAgain, Insists, Unmoved, TypeOK
    <3>3. UNCHANGED <<status, notice, attempts, audit, step, reserved, effect, mails, jobs,
       crashed, unwritten>>
      BY <2>13 DEF TryAgain, Insists, Unmoved, row
    <3> QED BY <3>1, <3>2, <3>3 DEF TypeOK
  <2>14. CASE Refused(t)
    <3>1. step' \in [Threads -> Steps]
      BY <1>0, <2>14 DEF Refused, EffectDone, Steps, Goto, TypeOK
    <3>2. effect' \in [Threads -> Effects]
      BY <1>0, <2>14 DEF Refused, EffectDone, Effects, TypeOK
    <3>3. tries' \in [Threads -> 0..MaxAudit]
      BY <1>0, <2>14, Bounds DEF Refused, EffectDone, TypeOK
    <3>4. UNCHANGED <<status, notice, attempts, audit, current, reserved, mails, jobs,
       crashed, unwritten>>
      BY <2>14 DEF Refused, EffectDone, row
    <3> QED BY <3>1, <3>2, <3>3, <3>4 DEF TypeOK
  <2>15. CASE DatabaseFails(t)
    <3>1. step' \in [Threads -> Steps]
      BY <1>0, <2>15 DEF DatabaseFails, EffectDone, Steps, Goto, TypeOK
    <3>2. effect' \in [Threads -> Effects]
      BY <1>0, <2>15 DEF DatabaseFails, EffectDone, Effects, TypeOK
    <3>3. tries' \in [Threads -> 0..MaxAudit]
      BY <1>0, <2>15, Bounds DEF DatabaseFails, EffectDone, TypeOK
    <3>4. unwritten' \in BOOLEAN
      BY <2>15 DEF DatabaseFails, TypeOK
    <3>5. UNCHANGED <<status, notice, attempts, audit, current, reserved, mails, jobs, crashed>>
      BY <2>15 DEF DatabaseFails, row
    <3> QED BY <3>1, <3>2, <3>3, <3>4, <3>5 DEF TypeOK
  <2> QED
    BY <1>0, <2>1, <2>2, <2>3, <2>4, <2>5, <2>6, <2>7, <2>8, <2>9, <2>10, <2>11, <2>12, <2>13,
       <2>14, <2>15
       DEF ThreadStep
<1>1. CASE Crash
  <2>1. tries' \in [Threads -> 0..MaxAudit]
    BY <1>1, Bounds DEF Crash
  <2>2. step' \in [Threads -> Steps] /\ effect' \in [Threads -> Effects]
    BY <1>1 DEF Crash, Steps, Effects
  <2>3. crashed' \in BOOLEAN
    BY <1>1 DEF Crash
  <2>4. UNCHANGED <<status, notice, attempts, audit, current, reserved, mails, jobs, unwritten>>
    BY <1>1 DEF Crash, row
  <2> QED BY <2>1, <2>2, <2>3, <2>4 DEF TypeOK
<1>2. CASE UNCHANGED vars
  BY <1>2 DEF vars, TypeOK
<1> QED BY <1>0, <1>1, <1>2 DEF Next

LEMMA RowStep == TypeOK /\ RowExists /\ [Next]_vars => RowExists'
<1> SUFFICES ASSUME TypeOK, RowExists, [Next]_vars PROVE RowExists'
  OBVIOUS
<1> USE Typing, Counters DEF RowExists, Goto, row
<1>1. ASSUME NEW t \in Threads, ThreadStep(t) PROVE RowExists'
  <2>1. CASE Submit(t)
    BY <1>1, <2>1 DEF Submit
  <2>2. CASE Decide(t)
    BY <1>1, <2>2 DEF Decide, Write
  <2>3. CASE MailUnavailable(t)
    BY <1>1, <2>3 DEF MailUnavailable, Write
  <2>4. CASE Claim(t)
    BY <1>1, <2>4 DEF Claim, Write
  <2>5. CASE Record(t)
    BY <1>1, <2>5 DEF Record, Write, EffectDone
  <2>6. CASE Reserve(t)
    BY <1>1, <2>6 DEF Reserve, Write, MayStart
  <2>7. CASE Finish(t)
    BY <1>1, <2>7 DEF Finish, Write, EffectDone
  <2>8. CASE    Retry(t) \/ OpenDecision(t) \/ OpenStart(t) \/ Send(t) \/ CreateJob(t)
             \/ TryAgain(t) \/ Refused(t)
    <3>1. CASE Retry(t)
      BY <1>1, <3>1 DEF Retry, Read
    <3>2. CASE OpenDecision(t)
      BY <1>1, <3>2 DEF OpenDecision, Read
    <3>3. CASE OpenStart(t)
      BY <1>1, <3>3 DEF OpenStart, Read
    <3>4. CASE Send(t)
      BY <1>1, <3>4 DEF Send
    <3>5. CASE CreateJob(t)
      BY <1>1, <3>5 DEF CreateJob
    <3>6. CASE TryAgain(t)
      BY <1>1, <3>6 DEF TryAgain, Insists, Unmoved
    <3>7. CASE Refused(t)
      BY <1>1, <3>7 DEF Refused, EffectDone, Insists, Unmoved
    <3> QED BY <2>8, <3>1, <3>2, <3>3, <3>4, <3>5, <3>6, <3>7
  <2>9. CASE DatabaseFails(t)
    BY <1>1, <2>9 DEF DatabaseFails, EffectDone
  <2> QED BY <1>1, <2>1, <2>2, <2>3, <2>4, <2>5, <2>6, <2>7, <2>8, <2>9 DEF ThreadStep
<1>2. CASE Crash \/ UNCHANGED vars
  BY <1>2 DEF Crash, vars
<1> QED BY <1>1, <1>2 DEF Next

LEMMA ClaimStep == TypeOK /\ Reservations /\ [Next]_vars => ClaimsKnow'
<1> SUFFICES ASSUME TypeOK, Reservations, [Next]_vars PROVE ClaimsKnow'
  OBVIOUS
<1> USE Typing DEF Reservations, RowExists, ClaimsKnow, PendingAlone, MailsAlone, Mailing,
   Goto, row, Claimable, Retryable, Unavailable
<1>1. ASSUME NEW t \in Threads, ThreadStep(t) PROVE ClaimsKnow'
  <2>1. CASE Submit(t)
    BY <1>1, <2>1 DEF Submit
  <2>2. CASE Retry(t)
    BY <1>1, <2>2 DEF Retry, Read
  <2>3. CASE MailUnavailable(t)
    BY <1>1, <2>3 DEF MailUnavailable, Write
  <2>4. CASE Claim(t)
    BY <1>1, <2>4 DEF Claim, Write
  <2>5. CASE Record(t)
    BY <1>1, <2>5 DEF Record, Write, EffectDone
  <2>6. CASE Decide(t)
    BY <1>1, <2>6 DEF Decide, Write
  <2>7. CASE Reserve(t)
    BY <1>1, <2>7 DEF Reserve, Write, MayStart
  <2>8. CASE Finish(t)
    BY <1>1, <2>8 DEF Finish, Write, EffectDone
  <2>9. CASE    OpenDecision(t) \/ OpenStart(t) \/ Send(t) \/ CreateJob(t) \/ TryAgain(t)
             \/ Refused(t)
    <3>1. CASE OpenDecision(t)
      BY <1>1, <3>1 DEF OpenDecision, Read
    <3>2. CASE OpenStart(t)
      BY <1>1, <3>2 DEF OpenStart, Read
    <3>3. CASE Send(t)
      BY <1>1, <3>3 DEF Send
    <3>4. CASE CreateJob(t)
      BY <1>1, <3>4 DEF CreateJob
    <3>5. CASE TryAgain(t)
      BY <1>1, <3>5 DEF TryAgain, Insists, Unmoved
    <3>6. CASE Refused(t)
      BY <1>1, <3>6 DEF Refused, EffectDone, Insists, Unmoved
    <3> QED BY <2>9, <3>1, <3>2, <3>3, <3>4, <3>5, <3>6
  <2>10. CASE DatabaseFails(t)
    BY <1>1, <2>10 DEF DatabaseFails, EffectDone
  <2> QED BY <1>1, <2>1, <2>2, <2>3, <2>4, <2>5, <2>6, <2>7, <2>8, <2>9, <2>10 DEF ThreadStep
<1>2. CASE Crash \/ UNCHANGED vars
  BY <1>2 DEF Crash, vars
<1> QED BY <1>1, <1>2 DEF Next

LEMMA PendingStep == TypeOK /\ Reservations /\ [Next]_vars => PendingAlone'
<1> SUFFICES ASSUME TypeOK, Reservations, [Next]_vars PROVE PendingAlone'
  OBVIOUS
<1> USE Typing DEF Reservations, RowExists, PendingAlone, Goto, row, Retryable, Unavailable
<1>1. ASSUME NEW t \in Threads, ThreadStep(t) PROVE PendingAlone'
  <2>1. CASE Submit(t)
    BY <1>1, <2>1 DEF Submit
  <2>2. CASE Retry(t)
    BY <1>1, <2>2 DEF Retry, Read
  <2>3. CASE Claim(t)
    BY <1>1, <2>3 DEF Claim, Write
  <2>4. CASE    OpenDecision(t) \/ OpenStart(t) \/ Decide(t) \/ MailUnavailable(t) \/ Send(t)
             \/ Record(t) \/ Reserve(t) \/ CreateJob(t) \/ Finish(t) \/ TryAgain(t)
             \/ Refused(t)
    <3>1. CASE OpenDecision(t)
      BY <1>1, <3>1 DEF OpenDecision, Read
    <3>2. CASE OpenStart(t)
      BY <1>1, <3>2 DEF OpenStart, Read
    <3>3. CASE Decide(t)
      BY <1>1, <3>3 DEF Decide, Write
    <3>4. CASE MailUnavailable(t)
      BY <1>1, <3>4 DEF MailUnavailable, Write
    <3>5. CASE Send(t)
      BY <1>1, <3>5 DEF Send
    <3>6. CASE Record(t)
      BY <1>1, <3>6 DEF Record, Write, EffectDone
    <3>7. CASE Reserve(t)
      BY <1>1, <3>7 DEF Reserve, Write, MayStart
    <3>8. CASE CreateJob(t)
      BY <1>1, <3>8 DEF CreateJob
    <3>9. CASE Finish(t)
      BY <1>1, <3>9 DEF Finish, Write, EffectDone
    <3>10. CASE TryAgain(t)
      BY <1>1, <3>10 DEF TryAgain, Insists, Unmoved
    <3>11. CASE Refused(t)
      BY <1>1, <3>11 DEF Refused, EffectDone, Insists, Unmoved
    <3> QED BY <2>4, <3>1, <3>2, <3>3, <3>4, <3>5, <3>6, <3>7, <3>8, <3>9, <3>10, <3>11
  <2>5. CASE DatabaseFails(t)
    BY <1>1, <2>5 DEF DatabaseFails, EffectDone
  <2> QED BY <1>1, <2>1, <2>2, <2>3, <2>4, <2>5 DEF ThreadStep
<1>2. CASE Crash \/ UNCHANGED vars
  BY <1>2 DEF Crash, vars
<1> QED BY <1>1, <1>2 DEF Next

LEMMA MailingStep == TypeOK /\ Reservations /\ [Next]_vars => MailsAlone'
<1> SUFFICES ASSUME TypeOK, Reservations, [Next]_vars PROVE MailsAlone'
  OBVIOUS
<1> USE Typing DEF Reservations, RowExists, MailsAlone, Mailing, Goto, row, Claimable,
   Unavailable
<1>1. ASSUME NEW t \in Threads, ThreadStep(t) PROVE MailsAlone'
  <2>1. CASE Submit(t)
    BY <1>1, <2>1 DEF Submit
  <2>2. CASE MailUnavailable(t)
    BY <1>1, <2>2 DEF MailUnavailable, Write, ClaimsKnow
  <2>3. CASE Claim(t)
    BY <1>1, <2>3 DEF Claim, Write
  <2>4. CASE Send(t)
    BY <1>1, <2>4 DEF Send
  <2>5. CASE Record(t)
    BY <1>1, <2>5 DEF Record, Write, EffectDone
  <2>6. CASE    Retry(t) \/ OpenDecision(t) \/ OpenStart(t) \/ Decide(t) \/ Reserve(t)
             \/ CreateJob(t) \/ Finish(t) \/ TryAgain(t) \/ Refused(t)
    <3>1. CASE Retry(t)
      BY <1>1, <3>1 DEF Retry, Read
    <3>2. CASE OpenDecision(t)
      BY <1>1, <3>2 DEF OpenDecision, Read
    <3>3. CASE OpenStart(t)
      BY <1>1, <3>3 DEF OpenStart, Read
    <3>4. CASE Decide(t)
      BY <1>1, <3>4 DEF Decide, Write
    <3>5. CASE Reserve(t)
      BY <1>1, <3>5 DEF Reserve, Write, MayStart
    <3>6. CASE CreateJob(t)
      BY <1>1, <3>6 DEF CreateJob
    <3>7. CASE Finish(t)
      BY <1>1, <3>7 DEF Finish, Write, EffectDone
    <3>8. CASE TryAgain(t)
      BY <1>1, <3>8 DEF TryAgain, Insists, Unmoved
    <3>9. CASE Refused(t)
      BY <1>1, <3>9 DEF Refused, EffectDone, Insists, Unmoved
    <3> QED BY <2>6, <3>1, <3>2, <3>3, <3>4, <3>5, <3>6, <3>7, <3>8, <3>9
  <2>7. CASE DatabaseFails(t)
    BY <1>1, <2>7 DEF DatabaseFails, EffectDone
  <2> QED BY <1>1, <2>1, <2>2, <2>3, <2>4, <2>5, <2>6, <2>7 DEF ThreadStep
<1>2. CASE Crash \/ UNCHANGED vars
  BY <1>2 DEF Crash, vars
<1> QED BY <1>1, <1>2 DEF Next

LEMMA StartingStep == TypeOK /\ Reservations /\ [Next]_vars => StartsAlone'
<1> SUFFICES ASSUME TypeOK, Reservations, [Next]_vars PROVE StartsAlone'
  OBVIOUS
<1> USE Typing DEF Reservations, RowExists, StartsAlone, Starting, Goto, row
<1>1. ASSUME NEW t \in Threads, ThreadStep(t) PROVE StartsAlone'
  <2>1. CASE Submit(t)
    BY <1>1, <2>1 DEF Submit
  <2>2. CASE Decide(t)
    BY <1>1, <2>2 DEF Decide, Write
  <2>3. CASE Reserve(t)
    BY <1>1, <2>3 DEF Reserve, Write, MayStart
  <2>4. CASE CreateJob(t)
    BY <1>1, <2>4 DEF CreateJob
  <2>5. CASE Finish(t)
    BY <1>1, <2>5 DEF Finish, Write, EffectDone
  <2>6. CASE    Retry(t) \/ OpenDecision(t) \/ OpenStart(t) \/ MailUnavailable(t) \/ Claim(t)
             \/ Send(t) \/ Record(t) \/ TryAgain(t) \/ Refused(t)
    <3>1. CASE Retry(t)
      BY <1>1, <3>1 DEF Retry, Read
    <3>2. CASE OpenDecision(t)
      BY <1>1, <3>2 DEF OpenDecision, Read
    <3>3. CASE OpenStart(t)
      BY <1>1, <3>3 DEF OpenStart, Read
    <3>4. CASE MailUnavailable(t)
      BY <1>1, <3>4 DEF MailUnavailable, Write
    <3>5. CASE Claim(t)
      BY <1>1, <3>5 DEF Claim, Write
    <3>6. CASE Send(t)
      BY <1>1, <3>6 DEF Send
    <3>7. CASE Record(t)
      BY <1>1, <3>7 DEF Record, Write, EffectDone
    <3>8. CASE TryAgain(t)
      BY <1>1, <3>8 DEF TryAgain, Insists, Unmoved
    <3>9. CASE Refused(t)
      BY <1>1, <3>9 DEF Refused, EffectDone, Insists, Unmoved
    <3> QED BY <2>6, <3>1, <3>2, <3>3, <3>4, <3>5, <3>6, <3>7, <3>8, <3>9
  <2>7. CASE DatabaseFails(t)
    BY <1>1, <2>7 DEF DatabaseFails, EffectDone
  <2> QED BY <1>1, <2>1, <2>2, <2>3, <2>4, <2>5, <2>6, <2>7 DEF ThreadStep
<1>2. CASE Crash \/ UNCHANGED vars
  BY <1>2 DEF Crash, vars
<1> QED BY <1>1, <1>2 DEF Next

LEMMA ReservationStep == TypeOK /\ Reservations /\ [Next]_vars => Reservations'
BY RowStep, ClaimStep, PendingStep, MailingStep, StartingStep DEF Reservations

LEMMA MailStep == TypeOK /\ Reservations /\ MailsPaid /\ [Next]_vars => MailsPaid'
<1> SUFFICES ASSUME TypeOK, Reservations, MailsPaid, [Next]_vars PROVE MailsPaid'
  OBVIOUS
<1> USE Typing, Counters DEF Reservations, MailsAlone, MailsPaid, Mailing, Goto, row,
   Claimable, Unavailable
<1>1. ASSUME NEW t \in Threads, ThreadStep(t) PROVE MailsPaid'
  <2>1. CASE Claim(t)
    BY <1>1, <2>1 DEF Claim, Write
  <2>2. CASE Send(t)
    BY <1>1, <2>2 DEF Send
  <2>3. CASE    Submit(t) \/ Retry(t) \/ OpenDecision(t) \/ OpenStart(t) \/ Decide(t)
             \/ MailUnavailable(t) \/ Record(t) \/ Reserve(t) \/ CreateJob(t) \/ Finish(t)
             \/ TryAgain(t) \/ Refused(t)
    <3>1. CASE Submit(t)
      BY <1>1, <3>1 DEF Submit
    <3>2. CASE Retry(t)
      BY <1>1, <3>2 DEF Retry, Read
    <3>3. CASE OpenDecision(t)
      BY <1>1, <3>3 DEF OpenDecision, Read
    <3>4. CASE OpenStart(t)
      BY <1>1, <3>4 DEF OpenStart, Read
    <3>5. CASE Decide(t)
      BY <1>1, <3>5 DEF Decide, Write
    <3>6. CASE MailUnavailable(t)
      BY <1>1, <3>6 DEF MailUnavailable, Write
    <3>7. CASE Record(t)
      BY <1>1, <3>7 DEF Record, Write, EffectDone
    <3>8. CASE Reserve(t)
      BY <1>1, <3>8 DEF Reserve, Write, MayStart
    <3>9. CASE CreateJob(t)
      BY <1>1, <3>9 DEF CreateJob
    <3>10. CASE Finish(t)
      BY <1>1, <3>10 DEF Finish, Write, EffectDone
    <3>11. CASE TryAgain(t)
      BY <1>1, <3>11 DEF TryAgain, Insists, Unmoved
    <3>12. CASE Refused(t)
      BY <1>1, <3>12 DEF Refused, EffectDone, Insists, Unmoved
    <3> QED BY <2>3, <3>1, <3>2, <3>3, <3>4, <3>5, <3>6, <3>7, <3>8, <3>9, <3>10, <3>11, <3>12
  <2>4. CASE DatabaseFails(t)
    BY <1>1, <2>4 DEF DatabaseFails, EffectDone
  <2> QED BY <1>1, <2>1, <2>2, <2>3, <2>4 DEF ThreadStep
<1>2. CASE Crash \/ UNCHANGED vars
  BY <1>2 DEF Crash, vars
<1> QED BY <1>1, <1>2 DEF Next

LEMMA JobStep == TypeOK /\ Reservations /\ JobCount /\ [Next]_vars => JobCount'
<1> SUFFICES ASSUME TypeOK, Reservations, JobCount, [Next]_vars PROVE JobCount'
  OBVIOUS
<1> USE Typing, Counters DEF Reservations, RowExists, StartsAlone, JobCount, OneJob, Starting,
   Goto, row
<1>1. ASSUME NEW t \in Threads, ThreadStep(t) PROVE JobCount'
  <2>1. CASE Submit(t)
    BY <1>1, <2>1 DEF Submit
  <2>2. CASE Decide(t)
    BY <1>1, <2>2 DEF Decide, Write
  <2>3. CASE Reserve(t)
    BY <1>1, <2>3 DEF Reserve, Write, MayStart
  <2>4. CASE CreateJob(t)
    <3>1. jobs = 0 /\ status = "onboarding_starting"
      BY <1>1, <2>4 DEF CreateJob
    <3>2. \A u \in Threads : step'[u] /= "create" /\ (step'[u] = "finish" => u = t)
      BY <1>1, <2>4 DEF CreateJob
    <3>3. CASE jobs' = 1 /\ effect' = [effect EXCEPT ![t] = "job"]
      BY <1>1, <2>4, <3>1, <3>2, <3>3 DEF CreateJob
    <3>4. CASE jobs' = 0
      BY <1>1, <2>4, <3>1, <3>2, <3>4 DEF CreateJob
    <3>5. (jobs' = jobs + 1 /\ effect' = [effect EXCEPT ![t] = "job"]) \/ jobs' = jobs
      BY <2>4 DEF CreateJob
    <3>6. jobs + 1 = 1
      BY <3>1
    <3> QED BY <3>1, <3>3, <3>4, <3>5, <3>6
  <2>5. CASE Finish(t)
    BY <1>1, <2>5 DEF Finish, Write, EffectDone
  <2>6. CASE    Retry(t) \/ OpenDecision(t) \/ OpenStart(t) \/ MailUnavailable(t) \/ Claim(t)
             \/ Send(t) \/ Record(t) \/ TryAgain(t) \/ Refused(t)
    <3>1. CASE Retry(t)
      BY <1>1, <3>1 DEF Retry, Read
    <3>2. CASE OpenDecision(t)
      BY <1>1, <3>2 DEF OpenDecision, Read
    <3>3. CASE OpenStart(t)
      BY <1>1, <3>3 DEF OpenStart, Read
    <3>4. CASE MailUnavailable(t)
      BY <1>1, <3>4 DEF MailUnavailable, Write
    <3>5. CASE Claim(t)
      BY <1>1, <3>5 DEF Claim, Write
    <3>6. CASE Send(t)
      BY <1>1, <3>6 DEF Send
    <3>7. CASE Record(t)
      BY <1>1, <3>7 DEF Record, Write, EffectDone
    <3>8. CASE TryAgain(t)
      BY <1>1, <3>8 DEF TryAgain, Insists, Unmoved
    <3>9. CASE Refused(t)
      BY <1>1, <3>9 DEF Refused, EffectDone, Insists, Unmoved
    <3> QED BY <2>6, <3>1, <3>2, <3>3, <3>4, <3>5, <3>6, <3>7, <3>8, <3>9
  <2>7. CASE DatabaseFails(t)
    BY <1>1, <2>7 DEF DatabaseFails, EffectDone
  <2> QED BY <1>1, <2>1, <2>2, <2>3, <2>4, <2>5, <2>6, <2>7 DEF ThreadStep
<1>2. CASE Crash \/ UNCHANGED vars
  BY <1>2 DEF Crash, vars
<1> QED BY <1>1, <1>2 DEF Next

LEMMA LedgerStep == TypeOK /\ Reservations /\ LedgerPays /\ [Next]_vars => LedgerPays'
<1> SUFFICES ASSUME TypeOK, Reservations, LedgerPays, [Next]_vars PROVE LedgerPays'
  OBVIOUS
<1> USE Typing, Counters DEF Reservations, RowExists, ClaimsKnow, LedgerPays, Effecting, Goto,
   row, Retryable, Unavailable
<1>1. ASSUME NEW t \in Threads, ThreadStep(t) PROVE LedgerPays'
  <2>1. CASE Submit(t)
    BY <1>1, <2>1 DEF Submit
  <2>2. CASE Retry(t)
    BY <1>1, <2>2 DEF Retry, Read
  <2>3. CASE OpenDecision(t)
    BY <1>1, <2>3 DEF OpenDecision, Read
  <2>4. CASE OpenStart(t)
    BY <1>1, <2>4 DEF OpenStart, Read
  <2>5. CASE Decide(t)
    BY <1>1, <2>5 DEF Decide, Write
  <2>6. CASE MailUnavailable(t)
    BY <1>1, <2>6 DEF MailUnavailable, Write
  <2>7. CASE Claim(t)
    BY <1>1, <2>7 DEF Claim, Write
  <2>8. CASE Send(t)
    BY <1>1, <2>8 DEF Send
  <2>9. CASE Record(t)
    BY <1>1, <2>9 DEF Record, Write, EffectDone
  <2>10. CASE Reserve(t)
    BY <1>1, <2>10 DEF Reserve, Write, MayStart
  <2>11. CASE CreateJob(t)
    BY <1>1, <2>11 DEF CreateJob
  <2>12. CASE Finish(t)
    BY <1>1, <2>12 DEF Finish, Write, EffectDone
  <2>13. CASE TryAgain(t)
    BY <1>1, <2>13 DEF TryAgain, Insists, Unmoved
  <2>14. CASE Refused(t)
    BY <1>1, <2>14 DEF Refused, EffectDone
  <2>15. CASE DatabaseFails(t)
    BY <1>1, <2>15 DEF DatabaseFails, EffectDone
  <2> QED BY <1>1, <2>1, <2>2, <2>3, <2>4, <2>5, <2>6, <2>7, <2>8, <2>9, <2>10, <2>11, <2>12,
     <2>13, <2>14, <2>15 DEF ThreadStep
<1>2. CASE Crash \/ UNCHANGED vars
  BY <1>2 DEF Crash, vars
<1> QED BY <1>1, <1>2 DEF Next

\* Until the server dies, the ledger is full or SQLite fails on the result of a start, a
\* job is recorded, or its thread is about to record it.
JobInHand ==
  jobs = 1 /\ ~crashed /\ ~unwritten /\ audit < MaxAudit
    => \/ status = "onboarding_queued"
       \/ \E t \in Threads : step[t] = "finish" /\ effect[t] = "job"

\* A thread about to finish the onboarding is refused only when the ledger is full.
LEMMA FinishInsists ==
  ASSUME TypeOK, Reservations, LedgerPays, NEW t \in Threads, Refused(t), step[t] = "finish"
  PROVE  audit = MaxAudit
<1>1. status = "onboarding_starting" /\ Insists(t) /\ Unmoved(t)
  BY DEF Reservations, StartsAlone, Starting, Insists, Unmoved
<1>2. tries[t] < MaxAudit
  BY Bounds, Counters DEF LedgerPays, Effecting
<1>3. audit = MaxAudit \/ tries[t] = MaxAudit
  BY <1>1 DEF Refused
<1> QED BY <1>2, <1>3, Counters, Bounds

LEMMA JobInHandStep ==
  TypeOK /\ Reservations /\ JobCount /\ LedgerPays /\ JobInHand /\ [Next]_vars => JobInHand'
<1> SUFFICES ASSUME TypeOK, Reservations, JobCount, LedgerPays, JobInHand, [Next]_vars
             PROVE  JobInHand'
  OBVIOUS
<1> USE Typing, Counters, Bounds DEF JobInHand, Goto, row
<1>1. ASSUME NEW t \in Threads, ThreadStep(t) PROVE JobInHand'
  <2>1. CASE Submit(t)
    <3>1. jobs # 1
      BY <2>1 DEF Submit, JobCount, OneJob
    <3> QED BY <2>1, <3>1 DEF Submit
  <2>2. CASE CreateJob(t)
    <3>1. jobs = 0
      BY <1>1, <2>2 DEF CreateJob, JobCount
    <3>2. CASE jobs' = jobs + 1 /\ effect' = [effect EXCEPT ![t] = "job"]
      BY <1>1, <2>2, <3>2 DEF CreateJob
    <3>3. CASE jobs' = jobs
      BY <3>1, <3>3
    <3> QED BY <2>2, <3>2, <3>3 DEF CreateJob
  <2>3. CASE Finish(t)
    <3>1. \A u \in Threads : step[u] = "finish" => u = t
      BY <1>1, <2>3 DEF Finish, Reservations, StartsAlone, Starting
    <3>2. status = "onboarding_starting" /\ audit < MaxAudit /\ UNCHANGED <<jobs, crashed, unwritten>>
      BY <2>3 DEF Finish, Write
    <3>3. status' = IF effect[t] = "job" THEN "onboarding_queued" ELSE "approved"
      BY <2>3 DEF Finish
    <3> QED BY <3>1, <3>2, <3>3
  <2>4. CASE Refused(t)
    <3>1. CASE step[t] = "finish"
      <4>1. audit' = MaxAudit
        BY <1>1, <2>4, <3>1, FinishInsists DEF Refused
      <4> QED BY <4>1
    <3>2. CASE step[t] # "finish"
      BY <1>1, <2>4, <3>2 DEF Refused, EffectDone
    <3> QED BY <3>1, <3>2
  <2>5. CASE Retry(t)
    BY <1>1, <2>5 DEF Retry, Read
  <2>6. CASE OpenDecision(t)
    BY <1>1, <2>6 DEF OpenDecision, Read
  <2>7. CASE OpenStart(t)
    BY <1>1, <2>7 DEF OpenStart, Read
  <2>8. CASE Decide(t)
    BY <1>1, <2>8 DEF Decide, Write
  <2>9. CASE MailUnavailable(t)
    BY <1>1, <2>9 DEF MailUnavailable, Write
  <2>10. CASE Claim(t)
    BY <1>1, <2>10 DEF Claim, Write
  <2>11. CASE Send(t)
    BY <1>1, <2>11 DEF Send
  <2>12. CASE Record(t)
    BY <1>1, <2>12 DEF Record, Write, EffectDone
  <2>13. CASE Reserve(t)
    BY <1>1, <2>13 DEF Reserve, Write, MayStart
  <2>14. CASE TryAgain(t)
    BY <1>1, <2>14 DEF TryAgain
  <2>15. CASE DatabaseFails(t)
    BY <1>1, <2>15 DEF DatabaseFails, EffectDone
  <2> QED BY <1>1, <2>1, <2>2, <2>3, <2>4, <2>5, <2>6, <2>7, <2>8,
     <2>9, <2>10, <2>11, <2>12, <2>13, <2>14, <2>15 DEF ThreadStep
<1>2. CASE Crash \/ UNCHANGED vars
  BY <1>2 DEF Crash, vars
<1> QED BY <1>1, <1>2 DEF Next

-----------------------------------------------------------------------------

\* Every variable keeps its type, and neither attempts nor ledger exceed their bounds.
THEOREM TypeCorrect == Spec => []TypeOK
BY InitialState, TypeStep, ReservationStep, PTL DEF Spec

\* A thread that reserved an effect is alone, and its field is not changed under it.
THEOREM EffectsAreOwned == Spec => []OwnsEffect
<1>1. Reservations => OwnsEffect
  BY DEF Reservations, ClaimsKnow, MailsAlone, StartsAlone, OwnsEffect, Insists, Unmoved,
     Mailing, Starting
<1> QED BY <1>1, InitialState, TypeStep, ReservationStep, PTL DEF Spec

\* No review costs more messages than its attempts, for any number of threads.
THEOREM MailsAreBounded == Spec => []MailBudget
<1>1. TypeOK /\ MailsPaid => MailBudget
  BY Bounds, Counters DEF MailsPaid, MailBudget
<1> QED BY <1>1, InitialState, TypeStep, ReservationStep, MailStep, PTL DEF Spec

\* No review gets a second onboarding job, and none without approval.
THEOREM OneJobEver == Spec => []OneJob
<1>1. JobCount => OneJob
  BY DEF JobCount
<1> QED BY <1>1, InitialState, TypeStep, ReservationStep, JobStep, PTL DEF Spec

\* The retry loop of an effect always finds its turn before it is used up.
THEOREM LoopIsNeverUsedUp == Spec => []LoopSuffices
<1>1. TypeOK /\ LedgerPays => LoopSuffices
  <2> SUFFICES ASSUME TypeOK, LedgerPays, NEW t \in Threads PROVE tries[t] < MaxAudit
    BY DEF LoopSuffices
  <2>1. audit \in Nat /\ audit <= MaxAudit /\ tries[t] \in Nat /\ MaxAudit \in Nat /\ MaxAudit > 0
    BY Bounds, Counters
  <2>2. CASE Effecting(t)
    BY <2>1, <2>2 DEF LedgerPays
  <2>3. CASE ~Effecting(t)
    BY <2>1, <2>3 DEF LedgerPays
  <2> QED BY <2>2, <2>3
<1> QED BY <1>1, InitialState, TypeStep, ReservationStep, LedgerStep, PTL DEF Spec

\* A created job is recorded on its review when its request is over, unless the server
\* died, the ledger is full, or SQLite failed when the result was written: for any number
\* of threads.
THEOREM JobsAreRecorded == Spec => []JobRecordedUnlessFull
<1>1. Init => JobInHand
  BY DEF Init, JobInHand
<1>2. JobInHand => JobRecordedUnlessFull
  BY DEF JobInHand, JobRecordedUnlessFull, Concluded
<1> QED BY <1>1, <1>2, InitialState, TypeStep, ReservationStep, JobStep, LedgerStep,
   JobInHandStep, PTL DEF Spec

-----------------------------------------------------------------------------
(* The contract of a review.  Its threads decide, start and conclude on    *)
(* revisions read long before; what they commit is one step of the         *)
(* contract each, or nothing.                                              *)

Contract == INSTANCE ReviewContract
              WITH MaxMails <- MaxAttempts, MaxEvents <- MaxAudit, events <- audit

\* A thread that concludes with a job has created it.
JobMade == \A t \in Threads : step[t] = "finish" /\ effect[t] = "job" => jobs = 1

LEMMA JobMadeStep ==
  TypeOK /\ Reservations /\ JobCount /\ JobMade /\ [Next]_vars => JobMade'
<1> SUFFICES ASSUME TypeOK, Reservations, JobCount, JobMade, [Next]_vars PROVE JobMade'
  OBVIOUS
<1> USE Typing, Counters DEF JobMade, Goto, row
<1>1. ASSUME NEW t \in Threads, ThreadStep(t) PROVE JobMade'
  <2>1. CASE CreateJob(t)
    <3>1. jobs = 0 /\ \A u \in Threads : step'[u] = "finish" => u = t
      BY <1>1, <2>1 DEF CreateJob, JobCount, Reservations, StartsAlone, Starting
    <3>2. CASE jobs' = jobs + 1 /\ effect' = [effect EXCEPT ![t] = "job"]
      BY <3>1, <3>2
    <3>3. CASE effect' = [effect EXCEPT ![t] = "no job"]
      BY <1>1, <3>1, <3>3
    <3> QED BY <2>1, <3>2, <3>3 DEF CreateJob
  <2>2. CASE Submit(t) \/ Retry(t) \/ OpenDecision(t) \/ OpenStart(t)
    BY <1>1, <2>2 DEF Submit, Retry, OpenDecision, OpenStart, Read
  <2>3. CASE Decide(t) \/ MailUnavailable(t) \/ Claim(t) \/ Reserve(t)
    BY <1>1, <2>3 DEF Decide, MailUnavailable, Claim, Reserve, Write
  <2>4. CASE Send(t)
    BY <1>1, <2>4 DEF Send
  <2>5. CASE Record(t) \/ Finish(t) \/ Refused(t)
    BY <1>1, <2>5 DEF Record, Finish, Refused, EffectDone
  <2>6. CASE TryAgain(t)
    BY <1>1, <2>6 DEF TryAgain
  <2>7. CASE DatabaseFails(t)
    BY <1>1, <2>7 DEF DatabaseFails, EffectDone
  <2> QED BY <1>1, <2>1, <2>2, <2>3, <2>4, <2>5, <2>6, <2>7 DEF ThreadStep
<1>2. CASE Crash \/ UNCHANGED vars
  BY <1>2 DEF Crash, vars
<1> QED BY <1>1, <1>2 DEF Next

\* Each step of a thread is one step of the contract, or is not seen by it.
LEMMA ContractStep ==
  ASSUME TypeOK, Reservations, MailsPaid, JobCount, JobMade, NEW t \in Threads, ThreadStep(t)
  PROVE  Contract!Next \/ UNCHANGED <<status, mails, jobs, audit>>
<1> USE Typing, Counters, Bounds DEF row
<1>1. status # "none" \/ step[t] = "idle"
  BY DEF Reservations, RowExists
<1>2. CASE Submit(t)
  <2>1. Contract!Submit
    BY <1>2 DEF Submit, Contract!Submit
  <2> QED BY <2>1 DEF Contract!Next
<1>3. CASE Retry(t) \/ OpenDecision(t) \/ OpenStart(t) \/ TryAgain(t) \/ Refused(t)
           \/ DatabaseFails(t)
  BY <1>3 DEF Retry, OpenDecision, OpenStart, TryAgain, Refused, DatabaseFails
<1>4. CASE Decide(t)
  <2>1. Contract!Decide
    BY <1>4 DEF Decide, Write, Contract!Decide, Contract!Logged
  <2> QED BY <2>1 DEF Contract!Next
<1>5. CASE MailUnavailable(t) \/ Claim(t) \/ Record(t)
  <2>1. Contract!NoteMail
    BY <1>1, <1>5 DEF MailUnavailable, Claim, Record, Write, Contract!NoteMail, Contract!Logged
  <2> QED BY <2>1 DEF Contract!Next
<1>6. CASE Send(t)
  <2>1. mails < MaxAttempts
    BY <1>6 DEF Send, MailsPaid
  <2>2. Contract!Mail
    BY <1>1, <1>6, <2>1 DEF Send, Contract!Mail
  <2> QED BY <2>2 DEF Contract!Next
<1>7. CASE Reserve(t)
  <2>1. jobs = 0
    BY <1>7 DEF Reserve, MayStart, JobCount, OneJob
  <2>2. Contract!Start
    BY <1>7, <2>1 DEF Reserve, MayStart, Write, Contract!Start, Contract!Logged
  <2> QED BY <2>2 DEF Contract!Next
<1>8. CASE CreateJob(t)
  <2>1. jobs = 0 /\ status = "onboarding_starting"
    BY <1>8 DEF CreateJob, JobCount, Reservations, StartsAlone, Starting
  <2>2. CASE jobs' = jobs + 1
    <3>1. Contract!CreateJob
      BY <1>8, <2>1, <2>2 DEF CreateJob, Contract!CreateJob
    <3> QED BY <3>1 DEF Contract!Next
  <2>3. CASE jobs' = jobs
    BY <1>8, <2>3 DEF CreateJob
  <2> QED BY <1>8, <2>2, <2>3 DEF CreateJob
<1>9. CASE Finish(t)
  <2>1. effect[t] = "job" <=> jobs = 1
    BY <1>9 DEF Finish, JobMade, JobCount
  <2>2. Contract!Conclude
    BY <1>9, <2>1 DEF Finish, Write, Contract!Conclude, Contract!Logged
  <2> QED BY <2>2 DEF Contract!Next
<1> QED BY <1>2, <1>3, <1>4, <1>5, <1>6, <1>7, <1>8, <1>9 DEF ThreadStep

\* However requests interleave, lose their revisions, try again or die with the server,
\* a review is decided once, started only from approval, given back only without a job,
\* and every change of its row is one event of its ledger (token_reviews.py:
\* transition, _append_audit).
THEOREM ReviewsKeepTheirContract == Spec => Contract!Spec
<1>1. Init => Contract!Init /\ JobMade
  BY DEF Init, Contract!Init, JobMade
<1>2. TypeOK /\ Reservations /\ MailsPaid /\ JobCount /\ JobMade /\ [Next]_vars
        => [Contract!Next]_<<status, mails, jobs, audit>>
  <2> SUFFICES ASSUME TypeOK, Reservations, MailsPaid, JobCount, JobMade, [Next]_vars
               PROVE  Contract!Next \/ UNCHANGED <<status, mails, jobs, audit>>
    OBVIOUS
  <2>1. CASE Crash \/ UNCHANGED vars
    BY <2>1 DEF Crash, vars, row
  <2>2. ASSUME NEW t \in Threads, ThreadStep(t)
        PROVE  Contract!Next \/ UNCHANGED <<status, mails, jobs, audit>>
    BY <2>2, ContractStep
  <2> QED BY <2>1, <2>2 DEF Next
<1> QED BY <1>1, <1>2, InitialState, TypeStep, ReservationStep, MailStep, JobStep,
   JobMadeStep, PTL DEF Spec, Contract!Spec
=============================================================================
