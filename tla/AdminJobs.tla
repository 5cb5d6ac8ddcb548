------------------------------ MODULE AdminJobs ------------------------------
(***************************************************************************)
(* dashboard/admin.py and dashboard/public_actions.py: the job table of an *)
(* AdminService, the one worker that runs a daily refresh, an audited      *)
(* retry or a token onboarding under collection.lock, what a restart makes *)
(* of unfinished jobs, and the public policy in front of it.  Each server  *)
(* process constructs its own service; all of them share the job files,    *)
(* the token registry, collection.lock and the published facts.            *)
(*                                                                         *)
(* A publication is named for the job whose command committed it.  The     *)
(* snapshot_refresh job is in SnapshotRefresh, the review in TokenReview.  *)
(***************************************************************************)
EXTENDS Naturals, FiniteSets

CONSTANTS
  Servers,       \* processes that construct an AdminService
  Jobs,          \* requests for a job; a job is named for its request
  Home,          \* the server each request is sent to
  Kind,          \* what each request asks for
  Public,        \* the requests of public actors, of one action
  Tokens,        \* token contracts
  Token,         \* the contract an onboarding is for
  Budget,        \* accepted public jobs per day
  Requests,      \* how many of the requests arrive
  Days,          \* days that pass
  Faults,        \* how often opening, reading or writing a file may fail
  Restarts,      \* how often a server may stop
  NoOne          \* no holder, no publication by a job

Kinds == {"refresh", "retry", "onboarding"}

ASSUME JobsOK ==
  /\ IsFiniteSet(Jobs)
  /\ Home \in [Jobs -> Servers]
  /\ Kind \in [Jobs -> Kinds]
  /\ Public \subseteq {j \in Jobs : Kind[j] # "onboarding"}
  /\ \A i, j \in Public : Home[i] = Home[j]
  /\ Token \in [Jobs -> Tokens]
  /\ Budget \in Nat \ {0}
  /\ Requests \in Nat /\ Days \in Nat /\ Faults \in Nat /\ Restarts \in Nat

Live     == {"queued", "running"}
Ended    == {"failed", "partial", "succeeded", "interrupted"}
Statuses == {"none"} \cup Live \cup Ended

Registered == {"none", "pending", "active", "failed", "needs_review"}

Phases == {"none", "permitted", "starting", "waiting", "locked", "started", "collecting",
           "judge", "activate", "snapshots", "unexpected", "exit", "lost", "done"}

\* another program that publishes under collection.lock
Timer == "timer"
Publishers == Jobs \cup {Timer, NoOne}
Holders    == Servers \cup {Timer}

ASSUME NamesOK == /\ Timer \notin Servers \cup Jobs
                  /\ NoOne \notin Servers \cup Jobs \cup {Timer}

VARIABLES
  server,      \* whether each process is down, loading or up
  memory,      \* status of each job in the table of its own server
  file,        \* status of each job in its file
  pc,          \* where the request, then the worker, of each job is
  lock,        \* owner of the flock on collection.lock
  registry,    \* status of each token in the registry
  lastJob,     \* its last_job_id
  reserved,    \* tokens whose review is starting or queued
  listed,      \* pending records a loading server has read and not yet rewritten
  report,      \* the publication daily-latest.json identifies
  dataset,     \* the publication the database identifies
  rows,        \* tokens with DEX rows in the database
  baseReport,  \* the quality identity a job compares with
  baseDataset, \* the database identity a job compares with
  exit0,       \* jobs whose command exited with zero
  orphans,     \* commands that outlived their server
  day, created, \* today; the day each public job was accepted
  atLock,      \* the dataset when the worker got the lock
  saveFaults, upsertFaults,
  restarts

tables   == <<server, memory, file, listed>>
facts    == <<report, dataset, rows, orphans>>
evidence == <<baseReport, baseDataset, exit0, atLock>>
tokens   == <<registry, lastJob, reserved>>
calendar == <<day, created, restarts>>
faults   == <<saveFaults, upsertFaults>>
vars == <<tables, pc, lock, tokens, facts, evidence, calendar, faults>>

Init ==
  /\ server = [s \in Servers |-> "up"]
  /\ memory = [j \in Jobs |-> "none"]
  /\ file = [j \in Jobs |-> "none"]
  /\ pc = [j \in Jobs |-> "none"]
  /\ lock = NoOne
  /\ registry = [t \in Tokens |-> "none"]
  /\ lastJob = [t \in Tokens |-> NoOne]
  /\ reserved = {}
  /\ listed = [s \in Servers |-> {}]
  /\ report = NoOne
  /\ dataset = NoOne
  /\ rows = {}
  /\ baseReport = [j \in Jobs |-> NoOne]
  /\ baseDataset = [j \in Jobs |-> NoOne]
  /\ exit0 = {}
  /\ orphans = {}
  /\ day = 0
  /\ created = [j \in Jobs |-> 0]
  /\ atLock = [j \in Jobs |-> NoOne]
  /\ saveFaults = 0
  /\ upsertFaults = 0
  /\ restarts = 0

-----------------------------------------------------------------------------
(* Job files and registry records.                                         *)

Goto(j, phase) == pc' = [pc EXCEPT ![j] = phase]

Saves(j, status) == file' = [file EXCEPT ![j] = status] /\ UNCHANGED saveFaults

MayFault(n) == saveFaults + upsertFaults + n <= Faults

SaveFails == MayFault(1) /\ saveFaults' = saveFaults + 1 /\ UNCHANGED file

\* The table is updated before the file is written.
SetJob(j, status, next, onError) ==
  /\ memory' = [memory EXCEPT ![j] = status]
  /\ \/ Saves(j, status) /\ Goto(j, next)
     \/ SaveFails /\ Goto(j, onError)

\* The job is ended because a file could not be read or written; ending it may fail too.
SetJobAfterFault(j, status, next, onError) ==
  /\ memory' = [memory EXCEPT ![j] = status]
  /\ \E n \in 1..2 :
       /\ MayFault(n)
       /\ saveFaults' = saveFaults + n
       /\ IF n = 1 THEN file' = [file EXCEPT ![j] = status] /\ Goto(j, next)
                   ELSE UNCHANGED file /\ Goto(j, onError)

Writes(t, status, job) ==
  /\ registry' = [registry EXCEPT ![t] = status]
  /\ lastJob' = [lastJob EXCEPT ![t] = job]

Upserts(j, status) == Writes(Token[j], status, j) /\ UNCHANGED upsertFaults

\* It may fail before the registry is replaced, or behind it, at the sync of the directory.
UpsertFails(t, status, job) ==
  /\ MayFault(1)
  /\ upsertFaults' = upsertFaults + 1
  /\ Writes(t, status, job) \/ UNCHANGED <<registry, lastJob>>

\* an error of the registry is passed over
TryUpsert(j, status) == Upserts(j, status) \/ UpsertFails(Token[j], status, j)

\* Faulty variant: a job status in the registry.
MarkInterrupted(j) ==
  IF Kind[j] = "onboarding" /\ registry[Token[j]] = "pending"
  THEN TryUpsert(j, "interrupted")
  ELSE UNCHANGED <<registry, lastJob, upsertFaults>>

MarkNeedsReview(j) ==
  IF Kind[j] = "onboarding" /\ registry[Token[j]] = "pending"
  THEN TryUpsert(j, "needs_review")
  ELSE UNCHANGED <<registry, lastJob, upsertFaults>>

-----------------------------------------------------------------------------
(* Requests.                                                               *)

Neighbours(j) == {k \in Jobs : Home[k] = Home[j]}

Busy(j) == \E k \in Neighbours(j) : memory[k] \in Live

\* Faulty variant: the group of the policy is never taken.
NobodyInFlight == {}

\* the permit is held until the worker was started or creating it failed
InFlight == {k \in Public : pc[k] \in {"permitted", "starting"}}

AcceptedOn(d) == {k \in Public : memory[k] # "none" /\ created[k] = d}

\* A retry is authorised by the quality report it was asked for.
ReadsReport(j) ==
  IF Kind[j] = "retry" THEN baseReport' = [baseReport EXCEPT ![j] = report]
                       ELSE UNCHANGED baseReport

MayArrive == Cardinality({k \in Jobs : pc[k] # "none"}) < Requests

Permit(j) ==
  /\ j \in Public
  /\ pc[j] = "none"
  /\ MayArrive
  /\ server[Home[j]] = "up"
  /\ InFlight = {}
  /\ Cardinality(AcceptedOn(day)) < Budget
  /\ Goto(j, "permitted")
  /\ ReadsReport(j)
  /\ UNCHANGED <<tables, lock, tokens, facts, baseDataset, exit0, atLock, calendar, faults>>

\* what a thread compares with is gone with the request or the thread
Forget(ending) ==
  /\ baseReport' = [j \in Jobs |-> IF j \in ending THEN NoOne ELSE baseReport[j]]
  /\ baseDataset' = [j \in Jobs |-> IF j \in ending THEN NoOne ELSE baseDataset[j]]
  /\ atLock' = [j \in Jobs |-> IF j \in ending THEN NoOne ELSE atLock[j]]
  /\ exit0' = exit0 \ ending

Arrived(j) ==
  /\ server[Home[j]] = "up"
  /\ IF j \in Public THEN pc[j] = "permitted" ELSE pc[j] = "none" /\ MayArrive

Refused(j) ==
  /\ Busy(j)
  /\ Goto(j, "done")
  /\ Forget({j})
  /\ UNCHANGED <<memory, file, created, saveFaults>>

Unsaved(j) ==
  /\ ~Busy(j)
  /\ SaveFails
  /\ Goto(j, "done")
  /\ Forget({j})
  /\ UNCHANGED <<memory, created>>

Accepted(j) ==
  /\ ~Busy(j)
  /\ Saves(j, "queued")
  /\ memory' = [memory EXCEPT ![j] = "queued"]
  /\ IF j \in Public THEN created' = [created EXCEPT ![j] = day] ELSE UNCHANGED created
  /\ IF j \in Public THEN UNCHANGED baseReport ELSE ReadsReport(j)
  /\ Goto(j, "starting")
  /\ UNCHANGED <<baseDataset, exit0, atLock>>

CreateJob(j) ==
  /\ Kind[j] # "onboarding"
  /\ Arrived(j)
  /\ Refused(j) \/ Unsaved(j) \/ Accepted(j)
  /\ UNCHANGED <<server, listed, lock, tokens, facts, day, restarts, upsertFaults>>

\* The start of an approved review.  A job whose record cannot be written is taken
\* back, and its file with it if it can be removed; the record is not.
CreateOnboardingJob(j) ==
  /\ Kind[j] = "onboarding"
  /\ Token[j] \notin reserved
  /\ Arrived(j)
  /\ \/ (Refused(j) \/ Unsaved(j)) /\ UNCHANGED <<tokens, upsertFaults>>
     \/ /\ ~Busy(j)
        /\ UpsertFails(Token[j], "pending", j)
        /\ Goto(j, "done")
        /\ file' \in {file, [file EXCEPT ![j] = "queued"]}
        /\ UNCHANGED <<memory, created, evidence, reserved, saveFaults>>
     \/ Accepted(j) /\ Upserts(j, "pending") /\ reserved' = reserved \cup {Token[j]}
  /\ UNCHANGED <<server, listed, lock, facts, day, restarts>>

StartWorker(j) ==
  /\ pc[j] = "starting"
  /\ Goto(j, "waiting")
  /\ UNCHANGED <<tables, lock, tokens, facts, evidence, calendar, faults>>

\* Faulty variant: the error of the thread is raised and the job forgotten.
WorkerForgotten(j) ==
  /\ pc[j] = "starting"
  /\ Goto(j, "done")
  /\ UNCHANGED <<tables, lock, tokens, facts, evidence, calendar, faults>>

WorkerDoesNotStart(j) ==
  /\ pc[j] = "starting"
  /\ MarkNeedsReview(j)
  /\ SetJob(j, "failed", "done", "done")
  /\ Forget({j})
  /\ reserved' = IF Kind[j] = "onboarding" THEN reserved \ {Token[j]} ELSE reserved
  /\ UNCHANGED <<server, listed, lock, facts, calendar>>

-----------------------------------------------------------------------------
(* The worker.  It owns the worker lock of its server and collection.lock  *)
(* until the thread leaves the with statements.                            *)

Working == {"locked", "started", "collecting", "judge", "activate", "snapshots",
            "unexpected", "exit"}

\* Faulty variant: one thread per job without the worker lock.
EveryThreadFree(j) == pc[j] \in Phases

WorkerFree(j) == \A k \in Neighbours(j) : pc[k] \notin Working

TakeLock(j) ==
  /\ pc[j] = "waiting"
  /\ WorkerFree(j)
  /\ lock = NoOne
  /\ lock' = Home[j]
  /\ atLock' = [atLock EXCEPT ![j] = IF Kind[j] = "onboarding" THEN NoOne ELSE dataset]
  /\ Goto(j, "locked")
  /\ UNCHANGED <<tables, tokens, facts, baseReport, baseDataset, exit0, calendar, faults>>

\* Faulty variant: a refused onboarding leaves its token pending.
LockBusyOnly(j) ==
  /\ pc[j] = "waiting"
  /\ WorkerFree(j)
  /\ lock # NoOne
  /\ SetJob(j, "failed", "done", "done")
  /\ UNCHANGED <<server, listed, lock, tokens, facts, evidence, calendar, upsertFaults>>

LockBusy(j) ==
  /\ pc[j] = "waiting"
  /\ WorkerFree(j)
  /\ lock # NoOne
  /\ MarkNeedsReview(j)
  /\ SetJob(j, "failed", "done", "done")
  /\ Forget({j})
  /\ UNCHANGED <<server, listed, lock, reserved, facts, calendar>>

\* Outside every try block: the thread ends and nobody is told.
LockFileUnavailable(j) ==
  /\ pc[j] = "waiting"
  /\ WorkerFree(j)
  /\ SaveFails
  /\ Goto(j, "lost")
  /\ UNCHANGED <<server, memory, listed, lock, tokens, facts, evidence, calendar, upsertFaults>>

\* Faulty variant: the authorisation given with the request is enough.
NeverUnauthorized(j) == Kind[j] = "retry" /\ FALSE

Unauthorized(j) == Kind[j] = "retry" /\ report # baseReport[j]

\* The authorisation is read again under the lock; what cannot be read is refused too.
\* Creating the log may fail.
Start(j) ==
  /\ pc[j] = "locked"
  /\ \/ Unauthorized(j) /\ SetJob(j, "failed", "exit", "unexpected")
     \/ Kind[j] = "retry" /\ SetJobAfterFault(j, "failed", "exit", "unexpected")
     \/ /\ ~Unauthorized(j)
        /\ \E next \in {"started", "unexpected"} : SetJob(j, "running", next, "unexpected")
  /\ UNCHANGED <<server, listed, lock, tokens, facts, evidence, calendar, upsertFaults>>

\* A refresh remembers the publications before its command.
StartCommand(j) ==
  /\ pc[j] = "started"
  /\ Kind[j] # "onboarding"
  /\ IF Kind[j] = "refresh"
     THEN /\ baseReport' = [baseReport EXCEPT ![j] = report]
          /\ baseDataset' = [baseDataset EXCEPT ![j] = dataset]
     ELSE UNCHANGED <<baseReport, baseDataset>>
  /\ Goto(j, "collecting")
  /\ UNCHANGED <<tables, lock, tokens, facts, exit0, atLock, calendar, faults>>

\* The collector insists on the pending record of the job that starts it.
IsOfJob(j) == registry[Token[j]] = "pending" /\ lastJob[Token[j]] = j

StartOnboarding(j) ==
  /\ pc[j] = "started"
  /\ Kind[j] = "onboarding"
  /\ SetJob(j, "running", IF IsOfJob(j) THEN "collecting" ELSE "judge", "judge")
  /\ UNCHANGED <<server, listed, lock, tokens, facts, evidence, calendar, upsertFaults>>

\* What a command leaves behind: nothing, a report without its database, or both.
Publishes(j) ==
  \/ UNCHANGED <<report, dataset, rows>>
  \/ report' = j /\ UNCHANGED <<dataset, rows>>
  \/ /\ report' = j
     /\ dataset' = j
     /\ \/ UNCHANGED rows
        \/ Kind[j] = "onboarding" /\ rows' = rows \cup {Token[j]}

\* Exit status zero is not a publication (tests/test_admin.py).
CommandEnds(j) ==
  /\ pc[j] = "collecting"
  /\ Publishes(j)
  /\ exit0' \in {exit0, exit0 \cup {j}}
  /\ Goto(j, "judge")
  /\ UNCHANGED <<tables, lock, tokens, orphans, baseReport, baseDataset, atLock, calendar, faults>>

\* _retry_resolution_evidence and _verify_refresh_publication up to the rows
NewPublication(j) ==
  /\ dataset = report
  /\ report # baseReport[j]
  /\ Kind[j] = "refresh" => report # baseDataset[j]

\* A new publication may still lack what was asked for; a rejected candidate
\* makes a failed command partial.
Judge(j) ==
  /\ pc[j] = "judge"
  /\ Kind[j] # "onboarding"
  /\ \/ SetJob(j, "partial", "exit", "unexpected")
     \/ j \notin exit0 /\ SetJob(j, "failed", "exit", "unexpected")
     \/ j \in exit0 /\ NewPublication(j) /\ SetJob(j, "succeeded", "exit", "unexpected")
  /\ UNCHANGED <<server, listed, lock, tokens, facts, evidence, calendar, upsertFaults>>

DailyFailed(j) ==
  /\ pc[j] = "judge"
  /\ Kind[j] = "onboarding"
  /\ j \notin exit0
  /\ TryUpsert(j, "failed")
  /\ SetJob(j, "failed", "exit", "unexpected")
  /\ UNCHANGED <<server, listed, lock, reserved, facts, evidence, calendar>>

\* There are no rows; or the stage cannot be saved, or the database read.
Unverified(j) ==
  /\ pc[j] = "judge"
  /\ Kind[j] = "onboarding"
  /\ j \in exit0
  /\ TryUpsert(j, "needs_review")
  /\ \/ Token[j] \notin rows /\ SetJob(j, "partial", "exit", "unexpected")
     \/ SetJobAfterFault(j, "partial", "exit", "unexpected")
  /\ UNCHANGED <<server, listed, lock, reserved, facts, evidence, calendar>>

\* Faulty variant: a collector that exits with zero has collected.
VerifiedByExit(j) ==
  /\ pc[j] = "judge"
  /\ Kind[j] = "onboarding"
  /\ j \in exit0
  /\ SetJob(j, "running", "activate", "unexpected")
  /\ UNCHANGED <<server, listed, lock, tokens, facts, evidence, calendar, upsertFaults>>

Verified(j) ==
  /\ pc[j] = "judge"
  /\ Kind[j] = "onboarding"
  /\ j \in exit0
  /\ Token[j] \in rows
  /\ SetJob(j, "running", "activate", "unexpected")
  /\ UNCHANGED <<server, listed, lock, tokens, facts, evidence, calendar, upsertFaults>>

Activate(j) ==
  /\ pc[j] = "activate"
  /\ Upserts(j, "active")
  /\ Goto(j, "snapshots")
  /\ UNCHANGED <<tables, lock, reserved, facts, evidence, calendar, saveFaults>>

ActivationFails(j) ==
  /\ pc[j] = "activate"
  /\ UpsertFails(Token[j], "active", j)
  /\ SetJob(j, "partial", "exit", "unexpected")
  /\ UNCHANGED <<server, listed, lock, reserved, facts, evidence, calendar>>

\* TVL, then DEX depth: the daily facts stay published whatever becomes of them.
Snapshots(j) ==
  /\ pc[j] = "snapshots"
  /\ \E status \in {"partial", "succeeded"} : SetJob(j, status, "exit", "unexpected")
  /\ UNCHANGED <<server, listed, lock, tokens, facts, evidence, calendar, upsertFaults>>

Unexpected(j) ==
  /\ pc[j] = "unexpected"
  /\ MarkNeedsReview(j)
  /\ SetJob(j, "failed", "exit", "exit")
  /\ UNCHANGED <<server, listed, lock, reserved, facts, evidence, calendar>>

Exit(j) ==
  /\ pc[j] = "exit"
  /\ lock' = NoOne
  /\ Goto(j, "done")
  /\ Forget({j})
  /\ UNCHANGED <<tables, tokens, facts, calendar, faults>>

-----------------------------------------------------------------------------
(* Processes, other programs and time.                                     *)

Crash(s) ==
  /\ restarts < Restarts
  /\ restarts' = restarts + 1
  /\ server[s] # "down"
  /\ server' = [server EXCEPT ![s] = "down"]
  /\ memory' = [j \in Jobs |-> IF Home[j] = s THEN "none" ELSE memory[j]]
  /\ pc' = [j \in Jobs |-> IF Home[j] = s /\ pc[j] # "none" THEN "done" ELSE pc[j]]
  /\ lock' = IF lock = s THEN NoOne ELSE lock
  /\ listed' = [listed EXCEPT ![s] = {}]
  /\ orphans' = orphans \cup {j \in Jobs : Home[j] = s /\ pc[j] = "collecting"}
  /\ Forget({j \in Jobs : Home[j] = s})
  /\ UNCHANGED <<file, tokens, report, dataset, rows, day, created, faults>>

Unfinished == {j \in Jobs : file[j] \in Live}

AfterRestart(j) == IF j \in Unfinished THEN "interrupted" ELSE file[j]

\* Whichever server a job belongs to, its unfinished file is rewritten; a file that
\* cannot be written is left.  Then the pending records are read.
LoadJobs(s) ==
  /\ server[s] = "down"
  /\ server' = [server EXCEPT ![s] = "loading"]
  /\ memory' = [j \in Jobs |-> IF Home[j] = s THEN AfterRestart(j) ELSE memory[j]]
  /\ \E kept \in SUBSET Unfinished :
       /\ MayFault(Cardinality(kept))
       /\ saveFaults' = saveFaults + Cardinality(kept)
       /\ file' = [j \in Jobs |-> IF j \in kept THEN file[j] ELSE AfterRestart(j)]
  /\ listed' = [listed EXCEPT ![s] = {<<t, lastJob[t]>> : t \in {u \in Tokens : registry[u] = "pending"}}]
  /\ UNCHANGED <<pc, lock, tokens, facts, evidence, calendar, upsertFaults>>

\* A record is written back as it was read, with its new status.
RewritePending(s) ==
  /\ server[s] = "loading"
  /\ \E record \in listed[s] :
       /\ listed' = [listed EXCEPT ![s] = @ \ {record}]
       /\ \/ Writes(record[1], "needs_review", record[2]) /\ UNCHANGED upsertFaults
          \/ UpsertFails(record[1], "needs_review", record[2])
  /\ UNCHANGED <<server, memory, file, pc, lock, reserved, facts, evidence, calendar, saveFaults>>

Ready(s) ==
  /\ server[s] = "loading"
  /\ listed[s] = {}
  /\ server' = [server EXCEPT ![s] = "up"]
  /\ UNCHANGED <<memory, file, listed, pc, lock, tokens, facts, evidence, calendar, faults>>

OrphanEnds(j) ==
  /\ j \in orphans
  /\ orphans' = orphans \ {j}
  /\ Publishes(j)
  /\ UNCHANGED <<tables, pc, lock, tokens, evidence, calendar, faults>>

TimerTakesLock ==
  /\ lock = NoOne
  /\ lock' = Timer
  /\ UNCHANGED <<tables, pc, tokens, facts, evidence, calendar, faults>>

\* one publication of the timer: nobody has seen its identity before
TimerPublishes ==
  /\ lock = Timer
  /\ \A j \in Jobs : Timer \notin {report, dataset, baseReport[j], baseDataset[j], atLock[j]}
  /\ report' = Timer
  /\ dataset' = Timer
  /\ UNCHANGED <<tables, pc, lock, tokens, rows, orphans, evidence, calendar, faults>>

TimerReleases ==
  /\ lock = Timer
  /\ lock' = NoOne
  /\ UNCHANGED <<tables, pc, tokens, facts, evidence, calendar, faults>>

NewDay ==
  /\ day < Days
  /\ day' = day + 1
  /\ UNCHANGED <<tables, pc, lock, tokens, facts, evidence, created, restarts, faults>>

Request(j) == Permit(j) \/ CreateJob(j) \/ CreateOnboardingJob(j)

WorkerStep(j) ==
  \/ StartWorker(j) \/ WorkerDoesNotStart(j)
  \/ TakeLock(j) \/ LockBusy(j) \/ LockFileUnavailable(j)
  \/ Start(j) \/ StartCommand(j) \/ StartOnboarding(j) \/ CommandEnds(j)
  \/ Judge(j) \/ DailyFailed(j) \/ Unverified(j) \/ Verified(j)
  \/ Activate(j) \/ ActivationFails(j) \/ Snapshots(j)
  \/ Unexpected(j) \/ Exit(j)

Next ==
  \/ \E j \in Jobs : Request(j) \/ WorkerStep(j) \/ OrphanEnds(j)
  \/ \E s \in Servers : Crash(s) \/ LoadJobs(s) \/ RewritePending(s) \/ Ready(s)
  \/ TimerTakesLock \/ TimerPublishes \/ TimerReleases \/ NewDay

Spec == Init /\ [][Next]_vars

-----------------------------------------------------------------------------

\* The variables have their types.
TypeOK ==
  /\ server \in [Servers -> {"down", "loading", "up"}]
  /\ memory \in [Jobs -> Statuses]
  /\ file \in [Jobs -> Statuses]
  /\ pc \in [Jobs -> Phases]
  /\ lock \in Holders \cup {NoOne}
  /\ registry \in [Tokens -> Registered]
  /\ lastJob \in [Tokens -> Jobs \cup {NoOne}]
  /\ reserved \subseteq Tokens
  /\ listed \in [Servers -> SUBSET (Tokens \X (Jobs \cup {NoOne}))]
  /\ report \in Publishers /\ dataset \in Publishers
  /\ rows \subseteq Tokens
  /\ baseReport \in [Jobs -> Publishers]
  /\ baseDataset \in [Jobs -> Publishers]
  /\ atLock \in [Jobs -> Publishers]
  /\ exit0 \subseteq Jobs /\ orphans \subseteq Jobs
  /\ day \in Nat
  /\ created \in [Jobs -> Nat]
  /\ saveFaults \in Nat /\ upsertFaults \in Nat /\ restarts \in Nat

\* The stages of a thread that still has to record how its job ended.
Manned == {"starting", "waiting"} \cup (Working \ {"exit"})

\* A job that is queued or running in the table has a thread on its way to end it,
\* whichever of its writes fail: without one it would refuse every later job.  The one
\* exception is the thread that could not open collection.lock: it is gone, and its job
\* stays until the server restarts (admin.py:2744, and NoQueuedGhost).
QueuedHasWorker ==
  \A j \in Jobs : memory[j] \in Live =>
                     pc[j] \in Manned \/ (pc[j] = "lost" /\ saveFaults > 0)

\* No job stays queued when its worker is gone (tests/test_admin.py,
\* test_job_persistence_failure_does_not_leave_a_queued_ghost).
NoQueuedGhost == \A j \in Jobs : memory[j] \in Live => pc[j] # "lost"

\* As long as the registry can be written, a pending token waits for a live job of a
\* running server: a refused lock, a worker that does not start, an unexpected error
\* and a restart all reconcile it.
PendingHasWorker ==
  upsertFaults = 0 =>
    \A t \in Tokens :
      registry[t] = "pending" =>
        /\ lastJob[t] \in Jobs
        /\ server[Home[lastJob[t]]] = "up" => memory[lastJob[t]] \in Live

\* A refresh or retry that reports success has seen a publication committed after it
\* got collection.lock, never one from the time it was queued.
SuccessIsNews ==
  \A j \in Jobs :
    Kind[j] # "onboarding" /\ memory[j] = "succeeded" /\ pc[j] \in Working
      => dataset # atLock[j]

\* A token is active only with rows in the database, and an onboarding job that
\* succeeded has activated its token.
ActivationIsEarned ==
  /\ \A t \in Tokens : registry[t] = "active" => t \in rows
  /\ \A j \in Jobs : Kind[j] = "onboarding" /\ memory[j] = "succeeded"
                       => registry[Token[j]] = "active"

\* The public action never has more accepted jobs a day than its budget.
BudgetHolds ==
  \A d \in 0 .. day :
    Cardinality({j \in Public : file[j] # "none" /\ created[j] = d}) <= Budget

\* The lock a worker is refused belongs to another program, never to an earlier job of
\* its own server, although that job looks finished before it gives the lock back.
OwnJobsDoNotCollide ==
  [][\A j \in Jobs : LockBusy(j) => lock # Home[j]]_vars

\* A job is reported as interrupted only when its process has stopped ("The
\* administrator process stopped before the job completed.", dashboard/admin.py).
InterruptedMeansStopped ==
  [][\A j \in Jobs : file[j] \in Live /\ file'[j] = "interrupted"
                       => server[Home[j]] # "up"]_vars
=============================================================================
