-------------------------- MODULE AdminJobs_proofs --------------------------
(***************************************************************************)
(* Theorems about the job table and its worker, for any number of server   *)
(* processes, jobs, tokens, faults and restarts.  Who owns collection.lock *)
(* is tied to where the workers are, and the lists a restarted process has *)
(* read are tied to the tokens it still has to reconcile.                  *)
(***************************************************************************)
EXTENDS AdminJobs, FiniteSetTheorems, TLAPS

\* The groups of TypeOK.
JobTypes ==
  /\ memory \in [Jobs -> Statuses]
  /\ file \in [Jobs -> Statuses]
  /\ pc \in [Jobs -> Phases]
  /\ saveFaults \in Nat

LockTypes ==
  /\ server \in [Servers -> {"down", "loading", "up"}]
  /\ lock \in Holders \cup {NoOne}

TokenTypes ==
  /\ registry \in [Tokens -> Registered]
  /\ lastJob \in [Tokens -> Jobs \cup {NoOne}]
  /\ reserved \subseteq Tokens
  /\ listed \in [Servers -> SUBSET (Tokens \X (Jobs \cup {NoOne}))]
  /\ upsertFaults \in Nat

FactTypes ==
  /\ report \in Publishers
  /\ dataset \in Publishers
  /\ rows \subseteq Tokens
  /\ orphans \subseteq Jobs

EvidenceTypes ==
  /\ baseReport \in [Jobs -> Publishers]
  /\ baseDataset \in [Jobs -> Publishers]
  /\ atLock \in [Jobs -> Publishers]
  /\ exit0 \subseteq Jobs

CalendarTypes ==
  /\ day \in Nat
  /\ created \in [Jobs -> Nat]
  /\ restarts \in Nat

LEMMA TypeGroups ==
  TypeOK <=> /\ JobTypes /\ LockTypes /\ TokenTypes /\ FactTypes /\ EvidenceTypes
             /\ CalendarTypes
BY DEF TypeOK, JobTypes, LockTypes, TokenTypes, FactTypes, EvidenceTypes, CalendarTypes

LEMMA TypeGroupsNext ==
  JobTypes' /\ LockTypes' /\ TokenTypes' /\ FactTypes' /\ EvidenceTypes' /\ CalendarTypes'
    => TypeOK'
BY DEF TypeOK, JobTypes, LockTypes, TokenTypes, FactTypes, EvidenceTypes, CalendarTypes

LEMMA Homes == /\ \A j \in Jobs : Home[j] \in Servers /\ Token[j] \in Tokens
               /\ \A j \in Jobs : Home[j] # Timer /\ Home[j] # NoOne
               /\ Faults \in Nat
BY JobsOK, NamesOK DEF JobsOK, NamesOK

-----------------------------------------------------------------------------
(* What the shared parts of the actions keep.                              *)

LEMMA SetJobType ==
  ASSUME JobTypes, NEW j \in Jobs, NEW status \in Statuses, NEW next \in Phases,
         NEW onError \in Phases, SetJob(j, status, next, onError) \/ SetJobAfterFault(j, status, next, onError)
  PROVE  JobTypes'
BY DEF SetJob, SetJobAfterFault, Saves, SaveFails, MayFault, Goto, JobTypes

LEMMA UpsertType ==
  ASSUME TokenTypes, NEW j \in Jobs, NEW status \in Registered, TryUpsert(j, status)
  PROVE  /\ registry' \in [Tokens -> Registered]
         /\ lastJob' \in [Tokens -> Jobs \cup {NoOne}]
         /\ upsertFaults' \in Nat
BY Homes DEF TryUpsert, Upserts, UpsertFails, Writes, TokenTypes

LEMMA MarkType ==
  ASSUME TokenTypes, NEW j \in Jobs, MarkNeedsReview(j)
  PROVE  /\ registry' \in [Tokens -> Registered]
         /\ lastJob' \in [Tokens -> Jobs \cup {NoOne}]
         /\ upsertFaults' \in Nat
<1>1. CASE TryUpsert(j, "needs_review")
  BY <1>1, UpsertType DEF Registered
<1>2. CASE UNCHANGED <<registry, lastJob, upsertFaults>>
  BY <1>2 DEF TokenTypes
<1> QED BY <1>1, <1>2 DEF MarkNeedsReview

LEMMA ForgetType ==
  ASSUME EvidenceTypes, NEW ending, Forget(ending)
  PROVE  EvidenceTypes'
BY DEF Forget, EvidenceTypes, Publishers

LEMMA PublishesType ==
  ASSUME FactTypes, NEW j \in Jobs, Publishes(j)
  PROVE  report' \in Publishers /\ dataset' \in Publishers /\ rows' \subseteq Tokens
BY Homes DEF Publishes, FactTypes, Publishers

\* Whatever becomes of a request, the job it may create and its evidence are well typed.
LEMMA RequestType ==
  ASSUME TypeOK, NEW j \in Jobs, Refused(j) \/ Unsaved(j) \/ Accepted(j)
  PROVE  JobTypes' /\ EvidenceTypes' /\ created' \in [Jobs -> Nat]
<1> USE TypeGroups
<1>1. CASE Refused(j)
  BY <1>1, ForgetType DEF Refused, Goto, JobTypes, Phases, CalendarTypes
<1>2. CASE Unsaved(j)
  BY <1>2, ForgetType DEF Unsaved, SaveFails, Goto, JobTypes, Phases, CalendarTypes
<1>3. CASE Accepted(j)
  <2>1. JobTypes'
    BY <1>3 DEF Accepted, Saves, Goto, JobTypes, Phases, Statuses, Live
  <2>2. baseReport' \in [Jobs -> Publishers]
    BY <1>3 DEF Accepted, ReadsReport, EvidenceTypes, FactTypes
  <2>3. created' \in [Jobs -> Nat]
    BY <1>3 DEF Accepted, CalendarTypes
  <2> QED BY <1>3, <2>1, <2>2, <2>3 DEF Accepted, EvidenceTypes
<1> QED BY <1>1, <1>2, <1>3

-----------------------------------------------------------------------------

LEMMA InitialTypes == Init => TypeOK
BY DEF Init, TypeOK, Statuses, Phases, Registered, Holders, Publishers

LEMMA TypeStep == TypeOK /\ [Next]_vars => TypeOK'
<1> SUFFICES ASSUME TypeOK, [Next]_vars PROVE TypeOK'
  OBVIOUS
<1> USE TypeGroups, TypeGroupsNext
<1>1. ASSUME NEW j \in Jobs, Permit(j) PROVE TypeOK'
  <2>1. JobTypes'
    BY <1>1 DEF Permit, Goto, JobTypes, Phases, tables, faults
  <2>2. EvidenceTypes'
    BY <1>1 DEF Permit, ReadsReport, EvidenceTypes, FactTypes
  <2>3. UNCHANGED <<server, lock, registry, lastJob, reserved, listed, upsertFaults, report,
     dataset, rows, orphans, day, created, restarts>>
    BY <1>1 DEF Permit, tables, facts, evidence, tokens, calendar, faults
  <2> QED BY <2>1, <2>2, <2>3 DEF LockTypes, TokenTypes, FactTypes, CalendarTypes
<1>2. ASSUME NEW j \in Jobs, CreateJob(j) PROVE TypeOK'
  <2>1. JobTypes'
    BY <1>2, RequestType DEF CreateJob
  <2>2. EvidenceTypes'
    BY <1>2, RequestType DEF CreateJob
  <2>3. CalendarTypes'
    BY <1>2, RequestType DEF CreateJob, CalendarTypes
  <2>4. UNCHANGED <<server, lock, registry, lastJob, reserved, listed, upsertFaults, report,
     dataset, rows, orphans>>
    BY <1>2 DEF CreateJob, tables, facts, evidence, tokens, calendar, faults
  <2> QED BY <2>1, <2>2, <2>3, <2>4 DEF LockTypes, TokenTypes, FactTypes
<1>3. ASSUME NEW j \in Jobs, CreateOnboardingJob(j) PROVE TypeOK'
  <2>1. UNCHANGED <<server, lock, listed, report, dataset, rows, orphans, day, restarts>>
    BY <1>3 DEF CreateOnboardingJob, facts
  <2>2. CASE (Refused(j) \/ Unsaved(j)) /\ UNCHANGED <<tokens, upsertFaults>>
    BY <2>1, <2>2, RequestType DEF LockTypes, TokenTypes, FactTypes, CalendarTypes, tokens
  <2>3. CASE /\ UpsertFails(Token[j], "pending", j)
             /\ Goto(j, "done")
             /\ file' \in {file, [file EXCEPT ![j] = "queued"]}
             /\ UNCHANGED <<memory, created, evidence, reserved, saveFaults>>
    <3>1. JobTypes'
      BY <2>3 DEF Goto, JobTypes, Phases, Statuses, Live
    <3>2. TokenTypes'
      BY <2>1, <2>3, UpsertType DEF TryUpsert, TokenTypes, Registered
    <3>3. EvidenceTypes' /\ CalendarTypes' /\ LockTypes' /\ FactTypes'
      BY <2>1, <2>3 DEF EvidenceTypes, CalendarTypes, LockTypes, FactTypes, evidence
    <3> QED BY <3>1, <3>2, <3>3
  <2>4. CASE Accepted(j) /\ Upserts(j, "pending") /\ reserved' = reserved \cup {Token[j]}
    <3>1. TokenTypes'
      BY <2>1, <2>4, UpsertType, Homes DEF TryUpsert, TokenTypes, Registered
    <3> QED BY <2>1, <2>4, <3>1, RequestType DEF LockTypes, FactTypes, CalendarTypes
  <2> QED BY <1>3, <2>2, <2>3, <2>4 DEF CreateOnboardingJob
<1>4. ASSUME NEW j \in Jobs, StartWorker(j) PROVE TypeOK'
  <2>1. JobTypes'
    BY <1>4 DEF StartWorker, Goto, JobTypes, Phases, tables, faults
  <2>2. UNCHANGED <<server, lock, registry, lastJob, reserved, listed, upsertFaults, report,
     dataset, rows, orphans, baseReport, baseDataset, atLock, exit0, day, created, restarts>>
    BY <1>4 DEF StartWorker, tables, facts, evidence, tokens, calendar, faults
  <2> QED BY <2>1, <2>2 DEF LockTypes, TokenTypes, FactTypes, EvidenceTypes, CalendarTypes
<1>5. ASSUME NEW j \in Jobs, WorkerDoesNotStart(j) PROVE TypeOK'
  <2>1. JobTypes'
    BY <1>5, SetJobType DEF WorkerDoesNotStart, Statuses, Live, Ended, Phases
  <2>2. TokenTypes'
    BY <1>5, MarkType DEF WorkerDoesNotStart, TokenTypes
  <2>3. EvidenceTypes'
    BY <1>5, ForgetType DEF WorkerDoesNotStart
  <2>4. UNCHANGED <<server, lock, report, dataset, rows, orphans, day, created, restarts>>
    BY <1>5 DEF WorkerDoesNotStart, tables, facts, evidence, tokens, calendar, faults
  <2> QED BY <2>1, <2>2, <2>3, <2>4 DEF LockTypes, FactTypes, CalendarTypes
<1>6. ASSUME NEW j \in Jobs, TakeLock(j) PROVE TypeOK'
  <2>1. JobTypes'
    BY <1>6 DEF TakeLock, Goto, JobTypes, Phases, tables, faults
  <2>2. LockTypes'
    BY <1>6, Homes DEF TakeLock, LockTypes, Holders, tables
  <2>3. EvidenceTypes'
    BY <1>6 DEF TakeLock, EvidenceTypes, FactTypes, Publishers
  <2>4. UNCHANGED <<registry, lastJob, reserved, listed, upsertFaults, report, dataset, rows,
     orphans, day, created, restarts>>
    BY <1>6 DEF TakeLock, tables, facts, evidence, tokens, calendar, faults
  <2> QED BY <2>1, <2>2, <2>3, <2>4 DEF TokenTypes, FactTypes, CalendarTypes
<1>7. ASSUME NEW j \in Jobs, LockBusy(j) PROVE TypeOK'
  <2>1. JobTypes'
    BY <1>7, SetJobType DEF LockBusy, Statuses, Live, Ended, Phases
  <2>2. TokenTypes'
    BY <1>7, MarkType DEF LockBusy, TokenTypes
  <2>3. EvidenceTypes'
    BY <1>7, ForgetType DEF LockBusy
  <2>4. UNCHANGED <<server, lock, report, dataset, rows, orphans, day, created, restarts>>
    BY <1>7 DEF LockBusy, tables, facts, evidence, tokens, calendar, faults
  <2> QED BY <2>1, <2>2, <2>3, <2>4 DEF LockTypes, FactTypes, CalendarTypes
<1>8. ASSUME NEW j \in Jobs, LockFileUnavailable(j) PROVE TypeOK'
  <2>1. JobTypes'
    BY <1>8 DEF LockFileUnavailable, SaveFails, Goto, JobTypes, Phases
  <2>2. UNCHANGED <<server, lock, registry, lastJob, reserved, listed, upsertFaults, report,
     dataset, rows, orphans, baseReport, baseDataset, atLock, exit0, day, created, restarts>>
    BY <1>8 DEF LockFileUnavailable, tables, facts, evidence, tokens, calendar, faults
  <2> QED BY <2>1, <2>2 DEF LockTypes, TokenTypes, FactTypes, EvidenceTypes, CalendarTypes
<1>9. ASSUME NEW j \in Jobs, Start(j) PROVE TypeOK'
  <2>1. JobTypes'
    BY <1>9, SetJobType DEF Start, Statuses, Live, Ended, Phases
  <2>2. UNCHANGED <<server, lock, registry, lastJob, reserved, listed, upsertFaults, report,
     dataset, rows, orphans, baseReport, baseDataset, atLock, exit0, day, created, restarts>>
    BY <1>9 DEF Start, tables, facts, evidence, tokens, calendar, faults
  <2> QED BY <2>1, <2>2 DEF LockTypes, TokenTypes, FactTypes, EvidenceTypes, CalendarTypes
<1>10. ASSUME NEW j \in Jobs, StartCommand(j) PROVE TypeOK'
  <2>1. JobTypes'
    BY <1>10 DEF StartCommand, Goto, JobTypes, Phases, tables, faults
  <2>2. EvidenceTypes'
    BY <1>10 DEF StartCommand, EvidenceTypes, FactTypes
  <2>3. UNCHANGED <<server, lock, registry, lastJob, reserved, listed, upsertFaults, report,
     dataset, rows, orphans, day, created, restarts>>
    BY <1>10 DEF StartCommand, tables, facts, evidence, tokens, calendar, faults
  <2> QED BY <2>1, <2>2, <2>3 DEF LockTypes, TokenTypes, FactTypes, CalendarTypes
<1>11. ASSUME NEW j \in Jobs, StartOnboarding(j) PROVE TypeOK'
  <2>1. JobTypes'
    BY <1>11, SetJobType DEF StartOnboarding, Statuses, Live, Ended, Phases
  <2>2. UNCHANGED <<server, lock, registry, lastJob, reserved, listed, upsertFaults, report,
     dataset, rows, orphans, baseReport, baseDataset, atLock, exit0, day, created, restarts>>
    BY <1>11 DEF StartOnboarding, tables, facts, evidence, tokens, calendar, faults
  <2> QED BY <2>1, <2>2 DEF LockTypes, TokenTypes, FactTypes, EvidenceTypes, CalendarTypes
<1>12. ASSUME NEW j \in Jobs, CommandEnds(j) PROVE TypeOK'
  <2>1. JobTypes'
    BY <1>12 DEF CommandEnds, Goto, JobTypes, Phases, tables, faults
  <2>2. FactTypes'
    BY <1>12, PublishesType DEF CommandEnds, FactTypes
  <2>3. EvidenceTypes'
    BY <1>12 DEF CommandEnds, EvidenceTypes
  <2>4. UNCHANGED <<server, lock, registry, lastJob, reserved, listed, upsertFaults, day,
     created, restarts>>
    BY <1>12 DEF CommandEnds, tables, facts, evidence, tokens, calendar, faults
  <2> QED BY <2>1, <2>2, <2>3, <2>4 DEF LockTypes, TokenTypes, CalendarTypes
<1>13. ASSUME NEW j \in Jobs, Judge(j) PROVE TypeOK'
  <2>1. JobTypes'
    BY <1>13, SetJobType DEF Judge, Statuses, Live, Ended, Phases
  <2>2. UNCHANGED <<server, lock, registry, lastJob, reserved, listed, upsertFaults, report,
     dataset, rows, orphans, baseReport, baseDataset, atLock, exit0, day, created, restarts>>
    BY <1>13 DEF Judge, tables, facts, evidence, tokens, calendar, faults
  <2> QED BY <2>1, <2>2 DEF LockTypes, TokenTypes, FactTypes, EvidenceTypes, CalendarTypes
<1>14. ASSUME NEW j \in Jobs, DailyFailed(j) PROVE TypeOK'
  <2>1. JobTypes'
    BY <1>14, SetJobType DEF DailyFailed, Statuses, Live, Ended, Phases
  <2>2. TokenTypes'
    BY <1>14, UpsertType DEF DailyFailed, TokenTypes, Registered
  <2>3. UNCHANGED <<server, lock, report, dataset, rows, orphans, baseReport, baseDataset,
     atLock, exit0, day, created, restarts>>
    BY <1>14 DEF DailyFailed, tables, facts, evidence, tokens, calendar, faults
  <2> QED BY <2>1, <2>2, <2>3 DEF LockTypes, FactTypes, EvidenceTypes, CalendarTypes
<1>15. ASSUME NEW j \in Jobs, Unverified(j) PROVE TypeOK'
  <2>1. JobTypes'
    <3>1. CASE SetJob(j, "partial", "exit", "unexpected")
      BY <3>1, SetJobType DEF Statuses, Live, Ended, Phases
    <3>2. CASE SetJobAfterFault(j, "partial", "exit", "unexpected")
      BY <3>2, SetJobType DEF Statuses, Live, Ended, Phases
    <3> QED BY <1>15, <3>1, <3>2 DEF Unverified
  <2>2. TokenTypes'
    BY <1>15, UpsertType DEF Unverified, TokenTypes, Registered
  <2>3. UNCHANGED <<server, lock, report, dataset, rows, orphans, baseReport, baseDataset, atLock,
                    exit0, day, created, restarts>>
    BY <1>15 DEF Unverified, facts, evidence, calendar
  <2> QED BY <2>1, <2>2, <2>3 DEF LockTypes, FactTypes, EvidenceTypes, CalendarTypes
<1>16. ASSUME NEW j \in Jobs, Verified(j) PROVE TypeOK'
  <2>1. JobTypes'
    BY <1>16, SetJobType DEF Verified, Statuses, Live, Ended, Phases
  <2>2. UNCHANGED <<server, lock, registry, lastJob, reserved, listed, upsertFaults, report,
     dataset, rows, orphans, baseReport, baseDataset, atLock, exit0, day, created, restarts>>
    BY <1>16 DEF Verified, tables, facts, evidence, tokens, calendar, faults
  <2> QED BY <2>1, <2>2 DEF LockTypes, TokenTypes, FactTypes, EvidenceTypes, CalendarTypes
<1>17. ASSUME NEW j \in Jobs, Activate(j) PROVE TypeOK'
  <2>1. JobTypes'
    BY <1>17 DEF Activate, Goto, JobTypes, Phases, tables
  <2>2. TokenTypes'
    BY <1>17, UpsertType DEF Activate, TryUpsert, TokenTypes, Registered, tables
  <2>3. UNCHANGED <<server, lock, report, dataset, rows, orphans, baseReport, baseDataset,
     atLock, exit0, day, created, restarts>>
    BY <1>17 DEF Activate, tables, facts, evidence, tokens, calendar, faults
  <2> QED BY <2>1, <2>2, <2>3 DEF LockTypes, FactTypes, EvidenceTypes, CalendarTypes
<1>18. ASSUME NEW j \in Jobs, ActivationFails(j) PROVE TypeOK'
  <2>1. JobTypes'
    BY <1>18, SetJobType DEF ActivationFails, Statuses, Live, Ended, Phases
  <2>2. TokenTypes'
    BY <1>18, UpsertType DEF ActivationFails, TryUpsert, TokenTypes, Registered
  <2>3. UNCHANGED <<server, lock, report, dataset, rows, orphans, baseReport, baseDataset,
     atLock, exit0, day, created, restarts>>
    BY <1>18 DEF ActivationFails, tables, facts, evidence, tokens, calendar, faults
  <2> QED BY <2>1, <2>2, <2>3 DEF LockTypes, FactTypes, EvidenceTypes, CalendarTypes
<1>19. ASSUME NEW j \in Jobs, Snapshots(j) PROVE TypeOK'
  <2>1. JobTypes'
    BY <1>19, SetJobType DEF Snapshots, Statuses, Live, Ended, Phases
  <2>2. UNCHANGED <<server, lock, registry, lastJob, reserved, listed, upsertFaults, report,
     dataset, rows, orphans, baseReport, baseDataset, atLock, exit0, day, created, restarts>>
    BY <1>19 DEF Snapshots, tables, facts, evidence, tokens, calendar, faults
  <2> QED BY <2>1, <2>2 DEF LockTypes, TokenTypes, FactTypes, EvidenceTypes, CalendarTypes
<1>20. ASSUME NEW j \in Jobs, Unexpected(j) PROVE TypeOK'
  <2>1. JobTypes'
    BY <1>20, SetJobType DEF Unexpected, Statuses, Live, Ended, Phases
  <2>2. TokenTypes'
    BY <1>20, MarkType DEF Unexpected, TokenTypes
  <2>3. UNCHANGED <<server, lock, report, dataset, rows, orphans, baseReport, baseDataset,
     atLock, exit0, day, created, restarts>>
    BY <1>20 DEF Unexpected, tables, facts, evidence, tokens, calendar, faults
  <2> QED BY <2>1, <2>2, <2>3 DEF LockTypes, FactTypes, EvidenceTypes, CalendarTypes
<1>21. ASSUME NEW j \in Jobs, Exit(j) PROVE TypeOK'
  <2>1. JobTypes'
    BY <1>21 DEF Exit, Goto, JobTypes, Phases, tables, faults
  <2>2. LockTypes'
    BY <1>21 DEF Exit, LockTypes, tables
  <2>3. EvidenceTypes'
    BY <1>21, ForgetType DEF Exit
  <2>4. UNCHANGED <<registry, lastJob, reserved, listed, upsertFaults, report, dataset, rows,
     orphans, day, created, restarts>>
    BY <1>21 DEF Exit, tables, facts, evidence, tokens, calendar, faults
  <2> QED BY <2>1, <2>2, <2>3, <2>4 DEF TokenTypes, FactTypes, CalendarTypes
<1>22. ASSUME NEW j \in Jobs, OrphanEnds(j) PROVE TypeOK'
  <2>1. FactTypes'
    BY <1>22, PublishesType DEF OrphanEnds, FactTypes
  <2>2. UNCHANGED <<memory, file, pc, saveFaults, server, lock, registry, lastJob, reserved,
     listed, upsertFaults, baseReport, baseDataset, atLock, exit0, day, created, restarts>>
    BY <1>22 DEF OrphanEnds, tables, facts, evidence, tokens, calendar, faults
  <2> QED BY <2>1, <2>2 DEF JobTypes, LockTypes, TokenTypes, EvidenceTypes, CalendarTypes
<1>23. ASSUME NEW s \in Servers, Crash(s) PROVE TypeOK'
  <2>1. JobTypes'
    BY <1>23 DEF Crash, JobTypes, Statuses, Phases, faults
  <2>2. LockTypes'
    BY <1>23 DEF Crash, LockTypes
  <2>3. TokenTypes'
    BY <1>23 DEF Crash, TokenTypes, tokens, faults
  <2>4. FactTypes'
    BY <1>23 DEF Crash, FactTypes
  <2>5. EvidenceTypes'
    BY <1>23, ForgetType DEF Crash
  <2>6. CalendarTypes'
    BY <1>23 DEF Crash, CalendarTypes
  <2> QED BY <2>1, <2>2, <2>3, <2>4, <2>5, <2>6
<1>24. ASSUME NEW s \in Servers, LoadJobs(s) PROVE TypeOK'
  <2>1. JobTypes'
    <3>1. PICK kept \in SUBSET Unfinished :
             /\ saveFaults' = saveFaults + Cardinality(kept)
             /\ file' = [j \in Jobs |-> IF j \in kept THEN file[j] ELSE AfterRestart(j)]
      BY <1>24 DEF LoadJobs
    <3>2. Cardinality(kept) \in Nat
      BY JobsOK, FS_Subset, FS_CardinalityType DEF JobsOK, Unfinished
    <3>3. \A j \in Jobs : AfterRestart(j) \in Statuses
      BY DEF AfterRestart, JobTypes, Statuses, Ended
    <3> QED BY <1>24, <3>1, <3>2, <3>3 DEF LoadJobs, JobTypes
  <2>2. LockTypes'
    BY <1>24 DEF LoadJobs, LockTypes
  <2>3. TokenTypes'
    <3>1. {<<t, lastJob[t]>> : t \in {u \in Tokens : registry[u] = "pending"}}
            \subseteq Tokens \X (Jobs \cup {NoOne})
      BY DEF TokenTypes
    <3> QED BY <1>24, <3>1 DEF LoadJobs, TokenTypes, tokens
  <2>4. UNCHANGED <<report, dataset, rows, orphans, baseReport, baseDataset, atLock, exit0, day,
                    created, restarts>>
    BY <1>24 DEF LoadJobs, facts, evidence, calendar
  <2> QED BY <2>1, <2>2, <2>3, <2>4 DEF FactTypes, EvidenceTypes, CalendarTypes
<1>25. ASSUME NEW s \in Servers, RewritePending(s) PROVE TypeOK'
  <2>1. TokenTypes'
    <3>1. PICK record \in listed[s] :
             /\ listed' = [listed EXCEPT ![s] = @ \ {record}]
             /\ \/ Writes(record[1], "needs_review", record[2]) /\ UNCHANGED upsertFaults
                \/ UpsertFails(record[1], "needs_review", record[2])
      BY <1>25 DEF RewritePending
    <3>2. record \in Tokens \X (Jobs \cup {NoOne})
      BY DEF TokenTypes
    <3>3. record[1] \in Tokens /\ record[2] \in Jobs \cup {NoOne}
      BY <3>2
    <3> QED BY <1>25, <3>1, <3>3 DEF RewritePending, UpsertFails, Writes, TokenTypes, Registered
  <2>2. UNCHANGED <<memory, file, pc, saveFaults, server, lock, report, dataset, rows, orphans,
     baseReport, baseDataset, atLock, exit0, day, created, restarts>>
    BY <1>25 DEF RewritePending, tables, facts, evidence, tokens, calendar, faults
  <2> QED BY <2>1, <2>2 DEF JobTypes, LockTypes, FactTypes, EvidenceTypes, CalendarTypes
<1>26. ASSUME NEW s \in Servers, Ready(s) PROVE TypeOK'
  <2>1. LockTypes'
    BY <1>26 DEF Ready, LockTypes
  <2>2. UNCHANGED <<memory, file, pc, saveFaults, registry, lastJob, reserved, listed,
     upsertFaults, report, dataset, rows, orphans, baseReport, baseDataset, atLock, exit0, day,
     created, restarts>>
    BY <1>26 DEF Ready, tables, facts, evidence, tokens, calendar, faults
  <2> QED BY <2>1, <2>2 DEF JobTypes, TokenTypes, FactTypes, EvidenceTypes, CalendarTypes
<1>27. CASE TimerTakesLock \/ TimerReleases
  BY <1>27 DEF TimerTakesLock, TimerReleases, TypeOK, Holders, tables, facts, evidence, tokens,
     calendar, faults
<1>28. CASE TimerPublishes
  BY <1>28 DEF TimerPublishes, TypeOK, Publishers, tables, facts, evidence, tokens, calendar,
     faults
<1>29. CASE NewDay
  BY <1>29 DEF NewDay, TypeOK, tables, facts, evidence, tokens, calendar, faults
<1>30. CASE UNCHANGED vars
  BY <1>30 DEF vars, TypeOK, tables, facts, evidence, tokens, calendar, faults
<1> QED
  BY <1>1, <1>2, <1>3, <1>4, <1>5, <1>6, <1>7, <1>8, <1>9, <1>10, <1>11, <1>12, <1>13, <1>14,
     <1>15, <1>16, <1>17, <1>18, <1>19, <1>20, <1>21, <1>22, <1>23, <1>24, <1>25, <1>26, <1>27,
     <1>28, <1>29, <1>30
  DEF Next, Request, WorkerStep

\* Every variable keeps its type.
THEOREM TypeCorrect == Spec => []TypeOK
BY InitialTypes, TypeStep, PTL DEF Spec

-----------------------------------------------------------------------------
(* Steps of one job.                                                       *)

JobStep(j) == Request(j) \/ WorkerStep(j)

LEMMA SetJobMove ==
  ASSUME JobTypes, NEW j \in Jobs, NEW status, NEW next, NEW onError,
         SetJob(j, status, next, onError) \/ SetJobAfterFault(j, status, next, onError)
  PROVE  /\ memory'[j] = status
         /\ pc'[j] \in {next, onError}
         /\ \A k \in Jobs : k # j => memory'[k] = memory[k] /\ pc'[k] = pc[k]
BY DEF SetJob, SetJobAfterFault, Goto, JobTypes

\* A step of one job leaves the status and the thread of every other job alone.
LEMMA JobFrame ==
  ASSUME JobTypes, NEW j \in Jobs, JobStep(j)
  PROVE  \A k \in Jobs : k # j => memory'[k] = memory[k] /\ pc'[k] = pc[k]
<1> USE DEF JobTypes
<1>1. CASE Permit(j)
  BY <1>1 DEF Permit, Goto, tables
<1>2. CASE CreateJob(j)
  BY <1>2 DEF CreateJob, Refused, Unsaved, Accepted, SaveFails, Saves, Goto, tables
<1>3. CASE CreateOnboardingJob(j)
  BY <1>3 DEF CreateOnboardingJob, Refused, Unsaved, Accepted, SaveFails, Saves, Goto, tables
<1>4. CASE StartWorker(j)
  BY <1>4 DEF StartWorker, Goto, tables
<1>5. CASE WorkerDoesNotStart(j)
  BY <1>5, SetJobMove DEF WorkerDoesNotStart
<1>6. CASE TakeLock(j)
  BY <1>6 DEF TakeLock, Goto, tables
<1>7. CASE LockBusy(j)
  BY <1>7, SetJobMove DEF LockBusy
<1>8. CASE LockFileUnavailable(j)
  BY <1>8 DEF LockFileUnavailable, Goto, tables
<1>9. CASE Start(j)
  BY <1>9, SetJobMove DEF Start
<1>10. CASE StartCommand(j)
  BY <1>10 DEF StartCommand, Goto, tables
<1>11. CASE StartOnboarding(j)
  BY <1>11, SetJobMove DEF StartOnboarding
<1>12. CASE CommandEnds(j)
  BY <1>12 DEF CommandEnds, Goto, tables
<1>13. CASE Judge(j)
  BY <1>13, SetJobMove DEF Judge
<1>14. CASE DailyFailed(j)
  BY <1>14, SetJobMove DEF DailyFailed
<1>15. CASE Unverified(j)
  BY <1>15, SetJobMove DEF Unverified, Goto
<1>16. CASE Verified(j)
  BY <1>16, SetJobMove DEF Verified
<1>17. CASE Activate(j)
  BY <1>17 DEF Activate, Goto, tables
<1>18. CASE ActivationFails(j)
  BY <1>18, SetJobMove DEF ActivationFails
<1>19. CASE Snapshots(j)
  BY <1>19, SetJobMove DEF Snapshots
<1>20. CASE Unexpected(j)
  BY <1>20, SetJobMove DEF Unexpected
<1>21. CASE Exit(j)
  BY <1>21 DEF Exit, Goto, tables
<1> QED
  BY <1>1, <1>2, <1>3, <1>4, <1>5, <1>6, <1>7, <1>8, <1>9, <1>10, <1>11, <1>12, <1>13, <1>14,
     <1>15, <1>16, <1>17, <1>18, <1>19, <1>20, <1>21
  DEF JobStep, Request, WorkerStep

-----------------------------------------------------------------------------
(* Live jobs have a worker.                                                *)

\* Before it gives the lock back a worker has ended its job.
QueueInv == \A j \in Jobs : memory[j] \in Live => pc[j] \notin {"none", "permitted", "done", "exit"}

LEMMA QueueMove ==
  ASSUME JobTypes, QueueInv, NEW j \in Jobs, JobStep(j)
  PROVE  memory'[j] \in Live => pc'[j] \notin {"none", "permitted", "done", "exit"}
<1> USE DEF JobTypes, QueueInv, Live
<1>1. CASE Permit(j)
  BY <1>1 DEF Permit, Goto, tables, Arrived
<1>2. CASE CreateJob(j)
  BY <1>2 DEF CreateJob, Refused, Unsaved, Accepted, SaveFails, Saves, Goto, tables, Arrived
<1>3. CASE CreateOnboardingJob(j)
  BY <1>3 DEF CreateOnboardingJob, Refused, Unsaved, Accepted, SaveFails, Saves, Goto, tables,
     Arrived
<1>4. CASE StartWorker(j)
  BY <1>4 DEF StartWorker, Goto, tables, Arrived
<1>5. CASE WorkerDoesNotStart(j)
  BY <1>5, SetJobMove DEF WorkerDoesNotStart
<1>6. CASE TakeLock(j)
  BY <1>6 DEF TakeLock, Goto, tables, Arrived
<1>7. CASE LockBusy(j)
  BY <1>7, SetJobMove DEF LockBusy
<1>8. CASE LockFileUnavailable(j)
  BY <1>8 DEF LockFileUnavailable, Goto, tables, Arrived
<1>9. CASE Start(j)
  BY <1>9, SetJobMove DEF Start
<1>10. CASE StartCommand(j)
  BY <1>10 DEF StartCommand, Goto, tables, Arrived
<1>11. CASE StartOnboarding(j)
  BY <1>11, SetJobMove DEF StartOnboarding
<1>12. CASE CommandEnds(j)
  BY <1>12 DEF CommandEnds, Goto, tables, Arrived
<1>13. CASE Judge(j)
  BY <1>13, SetJobMove DEF Judge
<1>14. CASE DailyFailed(j)
  BY <1>14, SetJobMove DEF DailyFailed
<1>15. CASE Unverified(j)
  BY <1>15, SetJobMove DEF Unverified, Goto
<1>16. CASE Verified(j)
  BY <1>16, SetJobMove DEF Verified
<1>17. CASE Activate(j)
  BY <1>17 DEF Activate, Goto, tables, Arrived
<1>18. CASE ActivationFails(j)
  BY <1>18, SetJobMove DEF ActivationFails
<1>19. CASE Snapshots(j)
  BY <1>19, SetJobMove DEF Snapshots
<1>20. CASE Unexpected(j)
  BY <1>20, SetJobMove DEF Unexpected
<1>21. CASE Exit(j)
  BY <1>21 DEF Exit, Goto, tables, Arrived
<1> QED
  BY <1>1, <1>2, <1>3, <1>4, <1>5, <1>6, <1>7, <1>8, <1>9, <1>10, <1>11, <1>12, <1>13, <1>14,
     <1>15, <1>16, <1>17, <1>18, <1>19, <1>20, <1>21
  DEF JobStep, Request, WorkerStep

LEMMA QueueStep == TypeOK /\ QueueInv /\ [Next]_vars => QueueInv'
<1> SUFFICES ASSUME TypeOK, QueueInv, [Next]_vars PROVE QueueInv'
  OBVIOUS
<1>0. JobTypes
  BY TypeGroups
<1>1. ASSUME NEW j \in Jobs, JobStep(j) PROVE QueueInv'
  BY <1>0, <1>1, JobFrame, QueueMove DEF QueueInv
<1>2. ASSUME NEW s \in Servers, Crash(s) PROVE QueueInv'
  BY <1>0, <1>2 DEF Crash, QueueInv, Live, JobTypes
<1>3. ASSUME NEW s \in Servers, LoadJobs(s) PROVE QueueInv'
  <2>1. \A j \in Jobs : AfterRestart(j) \notin Live
    BY DEF AfterRestart, Unfinished, Live
  <2> QED BY <1>0, <1>3, <2>1 DEF LoadJobs, QueueInv, JobTypes
<1>4. CASE UNCHANGED <<memory, pc>>
  BY <1>4 DEF QueueInv
<1>5. ASSUME NEW j \in Jobs, OrphanEnds(j) PROVE UNCHANGED <<memory, pc>>
  BY <1>5 DEF OrphanEnds, tables
<1>6. ASSUME NEW s \in Servers, RewritePending(s) \/ Ready(s) PROVE UNCHANGED <<memory, pc>>
  BY <1>6 DEF RewritePending, Ready
<1>7. CASE TimerTakesLock \/ TimerPublishes \/ TimerReleases \/ NewDay \/ UNCHANGED vars
  BY <1>4, <1>7 DEF TimerTakesLock, TimerPublishes, TimerReleases, NewDay, vars, tables
<1> QED BY <1>1, <1>2, <1>3, <1>4, <1>5, <1>6, <1>7 DEF Next, JobStep

\* No step of a job takes a fault back.
LEMMA FaultsMove ==
  ASSUME JobTypes, NEW j \in Jobs, JobStep(j)
  PROVE  saveFaults' >= saveFaults
<1>1. saveFaults' \in {saveFaults, saveFaults + 1, saveFaults + 2}
  BY DEF JobStep, Request, WorkerStep, Permit, CreateJob, CreateOnboardingJob, Refused, Unsaved,
     Accepted, Saves, SaveFails, StartWorker, WorkerDoesNotStart, TakeLock, LockBusy,
     LockFileUnavailable, Start, StartCommand, StartOnboarding, CommandEnds, Judge, DailyFailed,
     Unverified, Verified, Activate, ActivationFails, Snapshots, Unexpected, Exit, SetJob,
     SetJobAfterFault, faults
<1> QED BY <1>1 DEF JobTypes

LEMMA LostMove ==
  ASSUME JobTypes, NEW j \in Jobs, JobStep(j)
  PROVE  pc'[j] = "lost" => pc[j] = "lost" \/ saveFaults' > 0
<1>1. CASE LockFileUnavailable(j)
  BY <1>1 DEF LockFileUnavailable, SaveFails, JobTypes
<1>2. CASE \/ WorkerDoesNotStart(j) \/ LockBusy(j) \/ Start(j) \/ StartOnboarding(j) \/ Judge(j)
           \/ DailyFailed(j) \/ Unverified(j) \/ Verified(j) \/ ActivationFails(j)
           \/ Snapshots(j) \/ Unexpected(j)
  BY <1>2, SetJobMove DEF WorkerDoesNotStart, LockBusy, Start, StartOnboarding, Judge,
     DailyFailed, Unverified, Verified, ActivationFails, Snapshots, Unexpected
<1>3. CASE \/ Request(j) \/ StartWorker(j) \/ TakeLock(j) \/ StartCommand(j) \/ CommandEnds(j)
           \/ Activate(j) \/ Exit(j)
  BY <1>3 DEF Request, Permit, CreateJob, CreateOnboardingJob, Refused, Unsaved, Accepted,
     StartWorker, TakeLock, StartCommand, CommandEnds, Activate, Exit, Goto, JobTypes
<1> QED BY <1>1, <1>2, <1>3 DEF JobStep, WorkerStep

\* A thread is lost only to a file that could not be opened.
LostInv == \A j \in Jobs : pc[j] = "lost" => saveFaults > 0

LEMMA LostStep == TypeOK /\ LostInv /\ [Next]_vars => LostInv'
<1> SUFFICES ASSUME TypeOK, LostInv, [Next]_vars PROVE LostInv'
  OBVIOUS
<1>0. JobTypes
  BY TypeGroups
<1>1. saveFaults' \in Nat /\ saveFaults \in Nat
  BY TypeStep DEF TypeOK
<1>2. ASSUME NEW j \in Jobs, JobStep(j) PROVE LostInv'
  <2>1. pc'[j] = "lost" => pc[j] = "lost" \/ saveFaults' > 0
    BY <1>0, <1>2, LostMove
  <2>2. saveFaults' >= saveFaults
    BY <1>0, <1>2, FaultsMove
  <2> QED BY <1>0, <1>1, <1>2, <2>1, <2>2, JobFrame DEF LostInv
<1>3. ASSUME NEW s \in Servers, Crash(s) PROVE LostInv'
  BY <1>0, <1>3 DEF Crash, LostInv, JobTypes, faults
<1>4. ASSUME NEW s \in Servers, LoadJobs(s) PROVE LostInv'
  <2>1. PICK kept \in SUBSET Unfinished : saveFaults' = saveFaults + Cardinality(kept)
    BY <1>4 DEF LoadJobs
  <2>2. Cardinality(kept) \in Nat
    BY JobsOK, FS_Subset, FS_CardinalityType DEF JobsOK, Unfinished
  <2>3. pc' = pc
    BY <1>4 DEF LoadJobs
  <2> QED BY <1>1, <2>1, <2>2, <2>3 DEF LostInv
<1>5. CASE UNCHANGED <<pc, saveFaults>>
  BY <1>5 DEF LostInv
<1>6. ASSUME NEW j \in Jobs, OrphanEnds(j) PROVE UNCHANGED <<pc, saveFaults>>
  BY <1>6 DEF OrphanEnds, faults
<1>7. ASSUME NEW s \in Servers, RewritePending(s) \/ Ready(s) PROVE UNCHANGED <<pc, saveFaults>>
  BY <1>7 DEF RewritePending, Ready, faults
<1>8. CASE TimerTakesLock \/ TimerPublishes \/ TimerReleases \/ NewDay \/ UNCHANGED vars
  BY <1>5, <1>8 DEF TimerTakesLock, TimerPublishes, TimerReleases, NewDay, vars, faults
<1> QED BY <1>2, <1>3, <1>4, <1>5, <1>6, <1>7, <1>8 DEF Next, JobStep

\* A job that is queued or running has a thread on its way to end it, with any number of
\* servers, restarts and files that cannot be written; the exception is a thread that
\* could not open collection.lock, which needs such a file.
THEOREM LiveJobsHaveWorkers == Spec => []QueuedHasWorker
<1>1. Init => QueueInv /\ LostInv
  BY DEF Init, QueueInv, LostInv, Live
<1>2. TypeOK /\ QueueInv /\ LostInv => QueuedHasWorker
  <2> SUFFICES ASSUME TypeOK, QueueInv, LostInv, NEW j \in Jobs, memory[j] \in Live,
                      pc[j] # "lost"
               PROVE  pc[j] \in Manned
    BY DEF QueuedHasWorker, LostInv
  <2>1. pc[j] \in Phases
    BY DEF TypeOK
  <2> QED BY <2>1 DEF QueueInv, Phases, Manned, Working
<1> QED BY <1>1, <1>2, QueueStep, LostStep, TypeCorrect, PTL DEF Spec

-----------------------------------------------------------------------------
(* Who owns collection.lock.                                               *)

\* The lock belongs to the server of the one worker in its locked section.
LockInv ==
  /\ \A k \in Jobs : pc[k] \in Working => lock = Home[k]
  /\ \A k, m \in Jobs : pc[k] \in Working /\ pc[m] \in Working => k = m
  /\ lock \in Servers => \E k \in Jobs : pc[k] \in Working /\ Home[k] = lock

\* What a step of a job does to the lock and to its place in the locked section.
Keeps(j) == lock' = lock /\ (pc'[j] \in Working <=> pc[j] \in Working)
Takes(j) == lock = NoOne /\ lock' = Home[j] /\ pc'[j] \in Working
Gives(j) == pc[j] \in Working /\ lock' = NoOne /\ pc'[j] \notin Working

LEMMA LockMove ==
  ASSUME JobTypes, NEW j \in Jobs, JobStep(j)
  PROVE  Keeps(j) \/ Takes(j) \/ Gives(j)
<1> USE DEF JobTypes, Keeps, Takes, Gives, Working
<1>1. CASE Permit(j)
  BY <1>1 DEF Permit, Goto, Arrived
<1>2. CASE CreateJob(j)
  BY <1>2 DEF CreateJob, Refused, Unsaved, Accepted, SaveFails, Saves, Goto, Arrived
<1>3. CASE CreateOnboardingJob(j)
  BY <1>3 DEF CreateOnboardingJob, Refused, Unsaved, Accepted, SaveFails, Saves, Goto, Arrived
<1>4. CASE StartWorker(j)
  BY <1>4 DEF StartWorker, Goto, Arrived
<1>5. CASE WorkerDoesNotStart(j)
  BY <1>5, SetJobMove DEF WorkerDoesNotStart
<1>6. CASE TakeLock(j)
  BY <1>6 DEF TakeLock, Goto, Arrived
<1>7. CASE LockBusy(j)
  BY <1>7, SetJobMove DEF LockBusy
<1>8. CASE LockFileUnavailable(j)
  BY <1>8 DEF LockFileUnavailable, Goto, Arrived
<1>9. CASE Start(j)
  BY <1>9, SetJobMove DEF Start
<1>10. CASE StartCommand(j)
  BY <1>10 DEF StartCommand, Goto, Arrived
<1>11. CASE StartOnboarding(j)
  BY <1>11, SetJobMove DEF StartOnboarding
<1>12. CASE CommandEnds(j)
  BY <1>12 DEF CommandEnds, Goto, Arrived
<1>13. CASE Judge(j)
  BY <1>13, SetJobMove DEF Judge
<1>14. CASE DailyFailed(j)
  BY <1>14, SetJobMove DEF DailyFailed
<1>15. CASE Unverified(j)
  BY <1>15, SetJobMove DEF Unverified, Goto
<1>16. CASE Verified(j)
  BY <1>16, SetJobMove DEF Verified
<1>17. CASE Activate(j)
  BY <1>17 DEF Activate, Goto, Arrived
<1>18. CASE ActivationFails(j)
  BY <1>18, SetJobMove DEF ActivationFails
<1>19. CASE Snapshots(j)
  BY <1>19, SetJobMove DEF Snapshots
<1>20. CASE Unexpected(j)
  BY <1>20, SetJobMove DEF Unexpected
<1>21. CASE Exit(j)
  BY <1>21 DEF Exit, Goto, Arrived
<1> QED
  BY <1>1, <1>2, <1>3, <1>4, <1>5, <1>6, <1>7, <1>8, <1>9, <1>10, <1>11, <1>12, <1>13, <1>14,
     <1>15, <1>16, <1>17, <1>18, <1>19, <1>20, <1>21
  DEF JobStep, Request, WorkerStep

LEMMA LockStep == TypeOK /\ LockInv /\ [Next]_vars => LockInv'
<1> SUFFICES ASSUME TypeOK, LockInv, [Next]_vars PROVE LockInv'
  OBVIOUS
<1>0. JobTypes
  BY TypeGroups
<1>1. ASSUME NEW j \in Jobs, JobStep(j) PROVE LockInv'
  <2>1. \A k \in Jobs : k # j => pc'[k] = pc[k]
    BY <1>0, <1>1, JobFrame
  <2>2. CASE Keeps(j)
    BY <2>1, <2>2 DEF LockInv, Keeps
  <2>3. CASE Takes(j)
    <3>1. \A k \in Jobs : pc[k] \notin Working
      BY <2>3, Homes DEF LockInv, Takes
    <3>2. \A k \in Jobs : pc'[k] \in Working => k = j
      BY <2>1, <3>1
    <3> QED BY <2>3, <3>2 DEF LockInv, Takes
  <2>4. CASE Gives(j)
    <3>1. \A k \in Jobs : pc'[k] \notin Working
      BY <2>1, <2>4 DEF LockInv, Gives
    <3>2. lock' \notin Servers
      BY <2>4, NamesOK DEF Gives, NamesOK
    <3> QED BY <3>1, <3>2 DEF LockInv
  <2> QED BY <1>0, <1>1, <2>2, <2>3, <2>4, LockMove
<1>2. ASSUME NEW s \in Servers, Crash(s) PROVE LockInv'
  <2>1. \A k \in Jobs : pc'[k] \in Working <=> pc[k] \in Working /\ Home[k] # s
    BY <1>0, <1>2 DEF Crash, Working, JobTypes
  <2>2. lock' = IF lock = s THEN NoOne ELSE lock
    BY <1>2 DEF Crash
  <2>3. NoOne \notin Servers
    BY NamesOK DEF NamesOK
  <2> QED BY <2>1, <2>2, <2>3 DEF LockInv
<1>3. CASE UNCHANGED <<lock, pc>>
  BY <1>3 DEF LockInv
<1>4. ASSUME NEW s \in Servers, LoadJobs(s) \/ RewritePending(s) \/ Ready(s)
      PROVE  UNCHANGED <<lock, pc>>
  BY <1>4 DEF LoadJobs, RewritePending, Ready
<1>5. ASSUME NEW j \in Jobs, OrphanEnds(j) PROVE UNCHANGED <<lock, pc>>
  BY <1>5 DEF OrphanEnds
<1>6. CASE TimerTakesLock \/ TimerReleases
  <2>1. lock \notin Servers /\ lock' \notin Servers /\ UNCHANGED pc
    BY <1>6, NamesOK DEF TimerTakesLock, TimerReleases, NamesOK
  <2>2. \A k \in Jobs : pc[k] \notin Working
    BY <2>1, Homes DEF LockInv
  <2> QED BY <2>1, <2>2 DEF LockInv
<1>7. CASE TimerPublishes \/ NewDay \/ UNCHANGED vars
  BY <1>3, <1>7 DEF TimerPublishes, NewDay, vars
<1> QED BY <1>1, <1>2, <1>3, <1>4, <1>5, <1>6, <1>7 DEF Next, JobStep

\* What LockBusy says of the lock, for every step.
RefusedByAnother == \A j \in Jobs : LockBusy(j) => lock # Home[j]

\* A worker is refused collection.lock only on account of another process: the earlier
\* job of its own server still holds the worker lock until it has given the lock back.
THEOREM OwnJobsNeverCollide == Spec => OwnJobsDoNotCollide
<1>1. Init => LockInv
  BY NamesOK DEF Init, LockInv, Working, NamesOK
<1>2. LockInv => RefusedByAnother
  <2> SUFFICES ASSUME LockInv, NEW j \in Jobs, LockBusy(j), lock = Home[j] PROVE FALSE
    BY DEF RefusedByAnother
  <2>1. PICK k \in Jobs : pc[k] \in Working /\ Home[k] = Home[j]
    BY Homes DEF LockInv
  <2> QED BY <2>1 DEF LockBusy, WorkerFree, Neighbours
<1>3. LockInv /\ [Next]_vars => [RefusedByAnother]_vars
  BY <1>2
<1>4. [RefusedByAnother]_vars <=> [\A j \in Jobs : LockBusy(j) => lock # Home[j]]_vars
  BY DEF RefusedByAnother
<1> QED BY <1>1, <1>3, <1>4, LockStep, TypeCorrect, PTL DEF Spec, OwnJobsDoNotCollide

-----------------------------------------------------------------------------
(* Interrupted means stopped, with one server process.                     *)

OneServer == \A s, t \in Servers : s = t

LEMMA SetJobFile ==
  ASSUME JobTypes, NEW j \in Jobs, NEW status, NEW next, NEW onError,
         SetJob(j, status, next, onError) \/ SetJobAfterFault(j, status, next, onError),
         status # "interrupted"
  PROVE  \A k \in Jobs : file'[k] = "interrupted" => file'[k] = file[k]
BY DEF SetJob, SetJobAfterFault, Saves, SaveFails, JobTypes

\* No step of a job calls a job interrupted.
LEMMA FileMove ==
  ASSUME JobTypes, NEW j \in Jobs, JobStep(j)
  PROVE  \A k \in Jobs : file'[k] = "interrupted" => file'[k] = file[k]
<1> USE DEF JobTypes
<1>1. CASE Permit(j)
  BY <1>1 DEF Permit, Goto, tables, SaveFails
<1>2. CASE CreateJob(j)
  BY <1>2 DEF CreateJob, Refused, Unsaved, Accepted, SaveFails, Saves, Goto, Arrived, tables,
     SaveFails
<1>3. CASE CreateOnboardingJob(j)
  BY <1>3 DEF CreateOnboardingJob, Refused, Unsaved, Accepted, SaveFails, Saves, Goto, Arrived,
     tables, SaveFails
<1>4. CASE StartWorker(j)
  BY <1>4 DEF StartWorker, Goto, tables, SaveFails
<1>5. CASE WorkerDoesNotStart(j)
  BY <1>5, SetJobFile DEF WorkerDoesNotStart, SaveFails
<1>6. CASE TakeLock(j)
  BY <1>6 DEF TakeLock, Goto, tables, SaveFails
<1>7. CASE LockBusy(j)
  BY <1>7, SetJobFile DEF LockBusy, SaveFails
<1>8. CASE LockFileUnavailable(j)
  BY <1>8 DEF LockFileUnavailable, Goto, tables, SaveFails
<1>9. CASE Start(j)
  BY <1>9, SetJobFile DEF Start, SaveFails
<1>10. CASE StartCommand(j)
  BY <1>10 DEF StartCommand, Goto, tables, SaveFails
<1>11. CASE StartOnboarding(j)
  BY <1>11, SetJobFile DEF StartOnboarding, SaveFails
<1>12. CASE CommandEnds(j)
  BY <1>12 DEF CommandEnds, Goto, tables, SaveFails
<1>13. CASE Judge(j)
  BY <1>13, SetJobFile DEF Judge, SaveFails
<1>14. CASE DailyFailed(j)
  BY <1>14, SetJobFile DEF DailyFailed, SaveFails
<1>15. CASE Unverified(j)
  BY <1>15, SetJobFile DEF Unverified, SaveFails
<1>16. CASE Verified(j)
  BY <1>16, SetJobFile DEF Verified, SaveFails
<1>17. CASE Activate(j)
  BY <1>17 DEF Activate, Goto, tables, SaveFails
<1>18. CASE ActivationFails(j)
  BY <1>18, SetJobFile DEF ActivationFails, SaveFails
<1>19. CASE Snapshots(j)
  BY <1>19, SetJobFile DEF Snapshots, SaveFails
<1>20. CASE Unexpected(j)
  BY <1>20, SetJobFile DEF Unexpected, SaveFails
<1>21. CASE Exit(j)
  BY <1>21 DEF Exit, Goto, tables, SaveFails
<1> QED
  BY <1>1, <1>2, <1>3, <1>4, <1>5, <1>6, <1>7, <1>8, <1>9, <1>10, <1>11, <1>12, <1>13, <1>14,
     <1>15, <1>16, <1>17, <1>18, <1>19, <1>20, <1>21
  DEF JobStep, Request, WorkerStep

StopsFirst ==
  \A j \in Jobs : file[j] \in Live /\ file'[j] = "interrupted" => server[Home[j]] # "up"

LEMMA StopsFirstStep == OneServer /\ TypeOK /\ [Next]_vars => StopsFirst
<1> SUFFICES ASSUME OneServer, TypeOK, [Next]_vars PROVE StopsFirst
  OBVIOUS
<1>0. JobTypes /\ "interrupted" \notin Live
  BY TypeGroups DEF Live
<1>1. ASSUME NEW j \in Jobs, JobStep(j) PROVE StopsFirst
  BY <1>0, <1>1, FileMove DEF StopsFirst
<1>2. ASSUME NEW s \in Servers, LoadJobs(s) PROVE StopsFirst
  BY <1>2, Homes DEF LoadJobs, OneServer, StopsFirst
<1>3. CASE UNCHANGED file
  BY <1>0, <1>3 DEF StopsFirst
<1>4. ASSUME NEW s \in Servers, Crash(s) \/ RewritePending(s) \/ Ready(s) PROVE UNCHANGED file
  BY <1>4 DEF Crash, RewritePending, Ready
<1>5. ASSUME NEW j \in Jobs, OrphanEnds(j) PROVE UNCHANGED file
  BY <1>5 DEF OrphanEnds, tables
<1>6. CASE TimerTakesLock \/ TimerPublishes \/ TimerReleases \/ NewDay \/ UNCHANGED vars
  BY <1>3, <1>6 DEF TimerTakesLock, TimerPublishes, TimerReleases, NewDay, vars, tables
<1> QED BY <1>1, <1>2, <1>3, <1>4, <1>5, <1>6 DEF Next, JobStep

\* With one server process no live job is recorded as interrupted; the run
\* jobs_two_processes shows that two processes suffice to break it.
THEOREM OneServerTellsTheTruth == ASSUME OneServer PROVE Spec => InterruptedMeansStopped
<1>1. TypeOK /\ [Next]_vars => [StopsFirst]_vars
  BY StopsFirstStep, OneServer
<1>2. [StopsFirst]_vars <=>
        [\A j \in Jobs : file[j] \in Live /\ file'[j] = "interrupted"
                           => server[Home[j]] # "up"]_vars
  BY DEF StopsFirst
<1> QED BY <1>1, <1>2, TypeCorrect, PTL DEF Spec, InterruptedMeansStopped

-----------------------------------------------------------------------------
(* Pending tokens are reconciled.                                          *)

\* A pending token names the onboarding job it waits for.
Named ==
  \A t \in Tokens :
    registry[t] = "pending" =>
      lastJob[t] \in Jobs /\ Kind[lastJob[t]] = "onboarding" /\ Token[lastJob[t]] = t

\* A running server still works on it, a loading one has it on its list.
Reconciled ==
  upsertFaults = 0 =>
    \A t \in Tokens :
      registry[t] = "pending" =>
        /\ server[Home[lastJob[t]]] = "up" => memory[lastJob[t]] \in Live
        /\ server[Home[lastJob[t]]] = "loading" => <<t, lastJob[t]>> \in listed[Home[lastJob[t]]]

PendingFor(j) == registry[Token[j]] = "pending" /\ lastJob[Token[j]] = j

\* A job that has activated its token is not what the token waits for.
Activated == \A j \in Jobs : pc[j] = "snapshots" => ~PendingFor(j)

PendingInv == Named /\ Reconciled /\ Activated

\* A token becomes pending only when its onboarding job is created by a running server,
\* or by a failed write that replaced the registry all the same.
BecomesPending(j) ==
  \A t \in Tokens :
    registry'[t] = "pending" =>
      \/ registry[t] = "pending" /\ lastJob'[t] = lastJob[t]
      \/ /\ lastJob'[t] = j /\ t = Token[j] /\ Kind[j] = "onboarding"
         /\ \/ memory'[j] = "queued" /\ pc'[j] = "starting" /\ server[Home[j]] = "up"
            \/ upsertFaults' # 0 /\ pc'[j] = "done"

\* A job that ends has reconciled its token, unless the registry could not be written.
EndsReconciled(j) ==
  upsertFaults' = 0 /\ Kind[j] = "onboarding" /\ PendingFor(j)'
    => memory'[j] \in Live \/ memory'[j] = memory[j]

LEMMA TokenFrame ==
  ASSUME TypeOK, NEW j \in Jobs, JobStep(j)
  PROVE  UNCHANGED <<server, listed>> /\ (upsertFaults' = 0 => upsertFaults = 0)
<1>0. upsertFaults \in Nat /\ TokenTypes
  BY TypeGroups DEF TokenTypes
<1> USE <1>0 DEF TokenTypes
<1>1. CASE Permit(j)
  BY <1>1 DEF Permit, Goto, tables, tokens, faults, Upserts, UpsertFails, Writes
<1>2. CASE CreateJob(j)
  BY <1>2 DEF CreateJob, Refused, Unsaved, Accepted, SaveFails, Saves, Goto, Arrived, tables,
     tokens, faults, Upserts, UpsertFails, Writes
<1>3. CASE CreateOnboardingJob(j)
  BY <1>3 DEF CreateOnboardingJob, Refused, Unsaved, Accepted, SaveFails, Saves, Goto, Arrived,
     tables, tokens, faults, Upserts, UpsertFails, Writes
<1>4. CASE StartWorker(j)
  BY <1>4 DEF StartWorker, Goto, tables, tokens, faults, Upserts, UpsertFails, Writes
<1>5. CASE WorkerDoesNotStart(j)
  BY <1>5, SetJobMove DEF WorkerDoesNotStart, TryUpsert, Upserts, UpsertFails, Writes, MarkNeedsReview,
     tokens, faults
<1>6. CASE TakeLock(j)
  BY <1>6 DEF TakeLock, Goto, tables, tokens, faults, Upserts, UpsertFails, Writes
<1>7. CASE LockBusy(j)
  BY <1>7, SetJobMove DEF LockBusy, TryUpsert, Upserts, UpsertFails, Writes, MarkNeedsReview, tokens,
     faults
<1>8. CASE LockFileUnavailable(j)
  BY <1>8 DEF LockFileUnavailable, Goto, tables, tokens, faults, Upserts, UpsertFails, Writes
<1>9. CASE Start(j)
  BY <1>9, SetJobMove DEF Start, TryUpsert, Upserts, UpsertFails, Writes, MarkNeedsReview, tokens, faults
<1>10. CASE StartCommand(j)
  BY <1>10 DEF StartCommand, Goto, tables, tokens, faults, Upserts, UpsertFails, Writes
<1>11. CASE StartOnboarding(j)
  BY <1>11, SetJobMove DEF StartOnboarding, TryUpsert, Upserts, UpsertFails, Writes, MarkNeedsReview,
     tokens, faults
<1>12. CASE CommandEnds(j)
  BY <1>12 DEF CommandEnds, Goto, tables, tokens, faults, Upserts, UpsertFails, Writes
<1>13. CASE Judge(j)
  BY <1>13, SetJobMove DEF Judge, TryUpsert, Upserts, UpsertFails, Writes, MarkNeedsReview, tokens, faults
<1>14. CASE DailyFailed(j)
  BY <1>14, SetJobMove DEF DailyFailed, TryUpsert, Upserts, UpsertFails, Writes, MarkNeedsReview,
     tokens, faults
<1>15. CASE Unverified(j)
  BY <1>15, SetJobMove DEF Unverified, TryUpsert, Upserts, UpsertFails, Writes, MarkNeedsReview, tokens,
     faults
<1>16. CASE Verified(j)
  BY <1>16, SetJobMove DEF Verified, TryUpsert, Upserts, UpsertFails, Writes, MarkNeedsReview, tokens,
     faults
<1>17. CASE Activate(j)
  BY <1>17 DEF Activate, Goto, tables, tokens, faults, Upserts, UpsertFails, Writes
<1>18. CASE ActivationFails(j)
  BY <1>18, SetJobMove DEF ActivationFails, TryUpsert, Upserts, UpsertFails, Writes, MarkNeedsReview,
     tokens, faults
<1>19. CASE Snapshots(j)
  BY <1>19, SetJobMove DEF Snapshots, TryUpsert, Upserts, UpsertFails, Writes, MarkNeedsReview, tokens,
     faults
<1>20. CASE Unexpected(j)
  BY <1>20, SetJobMove DEF Unexpected, TryUpsert, Upserts, UpsertFails, Writes, MarkNeedsReview, tokens,
     faults
<1>21. CASE Exit(j)
  BY <1>21 DEF Exit, Goto, tables, tokens, faults, Upserts, UpsertFails, Writes
<1> QED
  BY <1>1, <1>2, <1>3, <1>4, <1>5, <1>6, <1>7, <1>8, <1>9, <1>10, <1>11, <1>12, <1>13, <1>14,
     <1>15, <1>16, <1>17, <1>18, <1>19, <1>20, <1>21
  DEF JobStep, Request, WorkerStep

LEMMA BecomesPendingMove ==
  ASSUME JobTypes, TokenTypes, NEW j \in Jobs, JobStep(j)
  PROVE  BecomesPending(j)
<1>0. \A k \in Jobs : Token[k] \in Tokens
  BY Homes
<1> USE <1>0 DEF JobTypes, TokenTypes, BecomesPending
<1>1. CASE Permit(j)
  BY <1>1 DEF Permit, Goto, tables, tokens, faults, Upserts, UpsertFails, Writes, Live
<1>2. CASE CreateJob(j)
  BY <1>2 DEF CreateJob, Refused, Unsaved, Accepted, SaveFails, Saves, Goto, Arrived, tables,
     tokens, faults, Upserts, UpsertFails, Writes, Live
<1>3. CASE CreateOnboardingJob(j)
  BY <1>3 DEF CreateOnboardingJob, Refused, Unsaved, Accepted, SaveFails, Saves, Goto, Arrived,
     tables, tokens, faults, Upserts, UpsertFails, Writes, Live
<1>4. CASE StartWorker(j)
  BY <1>4 DEF StartWorker, Goto, tables, tokens, faults, Upserts, UpsertFails, Writes, Live
<1>5. CASE WorkerDoesNotStart(j)
  BY <1>5, SetJobMove DEF WorkerDoesNotStart, TryUpsert, Upserts, UpsertFails, Writes, MarkNeedsReview,
     tokens, faults
<1>6. CASE TakeLock(j)
  BY <1>6 DEF TakeLock, Goto, tables, tokens, faults, Upserts, UpsertFails, Writes, Live
<1>7. CASE LockBusy(j)
  BY <1>7, SetJobMove DEF LockBusy, TryUpsert, Upserts, UpsertFails, Writes, MarkNeedsReview, tokens,
     faults
<1>8. CASE LockFileUnavailable(j)
  BY <1>8 DEF LockFileUnavailable, Goto, tables, tokens, faults, Upserts, UpsertFails, Writes, Live
<1>9. CASE Start(j)
  BY <1>9, SetJobMove DEF Start, TryUpsert, Upserts, UpsertFails, Writes, MarkNeedsReview, tokens, faults
<1>10. CASE StartCommand(j)
  BY <1>10 DEF StartCommand, Goto, tables, tokens, faults, Upserts, UpsertFails, Writes, Live
<1>11. CASE StartOnboarding(j)
  BY <1>11, SetJobMove DEF StartOnboarding, TryUpsert, Upserts, UpsertFails, Writes, MarkNeedsReview,
     tokens, faults
<1>12. CASE CommandEnds(j)
  BY <1>12 DEF CommandEnds, Goto, tables, tokens, faults, Upserts, UpsertFails, Writes, Live
<1>13. CASE Judge(j)
  BY <1>13, SetJobMove DEF Judge, TryUpsert, Upserts, UpsertFails, Writes, MarkNeedsReview, tokens, faults
<1>14. CASE DailyFailed(j)
  BY <1>14, SetJobMove DEF DailyFailed, TryUpsert, Upserts, UpsertFails, Writes, MarkNeedsReview,
     tokens, faults
<1>15. CASE Unverified(j)
  BY <1>15, SetJobMove DEF Unverified, TryUpsert, Upserts, UpsertFails, Writes, MarkNeedsReview, tokens,
     faults
<1>16. CASE Verified(j)
  BY <1>16, SetJobMove DEF Verified, TryUpsert, Upserts, UpsertFails, Writes, MarkNeedsReview, tokens,
     faults
<1>17. CASE Activate(j)
  BY <1>17 DEF Activate, Goto, tables, tokens, faults, Upserts, UpsertFails, Writes, Live
<1>18. CASE ActivationFails(j)
  BY <1>18, SetJobMove DEF ActivationFails, TryUpsert, Upserts, UpsertFails, Writes, MarkNeedsReview,
     tokens, faults
<1>19. CASE Snapshots(j)
  BY <1>19, SetJobMove DEF Snapshots, TryUpsert, Upserts, UpsertFails, Writes, MarkNeedsReview, tokens,
     faults
<1>20. CASE Unexpected(j)
  BY <1>20, SetJobMove DEF Unexpected, TryUpsert, Upserts, UpsertFails, Writes, MarkNeedsReview, tokens,
     faults
<1>21. CASE Exit(j)
  BY <1>21 DEF Exit, Goto, tables, tokens, faults, Upserts, UpsertFails, Writes, Live
<1> QED
  BY <1>1, <1>2, <1>3, <1>4, <1>5, <1>6, <1>7, <1>8, <1>9, <1>10, <1>11, <1>12, <1>13, <1>14,
     <1>15, <1>16, <1>17, <1>18, <1>19, <1>20, <1>21
  DEF JobStep, Request, WorkerStep

LEMMA EndsReconciledMove ==
  ASSUME TypeOK, Activated, NEW j \in Jobs, JobStep(j)
  PROVE  EndsReconciled(j)
<1>0. JobTypes /\ TokenTypes /\ Token[j] \in Tokens
  BY TypeGroups, Homes
<1> USE <1>0 DEF JobTypes, TokenTypes, EndsReconciled, PendingFor
<1>1. CASE Permit(j)
  BY <1>1 DEF Permit, Goto, tables, tokens, faults, Upserts, UpsertFails, Writes, Live
<1>2. CASE CreateJob(j)
  BY <1>2 DEF CreateJob, Refused, Unsaved, Accepted, SaveFails, Saves, Goto, Arrived, tables,
     tokens, faults, Upserts, UpsertFails, Writes, Live
<1>3. CASE CreateOnboardingJob(j)
  BY <1>3 DEF CreateOnboardingJob, Refused, Unsaved, Accepted, SaveFails, Saves, Goto, Arrived,
     tables, tokens, faults, Upserts, UpsertFails, Writes, Live
<1>4. CASE StartWorker(j)
  BY <1>4 DEF StartWorker, Goto, tables, tokens, faults, Upserts, UpsertFails, Writes, Live
<1>5. CASE WorkerDoesNotStart(j)
  BY <1>5, SetJobMove DEF WorkerDoesNotStart, TryUpsert, Upserts, UpsertFails, Writes, MarkNeedsReview,
     tokens, faults, Live, Unauthorized, Activated
<1>6. CASE TakeLock(j)
  BY <1>6 DEF TakeLock, Goto, tables, tokens, faults, Upserts, UpsertFails, Writes, Live
<1>7. CASE LockBusy(j)
  BY <1>7, SetJobMove DEF LockBusy, TryUpsert, Upserts, UpsertFails, Writes, MarkNeedsReview, tokens,
     faults, Live, Unauthorized, Activated
<1>8. CASE LockFileUnavailable(j)
  BY <1>8 DEF LockFileUnavailable, Goto, tables, tokens, faults, Upserts, UpsertFails, Writes, Live
<1>9. CASE Start(j)
  BY <1>9, SetJobMove DEF Start, TryUpsert, Upserts, UpsertFails, Writes, MarkNeedsReview, tokens,
     faults, Live, Unauthorized, Activated
<1>10. CASE StartCommand(j)
  BY <1>10 DEF StartCommand, Goto, tables, tokens, faults, Upserts, UpsertFails, Writes, Live
<1>11. CASE StartOnboarding(j)
  BY <1>11, SetJobMove DEF StartOnboarding, TryUpsert, Upserts, UpsertFails, Writes, MarkNeedsReview,
     tokens, faults, Live, Unauthorized, Activated
<1>12. CASE CommandEnds(j)
  BY <1>12 DEF CommandEnds, Goto, tables, tokens, faults, Upserts, UpsertFails, Writes, Live
<1>13. CASE Judge(j)
  BY <1>13, SetJobMove DEF Judge, TryUpsert, Upserts, UpsertFails, Writes, MarkNeedsReview, tokens,
     faults, Live, Unauthorized, Activated
<1>14. CASE DailyFailed(j)
  BY <1>14, SetJobMove DEF DailyFailed, TryUpsert, Upserts, UpsertFails, Writes, MarkNeedsReview,
     tokens, faults, Live, Unauthorized, Activated
<1>15. CASE Unverified(j)
  BY <1>15, SetJobMove DEF Unverified, TryUpsert, Upserts, UpsertFails, Writes, MarkNeedsReview, tokens,
     faults, Live, Unauthorized, Activated
<1>16. CASE Verified(j)
  BY <1>16, SetJobMove DEF Verified, TryUpsert, Upserts, UpsertFails, Writes, MarkNeedsReview, tokens,
     faults, Live, Unauthorized, Activated
<1>17. CASE Activate(j)
  BY <1>17 DEF Activate, Goto, tables, tokens, faults, Upserts, UpsertFails, Writes, Live
<1>18. CASE ActivationFails(j)
  BY <1>18, SetJobMove DEF ActivationFails, TryUpsert, Upserts, UpsertFails, Writes, MarkNeedsReview,
     tokens, faults, Live, Unauthorized, Activated
<1>19. CASE Snapshots(j)
  BY <1>19, SetJobMove DEF Snapshots, TryUpsert, Upserts, UpsertFails, Writes, MarkNeedsReview, tokens,
     faults, Live, Unauthorized, Activated
<1>20. CASE Unexpected(j)
  BY <1>20, SetJobMove DEF Unexpected, TryUpsert, Upserts, UpsertFails, Writes, MarkNeedsReview, tokens,
     faults, Live, Unauthorized, Activated
<1>21. CASE Exit(j)
  BY <1>21 DEF Exit, Goto, tables, tokens, faults, Upserts, UpsertFails, Writes, Live
<1> QED
  BY <1>1, <1>2, <1>3, <1>4, <1>5, <1>6, <1>7, <1>8, <1>9, <1>10, <1>11, <1>12, <1>13, <1>14,
     <1>15, <1>16, <1>17, <1>18, <1>19, <1>20, <1>21
  DEF JobStep, Request, WorkerStep

LEMMA ActivatedMove ==
  ASSUME JobTypes, TokenTypes, Activated, NEW j \in Jobs, JobStep(j), pc'[j] = "snapshots"
  PROVE  ~PendingFor(j)'
<1>0. Token[j] \in Tokens
  BY Homes
<1> USE <1>0 DEF JobTypes, TokenTypes, PendingFor
<1>1. CASE Permit(j)
  BY <1>1 DEF Permit, Goto, tables, tokens, faults, Upserts, UpsertFails, Writes
<1>2. CASE CreateJob(j)
  BY <1>2 DEF CreateJob, Refused, Unsaved, Accepted, SaveFails, Saves, Goto, Arrived, tables,
     tokens, faults, Upserts, UpsertFails, Writes
<1>3. CASE CreateOnboardingJob(j)
  BY <1>3 DEF CreateOnboardingJob, Refused, Unsaved, Accepted, SaveFails, Saves, Goto, Arrived,
     tables, tokens, faults, Upserts, UpsertFails, Writes
<1>4. CASE StartWorker(j)
  BY <1>4 DEF StartWorker, Goto, tables, tokens, faults, Upserts, UpsertFails, Writes
<1>5. CASE WorkerDoesNotStart(j)
  BY <1>5, SetJobMove DEF WorkerDoesNotStart, TryUpsert, Upserts, UpsertFails, Writes, MarkNeedsReview,
     tokens, faults
<1>6. CASE TakeLock(j)
  BY <1>6 DEF TakeLock, Goto, tables, tokens, faults, Upserts, UpsertFails, Writes
<1>7. CASE LockBusy(j)
  BY <1>7, SetJobMove DEF LockBusy, TryUpsert, Upserts, UpsertFails, Writes, MarkNeedsReview, tokens,
     faults
<1>8. CASE LockFileUnavailable(j)
  BY <1>8 DEF LockFileUnavailable, Goto, tables, tokens, faults, Upserts, UpsertFails, Writes
<1>9. CASE Start(j)
  BY <1>9, SetJobMove DEF Start, TryUpsert, Upserts, UpsertFails, Writes, MarkNeedsReview, tokens, faults
<1>10. CASE StartCommand(j)
  BY <1>10 DEF StartCommand, Goto, tables, tokens, faults, Upserts, UpsertFails, Writes
<1>11. CASE StartOnboarding(j)
  BY <1>11, SetJobMove DEF StartOnboarding, TryUpsert, Upserts, UpsertFails, Writes, MarkNeedsReview,
     tokens, faults
<1>12. CASE CommandEnds(j)
  BY <1>12 DEF CommandEnds, Goto, tables, tokens, faults, Upserts, UpsertFails, Writes
<1>13. CASE Judge(j)
  BY <1>13, SetJobMove DEF Judge, TryUpsert, Upserts, UpsertFails, Writes, MarkNeedsReview, tokens, faults
<1>14. CASE DailyFailed(j)
  BY <1>14, SetJobMove DEF DailyFailed, TryUpsert, Upserts, UpsertFails, Writes, MarkNeedsReview,
     tokens, faults
<1>15. CASE Unverified(j)
  <2>1. pc'[j] \in {"exit", "unexpected"}
    BY <1>15, SetJobMove DEF Unverified, Goto
  <2> QED
    BY <2>1
<1>16. CASE Verified(j)
  BY <1>16, SetJobMove DEF Verified, TryUpsert, Upserts, UpsertFails, Writes, MarkNeedsReview, tokens,
     faults
<1>17. CASE Activate(j)
  BY <1>17 DEF Activate, Goto, tables, tokens, faults, Upserts, UpsertFails, Writes
<1>18. CASE ActivationFails(j)
  BY <1>18, SetJobMove DEF ActivationFails, TryUpsert, Upserts, UpsertFails, Writes, MarkNeedsReview,
     tokens, faults
<1>19. CASE Snapshots(j)
  BY <1>19, SetJobMove DEF Snapshots, TryUpsert, Upserts, UpsertFails, Writes, MarkNeedsReview, tokens,
     faults
<1>20. CASE Unexpected(j)
  BY <1>20, SetJobMove DEF Unexpected, TryUpsert, Upserts, UpsertFails, Writes, MarkNeedsReview, tokens,
     faults
<1>21. CASE Exit(j)
  BY <1>21 DEF Exit, Goto, tables, tokens, faults, Upserts, UpsertFails, Writes
<1> QED
  BY <1>1, <1>2, <1>3, <1>4, <1>5, <1>6, <1>7, <1>8, <1>9, <1>10, <1>11, <1>12, <1>13, <1>14,
     <1>15, <1>16, <1>17, <1>18, <1>19, <1>20, <1>21
  DEF JobStep, Request, WorkerStep

LEMMA PendingJobStep ==
  ASSUME TypeOK, PendingInv, NEW j \in Jobs, JobStep(j)
  PROVE  PendingInv'
<1>0. JobTypes /\ TokenTypes
  BY TypeGroups
<1>1. \A k \in Jobs : k # j => memory'[k] = memory[k] /\ pc'[k] = pc[k]
  BY <1>0, JobFrame
<1>2. BecomesPending(j)
  BY <1>0, BecomesPendingMove
<1>3. EndsReconciled(j)
  BY EndsReconciledMove DEF PendingInv
<1>4. UNCHANGED <<server, listed>> /\ (upsertFaults' = 0 => upsertFaults = 0)
  BY TokenFrame
<1>5. Named'
  BY <1>2 DEF PendingInv, Named, BecomesPending
<1>6. Reconciled'
  <2> SUFFICES ASSUME upsertFaults' = 0, NEW t \in Tokens, registry'[t] = "pending"
               PROVE  /\ server[Home[lastJob'[t]]] = "up" => memory'[lastJob'[t]] \in Live
                      /\ server[Home[lastJob'[t]]] = "loading"
                           => <<t, lastJob'[t]>> \in listed[Home[lastJob'[t]]]
    BY <1>4 DEF Reconciled
  <2>1. CASE registry[t] = "pending" /\ lastJob'[t] = lastJob[t]
    <3>1. PICK k \in Jobs : k = lastJob[t] /\ Kind[k] = "onboarding" /\ Token[k] = t
      BY <2>1 DEF PendingInv, Named
    <3>2. /\ server[Home[k]] = "up" => memory[k] \in Live
          /\ server[Home[k]] = "loading" => <<t, k>> \in listed[Home[k]]
      BY <1>4, <2>1, <3>1 DEF PendingInv, Reconciled
    <3>3. server[Home[k]] = "up" => memory'[k] \in Live
      BY <1>1, <1>3, <2>1, <3>1, <3>2 DEF EndsReconciled, PendingFor
    <3> QED BY <2>1, <3>1, <3>2, <3>3
  <2>2. CASE lastJob'[t] = j /\ memory'[j] = "queued" /\ server[Home[j]] = "up"
    BY <2>2 DEF Live
  <2> QED BY <1>2, <2>1, <2>2 DEF BecomesPending
<1>7. Activated'
  <2> SUFFICES ASSUME NEW k \in Jobs, pc'[k] = "snapshots" PROVE ~PendingFor(k)'
    BY DEF Activated
  <2>1. CASE k = j
    BY <1>0, <2>1, ActivatedMove DEF PendingInv
  <2>2. CASE k # j
    BY <1>1, <1>2, <2>2, Homes DEF PendingInv, Activated, PendingFor, BecomesPending
  <2> QED BY <2>1, <2>2
<1> QED BY <1>5, <1>6, <1>7 DEF PendingInv

LEMMA PendingServerStep ==
  ASSUME TypeOK, PendingInv, NEW s \in Servers,
         Crash(s) \/ LoadJobs(s) \/ RewritePending(s) \/ Ready(s)
  PROVE  PendingInv'
<1>0. JobTypes /\ TokenTypes /\ LockTypes
  BY TypeGroups
<1> USE Homes DEF PendingInv
<1>1. CASE Crash(s)
  <2>1. UNCHANGED <<registry, lastJob, upsertFaults>>
    BY <1>1 DEF Crash, tokens, faults
  <2>2. Named'
    BY <2>1 DEF Named
  <2>3. Reconciled'
    BY <1>0, <1>1, <2>1 DEF Crash, Named, Reconciled, JobTypes, LockTypes, TokenTypes
  <2>4. Activated'
    BY <1>0, <1>1, <2>1 DEF Crash, Activated, PendingFor, JobTypes
  <2> QED BY <2>2, <2>3, <2>4
<1>2. CASE LoadJobs(s)
  <2>1. UNCHANGED <<registry, lastJob, upsertFaults, pc>>
    BY <1>2 DEF LoadJobs, tokens
  <2>2. Named' /\ Activated'
    BY <2>1 DEF Named, Activated, PendingFor
  <2>3. Reconciled'
    <3> SUFFICES ASSUME upsertFaults = 0, NEW t \in Tokens, registry[t] = "pending"
                 PROVE  /\ server'[Home[lastJob[t]]] = "up" => memory'[lastJob[t]] \in Live
                        /\ server'[Home[lastJob[t]]] = "loading"
                             => <<t, lastJob[t]>> \in listed'[Home[lastJob[t]]]
      BY <2>1 DEF Reconciled
    <3>1. PICK k \in Jobs : k = lastJob[t]
      BY DEF Named
    <3>2. CASE Home[k] = s
      <4>1. server'[s] = "loading"
        BY <1>0, <1>2 DEF LoadJobs, LockTypes
      <4>2. listed'[s] = {<<u, lastJob[u]>> : u \in {v \in Tokens : registry[v] = "pending"}}
        BY <1>0, <1>2 DEF LoadJobs, TokenTypes
      <4>3. <<t, k>> \in listed'[s]
        BY <3>1, <4>2
      <4> QED BY <3>1, <3>2, <4>1, <4>3
    <3>3. CASE Home[k] # s
      <4>1. server'[Home[k]] = server[Home[k]] /\ listed'[Home[k]] = listed[Home[k]]
        BY <1>0, <1>2, <3>3 DEF LoadJobs, LockTypes, TokenTypes
      <4>2. memory'[k] = memory[k]
        BY <1>0, <1>2, <3>3 DEF LoadJobs, JobTypes
      <4> QED BY <3>1, <4>1, <4>2 DEF Reconciled
    <3> QED BY <3>2, <3>3
  <2> QED BY <2>2, <2>3
<1>3. CASE RewritePending(s)
  <2>1. PICK record \in listed[s] :
           /\ listed' = [listed EXCEPT ![s] = @ \ {record}]
           /\ \/ Writes(record[1], "needs_review", record[2]) /\ UNCHANGED upsertFaults
              \/ UpsertFails(record[1], "needs_review", record[2])
    BY <1>3 DEF RewritePending
  <2>2. UNCHANGED <<server, memory, pc>>
    BY <1>3 DEF RewritePending
  <2>3. CASE UpsertFails(record[1], "needs_review", record[2])
    <3>1. upsertFaults' # 0
      BY <1>0, <2>3 DEF UpsertFails, TokenTypes
    <3>2. record[1] \in Tokens
      BY <1>0 DEF TokenTypes
    <3>3. \A t \in Tokens : registry'[t] = "pending"
                             => registry[t] = "pending" /\ lastJob'[t] = lastJob[t]
      BY <1>0, <2>3, <3>2 DEF UpsertFails, Writes, TokenTypes
    <3> QED BY <2>2, <3>1, <3>3 DEF Named, Reconciled, Activated, PendingFor
  <2>4. CASE Writes(record[1], "needs_review", record[2]) /\ UNCHANGED upsertFaults
    <3>1. record \in Tokens \X (Jobs \cup {NoOne})
      BY <1>0 DEF TokenTypes
    <3>2. record[1] \in Tokens
      BY <3>1
    <3>3. ASSUME NEW t \in Tokens, registry'[t] = "pending"
          PROVE  /\ registry[t] = "pending" /\ lastJob'[t] = lastJob[t] /\ t # record[1]
                 /\ <<t, lastJob[t]>> # record
      <4>1. t # record[1] /\ registry[t] = "pending" /\ lastJob'[t] = lastJob[t]
        BY <1>0, <2>4, <3>2, <3>3 DEF TokenTypes, Writes
      <4>2. <<t, lastJob[t]>>[1] = t
        OBVIOUS
      <4> QED BY <4>1, <4>2
    <3>4. Named'
      BY <3>3 DEF Named
    <3>5. Reconciled'
      <4> SUFFICES ASSUME upsertFaults' = 0, NEW t \in Tokens, registry'[t] = "pending"
                   PROVE  /\ server[Home[lastJob'[t]]] = "up" => memory[lastJob'[t]] \in Live
                          /\ server[Home[lastJob'[t]]] = "loading"
                               => <<t, lastJob'[t]>> \in listed'[Home[lastJob'[t]]]
        BY <2>2 DEF Reconciled
      <4>1. PICK k \in Jobs : k = lastJob[t] /\ k = lastJob'[t]
        BY <3>3 DEF Named
      <4>2. \A x : x \in listed[Home[k]] /\ x # record => x \in listed'[Home[k]]
        BY <1>0, <2>1 DEF TokenTypes
      <4>3. /\ server[Home[k]] = "up" => memory[k] \in Live
            /\ server[Home[k]] = "loading" => <<t, k>> \in listed[Home[k]]
        BY <2>4, <3>3, <4>1 DEF Reconciled
      <4>4. <<t, k>> # record
        BY <3>3, <4>1
      <4> QED BY <4>1, <4>2, <4>3, <4>4
    <3>6. Activated'
      BY <2>2, <3>3 DEF Activated, PendingFor
    <3> QED BY <3>4, <3>5, <3>6
  <2> QED BY <2>1, <2>3, <2>4
<1>4. CASE Ready(s)
  <2>1. UNCHANGED <<registry, lastJob, upsertFaults, memory, listed, pc>>
    BY <1>4 DEF Ready, tokens, faults
  <2>2. server[s] = "loading" /\ listed[s] = {} /\ server' = [server EXCEPT ![s] = "up"]
    BY <1>4 DEF Ready
  <2>3. Named' /\ Activated'
    BY <2>1 DEF Named, Activated, PendingFor
  <2>4. Reconciled'
    BY <1>0, <2>1, <2>2 DEF Named, Reconciled, LockTypes
  <2> QED BY <2>3, <2>4
<1> QED BY <1>1, <1>2, <1>3, <1>4

LEMMA PendingStep == TypeOK /\ PendingInv /\ [Next]_vars => PendingInv'
<1> SUFFICES ASSUME TypeOK, PendingInv, [Next]_vars PROVE PendingInv'
  OBVIOUS
<1>1. CASE UNCHANGED <<registry, lastJob, upsertFaults, memory, server, listed, pc>>
  BY <1>1 DEF PendingInv, Named, Reconciled, Activated, PendingFor
<1>2. ASSUME NEW j \in Jobs, OrphanEnds(j)
      PROVE  UNCHANGED <<registry, lastJob, upsertFaults, memory, server, listed, pc>>
  BY <1>2 DEF OrphanEnds, tables, tokens, faults
<1>3. CASE TimerTakesLock \/ TimerPublishes \/ TimerReleases \/ NewDay \/ UNCHANGED vars
  BY <1>1, <1>3 DEF TimerTakesLock, TimerPublishes, TimerReleases, NewDay, vars, tables, tokens,
     faults
<1> QED BY <1>1, <1>2, <1>3, PendingJobStep, PendingServerStep DEF Next, JobStep

\* As long as the registry can be written, a pending token waits for a live job of a
\* running server, for any number of servers and restarts.
THEOREM PendingIsReconciled == Spec => []PendingHasWorker
<1>1. Init => PendingInv
  BY DEF Init, PendingInv, Named, Reconciled, Activated, PendingFor
<1>2. PendingInv => PendingHasWorker
  BY DEF PendingInv, Named, Reconciled, PendingHasWorker
<1> QED BY <1>1, <1>2, PendingStep, TypeCorrect, PTL DEF Spec

-----------------------------------------------------------------------------
(* A job that reports success has seen a new publication.                  *)

Early == {"none", "permitted", "starting", "waiting", "locked", "started", "collecting"}

\* Its command has not ended, so nothing can be named after the job.
MayPublish(k) == k \in orphans \/ pc[k] \in Early

FreshInv ==
  /\ \A k \in Jobs : k \in orphans => pc[k] = "done"
  /\ \A k \in Jobs : MayPublish(k) => k # report /\ k # dataset
  /\ \A k, j \in Jobs : MayPublish(k) => k # atLock[j]

Compares(j) == \/ pc[j] \in {"collecting", "judge"}
               \/ Kind[j] = "retry" /\ pc[j] = "started"

Unjudged == {"starting", "waiting", "locked", "started", "collecting", "judge"}

\* Where the server is not up no thread is left.
IdleWhenDown(j) == server[Home[j]] # "up" => pc[j] \in {"none", "done"}

LiveUntilJudged(j) ==
  /\ pc[j] \in Unjudged => memory[j] \in Live
  /\ pc[j] \in {"activate", "snapshots"} => Kind[j] = "onboarding"

\* What a job compares with is the report of a time after it got the lock, or the report
\* has moved on from what was published when it got the lock.
ComparesWell(j) ==
  Kind[j] # "onboarding" /\ Compares(j) => report = baseReport[j] \/ report # atLock[j]

SucceedsWell(j) ==
  Kind[j] # "onboarding" /\ memory[j] = "succeeded" /\ pc[j] \in Working
    => dataset # atLock[j]

NewsOf(j) == IdleWhenDown(j) /\ LiveUntilJudged(j) /\ ComparesWell(j) /\ SucceedsWell(j)

NewsInv == FreshInv /\ \A j \in Jobs : NewsOf(j)

\* What a step of a job does to publications and to what jobs compare with.
OwnEvidence(j) ==
  /\ \A k \in Jobs : k # j => baseReport'[k] = baseReport[k] /\ atLock'[k] = atLock[k]
  /\ UNCHANGED <<server, orphans>>
  /\ pc'[j] \in Early \cup {"done"} => pc[j] \in Early \/ pc'[j] = "done"
  /\ pc[j] # "done"

OwnPublication(j) ==
  \/ UNCHANGED <<report, dataset>> /\ atLock'[j] \in {atLock[j], dataset, NoOne}
  \/ /\ pc[j] = "collecting" /\ pc'[j] = "judge"
     /\ report' \in {report, j} /\ dataset' \in {dataset, j} /\ atLock'[j] = atLock[j]

LEMMA ForgetOwn ==
  ASSUME EvidenceTypes, NEW j \in Jobs, Forget({j})
  PROVE  /\ \A k \in Jobs : k # j => baseReport'[k] = baseReport[k] /\ atLock'[k] = atLock[k]
         /\ atLock'[j] = NoOne
BY DEF Forget, EvidenceTypes

LEMMA EvidenceMove ==
  ASSUME TypeOK, NEW j \in Jobs, JobStep(j)
  PROVE  OwnEvidence(j)
<1>0. JobTypes /\ EvidenceTypes
  BY TypeGroups
<1> USE <1>0 DEF OwnEvidence, JobTypes, EvidenceTypes, Early
<1>1. CASE Permit(j)
  BY <1>1 DEF Permit, ReadsReport, Goto, tables, facts
<1>2. CASE CreateJob(j)
  <2>1. CASE Refused(j) \/ Unsaved(j)
    BY <1>2, <2>1, ForgetOwn DEF CreateJob, Refused, Unsaved, Goto, Arrived, facts
  <2>2. CASE Accepted(j)
    BY <1>2, <2>2 DEF CreateJob, Accepted, ReadsReport, Goto, Arrived, facts
  <2> QED BY <1>2, <2>1, <2>2 DEF CreateJob
<1>3. CASE CreateOnboardingJob(j)
  <2>1. CASE Refused(j) \/ Unsaved(j)
    BY <1>3, <2>1, ForgetOwn DEF CreateOnboardingJob, Refused, Unsaved, Goto, Arrived, facts
  <2>2. CASE Accepted(j)
    BY <1>3, <2>2 DEF CreateOnboardingJob, Accepted, ReadsReport, Goto, Arrived, facts
  <2>3. CASE UpsertFails(Token[j], "pending", j) /\ Goto(j, "done") /\ UNCHANGED evidence
    BY <1>3, <2>3 DEF CreateOnboardingJob, Goto, Arrived, facts, evidence
  <2> QED BY <1>3, <2>1, <2>2, <2>3 DEF CreateOnboardingJob
<1>4. CASE StartWorker(j)
  BY <1>4 DEF StartWorker, Goto, tables, facts, evidence
<1>5. CASE WorkerDoesNotStart(j)
  BY <1>5, SetJobMove, ForgetOwn DEF WorkerDoesNotStart, tables, facts, evidence
<1>6. CASE TakeLock(j)
  BY <1>6 DEF TakeLock, Goto, tables, facts, evidence
<1>7. CASE LockBusy(j)
  BY <1>7, SetJobMove, ForgetOwn DEF LockBusy, tables, facts, evidence
<1>8. CASE LockFileUnavailable(j)
  BY <1>8 DEF LockFileUnavailable, Goto, tables, facts, evidence
<1>9. CASE Start(j)
  BY <1>9, SetJobMove DEF Start, Goto, tables, facts, evidence
<1>10. CASE StartCommand(j)
  BY <1>10 DEF StartCommand, Goto, tables, facts, evidence
<1>11. CASE StartOnboarding(j)
  BY <1>11, SetJobMove DEF StartOnboarding, Goto, tables, facts, evidence
<1>12. CASE CommandEnds(j)
  BY <1>12 DEF CommandEnds, Goto, tables, facts, evidence
<1>13. CASE Judge(j)
  BY <1>13, SetJobMove DEF Judge, Goto, tables, facts, evidence
<1>14. CASE DailyFailed(j)
  BY <1>14, SetJobMove DEF DailyFailed, Goto, tables, facts, evidence
<1>15. CASE Unverified(j)
  BY <1>15, SetJobMove DEF Unverified, Goto, tables, facts, evidence
<1>16. CASE Verified(j)
  BY <1>16, SetJobMove DEF Verified, Goto, tables, facts, evidence
<1>17. CASE Activate(j)
  BY <1>17 DEF Activate, Goto, tables, facts, evidence
<1>18. CASE ActivationFails(j)
  BY <1>18, SetJobMove DEF ActivationFails, Goto, tables, facts, evidence
<1>19. CASE Snapshots(j)
  BY <1>19, SetJobMove DEF Snapshots, Goto, tables, facts, evidence
<1>20. CASE Unexpected(j)
  BY <1>20, SetJobMove DEF Unexpected, Goto, tables, facts, evidence
<1>21. CASE Exit(j)
  BY <1>21, ForgetOwn DEF Exit, Goto, tables, facts
<1> QED
  BY <1>1, <1>2, <1>3, <1>4, <1>5, <1>6, <1>7, <1>8, <1>9, <1>10, <1>11, <1>12, <1>13, <1>14,
     <1>15, <1>16, <1>17, <1>18, <1>19, <1>20, <1>21
  DEF JobStep, Request, WorkerStep

LEMMA PublicationMove ==
  ASSUME TypeOK, NEW j \in Jobs, JobStep(j)
  PROVE  OwnPublication(j)
<1>0. JobTypes /\ EvidenceTypes
  BY TypeGroups
<1> USE <1>0 DEF OwnPublication, JobTypes, EvidenceTypes
<1>1. CASE Permit(j)
  BY <1>1 DEF Permit, ReadsReport, Goto, tables, facts
<1>2. CASE CreateJob(j)
  <2>1. CASE Refused(j) \/ Unsaved(j)
    BY <1>2, <2>1, ForgetOwn DEF CreateJob, Refused, Unsaved, Goto, Arrived, facts
  <2>2. CASE Accepted(j)
    BY <1>2, <2>2 DEF CreateJob, Accepted, ReadsReport, Goto, Arrived, facts
  <2> QED BY <1>2, <2>1, <2>2 DEF CreateJob
<1>3. CASE CreateOnboardingJob(j)
  <2>1. CASE Refused(j) \/ Unsaved(j)
    BY <1>3, <2>1, ForgetOwn DEF CreateOnboardingJob, Refused, Unsaved, Goto, Arrived, facts
  <2>2. CASE Accepted(j)
    BY <1>3, <2>2 DEF CreateOnboardingJob, Accepted, ReadsReport, Goto, Arrived, facts
  <2>3. CASE UpsertFails(Token[j], "pending", j) /\ Goto(j, "done") /\ UNCHANGED evidence
    BY <1>3, <2>3 DEF CreateOnboardingJob, Goto, Arrived, facts, evidence
  <2> QED BY <1>3, <2>1, <2>2, <2>3 DEF CreateOnboardingJob
<1>4. CASE StartWorker(j)
  BY <1>4 DEF StartWorker, Goto, tables, facts, evidence
<1>5. CASE WorkerDoesNotStart(j)
  BY <1>5, SetJobMove, ForgetOwn DEF WorkerDoesNotStart, tables, facts, evidence
<1>6. CASE TakeLock(j)
  BY <1>6 DEF TakeLock, Goto, tables, facts, evidence
<1>7. CASE LockBusy(j)
  BY <1>7, SetJobMove, ForgetOwn DEF LockBusy, tables, facts, evidence
<1>8. CASE LockFileUnavailable(j)
  BY <1>8 DEF LockFileUnavailable, Goto, tables, facts, evidence
<1>9. CASE Start(j)
  BY <1>9, SetJobMove DEF Start, Goto, tables, facts, evidence
<1>10. CASE StartCommand(j)
  BY <1>10 DEF StartCommand, Goto, tables, facts, evidence
<1>11. CASE StartOnboarding(j)
  BY <1>11, SetJobMove DEF StartOnboarding, Goto, tables, facts, evidence
<1>12. CASE CommandEnds(j)
  BY <1>12 DEF CommandEnds, Publishes, Goto
<1>13. CASE Judge(j)
  BY <1>13, SetJobMove DEF Judge, Goto, tables, facts, evidence
<1>14. CASE DailyFailed(j)
  BY <1>14, SetJobMove DEF DailyFailed, Goto, tables, facts, evidence
<1>15. CASE Unverified(j)
  BY <1>15, SetJobMove DEF Unverified, Goto, tables, facts, evidence
<1>16. CASE Verified(j)
  BY <1>16, SetJobMove DEF Verified, Goto, tables, facts, evidence
<1>17. CASE Activate(j)
  BY <1>17 DEF Activate, Goto, tables, facts, evidence
<1>18. CASE ActivationFails(j)
  BY <1>18, SetJobMove DEF ActivationFails, Goto, tables, facts, evidence
<1>19. CASE Snapshots(j)
  BY <1>19, SetJobMove DEF Snapshots, Goto, tables, facts, evidence
<1>20. CASE Unexpected(j)
  BY <1>20, SetJobMove DEF Unexpected, Goto, tables, facts, evidence
<1>21. CASE Exit(j)
  BY <1>21, ForgetOwn DEF Exit, Goto, tables, facts
<1> QED
  BY <1>1, <1>2, <1>3, <1>4, <1>5, <1>6, <1>7, <1>8, <1>9, <1>10, <1>11, <1>12, <1>13, <1>14,
     <1>15, <1>16, <1>17, <1>18, <1>19, <1>20, <1>21
  DEF JobStep, Request, WorkerStep

LEMMA FreshJobStep ==
  ASSUME TypeOK, FreshInv, NEW j \in Jobs, JobStep(j)
  PROVE  FreshInv'
<1>0. JobTypes /\ EvidenceTypes /\ NoOne \notin Jobs
  BY TypeGroups, NamesOK DEF NamesOK
<1>1. OwnEvidence(j) /\ OwnPublication(j)
  BY EvidenceMove, PublicationMove
<1>2. \A k \in Jobs : k # j => pc'[k] = pc[k]
  BY <1>0, JobFrame
<1>3. \A k \in Jobs : MayPublish(k)' => MayPublish(k)
  BY <1>1, <1>2 DEF OwnEvidence, MayPublish, Early
<1>4. \A k \in Jobs : k \in orphans' => pc'[k] = "done"
  BY <1>1, <1>2 DEF FreshInv, OwnEvidence
<1>5. \A k \in Jobs : MayPublish(k)' => k # report' /\ k # dataset'
  <2>1. CASE UNCHANGED <<report, dataset>>
    BY <1>3, <2>1 DEF FreshInv
  <2>2. CASE pc'[j] = "judge" /\ report' \in {report, j} /\ dataset' \in {dataset, j}
    <3>1. ~MayPublish(j)'
      BY <1>4, <2>2 DEF MayPublish, Early
    <3> QED BY <1>3, <2>2, <3>1 DEF FreshInv
  <2> QED BY <1>1, <2>1, <2>2 DEF OwnPublication
<1>6. \A k, m \in Jobs : MayPublish(k)' => k # atLock'[m]
  <2>1. \A m \in Jobs : atLock'[m] \in {atLock[m], dataset, NoOne}
    BY <1>1 DEF OwnEvidence, OwnPublication
  <2> QED BY <1>0, <1>3, <2>1 DEF FreshInv
<1> QED BY <1>4, <1>5, <1>6 DEF FreshInv

LEMMA StepsWhileUp ==
  ASSUME NEW j \in Jobs, IdleWhenDown(j), JobStep(j)
  PROVE  server[Home[j]] = "up"
<1> USE DEF IdleWhenDown
<1>1. CASE Permit(j)
  BY <1>1 DEF Permit
<1>2. CASE CreateJob(j)
  BY <1>2 DEF CreateJob, Arrived
<1>3. CASE CreateOnboardingJob(j)
  BY <1>3 DEF CreateOnboardingJob, Arrived
<1>4. CASE StartWorker(j)
  BY <1>4 DEF StartWorker
<1>5. CASE WorkerDoesNotStart(j)
  BY <1>5 DEF WorkerDoesNotStart
<1>6. CASE TakeLock(j)
  BY <1>6 DEF TakeLock
<1>7. CASE LockBusy(j)
  BY <1>7 DEF LockBusy
<1>8. CASE LockFileUnavailable(j)
  BY <1>8 DEF LockFileUnavailable
<1>9. CASE Start(j)
  BY <1>9 DEF Start
<1>10. CASE StartCommand(j)
  BY <1>10 DEF StartCommand
<1>11. CASE StartOnboarding(j)
  BY <1>11 DEF StartOnboarding
<1>12. CASE CommandEnds(j)
  BY <1>12 DEF CommandEnds
<1>13. CASE Judge(j)
  BY <1>13 DEF Judge
<1>14. CASE DailyFailed(j)
  BY <1>14 DEF DailyFailed
<1>15. CASE Unverified(j)
  BY <1>15 DEF Unverified
<1>16. CASE Verified(j)
  BY <1>16 DEF Verified
<1>17. CASE Activate(j)
  BY <1>17 DEF Activate
<1>18. CASE ActivationFails(j)
  BY <1>18 DEF ActivationFails
<1>19. CASE Snapshots(j)
  BY <1>19 DEF Snapshots
<1>20. CASE Unexpected(j)
  BY <1>20 DEF Unexpected
<1>21. CASE Exit(j)
  BY <1>21 DEF Exit
<1> QED
  BY <1>1, <1>2, <1>3, <1>4, <1>5, <1>6, <1>7, <1>8, <1>9, <1>10, <1>11, <1>12, <1>13, <1>14,
     <1>15, <1>16, <1>17, <1>18, <1>19, <1>20, <1>21
  DEF JobStep, Request, WorkerStep

LEMMA LiveMove ==
  ASSUME JobTypes, NEW j \in Jobs, JobStep(j), LiveUntilJudged(j)
  PROVE  LiveUntilJudged(j)'
<1> USE DEF JobTypes, LiveUntilJudged, Unjudged, Live
<1>1. CASE Permit(j)
  BY <1>1 DEF Permit, Goto, tables, Arrived
<1>2. CASE CreateJob(j)
  BY <1>2 DEF CreateJob, Refused, Unsaved, Accepted, SaveFails, Saves, Goto, Arrived, tables,
     Arrived
<1>3. CASE CreateOnboardingJob(j)
  BY <1>3 DEF CreateOnboardingJob, Refused, Unsaved, Accepted, SaveFails, Saves, Goto, Arrived,
     tables, Arrived
<1>4. CASE StartWorker(j)
  BY <1>4 DEF StartWorker, Goto, tables, Arrived
<1>5. CASE WorkerDoesNotStart(j)
  BY <1>5, SetJobMove DEF WorkerDoesNotStart, Goto
<1>6. CASE TakeLock(j)
  BY <1>6 DEF TakeLock, Goto, tables, Arrived
<1>7. CASE LockBusy(j)
  BY <1>7, SetJobMove DEF LockBusy, Goto
<1>8. CASE LockFileUnavailable(j)
  BY <1>8 DEF LockFileUnavailable, Goto, tables, Arrived
<1>9. CASE Start(j)
  BY <1>9, SetJobMove DEF Start, Goto
<1>10. CASE StartCommand(j)
  BY <1>10 DEF StartCommand, Goto, tables, Arrived
<1>11. CASE StartOnboarding(j)
  BY <1>11, SetJobMove DEF StartOnboarding, Goto
<1>12. CASE CommandEnds(j)
  BY <1>12 DEF CommandEnds, Goto, tables, Arrived
<1>13. CASE Judge(j)
  BY <1>13, SetJobMove DEF Judge, Goto
<1>14. CASE DailyFailed(j)
  BY <1>14, SetJobMove DEF DailyFailed, Goto
<1>15. CASE Unverified(j)
  BY <1>15, SetJobMove DEF Unverified, Goto
<1>16. CASE Verified(j)
  BY <1>16, SetJobMove DEF Verified, Goto
<1>17. CASE Activate(j)
  BY <1>17 DEF Activate, Goto, tables, Arrived
<1>18. CASE ActivationFails(j)
  BY <1>18, SetJobMove DEF ActivationFails, Goto
<1>19. CASE Snapshots(j)
  BY <1>19, SetJobMove DEF Snapshots, Goto
<1>20. CASE Unexpected(j)
  BY <1>20, SetJobMove DEF Unexpected, Goto
<1>21. CASE Exit(j)
  BY <1>21 DEF Exit, Goto, tables, Arrived
<1> QED
  BY <1>1, <1>2, <1>3, <1>4, <1>5, <1>6, <1>7, <1>8, <1>9, <1>10, <1>11, <1>12, <1>13, <1>14,
     <1>15, <1>16, <1>17, <1>18, <1>19, <1>20, <1>21
  DEF JobStep, Request, WorkerStep

LEMMA ComparesMove ==
  ASSUME TypeOK, FreshInv, NEW j \in Jobs, JobStep(j), ComparesWell(j)
  PROVE  ComparesWell(j)'
<1>0. JobTypes /\ EvidenceTypes
  BY TypeGroups
<1> USE <1>0 DEF JobTypes, EvidenceTypes, ComparesWell, Compares
<1>1. CASE Permit(j)
  BY <1>1 DEF Permit, Goto, tables, facts, evidence
<1>2. CASE CreateJob(j)
  BY <1>2 DEF CreateJob, Refused, Unsaved, Accepted, SaveFails, Saves, Goto, Arrived, tables,
     facts, evidence
<1>3. CASE CreateOnboardingJob(j)
  BY <1>3 DEF CreateOnboardingJob, Refused, Unsaved, Accepted, SaveFails, Saves, Goto, Arrived,
     tables, facts, evidence
<1>4. CASE StartWorker(j)
  BY <1>4 DEF StartWorker, Goto, tables, facts, evidence
<1>5. CASE WorkerDoesNotStart(j)
  BY <1>5, SetJobMove DEF WorkerDoesNotStart, Unauthorized, Goto, facts, evidence
<1>6. CASE TakeLock(j)
  BY <1>6 DEF TakeLock, Goto, tables, facts, evidence
<1>7. CASE LockBusy(j)
  BY <1>7, SetJobMove DEF LockBusy, Unauthorized, Goto, facts, evidence
<1>8. CASE LockFileUnavailable(j)
  BY <1>8 DEF LockFileUnavailable, Goto, tables, facts, evidence
<1>9. CASE Start(j)
  BY <1>9, SetJobMove DEF Start, Unauthorized, Goto, facts, evidence
<1>10. CASE StartCommand(j)
  <2>1. CASE Kind[j] = "refresh"
    BY <1>10, <2>1 DEF StartCommand, facts
  <2>2. CASE Kind[j] # "refresh"
    <3>1. Kind[j] = "retry" /\ pc[j] = "started"
      BY <1>10, <2>2, JobsOK DEF StartCommand, JobsOK, Kinds
    <3> QED BY <1>10, <2>2, <3>1 DEF StartCommand, facts
  <2> QED BY <2>1, <2>2
<1>11. CASE StartOnboarding(j)
  BY <1>11, SetJobMove DEF StartOnboarding, Unauthorized, Goto, facts, evidence
<1>12. CASE CommandEnds(j)
  <2>1. j # atLock[j]
    BY <1>12 DEF CommandEnds, FreshInv, MayPublish, Early
  <2> QED BY <1>12, <2>1 DEF CommandEnds, Publishes, Goto
<1>13. CASE Judge(j)
  BY <1>13, SetJobMove DEF Judge, Unauthorized, Goto, facts, evidence
<1>14. CASE DailyFailed(j)
  BY <1>14, SetJobMove DEF DailyFailed, Unauthorized, Goto, facts, evidence
<1>15. CASE Unverified(j)
  BY <1>15, SetJobMove DEF Unverified, Unauthorized, Goto, facts, evidence
<1>16. CASE Verified(j)
  BY <1>16, SetJobMove DEF Verified, Unauthorized, Goto, facts, evidence
<1>17. CASE Activate(j)
  BY <1>17 DEF Activate, Goto, tables, facts, evidence
<1>18. CASE ActivationFails(j)
  BY <1>18, SetJobMove DEF ActivationFails, Unauthorized, Goto, facts, evidence
<1>19. CASE Snapshots(j)
  BY <1>19, SetJobMove DEF Snapshots, Unauthorized, Goto, facts, evidence
<1>20. CASE Unexpected(j)
  BY <1>20, SetJobMove DEF Unexpected, Unauthorized, Goto, facts, evidence
<1>21. CASE Exit(j)
  BY <1>21 DEF Exit, Goto, tables, facts, evidence
<1> QED
  BY <1>1, <1>2, <1>3, <1>4, <1>5, <1>6, <1>7, <1>8, <1>9, <1>10, <1>11, <1>12, <1>13, <1>14,
     <1>15, <1>16, <1>17, <1>18, <1>19, <1>20, <1>21
  DEF JobStep, Request, WorkerStep

LEMMA SucceedsMove ==
  ASSUME TypeOK, NEW j \in Jobs, JobStep(j), LiveUntilJudged(j), ComparesWell(j), SucceedsWell(j)
  PROVE  SucceedsWell(j)'
<1>0. JobTypes /\ EvidenceTypes
  BY TypeGroups
<1> USE <1>0 DEF JobTypes, EvidenceTypes, SucceedsWell, Working, LiveUntilJudged, Unjudged, Live
<1>1. CASE Permit(j)
  BY <1>1 DEF Permit, Goto, tables, facts, evidence
<1>2. CASE CreateJob(j)
  BY <1>2 DEF CreateJob, Refused, Unsaved, Accepted, SaveFails, Saves, Goto, Arrived, tables,
     facts, evidence
<1>3. CASE CreateOnboardingJob(j)
  BY <1>3 DEF CreateOnboardingJob, Refused, Unsaved, Accepted, SaveFails, Saves, Goto, Arrived,
     tables, facts, evidence
<1>4. CASE StartWorker(j)
  BY <1>4 DEF StartWorker, Goto, tables, facts, evidence
<1>5. CASE WorkerDoesNotStart(j)
  BY <1>5, SetJobMove DEF WorkerDoesNotStart, NewPublication, Compares, ComparesWell, Goto,
     facts, evidence
<1>6. CASE TakeLock(j)
  BY <1>6 DEF TakeLock, Goto, tables, facts, evidence
<1>7. CASE LockBusy(j)
  BY <1>7, SetJobMove DEF LockBusy, NewPublication, Compares, ComparesWell, Goto, facts, evidence
<1>8. CASE LockFileUnavailable(j)
  BY <1>8 DEF LockFileUnavailable, Goto, tables, facts, evidence
<1>9. CASE Start(j)
  BY <1>9, SetJobMove DEF Start, NewPublication, Compares, ComparesWell, Goto, facts, evidence
<1>10. CASE StartCommand(j)
  BY <1>10 DEF StartCommand, Goto, tables, facts, evidence
<1>11. CASE StartOnboarding(j)
  BY <1>11, SetJobMove DEF StartOnboarding, NewPublication, Compares, ComparesWell, Goto, facts,
     evidence
<1>12. CASE CommandEnds(j)
  BY <1>12 DEF CommandEnds, Goto, tables, facts, evidence
<1>13. CASE Judge(j)
  <2>1. CASE SetJob(j, "partial", "exit", "unexpected") \/ SetJob(j, "failed", "exit", "unexpected")
    <3>1. memory'[j] # "succeeded"
      BY <2>1, SetJobMove
    <3> QED BY <3>1
  <2>2. CASE NewPublication(j)
    <3>1. dataset # atLock[j]
      BY <1>13, <2>2 DEF Judge, NewPublication, ComparesWell, Compares
    <3>2. UNCHANGED <<dataset, atLock>>
      BY <1>13 DEF Judge, facts, evidence
    <3> QED BY <3>1, <3>2
  <2> QED BY <1>13, <2>1, <2>2 DEF Judge
<1>14. CASE DailyFailed(j)
  BY <1>14, SetJobMove DEF DailyFailed, NewPublication, Compares, ComparesWell, Goto, facts,
     evidence
<1>15. CASE Unverified(j)
  BY <1>15, SetJobMove DEF Unverified, NewPublication, Compares, ComparesWell, Goto, facts,
     evidence
<1>16. CASE Verified(j)
  BY <1>16, SetJobMove DEF Verified, NewPublication, Compares, ComparesWell, Goto, facts, evidence
<1>17. CASE Activate(j)
  BY <1>17 DEF Activate, Goto, tables, facts, evidence
<1>18. CASE ActivationFails(j)
  BY <1>18, SetJobMove DEF ActivationFails, NewPublication, Compares, ComparesWell, Goto, facts,
     evidence
<1>19. CASE Snapshots(j)
  BY <1>19 DEF Snapshots
<1>20. CASE Unexpected(j)
  BY <1>20, SetJobMove DEF Unexpected, NewPublication, Compares, ComparesWell, Goto, facts,
     evidence
<1>21. CASE Exit(j)
  BY <1>21 DEF Exit, Goto, tables, facts, evidence
<1> QED
  BY <1>1, <1>2, <1>3, <1>4, <1>5, <1>6, <1>7, <1>8, <1>9, <1>10, <1>11, <1>12, <1>13, <1>14,
     <1>15, <1>16, <1>17, <1>18, <1>19, <1>20, <1>21
  DEF JobStep, Request, WorkerStep

LEMMA NewsJobStep ==
  ASSUME TypeOK, NewsInv, NEW j \in Jobs, JobStep(j)
  PROVE  NewsInv'
<1>0. JobTypes
  BY TypeGroups
<1>1. OwnEvidence(j) /\ OwnPublication(j) /\ NewsOf(j)
  BY EvidenceMove, PublicationMove DEF NewsInv
<1>2. server[Home[j]] = "up"
  BY <1>1, StepsWhileUp DEF NewsOf
<1>3. NewsOf(j)'
  <2>1. IdleWhenDown(j)'
    BY <1>1, <1>2 DEF OwnEvidence, IdleWhenDown
  <2> QED
    BY <1>0, <1>1, <2>1, LiveMove, ComparesMove, SucceedsMove DEF NewsOf, NewsInv
<1>4. ASSUME NEW k \in Jobs, k # j PROVE NewsOf(k)'
  <2>1. memory'[k] = memory[k] /\ pc'[k] = pc[k] /\ NewsOf(k) /\ FreshInv
    BY <1>0, <1>4, JobFrame DEF NewsInv
  <2>2. baseReport'[k] = baseReport[k] /\ atLock'[k] = atLock[k] /\ server' = server
    BY <1>1, <1>4 DEF OwnEvidence
  <2>3. IdleWhenDown(k)' /\ LiveUntilJudged(k)'
    BY <2>1, <2>2 DEF NewsOf, IdleWhenDown, LiveUntilJudged
  <2>4. CASE UNCHANGED <<report, dataset>>
    BY <2>1, <2>2, <2>3, <2>4 DEF NewsOf, ComparesWell, Compares, SucceedsWell
  <2>5. CASE pc[j] = "collecting" /\ report' \in {report, j} /\ dataset' \in {dataset, j}
    <3>1. j # atLock[k]
      BY <2>1, <2>5 DEF FreshInv, MayPublish, Early
    <3> QED BY <2>1, <2>2, <2>3, <2>5, <3>1 DEF NewsOf, ComparesWell, Compares, SucceedsWell
  <2> QED BY <1>1, <2>4, <2>5 DEF OwnPublication
<1> QED BY <1>3, <1>4, FreshJobStep DEF NewsInv

LEMMA NewsStep == TypeOK /\ NewsInv /\ [Next]_vars => NewsInv'
<1> SUFFICES ASSUME TypeOK, NewsInv, [Next]_vars PROVE NewsInv'
  OBVIOUS
<1>0. /\ JobTypes /\ EvidenceTypes /\ LockTypes
      /\ NoOne \notin Jobs /\ Timer \notin Jobs
  BY TypeGroups, NamesOK DEF NamesOK
<1>1. ASSUME NEW s \in Servers, Crash(s) PROVE NewsInv'
  <2>1. \A k \in Jobs :
          /\ Home[k] # s => memory'[k] = memory[k] /\ pc'[k] = pc[k]
                            /\ baseReport'[k] = baseReport[k] /\ atLock'[k] = atLock[k]
          /\ Home[k] = s => memory'[k] = "none" /\ pc'[k] \in {"none", "done"}
                            /\ atLock'[k] = NoOne
    BY <1>0, <1>1 DEF Crash, Forget, JobTypes, EvidenceTypes
  <2>2. UNCHANGED <<report, dataset>> /\ server' = [server EXCEPT ![s] = "down"]
    BY <1>1 DEF Crash
  <2>3. /\ \A k \in Jobs : MayPublish(k)' => MayPublish(k)
        /\ \A k \in Jobs : k \in orphans' => pc'[k] = "done"
    BY <1>0, <1>1, <2>1 DEF Crash, MayPublish, Early, NewsInv, FreshInv, JobTypes
  <2>4. FreshInv'
    BY <1>0, <2>1, <2>2, <2>3 DEF NewsInv, FreshInv
  <2>5. ASSUME NEW k \in Jobs PROVE NewsOf(k)'
    <3>1. CASE Home[k] = s
      BY <2>1, <3>1 DEF NewsOf, IdleWhenDown, LiveUntilJudged, ComparesWell, Compares,
         SucceedsWell, Unjudged, Working
    <3>2. CASE Home[k] # s
      <4>1. server'[Home[k]] = server[Home[k]]
        BY <1>0, <2>2, <3>2, Homes DEF LockTypes
      <4> QED BY <2>1, <2>2, <3>2, <4>1 DEF NewsInv, NewsOf, IdleWhenDown, LiveUntilJudged,
              ComparesWell, Compares, SucceedsWell
    <3> QED BY <3>1, <3>2
  <2> QED BY <2>4, <2>5 DEF NewsInv
<1>2. ASSUME NEW s \in Servers, LoadJobs(s) PROVE NewsInv'
  <2>1. UNCHANGED <<pc, report, dataset, orphans, baseReport, atLock>>
    BY <1>2 DEF LoadJobs, facts, evidence
  <2>2. FreshInv'
    BY <2>1 DEF NewsInv, FreshInv, MayPublish
  <2>3. ASSUME NEW k \in Jobs PROVE NewsOf(k)'
    <3>1. CASE Home[k] = s
      <4>1. pc[k] \in {"none", "done"}
        BY <1>2, <3>1 DEF LoadJobs, NewsInv, NewsOf, IdleWhenDown
      <4> QED BY <2>1, <4>1 DEF NewsOf, IdleWhenDown, LiveUntilJudged, ComparesWell, Compares,
              SucceedsWell, Unjudged, Working
    <3>2. CASE Home[k] # s
      <4>1. server'[Home[k]] = server[Home[k]] /\ memory'[k] = memory[k]
        BY <1>0, <1>2, <3>2, Homes DEF LoadJobs, LockTypes, JobTypes
      <4> QED BY <2>1, <4>1 DEF NewsInv, NewsOf, IdleWhenDown, LiveUntilJudged, ComparesWell,
              Compares, SucceedsWell
    <3> QED BY <3>1, <3>2
  <2> QED BY <2>2, <2>3 DEF NewsInv
<1>3. ASSUME NEW s \in Servers, RewritePending(s) \/ Ready(s) PROVE NewsInv'
  <2>1. UNCHANGED <<memory, pc, report, dataset, orphans, baseReport, atLock>>
    BY <1>3 DEF RewritePending, Ready, facts, evidence
  <2>2. \A k \in Jobs : server'[Home[k]] # "up" => server[Home[k]] # "up"
    BY <1>0, <1>3, Homes DEF RewritePending, Ready, LockTypes
  <2> QED BY <2>1, <2>2 DEF NewsInv, FreshInv, MayPublish, NewsOf, IdleWhenDown,
          LiveUntilJudged, ComparesWell, Compares, SucceedsWell
<1>4. ASSUME NEW m \in Jobs, OrphanEnds(m) PROVE NewsInv'
  <2>1. /\ UNCHANGED <<server, memory, pc, baseReport, atLock>>
        /\ m \in orphans /\ orphans' = orphans \ {m}
        /\ report' \in {report, m} /\ dataset' \in {dataset, m}
    BY <1>4 DEF OrphanEnds, Publishes, tables, evidence
  <2>2. pc[m] = "done" /\ \A k \in Jobs : m # atLock[k]
    BY <2>1 DEF NewsInv, FreshInv, MayPublish
  <2>3. FreshInv'
    BY <2>1, <2>2 DEF NewsInv, FreshInv, MayPublish, Early
  <2>4. ASSUME NEW k \in Jobs PROVE NewsOf(k)'
    BY <2>1, <2>2 DEF NewsInv, NewsOf, IdleWhenDown, LiveUntilJudged, ComparesWell, Compares,
       SucceedsWell
  <2> QED BY <2>3, <2>4 DEF NewsInv
<1>5. CASE TimerPublishes
  <2>1. /\ UNCHANGED <<server, memory, pc, orphans, baseReport, atLock>>
        /\ report' = Timer /\ dataset' = Timer
        /\ \A k \in Jobs : Timer # atLock[k]
    BY <1>5 DEF TimerPublishes, tables, evidence
  <2>2. FreshInv'
    BY <1>0, <2>1 DEF NewsInv, FreshInv, MayPublish
  <2>3. ASSUME NEW k \in Jobs PROVE NewsOf(k)'
    BY <2>1 DEF NewsInv, NewsOf, IdleWhenDown, LiveUntilJudged, ComparesWell, SucceedsWell
  <2> QED BY <2>2, <2>3 DEF NewsInv
<1>6. CASE TimerTakesLock \/ TimerReleases \/ NewDay \/ UNCHANGED vars
  <2>1. UNCHANGED <<server, memory, pc, report, dataset, orphans, baseReport, atLock>>
    BY <1>6 DEF TimerTakesLock, TimerReleases, NewDay, vars, tables, facts, evidence
  <2> QED BY <2>1 DEF NewsInv, FreshInv, MayPublish, NewsOf, IdleWhenDown, LiveUntilJudged,
          ComparesWell, Compares, SucceedsWell
<1> QED BY <1>1, <1>2, <1>3, <1>4, <1>5, <1>6, NewsJobStep DEF Next, JobStep

LEMMA InitialNews == Init => NewsInv
BY NamesOK, Homes DEF Init, NewsInv, FreshInv, MayPublish, NewsOf, IdleWhenDown,
   LiveUntilJudged, ComparesWell, Compares, SucceedsWell, Unjudged, NamesOK

\* A refresh or retry that reports success has seen a publication committed after it got
\* collection.lock: for any number of servers, restarts and commands that outlive them.
THEOREM SuccessMeansNews == Spec => []SuccessIsNews
<1>1. NewsInv => SuccessIsNews
  BY DEF NewsInv, NewsOf, SucceedsWell, SuccessIsNews
<1> QED BY <1>1, InitialNews, NewsStep, TypeCorrect, PTL DEF Spec

-----------------------------------------------------------------------------
(* Activation is earned, with one server process.                          *)

Acting == {"starting", "waiting", "locked", "started", "collecting", "judge", "activate",
           "snapshots", "unexpected", "exit"}

Onboards(j) == Kind[j] = "onboarding"

HasSucceeded(j) == memory[j] = "succeeded" \/ file[j] = "succeeded" \/ pc[j] = "snapshots"

\* A token is reserved for the one onboarding thread that may write its record.
Reserves ==
  /\ \A j \in Jobs : Onboards(j) /\ pc[j] \in Acting => Token[j] \in reserved
  /\ \A i, j \in Jobs : Onboards(i) /\ Onboards(j) /\ Token[i] = Token[j]
                          /\ pc[i] \in Acting /\ pc[j] \in Acting => i = j

\* After a success nobody else will write the record.
Settled(j) ==
  /\ registry[Token[j]] = "active"
  /\ Token[j] \in reserved
  /\ \A i \in Jobs : Onboards(i) /\ Token[i] = Token[j] /\ i # j => pc[i] \notin Acting

NotYet(j) == pc[j] \in Unjudged \cup {"activate"} => ~HasSucceeded(j)

\* A list of pending records is read and worked off while no thread runs.
ListedPending ==
  \A s \in Servers :
    /\ listed[s] # {} => server[s] = "loading"
    /\ \A r \in listed[s] : registry[r[1]] = "pending"
    /\ \A r, q \in listed[s] : r[1] = q[1] => r = q

RowsEarned ==
  /\ \A t \in Tokens : registry[t] = "active" => t \in rows
  /\ \A j \in Jobs : pc[j] = "activate" => Token[j] \in rows

EarnInv ==
  /\ RowsEarned
  /\ Reserves
  /\ \A j \in Jobs : Onboards(j) => NotYet(j) /\ (HasSucceeded(j) => Settled(j))
  /\ ListedPending

\* A step of a job writes the record of its own token alone.
OwnToken(j) ==
  /\ \A k \in Jobs : k # j => file'[k] = file[k]
  /\ \A t \in Tokens : t # Token[j] \/ ~Onboards(j)
                         => registry'[t] = registry[t] /\ (t \in reserved' <=> t \in reserved)
  /\ rows \subseteq rows'
  /\ UNCHANGED <<server, listed>>

LEMMA SetJobOwn ==
  ASSUME JobTypes, NEW j \in Jobs, NEW status, NEW next, NEW onError,
         SetJob(j, status, next, onError) \/ SetJobAfterFault(j, status, next, onError)
  PROVE  /\ \A k \in Jobs : k # j => file'[k] = file[k]
         /\ file'[j] \in {status, file[j]}
         /\ memory'[j] = status
         /\ pc'[j] \in {next, onError}
BY DEF SetJob, SetJobAfterFault, Saves, SaveFails, Goto, JobTypes

LEMMA OwnTokenMove ==
  ASSUME TypeOK, NEW j \in Jobs, LiveUntilJudged(j), JobStep(j)
  PROVE  OwnToken(j)
<1>0. JobTypes /\ TokenTypes /\ FactTypes /\ Token[j] \in Tokens
  BY TypeGroups, Homes
<1> USE <1>0 DEF OwnToken, Onboards, JobTypes, TokenTypes, FactTypes
<1>1. CASE Permit(j)
  BY <1>1 DEF Permit, Goto, Upserts, UpsertFails, Writes, tables, tokens, facts, faults
<1>2. CASE CreateJob(j)
  BY <1>2 DEF CreateJob, Refused, Unsaved, Accepted, SaveFails, Saves, Goto, Arrived, Upserts,
     UpsertFails, tables, tokens, facts, faults
<1>3. CASE CreateOnboardingJob(j)
  BY <1>3 DEF CreateOnboardingJob, Refused, Unsaved, Accepted, SaveFails, Saves, Goto, Arrived,
     Upserts, UpsertFails, Writes, tables, tokens, facts, faults
<1>4. CASE StartWorker(j)
  BY <1>4 DEF StartWorker, Goto, Upserts, UpsertFails, Writes, tables, tokens, facts, faults
<1>5. CASE WorkerDoesNotStart(j)
  BY <1>5, SetJobOwn DEF WorkerDoesNotStart, TryUpsert, Upserts, UpsertFails, Writes, MarkNeedsReview,
     tables, tokens, facts, faults
<1>6. CASE TakeLock(j)
  BY <1>6 DEF TakeLock, Goto, Upserts, UpsertFails, Writes, tables, tokens, facts, faults
<1>7. CASE LockBusy(j)
  BY <1>7, SetJobOwn DEF LockBusy, TryUpsert, Upserts, UpsertFails, Writes, MarkNeedsReview, tables,
     tokens, facts, faults
<1>8. CASE LockFileUnavailable(j)
  BY <1>8 DEF LockFileUnavailable, SaveFails, tokens, facts
<1>9. CASE Start(j)
  BY <1>9, SetJobOwn DEF Start, TryUpsert, Upserts, UpsertFails, Writes, MarkNeedsReview, tables,
     tokens, facts, faults
<1>10. CASE StartCommand(j)
  BY <1>10 DEF StartCommand, Goto, Upserts, UpsertFails, Writes, tables, tokens, facts, faults
<1>11. CASE StartOnboarding(j)
  BY <1>11, SetJobOwn DEF StartOnboarding, TryUpsert, Upserts, UpsertFails, Writes, MarkNeedsReview,
     tables, tokens, facts, faults
<1>12. CASE CommandEnds(j)
  BY <1>12 DEF CommandEnds, Publishes, tables, tokens
<1>13. CASE Judge(j)
  BY <1>13, SetJobOwn DEF Judge, TryUpsert, Upserts, UpsertFails, Writes, MarkNeedsReview, tables,
     tokens, facts, faults
<1>14. CASE DailyFailed(j)
  BY <1>14, SetJobOwn DEF DailyFailed, TryUpsert, Upserts, UpsertFails, Writes, MarkNeedsReview, tables,
     tokens, facts, faults
<1>15. CASE Unverified(j)
  BY <1>15, SetJobOwn DEF Unverified, TryUpsert, Upserts, UpsertFails, Writes, SaveFails, facts
<1>16. CASE Verified(j)
  BY <1>16, SetJobOwn DEF Verified, TryUpsert, Upserts, UpsertFails, Writes, MarkNeedsReview, tables,
     tokens, facts, faults
<1>17. CASE Activate(j)
  BY <1>17 DEF Activate, LiveUntilJudged, Upserts, Writes, tables, facts
<1>18. CASE ActivationFails(j)
  <2>1. Kind[j] = "onboarding"
    BY <1>18 DEF ActivationFails, LiveUntilJudged
  <2>2. \A t \in Tokens : t # Token[j] => registry'[t] = registry[t]
    BY <1>18 DEF ActivationFails, UpsertFails, Writes
  <2> QED BY <1>18, <2>1, <2>2, SetJobOwn DEF ActivationFails, facts
<1>19. CASE Snapshots(j)
  BY <1>19, SetJobOwn DEF Snapshots, TryUpsert, Upserts, UpsertFails, Writes, MarkNeedsReview, tables,
     tokens, facts, faults
<1>20. CASE Unexpected(j)
  BY <1>20, SetJobOwn DEF Unexpected, TryUpsert, Upserts, UpsertFails, Writes, MarkNeedsReview, tables,
     tokens, facts, faults
<1>21. CASE Exit(j)
  BY <1>21 DEF Exit, Goto, Upserts, UpsertFails, Writes, tables, tokens, facts, faults
<1> QED
  BY <1>1, <1>2, <1>3, <1>4, <1>5, <1>6, <1>7, <1>8, <1>9, <1>10, <1>11, <1>12, <1>13, <1>14,
     <1>15, <1>16, <1>17, <1>18, <1>19, <1>20, <1>21
  DEF JobStep, Request, WorkerStep

LosesReservation(j) == pc[j] = "starting" /\ pc'[j] \notin Acting

\* How an onboarding thread comes by its reservation, and loses it.
OwnReservation(j) ==
  /\ pc'[j] \in Acting => pc[j] \in Acting \/ Token[j] \notin reserved
  /\ pc'[j] \in Acting /\ pc[j] \notin Acting => Token[j] \in reserved'
  /\ Token[j] \in reserved => Token[j] \in reserved' \/ LosesReservation(j)

LEMMA ReservationMove ==
  ASSUME TypeOK, NEW j \in Jobs, Onboards(j), JobStep(j)
  PROVE  OwnReservation(j)
<1>0. JobTypes /\ TokenTypes /\ Token[j] \in Tokens
  BY TypeGroups, Homes
<1> USE <1>0 DEF OwnReservation, LosesReservation, Onboards, Acting, JobTypes
<1>1. CASE Permit(j)
  BY <1>1 DEF Permit, Goto, tokens
<1>2. CASE CreateJob(j)
  BY <1>2 DEF CreateJob, Refused, Unsaved, Accepted, SaveFails, Saves, Goto, Arrived, tokens
<1>3. CASE CreateOnboardingJob(j)
  BY <1>3 DEF CreateOnboardingJob, Refused, Unsaved, Accepted, SaveFails, Saves, Goto, Arrived,
     tokens
<1>4. CASE StartWorker(j)
  BY <1>4 DEF StartWorker, Goto, tokens
<1>5. CASE WorkerDoesNotStart(j)
  BY <1>5, SetJobMove DEF WorkerDoesNotStart, tokens
<1>6. CASE TakeLock(j)
  BY <1>6 DEF TakeLock, Goto, tokens
<1>7. CASE LockBusy(j)
  BY <1>7, SetJobMove DEF LockBusy, tokens
<1>8. CASE LockFileUnavailable(j)
  BY <1>8 DEF LockFileUnavailable, Goto, tokens
<1>9. CASE Start(j)
  BY <1>9, SetJobMove DEF Start, tokens
<1>10. CASE StartCommand(j)
  BY <1>10 DEF StartCommand, Goto, tokens
<1>11. CASE StartOnboarding(j)
  BY <1>11, SetJobMove DEF StartOnboarding, tokens
<1>12. CASE CommandEnds(j)
  BY <1>12 DEF CommandEnds, Goto, tokens
<1>13. CASE Judge(j)
  BY <1>13, SetJobMove DEF Judge, tokens
<1>14. CASE DailyFailed(j)
  BY <1>14, SetJobMove DEF DailyFailed, tokens
<1>15. CASE Unverified(j)
  BY <1>15, SetJobMove DEF Unverified, tokens
<1>16. CASE Verified(j)
  BY <1>16, SetJobMove DEF Verified, tokens
<1>17. CASE Activate(j)
  BY <1>17 DEF Activate, Goto, tokens
<1>18. CASE ActivationFails(j)
  BY <1>18, SetJobMove DEF ActivationFails, tokens
<1>19. CASE Snapshots(j)
  BY <1>19, SetJobMove DEF Snapshots, tokens
<1>20. CASE Unexpected(j)
  BY <1>20, SetJobMove DEF Unexpected, tokens
<1>21. CASE Exit(j)
  BY <1>21 DEF Exit, Goto, tokens
<1> QED
  BY <1>1, <1>2, <1>3, <1>4, <1>5, <1>6, <1>7, <1>8, <1>9, <1>10, <1>11, <1>12, <1>13, <1>14,
     <1>15, <1>16, <1>17, <1>18, <1>19, <1>20, <1>21
  DEF JobStep, Request, WorkerStep

\* What a step of an onboarding makes of a record, and of its own success.
OwnRecord(j) ==
  /\ registry[Token[j]] = "active"
       => registry'[Token[j]] = "active" \/ pc[j] = "judge" \/ Token[j] \notin reserved
  /\ registry'[Token[j]] = "active"
       => registry[Token[j]] = "active" \/ pc[j] = "activate"
  /\ pc'[j] = "activate" => Token[j] \in rows
  /\ pc'[j] = "snapshots" => pc[j] = "activate" /\ registry'[Token[j]] = "active"

OwnSuccess(j) == HasSucceeded(j)' => HasSucceeded(j) \/ pc'[j] = "snapshots"

LEMMA RecordMove ==
  ASSUME TypeOK, NEW j \in Jobs, Onboards(j), JobStep(j)
  PROVE  OwnRecord(j)
<1>0. JobTypes /\ TokenTypes /\ Token[j] \in Tokens
  BY TypeGroups, Homes
<1> USE <1>0 DEF OwnRecord, Onboards, JobTypes, TokenTypes
<1>1. CASE Permit(j)
  BY <1>1 DEF Permit, Goto, Upserts, UpsertFails, Writes, tables, tokens, faults
<1>2. CASE CreateJob(j)
  BY <1>2 DEF CreateJob, Refused, Unsaved, Accepted, SaveFails, Saves, Goto, Arrived, Upserts,
     UpsertFails, tables, tokens, faults
<1>3. CASE CreateOnboardingJob(j)
  BY <1>3 DEF CreateOnboardingJob, Refused, Unsaved, Accepted, SaveFails, Saves, Goto, Arrived,
     Upserts, UpsertFails, Writes, tables, tokens, faults
<1>4. CASE StartWorker(j)
  BY <1>4 DEF StartWorker, Goto, Upserts, UpsertFails, Writes, tables, tokens, faults
<1>5. CASE WorkerDoesNotStart(j)
  BY <1>5, SetJobOwn DEF WorkerDoesNotStart, TryUpsert, Upserts, UpsertFails, Writes, MarkNeedsReview,
     tables, tokens, facts, faults
<1>6. CASE TakeLock(j)
  BY <1>6 DEF TakeLock, Goto, Upserts, UpsertFails, Writes, tables, tokens, faults
<1>7. CASE LockBusy(j)
  BY <1>7, SetJobOwn DEF LockBusy, TryUpsert, Upserts, UpsertFails, Writes, MarkNeedsReview, tables,
     tokens, facts, faults
<1>8. CASE LockFileUnavailable(j)
  BY <1>8 DEF LockFileUnavailable, Goto, Upserts, UpsertFails, Writes, tables, tokens, faults
<1>9. CASE Start(j)
  BY <1>9, SetJobOwn DEF Start, TryUpsert, Upserts, UpsertFails, Writes, MarkNeedsReview, tables,
     tokens, facts, faults
<1>10. CASE StartCommand(j)
  BY <1>10 DEF StartCommand, Goto, Upserts, UpsertFails, Writes, tables, tokens, faults
<1>11. CASE StartOnboarding(j)
  BY <1>11, SetJobOwn DEF StartOnboarding, TryUpsert, Upserts, UpsertFails, Writes, MarkNeedsReview,
     tables, tokens, facts, faults
<1>12. CASE CommandEnds(j)
  BY <1>12 DEF CommandEnds, Goto, Upserts, UpsertFails, Writes, tables, tokens, faults
<1>13. CASE Judge(j)
  BY <1>13, SetJobOwn DEF Judge, TryUpsert, Upserts, UpsertFails, Writes, MarkNeedsReview, tables,
     tokens, facts, faults
<1>14. CASE DailyFailed(j)
  BY <1>14, SetJobOwn DEF DailyFailed, TryUpsert, Upserts, UpsertFails, Writes, MarkNeedsReview, tables,
     tokens, facts, faults
<1>15. CASE Unverified(j)
  BY <1>15, SetJobOwn DEF Unverified, TryUpsert, Upserts, UpsertFails, Writes, SaveFails, Goto
<1>16. CASE Verified(j)
  BY <1>16, SetJobOwn DEF Verified, TryUpsert, Upserts, UpsertFails, Writes, MarkNeedsReview, tables,
     tokens, facts, faults
<1>17. CASE Activate(j)
  BY <1>17 DEF Activate, Goto, Upserts, UpsertFails, Writes, tables, tokens, faults
<1>18. CASE ActivationFails(j)
  BY <1>18, SetJobOwn DEF ActivationFails, TryUpsert, Upserts, UpsertFails, Writes, MarkNeedsReview,
     tables, tokens, facts, faults
<1>19. CASE Snapshots(j)
  BY <1>19, SetJobOwn DEF Snapshots, TryUpsert, Upserts, UpsertFails, Writes, MarkNeedsReview, tables,
     tokens, facts, faults
<1>20. CASE Unexpected(j)
  BY <1>20, SetJobOwn DEF Unexpected, TryUpsert, Upserts, UpsertFails, Writes, MarkNeedsReview, tables,
     tokens, facts, faults
<1>21. CASE Exit(j)
  BY <1>21 DEF Exit, Goto, Upserts, UpsertFails, Writes, tables, tokens, faults
<1> QED
  BY <1>1, <1>2, <1>3, <1>4, <1>5, <1>6, <1>7, <1>8, <1>9, <1>10, <1>11, <1>12, <1>13, <1>14,
     <1>15, <1>16, <1>17, <1>18, <1>19, <1>20, <1>21
  DEF JobStep, Request, WorkerStep

LEMMA SuccessMove ==
  ASSUME JobTypes, NEW j \in Jobs, Onboards(j), JobStep(j)
  PROVE  OwnSuccess(j)
<1> USE DEF OwnSuccess, HasSucceeded, Onboards, JobTypes
<1>1. CASE Permit(j)
  BY <1>1 DEF Permit, Goto, tables
<1>2. CASE CreateJob(j)
  BY <1>2 DEF CreateJob, Refused, Unsaved, Accepted, SaveFails, Saves, Goto, Arrived, tables
<1>3. CASE CreateOnboardingJob(j)
  BY <1>3 DEF CreateOnboardingJob, Refused, Unsaved, Accepted, SaveFails, Saves, Goto, Arrived,
     tables
<1>4. CASE StartWorker(j)
  BY <1>4 DEF StartWorker, Goto, tables
<1>5. CASE WorkerDoesNotStart(j)
  BY <1>5, SetJobOwn DEF WorkerDoesNotStart
<1>6. CASE TakeLock(j)
  BY <1>6 DEF TakeLock, Goto, tables
<1>7. CASE LockBusy(j)
  BY <1>7, SetJobOwn DEF LockBusy
<1>8. CASE LockFileUnavailable(j)
  BY <1>8 DEF LockFileUnavailable, SaveFails, Goto
<1>9. CASE Start(j)
  BY <1>9, SetJobOwn DEF Start
<1>10. CASE StartCommand(j)
  BY <1>10 DEF StartCommand, Goto, tables
<1>11. CASE StartOnboarding(j)
  BY <1>11, SetJobOwn DEF StartOnboarding
<1>12. CASE CommandEnds(j)
  BY <1>12 DEF CommandEnds, Goto, tables
<1>13. CASE Judge(j)
  BY <1>13, SetJobOwn DEF Judge
<1>14. CASE DailyFailed(j)
  BY <1>14, SetJobOwn DEF DailyFailed
<1>15. CASE Unverified(j)
  BY <1>15, SetJobOwn DEF Unverified, SaveFails, Goto
<1>16. CASE Verified(j)
  BY <1>16, SetJobOwn DEF Verified
<1>17. CASE Activate(j)
  BY <1>17 DEF Activate, Goto, tables
<1>18. CASE ActivationFails(j)
  BY <1>18, SetJobOwn DEF ActivationFails
<1>19. CASE Snapshots(j)
  BY <1>19, SetJobOwn DEF Snapshots
<1>20. CASE Unexpected(j)
  BY <1>20, SetJobOwn DEF Unexpected
<1>21. CASE Exit(j)
  BY <1>21 DEF Exit, Goto, tables
<1> QED
  BY <1>1, <1>2, <1>3, <1>4, <1>5, <1>6, <1>7, <1>8, <1>9, <1>10, <1>11, <1>12, <1>13, <1>14,
     <1>15, <1>16, <1>17, <1>18, <1>19, <1>20, <1>21
  DEF JobStep, Request, WorkerStep

LEMMA NotYetMove ==
  ASSUME TypeOK, NEW j \in Jobs, Onboards(j), NotYet(j), JobStep(j)
  PROVE  NotYet(j)'
<1>0. JobTypes
  BY TypeGroups
<1> USE <1>0 DEF NotYet, HasSucceeded, Unjudged, Onboards, JobTypes
<1>1. CASE Permit(j)
  BY <1>1 DEF Permit, Goto, tables
<1>2. CASE CreateJob(j)
  BY <1>2 DEF CreateJob, Refused, Unsaved, Accepted, SaveFails, Saves, Goto, Arrived, tables
<1>3. CASE CreateOnboardingJob(j)
  BY <1>3 DEF CreateOnboardingJob, Refused, Unsaved, Accepted, SaveFails, Saves, Goto, Arrived,
     tables
<1>4. CASE StartWorker(j)
  BY <1>4 DEF StartWorker, Goto, tables
<1>5. CASE WorkerDoesNotStart(j)
  BY <1>5, SetJobOwn DEF WorkerDoesNotStart
<1>6. CASE TakeLock(j)
  BY <1>6 DEF TakeLock, Goto, tables
<1>7. CASE LockBusy(j)
  BY <1>7, SetJobOwn DEF LockBusy
<1>8. CASE LockFileUnavailable(j)
  BY <1>8 DEF LockFileUnavailable, Goto, tables
<1>9. CASE Start(j)
  BY <1>9, SetJobOwn DEF Start
<1>10. CASE StartCommand(j)
  BY <1>10 DEF StartCommand, Goto, tables
<1>11. CASE StartOnboarding(j)
  BY <1>11, SetJobOwn DEF StartOnboarding
<1>12. CASE CommandEnds(j)
  BY <1>12 DEF CommandEnds, Goto, tables
<1>13. CASE Judge(j)
  BY <1>13, SetJobOwn DEF Judge
<1>14. CASE DailyFailed(j)
  BY <1>14, SetJobOwn DEF DailyFailed
<1>15. CASE Unverified(j)
  BY <1>15, SetJobOwn DEF Unverified, Goto
<1>16. CASE Verified(j)
  BY <1>16, SetJobOwn DEF Verified
<1>17. CASE Activate(j)
  BY <1>17 DEF Activate, Goto, tables
<1>18. CASE ActivationFails(j)
  BY <1>18, SetJobOwn DEF ActivationFails
<1>19. CASE Snapshots(j)
  BY <1>19, SetJobOwn DEF Snapshots
<1>20. CASE Unexpected(j)
  BY <1>20, SetJobOwn DEF Unexpected
<1>21. CASE Exit(j)
  BY <1>21 DEF Exit, Goto, tables
<1> QED
  BY <1>1, <1>2, <1>3, <1>4, <1>5, <1>6, <1>7, <1>8, <1>9, <1>10, <1>11, <1>12, <1>13, <1>14,
     <1>15, <1>16, <1>17, <1>18, <1>19, <1>20, <1>21
  DEF JobStep, Request, WorkerStep

LEMMA EarnJobStep ==
  ASSUME OneServer, TypeOK, NewsInv, EarnInv, NEW j \in Jobs, JobStep(j)
  PROVE  EarnInv'
<1>0. JobTypes /\ TokenTypes /\ \A k \in Jobs : Token[k] \in Tokens
  BY TypeGroups, Homes
<1>1. OwnToken(j) /\ NewsOf(j)
  BY OwnTokenMove DEF NewsInv, NewsOf
<1>2. \A k \in Jobs : k # j => memory'[k] = memory[k] /\ pc'[k] = pc[k] /\ file'[k] = file[k]
  BY <1>0, <1>1, JobFrame DEF OwnToken
<1>3. Onboards(j) => OwnReservation(j) /\ OwnRecord(j) /\ OwnSuccess(j) /\ NotYet(j)'
  BY <1>0, ReservationMove, RecordMove, SuccessMove, NotYetMove DEF EarnInv
<1>4. RowsEarned'
  <2>1. ASSUME NEW t \in Tokens, registry'[t] = "active" PROVE t \in rows'
    <3>1. CASE t # Token[j] \/ ~Onboards(j)
      BY <1>1, <2>1, <3>1 DEF OwnToken, EarnInv, RowsEarned
    <3>2. CASE t = Token[j] /\ Onboards(j)
      BY <1>1, <1>3, <2>1, <3>2 DEF OwnToken, OwnRecord, EarnInv, RowsEarned
    <3> QED BY <3>1, <3>2
  <2>2. ASSUME NEW k \in Jobs, pc'[k] = "activate" PROVE Token[k] \in rows'
    <3>1. CASE k # j
      BY <1>1, <1>2, <2>2, <3>1 DEF OwnToken, EarnInv, RowsEarned
    <3>2. CASE k = j
      <4>1. Onboards(j)
        BY <1>0, <1>1, <2>2, <3>2, LiveMove DEF NewsOf, LiveUntilJudged, Onboards
      <4> QED BY <1>1, <1>3, <2>2, <3>2, <4>1 DEF OwnToken, OwnRecord
    <3> QED BY <3>1, <3>2
  <2> QED BY <2>1, <2>2 DEF RowsEarned
<1>5. Reserves'
  <2>1. ASSUME NEW k \in Jobs, Onboards(k), pc'[k] \in Acting PROVE Token[k] \in reserved'
    <3>1. CASE k = j
      BY <1>3, <2>1, <3>1 DEF OwnReservation, LosesReservation, EarnInv, Reserves
    <3>2. CASE k # j
      <4>1. pc[k] \in Acting /\ Token[k] \in reserved
        BY <1>2, <2>1, <3>2 DEF EarnInv, Reserves
      <4>2. CASE Token[k] # Token[j] \/ ~Onboards(j)
        BY <1>0, <1>1, <4>1, <4>2 DEF OwnToken
      <4>3. CASE Token[k] = Token[j] /\ Onboards(j)
        <5>1. pc[j] \notin Acting
          BY <2>1, <3>2, <4>1, <4>3 DEF EarnInv, Reserves
        <5> QED BY <1>3, <4>1, <4>3, <5>1 DEF OwnReservation, LosesReservation, Acting
      <4> QED BY <4>2, <4>3
    <3> QED BY <3>1, <3>2
  <2>2. ASSUME NEW i \in Jobs, Onboards(i), Onboards(j), Token[i] = Token[j],
               pc'[i] \in Acting, pc'[j] \in Acting
        PROVE  i = j
    BY <1>2, <1>3, <2>2 DEF OwnReservation, EarnInv, Reserves
  <2>3. ASSUME NEW i \in Jobs, NEW k \in Jobs, Onboards(i), Onboards(k), Token[i] = Token[k],
               pc'[i] \in Acting, pc'[k] \in Acting
        PROVE  i = k
    BY <1>2, <2>2, <2>3 DEF EarnInv, Reserves
  <2> QED BY <2>1, <2>3 DEF Reserves
<1>6. ASSUME NEW k \in Jobs, Onboards(k) PROVE NotYet(k)'
  BY <1>2, <1>3, <1>6 DEF EarnInv, NotYet, HasSucceeded
<1>7. ASSUME NEW k \in Jobs, Onboards(k), HasSucceeded(k)' PROVE Settled(k)'
  <2>1. CASE k # j
    <3>1. Settled(k)
      BY <1>2, <1>7, <2>1 DEF EarnInv, HasSucceeded
    <3>2. CASE Token[k] # Token[j] \/ ~Onboards(j)
      BY <1>0, <1>1, <1>2, <3>1, <3>2 DEF Settled, OwnToken
    <3>3. CASE Token[k] = Token[j] /\ Onboards(j)
      <4>1. pc[j] \notin Acting /\ pc'[j] \notin Acting
        BY <1>3, <2>1, <3>1, <3>3 DEF Settled, OwnReservation
      <4>2. registry'[Token[k]] = "active" /\ Token[k] \in reserved'
        BY <1>3, <3>1, <3>3, <4>1 DEF Settled, OwnRecord, OwnReservation, LosesReservation, Acting
      <4> QED BY <1>2, <3>1, <4>1, <4>2 DEF Settled
    <3> QED BY <3>2, <3>3
  <2>2. CASE k = j
    <3>1. \A i \in Jobs : Onboards(i) /\ Token[i] = Token[j] /\ i # j => pc[i] \notin Acting
      <4>1. CASE HasSucceeded(j)
        BY <1>7, <2>2, <4>1 DEF EarnInv, Settled
      <4>2. CASE pc'[j] = "snapshots"
        BY <1>3, <1>7, <2>2, <4>2 DEF OwnRecord, Acting, EarnInv, Reserves
      <4> QED BY <1>3, <1>7, <2>2, <4>1, <4>2 DEF OwnSuccess
    <3>2. registry'[Token[j]] = "active" /\ Token[j] \in reserved'
      <4>1. CASE pc'[j] = "snapshots"
        BY <1>3, <1>7, <2>2, <4>1 DEF OwnRecord, OwnReservation, LosesReservation, Acting,
           EarnInv, Reserves
      <4>2. CASE HasSucceeded(j)
        <5>1. pc[j] # "judge" /\ pc[j] # "starting" /\ Settled(j)
          BY <1>7, <2>2, <4>2 DEF EarnInv, NotYet, Unjudged
        <5> QED BY <1>3, <1>7, <2>2, <5>1 DEF Settled, OwnRecord, OwnReservation,
                LosesReservation
      <4> QED BY <1>3, <1>7, <2>2, <4>1, <4>2 DEF OwnSuccess
    <3> QED BY <1>2, <2>2, <3>1, <3>2 DEF Settled
  <2> QED BY <2>1, <2>2
<1>8. ListedPending'
  <2>1. server[Home[j]] = "up"
    BY <1>1, StepsWhileUp DEF NewsOf
  <2>2. \A s \in Servers : listed[s] = {}
    BY <2>1, Homes DEF OneServer, EarnInv, ListedPending
  <2> QED BY <1>1, <2>2 DEF OwnToken, ListedPending
<1> QED BY <1>4, <1>5, <1>6, <1>7, <1>8 DEF EarnInv

LEMMA EarnServerStep ==
  ASSUME OneServer, TypeOK, EarnInv, NEW s \in Servers,
         Crash(s) \/ LoadJobs(s) \/ RewritePending(s) \/ Ready(s)
  PROVE  EarnInv'
<1>0. /\ JobTypes /\ TokenTypes /\ LockTypes /\ \A k \in Jobs : Token[k] \in Tokens
      /\ Servers = {s}
  BY TypeGroups, Homes DEF OneServer
<1>1. CASE Crash(s)
  <2>1. UNCHANGED <<registry, reserved, rows, file>>
    BY <1>1 DEF Crash, tokens
  <2>2. \A k \in Jobs : memory'[k] = "none" /\ pc'[k] \in {"none", "done"}
    BY <1>0, <1>1, Homes DEF Crash, JobTypes
  <2>3. RowsEarned' /\ Reserves'
    BY <2>1, <2>2 DEF EarnInv, RowsEarned, Reserves, Acting
  <2>4. ASSUME NEW k \in Jobs, Onboards(k)
        PROVE  NotYet(k)' /\ (HasSucceeded(k)' => Settled(k)')
    BY <2>1, <2>2, <2>4 DEF EarnInv, NotYet, HasSucceeded, Settled, Acting, Unjudged
  <2>5. ListedPending'
    BY <1>0, <1>1 DEF Crash, ListedPending, TokenTypes
  <2> QED BY <2>3, <2>4, <2>5 DEF EarnInv
<1>2. CASE LoadJobs(s)
  <2>1. UNCHANGED <<registry, reserved, rows, pc>>
    BY <1>2 DEF LoadJobs, tokens, facts
  <2>2. \A k \in Jobs : /\ memory'[k] = "succeeded" => file[k] = "succeeded"
                        /\ file'[k] = "succeeded" => file[k] = "succeeded"
    BY <1>0, <1>2, Homes DEF LoadJobs, AfterRestart, JobTypes
  <2>3. RowsEarned' /\ Reserves'
    BY <2>1 DEF EarnInv, RowsEarned, Reserves
  <2>4. ASSUME NEW k \in Jobs, Onboards(k)
        PROVE  NotYet(k)' /\ (HasSucceeded(k)' => Settled(k)')
    BY <2>1, <2>2, <2>4 DEF EarnInv, NotYet, HasSucceeded, Settled
  <2>5. ListedPending'
    <3>1. listed'[s] = {<<t, lastJob[t]>> : t \in {u \in Tokens : registry[u] = "pending"}}
      BY <1>0, <1>2 DEF LoadJobs, TokenTypes
    <3>2. server'[s] = "loading"
      BY <1>0, <1>2 DEF LoadJobs, LockTypes
    <3>3. ASSUME NEW r \in listed'[s]
          PROVE  registry[r[1]] = "pending" /\ r = <<r[1], lastJob[r[1]]>>
      BY <3>1, <3>3
    <3> QED BY <1>0, <2>1, <3>2, <3>3 DEF ListedPending
  <2> QED BY <2>3, <2>4, <2>5 DEF EarnInv
<1>3. CASE RewritePending(s)
  <2>1. PICK record \in listed[s] :
           /\ listed' = [listed EXCEPT ![s] = @ \ {record}]
           /\ \/ Writes(record[1], "needs_review", record[2]) /\ UNCHANGED upsertFaults
              \/ UpsertFails(record[1], "needs_review", record[2])
    BY <1>3 DEF RewritePending
  <2>2. UNCHANGED <<server, memory, file, pc, reserved, rows>> /\ server[s] = "loading"
    BY <1>3 DEF RewritePending, facts
  <2>3. record \in Tokens \X (Jobs \cup {NoOne}) /\ registry[record[1]] = "pending"
    BY <1>0, <2>1 DEF TokenTypes, EarnInv, ListedPending
  <2>4. \A t \in Tokens : /\ t # record[1] => registry'[t] = registry[t]
                          /\ registry'[t] = "active" <=> registry[t] = "active"
    BY <1>0, <2>1, <2>3 DEF TokenTypes, UpsertFails, Writes
  <2>5. RowsEarned' /\ Reserves'
    BY <2>2, <2>4 DEF EarnInv, RowsEarned, Reserves
  <2>6. ASSUME NEW k \in Jobs, Onboards(k)
        PROVE  NotYet(k)' /\ (HasSucceeded(k)' => Settled(k)')
    BY <1>0, <2>2, <2>4, <2>6 DEF EarnInv, NotYet, HasSucceeded, Settled
  <2>7. ListedPending'
    <3>1. listed'[s] = listed[s] \ {record}
      BY <1>0, <2>1 DEF TokenTypes
    <3>2. ASSUME NEW r \in listed'[s] PROVE registry'[r[1]] = "pending"
      <4>1. r \in listed[s] /\ r # record /\ r \in Tokens \X (Jobs \cup {NoOne})
        BY <1>0, <3>1, <3>2 DEF TokenTypes
      <4>2. r[1] \in Tokens /\ r[1] # record[1] /\ registry[r[1]] = "pending"
        BY <2>1, <4>1 DEF EarnInv, ListedPending
      <4> QED BY <2>4, <4>2
    <3> QED BY <1>0, <2>2, <3>1, <3>2 DEF EarnInv, ListedPending
  <2> QED BY <2>5, <2>6, <2>7 DEF EarnInv
<1>4. CASE Ready(s)
  <2>1. UNCHANGED <<registry, reserved, rows, memory, file, pc, listed>> /\ listed[s] = {}
    BY <1>4 DEF Ready, tokens, facts
  <2>2. RowsEarned' /\ Reserves'
    BY <2>1 DEF EarnInv, RowsEarned, Reserves
  <2>3. ASSUME NEW k \in Jobs, Onboards(k)
        PROVE  NotYet(k)' /\ (HasSucceeded(k)' => Settled(k)')
    BY <2>1, <2>3 DEF EarnInv, NotYet, HasSucceeded, Settled
  <2>4. ListedPending'
    BY <1>0, <2>1 DEF ListedPending
  <2> QED BY <2>2, <2>3, <2>4 DEF EarnInv
<1> QED BY <1>1, <1>2, <1>3, <1>4

LEMMA EarnStep == OneServer /\ TypeOK /\ NewsInv /\ EarnInv /\ [Next]_vars => EarnInv'
<1> SUFFICES ASSUME OneServer, TypeOK, NewsInv, EarnInv, [Next]_vars PROVE EarnInv'
  OBVIOUS
<1>1. ASSUME UNCHANGED <<server, memory, file, pc, registry, reserved, listed>>,
             rows \subseteq rows'
      PROVE  EarnInv'
  BY <1>1 DEF EarnInv, RowsEarned, Reserves, NotYet, HasSucceeded, Settled, ListedPending
<1>2. ASSUME NEW m \in Jobs, OrphanEnds(m) PROVE EarnInv'
  <2>1. UNCHANGED <<server, memory, file, pc, registry, reserved, listed>>
    BY <1>2 DEF OrphanEnds, tables, tokens
  <2>2. rows \subseteq rows'
    BY <1>2 DEF OrphanEnds, Publishes
  <2> QED BY <1>1, <2>1, <2>2
<1>3. CASE TimerTakesLock \/ TimerPublishes \/ TimerReleases \/ NewDay \/ UNCHANGED vars
  <2>1. UNCHANGED <<server, memory, file, pc, registry, reserved, listed, rows>>
    BY <1>3 DEF TimerTakesLock, TimerPublishes, TimerReleases, NewDay, vars, tables, tokens,
       facts
  <2> QED BY <1>1, <2>1
<1> QED BY <1>2, <1>3, EarnJobStep, EarnServerStep DEF Next, JobStep

\* With one server process a token is active only with rows in the database, and a job
\* that succeeded has activated its token, for any number of onboardings, faults and
\* restarts.  A second process could still rewrite a record it has read as pending.
THEOREM ActivationsAreEarned == ASSUME OneServer PROVE Spec => []ActivationIsEarned
<1>1. Init => NewsInv /\ EarnInv
  <2>1. Init => EarnInv
    BY DEF Init, EarnInv, RowsEarned, Reserves, NotYet, HasSucceeded, ListedPending, Acting,
       Unjudged
  <2> QED BY <2>1, InitialNews
<1>2. EarnInv => ActivationIsEarned
  BY DEF EarnInv, RowsEarned, HasSucceeded, Settled, Onboards, ActivationIsEarned
<1>3. TypeOK /\ NewsInv /\ EarnInv /\ [Next]_vars => EarnInv'
  BY EarnStep, OneServer
<1> QED BY <1>1, <1>2, <1>3, NewsStep, TypeCorrect, PTL DEF Spec

-----------------------------------------------------------------------------
(* The budget of the public action.                                        *)

Counted(d) == {k \in Public : file[k] # "none" /\ created[k] = d}

Flying(k) == pc[k] \in {"permitted", "starting"}

\* Whoever holds the permit still finds room today; the table of a server that runs
\* knows every job that has a file.
BudgetInv ==
  /\ \A k \in Public : created[k] <= day
  /\ \A d \in Nat : Cardinality(Counted(d)) <= Budget
  /\ \A i, k \in Public : Flying(i) /\ Flying(k) => i = k
  /\ \A k \in Public : pc[k] = "permitted" => Cardinality(Counted(day)) < Budget
  /\ \A k \in Public : pc[k] \in Acting => file[k] # "none"
  /\ \A k \in Public : server[Home[k]] # "down" /\ file[k] # "none" => memory[k] # "none"

LEMMA Publics ==
  /\ Public \subseteq Jobs /\ IsFiniteSet(Public)
  /\ \A i, k \in Public : Home[i] = Home[k]
  /\ \A k \in Public : Kind[k] # "onboarding"
  /\ Budget \in Nat /\ Budget > 0
<1>1. Public \subseteq Jobs /\ IsFiniteSet(Jobs)
  BY JobsOK DEF JobsOK
<1>2. IsFiniteSet(Public)
  BY <1>1, FS_Subset
<1> QED BY <1>1, <1>2, JobsOK DEF JobsOK

LEMMA Sizes ==
  /\ \A S \in SUBSET Public : IsFiniteSet(S) /\ Cardinality(S) \in Nat
  /\ \A S, T \in SUBSET Public : S \subseteq T => Cardinality(S) <= Cardinality(T)
  /\ \A S \in SUBSET Public, k \in Public : Cardinality(S \cup {k}) <= Cardinality(S) + 1
<1>1. \A S \in SUBSET Public : IsFiniteSet(S) /\ Cardinality(S) \in Nat
  BY Publics, FS_Subset, FS_CardinalityType
<1>2. \A S, T \in SUBSET Public : S \subseteq T => Cardinality(S) <= Cardinality(T)
  BY <1>1, FS_Subset
<1>3. ASSUME NEW S \in SUBSET Public, NEW k \in Public
      PROVE  Cardinality(S \cup {k}) <= Cardinality(S) + 1
  BY <1>1, FS_AddElement
<1> QED BY <1>1, <1>2, <1>3

\* What a step does to the count and to the permit of its job.
Counts(j) ==
  /\ day' = day /\ server' = server
  /\ \A k \in Jobs : k # j => file'[k] = file[k] /\ created'[k] = created[k]
  /\ file'[j] # "none" /\ file'[j] # file[j] /\ j \in Public => memory'[j] # "none"
  /\ memory'[j] = "none" => memory[j] = "none"

Stays(j) ==
  /\ file'[j] # "none" => file[j] # "none"
  /\ created'[j] = created[j]
  /\ pc'[j] = "permitted" => InFlight = {} /\ Cardinality(AcceptedOn(day)) < Budget
                             /\ server[Home[j]] = "up"
  /\ pc'[j] = "starting" => pc[j] = "starting"

Enters(j) == pc[j] = "permitted" /\ pc'[j] = "starting" /\ created'[j] = day

LEMMA CountsMove ==
  ASSUME TypeOK, NEW j \in Jobs, JobStep(j)
  PROVE  Counts(j)
<1>0. JobTypes /\ CalendarTypes
  BY TypeGroups
<1> USE <1>0, Publics DEF Counts, JobTypes, CalendarTypes
<1>1. CASE Permit(j)
  BY <1>1 DEF Permit, Goto, tables, calendar
<1>2. CASE CreateJob(j)
  BY <1>2 DEF CreateJob, Refused, Unsaved, Accepted, SaveFails, Saves, Goto, Arrived, tables,
     calendar
<1>3. CASE CreateOnboardingJob(j)
  BY <1>3 DEF CreateOnboardingJob, Refused, Unsaved, Accepted, SaveFails, Saves, Goto, Arrived,
     tables, calendar
<1>4. CASE StartWorker(j)
  BY <1>4 DEF StartWorker, Goto, tables, calendar
<1>5. CASE WorkerDoesNotStart(j)
  BY <1>5, SetJobOwn DEF WorkerDoesNotStart, calendar
<1>6. CASE TakeLock(j)
  BY <1>6 DEF TakeLock, Goto, tables, calendar
<1>7. CASE LockBusy(j)
  BY <1>7, SetJobOwn DEF LockBusy, calendar
<1>8. CASE LockFileUnavailable(j)
  BY <1>8 DEF LockFileUnavailable, SaveFails, calendar
<1>9. CASE Start(j)
  BY <1>9, SetJobOwn DEF Start, calendar
<1>10. CASE StartCommand(j)
  BY <1>10 DEF StartCommand, Goto, tables, calendar
<1>11. CASE StartOnboarding(j)
  BY <1>11, SetJobOwn DEF StartOnboarding, calendar
<1>12. CASE CommandEnds(j)
  BY <1>12 DEF CommandEnds, Goto, tables, calendar
<1>13. CASE Judge(j)
  BY <1>13, SetJobOwn DEF Judge, calendar
<1>14. CASE DailyFailed(j)
  BY <1>14, SetJobOwn DEF DailyFailed, calendar
<1>15. CASE Unverified(j)
  BY <1>15, SetJobOwn DEF Unverified, SaveFails, Goto, calendar
<1>16. CASE Verified(j)
  BY <1>16, SetJobOwn DEF Verified, calendar
<1>17. CASE Activate(j)
  BY <1>17 DEF Activate, Goto, tables, calendar
<1>18. CASE ActivationFails(j)
  BY <1>18, SetJobOwn DEF ActivationFails, calendar
<1>19. CASE Snapshots(j)
  BY <1>19, SetJobOwn DEF Snapshots, calendar
<1>20. CASE Unexpected(j)
  BY <1>20, SetJobOwn DEF Unexpected, calendar
<1>21. CASE Exit(j)
  BY <1>21 DEF Exit, Goto, tables, calendar
<1> QED
  BY <1>1, <1>2, <1>3, <1>4, <1>5, <1>6, <1>7, <1>8, <1>9, <1>10, <1>11, <1>12, <1>13, <1>14,
     <1>15, <1>16, <1>17, <1>18, <1>19, <1>20, <1>21
  DEF JobStep, Request, WorkerStep

LEMMA PermitMove ==
  ASSUME TypeOK, NEW j \in Public, pc[j] \in Acting => file[j] # "none", JobStep(j)
  PROVE  Stays(j) \/ Enters(j)
<1>0. JobTypes /\ CalendarTypes /\ j \in Jobs
  BY TypeGroups, Publics
<1> USE <1>0, Publics DEF Stays, Enters, Acting, JobTypes, CalendarTypes
<1>1. CASE Permit(j)
  BY <1>1 DEF Permit, Goto, tables, calendar
<1>2. CASE CreateJob(j)
  BY <1>2 DEF CreateJob, Refused, Unsaved, Accepted, SaveFails, Saves, Goto, Arrived, tables,
     calendar
<1>3. CASE CreateOnboardingJob(j)
  BY <1>3 DEF CreateOnboardingJob, Refused, Unsaved, Accepted, SaveFails, Saves, Goto, Arrived,
     tables, calendar
<1>4. CASE StartWorker(j)
  BY <1>4 DEF StartWorker, Goto, tables, calendar
<1>5. CASE WorkerDoesNotStart(j)
  BY <1>5, SetJobOwn DEF WorkerDoesNotStart, calendar
<1>6. CASE TakeLock(j)
  BY <1>6 DEF TakeLock, Goto, tables, calendar
<1>7. CASE LockBusy(j)
  BY <1>7, SetJobOwn DEF LockBusy, calendar
<1>8. CASE LockFileUnavailable(j)
  BY <1>8 DEF LockFileUnavailable, SaveFails, Goto, calendar
<1>9. CASE Start(j)
  BY <1>9, SetJobOwn DEF Start, calendar
<1>10. CASE StartCommand(j)
  BY <1>10 DEF StartCommand, Goto, tables, calendar
<1>11. CASE StartOnboarding(j)
  BY <1>11, SetJobOwn DEF StartOnboarding, calendar
<1>12. CASE CommandEnds(j)
  BY <1>12 DEF CommandEnds, Goto, tables, calendar
<1>13. CASE Judge(j)
  BY <1>13, SetJobOwn DEF Judge, calendar
<1>14. CASE DailyFailed(j)
  BY <1>14, SetJobOwn DEF DailyFailed, calendar
<1>15. CASE Unverified(j)
  BY <1>15, SetJobOwn DEF Unverified, calendar
<1>16. CASE Verified(j)
  BY <1>16, SetJobOwn DEF Verified, calendar
<1>17. CASE Activate(j)
  BY <1>17 DEF Activate, Goto, tables, calendar
<1>18. CASE ActivationFails(j)
  BY <1>18, SetJobOwn DEF ActivationFails, calendar
<1>19. CASE Snapshots(j)
  BY <1>19, SetJobOwn DEF Snapshots, calendar
<1>20. CASE Unexpected(j)
  BY <1>20, SetJobOwn DEF Unexpected, calendar
<1>21. CASE Exit(j)
  BY <1>21 DEF Exit, Goto, tables, calendar
<1> QED
  BY <1>1, <1>2, <1>3, <1>4, <1>5, <1>6, <1>7, <1>8, <1>9, <1>10, <1>11, <1>12, <1>13, <1>14,
     <1>15, <1>16, <1>17, <1>18, <1>19, <1>20, <1>21
  DEF JobStep, Request, WorkerStep

LEMMA FiledMove ==
  ASSUME TypeOK, NEW j \in Public, pc[j] \in Acting => file[j] # "none", JobStep(j)
  PROVE  pc'[j] \in Acting => file'[j] # "none"
<1>0. JobTypes /\ j \in Jobs
  BY TypeGroups, Publics
<1> USE <1>0, Publics DEF Acting, JobTypes
<1>1. CASE Permit(j)
  BY <1>1 DEF Permit, Goto, tables
<1>2. CASE CreateJob(j)
  BY <1>2 DEF CreateJob, Refused, Unsaved, Accepted, SaveFails, Saves, Goto, Arrived, tables
<1>3. CASE CreateOnboardingJob(j)
  BY <1>3 DEF CreateOnboardingJob, Refused, Unsaved, Accepted, SaveFails, Saves, Goto, Arrived,
     tables
<1>4. CASE StartWorker(j)
  BY <1>4 DEF StartWorker, Goto, tables
<1>5. CASE WorkerDoesNotStart(j)
  BY <1>5, SetJobOwn DEF WorkerDoesNotStart
<1>6. CASE TakeLock(j)
  BY <1>6 DEF TakeLock, Goto, tables
<1>7. CASE LockBusy(j)
  BY <1>7, SetJobOwn DEF LockBusy
<1>8. CASE LockFileUnavailable(j)
  BY <1>8 DEF LockFileUnavailable, Goto
<1>9. CASE Start(j)
  BY <1>9, SetJobOwn DEF Start
<1>10. CASE StartCommand(j)
  BY <1>10 DEF StartCommand, Goto, tables
<1>11. CASE StartOnboarding(j)
  BY <1>11, SetJobOwn DEF StartOnboarding
<1>12. CASE CommandEnds(j)
  BY <1>12 DEF CommandEnds, Goto, tables
<1>13. CASE Judge(j)
  BY <1>13, SetJobOwn DEF Judge
<1>14. CASE DailyFailed(j)
  BY <1>14, SetJobOwn DEF DailyFailed
<1>15. CASE Unverified(j)
  BY <1>15, SetJobOwn DEF Unverified
<1>16. CASE Verified(j)
  BY <1>16, SetJobOwn DEF Verified
<1>17. CASE Activate(j)
  BY <1>17 DEF Activate, Goto, tables
<1>18. CASE ActivationFails(j)
  BY <1>18, SetJobOwn DEF ActivationFails
<1>19. CASE Snapshots(j)
  BY <1>19, SetJobOwn DEF Snapshots
<1>20. CASE Unexpected(j)
  BY <1>20, SetJobOwn DEF Unexpected
<1>21. CASE Exit(j)
  BY <1>21 DEF Exit, Goto, tables
<1> QED
  BY <1>1, <1>2, <1>3, <1>4, <1>5, <1>6, <1>7, <1>8, <1>9, <1>10, <1>11, <1>12, <1>13, <1>14,
     <1>15, <1>16, <1>17, <1>18, <1>19, <1>20, <1>21
  DEF JobStep, Request, WorkerStep

\* The step of a private job, or of a public one that is neither permitted nor accepted,
\* leaves the count alone; the first may end a flight.
LEMMA BudgetJobStep ==
  ASSUME TypeOK, BudgetInv, NEW j \in Jobs, JobStep(j)
  PROVE  BudgetInv'
<1>0. JobTypes /\ CalendarTypes
  BY TypeGroups
<1>1. Counts(j) /\ \A k \in Jobs : k # j => pc'[k] = pc[k] /\ memory'[k] = memory[k]
  BY <1>0, CountsMove, JobFrame
<1>2. j \in Public => (Stays(j) \/ Enters(j)) /\ (pc'[j] \in Acting => file'[j] # "none")
  BY PermitMove, FiledMove DEF BudgetInv
<1> USE <1>0, Publics DEF CalendarTypes
<1>3. \A k \in Public : created'[k] <= day'
  BY <1>1, <1>2 DEF BudgetInv, Counts, Stays, Enters
<1>4. \A k \in Public : pc'[k] \in Acting => file'[k] # "none"
  BY <1>1, <1>2 DEF BudgetInv, Counts
<1>5. ASSUME NEW k \in Public, server'[Home[k]] # "down", file'[k] # "none"
      PROVE  memory'[k] # "none"
  <2>1. CASE k # j
    BY <1>1, <1>5, <2>1 DEF BudgetInv, Counts
  <2>2. CASE k = j
    BY <1>1, <1>5, <2>2 DEF BudgetInv, Counts
  <2> QED BY <2>1, <2>2
<1>6. \A d \in Nat : Counted(d)' \subseteq Public /\ Counted(d) \subseteq Public
  BY DEF Counted
<1>7. CASE j \notin Public \/ Stays(j)
  <2>1. \A d \in Nat : Counted(d)' \subseteq Counted(d)
    BY <1>1, <1>7 DEF Counted, Counts, Stays
  <2>2. \A d \in Nat : Cardinality(Counted(d)') <= Cardinality(Counted(d))
    BY <1>6, <2>1, Sizes
  <2>3. \A d \in Nat : Cardinality(Counted(d)') <= Budget
    <3> SUFFICES ASSUME NEW d \in Nat PROVE Cardinality(Counted(d)') <= Budget
      OBVIOUS
    <3>1. Cardinality(Counted(d)') \in Nat /\ Cardinality(Counted(d)) \in Nat
      BY <1>6, Sizes
    <3> QED BY <2>2, <3>1 DEF BudgetInv
  <2>4. ASSUME j \in Public, pc'[j] = "permitted"
        PROVE  InFlight = {} /\ Cardinality(Counted(day)) < Budget
    <3>1. Counted(day) \subseteq AcceptedOn(day) /\ AcceptedOn(day) \subseteq Public
      BY <1>7, <2>4 DEF Stays, Counted, AcceptedOn, BudgetInv
    <3>2. /\ Cardinality(Counted(day)) <= Cardinality(AcceptedOn(day))
          /\ Cardinality(Counted(day)) \in Nat /\ Cardinality(AcceptedOn(day)) \in Nat
      BY <1>6, <3>1, Sizes
    <3> QED BY <1>7, <2>4, <3>2 DEF Stays
  <2>5. ASSUME NEW i \in Public, NEW k \in Public, Flying(i)', Flying(k)'
        PROVE  i = k
    <3>1. CASE InFlight = {}
      <4>1. \A m \in Public : ~Flying(m)
        BY <3>1 DEF InFlight, Flying
      <4> QED BY <1>1, <2>5, <4>1 DEF Flying
    <3>2. CASE InFlight # {}
      <4>1. \A m \in Public : Flying(m)' => Flying(m)
        BY <1>1, <1>7, <2>4, <3>2 DEF Flying, Stays
      <4> QED BY <2>5, <4>1 DEF BudgetInv
    <3> QED BY <3>1, <3>2
  <2>6. ASSUME NEW k \in Public, pc'[k] = "permitted"
        PROVE  Cardinality(Counted(day)') < Budget
    <3>1. Cardinality(Counted(day)) < Budget
      BY <1>1, <2>4, <2>6 DEF BudgetInv
    <3>2. PICK d \in Nat : d = day
      OBVIOUS
    <3>3. Counted(day) = Counted(d) /\ Counted(day)' = Counted(d)'
      BY <1>1, <3>2 DEF Counts, Counted
    <3>4. Cardinality(Counted(d)') \in Nat /\ Cardinality(Counted(d)) \in Nat
      BY <1>6, Sizes
    <3> QED BY <2>2, <3>1, <3>3, <3>4
  <2>7. day' = day
    BY <1>1 DEF Counts
  <2> QED BY <1>3, <1>4, <1>5, <2>3, <2>5, <2>6, <2>7 DEF BudgetInv, Counted
<1>8. CASE j \in Public /\ Enters(j)
  <2>1. day' = day /\ Flying(j) /\ Cardinality(Counted(day)) < Budget
    BY <1>1, <1>8 DEF Counts, Enters, Flying, BudgetInv
  <2>2. \A k \in Public : k # j => ~Flying(k) /\ ~Flying(k)'
    BY <1>1, <2>1, <1>8 DEF BudgetInv, Flying
  <2>3. ASSUME NEW d \in Nat PROVE Cardinality(Counted(d)') <= Budget
    <3>1. CASE d = day
      <4>1. Counted(d)' \subseteq Counted(d) \cup {j}
        BY <1>1 DEF Counted, Counts
      <4>2. Counted(d) \cup {j} \in SUBSET Public
        BY <1>6, <1>8
      <4>3. /\ Cardinality(Counted(d)') <= Cardinality(Counted(d) \cup {j})
            /\ Cardinality(Counted(d) \cup {j}) <= Cardinality(Counted(d)) + 1
        BY <1>6, <1>8, <4>1, <4>2, Sizes
      <4>4. /\ Cardinality(Counted(d)') \in Nat /\ Cardinality(Counted(d)) \in Nat
            /\ Cardinality(Counted(d) \cup {j}) \in Nat
        BY <1>6, <4>2, Sizes
      <4> QED BY <2>1, <3>1, <4>3, <4>4
    <3>2. CASE d # day
      <4>1. Counted(d)' \subseteq Counted(d)
        BY <1>1, <1>8, <3>2 DEF Counted, Counts, Enters
      <4>2. /\ Cardinality(Counted(d)') <= Cardinality(Counted(d))
            /\ Cardinality(Counted(d)') \in Nat /\ Cardinality(Counted(d)) \in Nat
        BY <1>6, <4>1, Sizes
      <4> QED BY <4>2 DEF BudgetInv
    <3> QED BY <3>1, <3>2
  <2>4. \A k \in Public : pc'[k] # "permitted"
    BY <1>8, <2>2 DEF Enters, Flying
  <2>5. \A i, k \in Public : Flying(i)' /\ Flying(k)' => i = k
    BY <2>2
  <2> QED BY <1>3, <1>4, <1>5, <2>3, <2>4, <2>5 DEF BudgetInv, Counted, Flying
<1> QED BY <1>2, <1>7, <1>8

LEMMA BudgetStep == TypeOK /\ BudgetInv /\ [Next]_vars => BudgetInv'
<1> SUFFICES ASSUME TypeOK, BudgetInv, [Next]_vars PROVE BudgetInv'
  OBVIOUS
<1>0. JobTypes /\ CalendarTypes /\ LockTypes
  BY TypeGroups
<1> USE <1>0, Publics DEF CalendarTypes
<1>1. ASSUME UNCHANGED <<created, day>>,
             \A k \in Public : /\ file'[k] # "none" => file[k] # "none"
                               /\ Flying(k)' => pc'[k] = pc[k]
                               /\ pc'[k] \in Acting => pc[k] \in Acting /\ file'[k] # "none"
                               /\ server'[Home[k]] # "down" /\ file'[k] # "none"
                                    => memory'[k] # "none"
      PROVE  BudgetInv'
  <2>1. \A d \in Nat : Counted(d)' \subseteq Counted(d) /\ Counted(d) \subseteq Public
    BY <1>1 DEF Counted
  <2>2. \A d \in Nat : /\ Cardinality(Counted(d)') <= Cardinality(Counted(d))
                       /\ Cardinality(Counted(d)') \in Nat /\ Cardinality(Counted(d)) \in Nat
    BY <2>1, Sizes
  <2>3. \A d \in Nat : Cardinality(Counted(d)') <= Budget
    <3> SUFFICES ASSUME NEW d \in Nat PROVE Cardinality(Counted(d)') <= Budget
      OBVIOUS
    <3> QED BY <2>2 DEF BudgetInv
  <2>4. ASSUME NEW k \in Public, pc'[k] = "permitted"
        PROVE  Cardinality(Counted(day)') < Budget
    <3>1. Cardinality(Counted(day)) < Budget
      BY <1>1, <2>4 DEF BudgetInv, Flying
    <3>2. PICK d \in Nat : d = day
      OBVIOUS
    <3>3. Counted(day) = Counted(d) /\ Counted(day)' = Counted(d)'
      BY <1>1, <3>2 DEF Counted
    <3> QED BY <2>2, <3>1, <3>3
  <2>5. \A i, k \in Public : Flying(i)' /\ Flying(k)' => i = k
    BY <1>1 DEF BudgetInv, Flying
  <2> QED BY <1>1, <2>3, <2>4, <2>5 DEF BudgetInv, Counted
<1>2. ASSUME NEW s \in Servers, Crash(s) PROVE BudgetInv'
  <2>1. UNCHANGED <<created, day, file>> /\ server' = [server EXCEPT ![s] = "down"]
    BY <1>2 DEF Crash
  <2>2. \A k \in Public :
          /\ Home[k] = s => pc'[k] \in {"none", "done"} /\ server'[Home[k]] = "down"
          /\ Home[k] # s => /\ pc'[k] = pc[k] /\ memory'[k] = memory[k]
                            /\ server'[Home[k]] = server[Home[k]]
    BY <1>2, <2>1, Homes DEF Crash, JobTypes, LockTypes
  <2> QED BY <1>1, <2>1, <2>2 DEF BudgetInv, Flying, Acting
<1>3. ASSUME NEW s \in Servers, LoadJobs(s) PROVE BudgetInv'
  <2>1. UNCHANGED <<created, day, pc>>
    BY <1>3 DEF LoadJobs, calendar
  <2>2. \A k \in Public : file'[k] # "none" <=> file[k] # "none"
    BY <1>3 DEF LoadJobs, AfterRestart, Unfinished, Live
  <2>3. \A k \in Public :
          /\ Home[k] = s => (memory'[k] # "none" <=> file[k] # "none")
          /\ Home[k] # s => memory'[k] = memory[k] /\ server'[Home[k]] = server[Home[k]]
    BY <1>3, Homes DEF LoadJobs, AfterRestart, Unfinished, Live, JobTypes, LockTypes
  <2> QED BY <1>1, <2>1, <2>2, <2>3 DEF BudgetInv
<1>4. ASSUME NEW s \in Servers, RewritePending(s) \/ Ready(s) PROVE BudgetInv'
  <2>1. UNCHANGED <<created, day, pc, file, memory>>
    BY <1>4 DEF RewritePending, Ready, calendar
  <2>2. \A k \in Public : server'[Home[k]] # "down" => server[Home[k]] # "down"
    BY <1>4, Homes DEF RewritePending, Ready, LockTypes
  <2> QED BY <1>1, <2>1, <2>2 DEF BudgetInv
<1>5. ASSUME UNCHANGED <<created, day, pc, file, memory, server>> PROVE BudgetInv'
  BY <1>1, <1>5 DEF BudgetInv
<1>6. ASSUME NEW m \in Jobs, OrphanEnds(m) PROVE BudgetInv'
  BY <1>5, <1>6 DEF OrphanEnds, tables, calendar
<1>7. CASE TimerTakesLock \/ TimerPublishes \/ TimerReleases \/ UNCHANGED vars
  BY <1>5, <1>7 DEF TimerTakesLock, TimerPublishes, TimerReleases, vars, tables, calendar
<1>8. CASE NewDay
  <2>1. UNCHANGED <<created, pc, file, memory, server>> /\ day' = day + 1
    BY <1>8 DEF NewDay, tables
  <2>2. \A d \in Nat : Counted(d)' = Counted(d)
    BY <2>1 DEF Counted
  <2>3. Counted(day + 1) = {}
    BY DEF Counted, BudgetInv
  <2>4. Cardinality(Counted(day)') < Budget
    <3>1. Counted(day)' = Counted(day + 1)
      BY <2>1 DEF Counted
    <3> QED BY <2>3, <3>1, FS_EmptySet
  <2>5. \A k \in Public : created'[k] <= day'
    BY <2>1 DEF BudgetInv
  <2>6. \A d \in Nat : Cardinality(Counted(d)') <= Budget
    BY <2>2 DEF BudgetInv
  <2>7. \A i, k \in Public : Flying(i)' /\ Flying(k)' => i = k
    BY <2>1 DEF BudgetInv, Flying
  <2>8. \A k \in Public : /\ pc'[k] \in Acting => file'[k] # "none"
                          /\ server'[Home[k]] # "down" /\ file'[k] # "none"
                               => memory'[k] # "none"
    BY <2>1 DEF BudgetInv
  <2> QED BY <2>4, <2>5, <2>6, <2>7, <2>8 DEF BudgetInv
<1> QED BY <1>2, <1>3, <1>4, <1>6, <1>7, <1>8, BudgetJobStep DEF Next, JobStep

\* The public action never has more jobs a day than its budget, for any budget, any
\* number of requests and servers, across midnights, failed writes and restarts.
THEOREM BudgetIsKept == Spec => []BudgetHolds
<1>1. Init => BudgetInv
  <2> SUFFICES ASSUME Init PROVE BudgetInv
    OBVIOUS
  <2>1. \A d \in Nat : Counted(d) = {}
    BY Publics DEF Init, Counted
  <2> QED BY <2>1, Publics, FS_EmptySet DEF Init, BudgetInv, Flying, Acting
<1>2. TypeOK /\ BudgetInv => BudgetHolds
  BY DEF BudgetInv, Counted, BudgetHolds, TypeOK
<1> QED BY <1>1, <1>2, BudgetStep, TypeCorrect, PTL DEF Spec

-----------------------------------------------------------------------------
(* The job files and the table, with one server process.                   *)

\* An ending is recorded by a thread on its way out; the file never runs ahead of the
\* table, and without failed writes it never falls behind.
FileOf(j) ==
  /\ file[j] \in Ended => pc[j] \in {"exit", "done"}
  /\ pc[j] \in {"none", "permitted"} => file[j] = "none"
  /\ file[j] \in Ended /\ memory[j] # "none" => memory[j] = file[j]
  /\ saveFaults = 0 /\ memory[j] # "none" => file[j] = memory[j]

FileInv == \A j \in Jobs : FileOf(j)

FileFinal(j) == file[j] \in Ended => file'[j] = file[j]

LEMMA SetJobSave ==
  ASSUME JobTypes, NEW j \in Jobs, NEW status, NEW next, NEW onError,
         SetJob(j, status, next, onError) \/ SetJobAfterFault(j, status, next, onError)
  PROVE  /\ memory'[j] = status
         /\ \/ file'[j] = status /\ saveFaults' \in {saveFaults, saveFaults + 1} /\ pc'[j] = next
            \/ file'[j] = file[j] /\ saveFaults' # 0 /\ pc'[j] = onError
BY DEF SetJob, SetJobAfterFault, Saves, SaveFails, Goto, JobTypes

LEMMA FaultsGrow ==
  ASSUME JobTypes, SaveFails
  PROVE  file' = file /\ saveFaults' # 0
BY DEF SaveFails, JobTypes

LEMMA FileOwn ==
  ASSUME JobTypes, NEW j \in Jobs, FileOf(j), JobStep(j)
  PROVE  FileOf(j)' /\ FileFinal(j)
<1> USE DEF FileOf, FileFinal, JobTypes, Ended
<1>1. CASE Permit(j)
  BY <1>1 DEF Permit, Goto, tables, faults
<1>2. CASE CreateJob(j)
  BY <1>2, FaultsGrow DEF CreateJob, Refused, Unsaved, Accepted, Saves, Goto, Arrived, tables,
     faults
<1>3. CASE CreateOnboardingJob(j)
  BY <1>3, FaultsGrow DEF CreateOnboardingJob, Refused, Unsaved, Accepted, Saves, Goto, Arrived,
     tables, faults
<1>4. CASE StartWorker(j)
  BY <1>4 DEF StartWorker, Goto, tables, faults
<1>5. CASE WorkerDoesNotStart(j)
  BY <1>5, SetJobSave DEF WorkerDoesNotStart, faults
<1>6. CASE TakeLock(j)
  BY <1>6 DEF TakeLock, Goto, tables, faults
<1>7. CASE LockBusy(j)
  BY <1>7, SetJobSave DEF LockBusy, faults
<1>8. CASE LockFileUnavailable(j)
  BY <1>8, FaultsGrow DEF LockFileUnavailable, Goto
<1>9. CASE Start(j)
  BY <1>9, SetJobSave DEF Start, faults
<1>10. CASE StartCommand(j)
  BY <1>10 DEF StartCommand, Goto, tables, faults
<1>11. CASE StartOnboarding(j)
  BY <1>11, SetJobSave DEF StartOnboarding, faults
<1>12. CASE CommandEnds(j)
  BY <1>12 DEF CommandEnds, Goto, tables, faults
<1>13. CASE Judge(j)
  BY <1>13, SetJobSave DEF Judge, faults
<1>14. CASE DailyFailed(j)
  BY <1>14, SetJobSave DEF DailyFailed, faults
<1>15. CASE Unverified(j)
  BY <1>15, SetJobSave, FaultsGrow DEF Unverified, Goto
<1>16. CASE Verified(j)
  BY <1>16, SetJobSave DEF Verified, faults
<1>17. CASE Activate(j)
  BY <1>17 DEF Activate, Goto, tables, faults
<1>18. CASE ActivationFails(j)
  BY <1>18, SetJobSave DEF ActivationFails, faults
<1>19. CASE Snapshots(j)
  BY <1>19, SetJobSave DEF Snapshots, faults
<1>20. CASE Unexpected(j)
  BY <1>20, SetJobSave DEF Unexpected, faults
<1>21. CASE Exit(j)
  BY <1>21 DEF Exit, Goto, tables, faults
<1> QED
  BY <1>1, <1>2, <1>3, <1>4, <1>5, <1>6, <1>7, <1>8, <1>9, <1>10, <1>11, <1>12, <1>13, <1>14,
     <1>15, <1>16, <1>17, <1>18, <1>19, <1>20, <1>21
  DEF JobStep, Request, WorkerStep

\* A step of one job leaves the file of every other job alone.
LEMMA FileOthers ==
  ASSUME TypeOK, NEW j \in Jobs, JobStep(j), NEW k \in Jobs, k # j
  PROVE  file'[k] = file[k] /\ (saveFaults' = 0 => saveFaults = 0)
<1>1. file'[k] = file[k]
  BY CountsMove DEF Counts
<1>2. \/ saveFaults' = saveFaults
      \/ SaveFails
      \/ \E n \in 1..2 : saveFaults' = saveFaults + n
  BY DEF JobStep, Request, WorkerStep, Permit, CreateJob, CreateOnboardingJob, Refused, Unsaved,
     Accepted, Saves, StartWorker, WorkerDoesNotStart, TakeLock, LockBusy, LockFileUnavailable,
     Start, StartCommand, StartOnboarding, CommandEnds, Judge, DailyFailed, Unverified, Verified,
     Activate, ActivationFails, Snapshots, Unexpected, Exit, SetJob, SetJobAfterFault,
     faults
<1> QED BY <1>1, <1>2, FaultsGrow, TypeGroups DEF JobTypes

LEMMA FileStep ==
  ASSUME OneServer, TypeOK, NewsInv, FileInv, [Next]_vars
  PROVE  FileInv' /\ \A j \in Jobs : FileFinal(j)
<1>0. JobTypes
  BY TypeGroups
<1> SUFFICES ASSUME NEW k \in Jobs PROVE FileOf(k)' /\ FileFinal(k)
  BY DEF FileInv
<1>1. FileOf(k)
  BY DEF FileInv
<1>2. CASE UNCHANGED <<memory, file, pc, saveFaults>>
  BY <1>1, <1>2 DEF FileOf, FileFinal
<1>3. ASSUME NEW j \in Jobs, JobStep(j) PROVE FileOf(k)' /\ FileFinal(k)
  <2>1. CASE j = k
    BY <1>0, <1>1, <1>3, <2>1, FileOwn
  <2>2. CASE j # k
    <3>1. /\ memory'[k] = memory[k] /\ pc'[k] = pc[k] /\ file'[k] = file[k]
          /\ saveFaults' = 0 => saveFaults = 0
      BY <1>0, <1>3, <2>2, JobFrame, FileOthers
    <3> QED BY <1>1, <3>1 DEF FileOf, FileFinal
  <2> QED BY <2>1, <2>2
<1>4. ASSUME NEW s \in Servers, Crash(s) PROVE FileOf(k)' /\ FileFinal(k)
  <2>1. UNCHANGED <<file, saveFaults>>
    BY <1>4 DEF Crash, faults
  <2>2. /\ memory'[k] \in {memory[k], "none"}
        /\ pc'[k] # pc[k] => pc[k] # "none" /\ pc'[k] = "done"
    BY <1>4 DEF Crash
  <2> QED BY <1>1, <2>1, <2>2 DEF FileOf, FileFinal
<1>5. ASSUME NEW s \in Servers, LoadJobs(s) PROVE FileOf(k)' /\ FileFinal(k)
  <2>1. Home[k] = s /\ server[s] = "down"
    BY <1>5, Homes DEF LoadJobs, OneServer
  <2>2. pc[k] \in {"none", "done"}
    BY <2>1 DEF NewsInv, NewsOf, IdleWhenDown
  <2>3. PICK kept \in SUBSET Unfinished :
           /\ saveFaults' = saveFaults + Cardinality(kept)
           /\ file' = [j \in Jobs |-> IF j \in kept THEN file[j] ELSE AfterRestart(j)]
    BY <1>5 DEF LoadJobs
  <2>4. memory'[k] = AfterRestart(k) /\ pc' = pc
    BY <1>5, <2>1 DEF LoadJobs
  <2>5. CASE k \in kept
    <3>1. k \in Unfinished /\ file'[k] = file[k] /\ file[k] \in Live
      BY <2>3, <2>5 DEF Unfinished
    <3>2. saveFaults' # 0
      <4>1. IsFiniteSet(kept)
        BY <2>3, JobsOK, FS_Subset DEF JobsOK, Unfinished
      <4>2. Cardinality(kept) \in Nat /\ Cardinality(kept) # 0
        BY <2>5, <4>1, FS_CardinalityType, FS_EmptySet
      <4> QED BY <1>0, <2>3, <4>2 DEF JobTypes
    <3> QED BY <1>1, <2>2, <2>4, <3>1, <3>2 DEF FileOf, FileFinal, Live, Ended
  <2>6. CASE k \notin kept
    <3>1. file'[k] = AfterRestart(k)
      BY <2>3, <2>6
    <3>2. CASE file[k] \in Live
      BY <1>1, <2>2, <2>4, <3>1, <3>2 DEF FileOf, FileFinal, AfterRestart, Unfinished, Live, Ended
    <3>3. CASE file[k] \notin Live
      <4>1. file'[k] = file[k] /\ memory'[k] = file[k]
        BY <2>4, <3>1, <3>3 DEF AfterRestart, Unfinished
      <4> QED BY <1>1, <2>4, <4>1 DEF FileOf, FileFinal
    <3> QED BY <3>2, <3>3
  <2> QED BY <2>5, <2>6
<1>6. ASSUME NEW s \in Servers, RewritePending(s) \/ Ready(s)
      PROVE  UNCHANGED <<memory, file, pc, saveFaults>>
  BY <1>6 DEF RewritePending, Ready, faults
<1>7. ASSUME NEW j \in Jobs, OrphanEnds(j) PROVE UNCHANGED <<memory, file, pc, saveFaults>>
  BY <1>7 DEF OrphanEnds, tables, faults
<1>8. CASE TimerTakesLock \/ TimerPublishes \/ TimerReleases \/ NewDay \/ UNCHANGED vars
  BY <1>2, <1>8 DEF TimerTakesLock, TimerPublishes, TimerReleases, NewDay, vars, tables, faults
<1> QED BY <1>2, <1>3, <1>4, <1>5, <1>6, <1>7, <1>8 DEF Next, JobStep

LEMMA InitialFiles == Init => FileInv
BY DEF Init, FileInv, FileOf, Ended

\* What a job file says of the end of a job is never rewritten.
EndingsAreFinal == [][\A j \in Jobs : file[j] \in Ended => file'[j] = file[j]]_vars

\* With one server process the recorded ending of a job is final: no late worker, no
\* restart and no failed write replaces it (admin.py: _save_job, _load_jobs).  With two
\* processes it is not: a restart of one calls the running job of the other interrupted,
\* and the worker then records how it really ended.
THEOREM RecordedEndingsAreFinal == ASSUME OneServer PROVE Spec => EndingsAreFinal
<1>1. Spec => [](TypeOK /\ NewsInv /\ FileInv)
  <2>1. TypeOK /\ NewsInv /\ FileInv /\ [Next]_vars => FileInv'
    BY FileStep, OneServer
  <2> QED BY <2>1, InitialNews, InitialFiles, NewsStep, TypeCorrect, PTL DEF Spec
<1>2. TypeOK /\ NewsInv /\ FileInv /\ [Next]_vars
        => [\A j \in Jobs : file[j] \in Ended => file'[j] = file[j]]_vars
  BY FileStep, OneServer DEF FileFinal
<1> QED BY <1>1, <1>2, PTL DEF Spec, EndingsAreFinal

\* The table of a running server and the job files tell the same story.
TableIsOnDisk ==
  \A j \in Jobs :
    memory[j] # "none" =>
      /\ saveFaults = 0 => file[j] = memory[j]
      /\ file[j] \in Ended => memory[j] = file[j]

\* With one server process every status the table shows is in the job file as long as the
\* files can be written; and a file that names an ending is never contradicted by the
\* table, whatever writes have failed.
THEOREM TableAndFilesAgree == ASSUME OneServer PROVE Spec => []TableIsOnDisk
<1>1. TypeOK /\ NewsInv /\ FileInv /\ [Next]_vars => FileInv'
  BY FileStep, OneServer
<1>2. FileInv => TableIsOnDisk
  BY DEF FileInv, FileOf, TableIsOnDisk
<1> QED BY <1>1, <1>2, InitialNews, InitialFiles, NewsStep, TypeCorrect, PTL DEF Spec

-----------------------------------------------------------------------------
(* The protocol of collection.lock.                                        *)

\* The server whose job committed a publication, or the timer.
HolderOf(p) == IF p \in Jobs THEN Home[p] ELSE p

Identities == {"report", "dataset"}

Committed == [s \in Identities |-> IF s = "report" THEN HolderOf(report) ELSE HolderOf(dataset)]

Locked == INSTANCE LockedFacts
            WITH Sources <- Identities, owner <- lock, publisher <- Committed

\* No command that outlived its server publishes: a restart ends the commands, too.
OrphansAreSilent == \A j \in Jobs : OrphanEnds(j) => UNCHANGED <<report, dataset>>

\* Whoever owns the lock may replace the report and the database.
LEMMA OwnerReplaces ==
  ASSUME TypeOK, NEW h \in Holders, lock = h,
         HolderOf(report)' \in {HolderOf(report), h}, HolderOf(dataset)' \in {HolderOf(dataset), h}
  PROVE  Committed' \in Locked!Replaced
<1>1. HolderOf(report) \in Holders \cup {NoOne} /\ HolderOf(dataset) \in Holders \cup {NoOne}
  BY Homes DEF TypeOK, HolderOf, Publishers, Holders
<1>2. \A s \in Identities : Committed'[s] \in {Committed[s], h} /\ Committed'[s] \in Holders \cup {NoOne}
  BY <1>1 DEF Committed, Identities
<1> QED BY <1>2 DEF Committed, Locked!Replaced

LEMMA LockedNext ==
  TypeOK /\ LockInv /\ OrphansAreSilent /\ [Next]_vars => [Locked!Next]_<<lock, Committed>>
<1> SUFFICES ASSUME TypeOK, LockInv, OrphansAreSilent, [Next]_vars
             PROVE  [Locked!Next]_<<lock, Committed>>
  OBVIOUS
<1>0. JobTypes
  BY TypeGroups
<1>1. ASSUME UNCHANGED <<report, dataset>>
      PROVE  UNCHANGED Committed /\ HolderOf(report)' = HolderOf(report) /\ HolderOf(dataset)' = HolderOf(dataset)
  BY <1>1 DEF Committed, HolderOf
<1>2. CASE UNCHANGED <<lock, report, dataset>>
  BY <1>1, <1>2
<1>3. ASSUME NEW h \in Holders, lock = NoOne, lock' = h, UNCHANGED <<report, dataset>>
      PROVE  [Locked!Next]_<<lock, Committed>>
  BY <1>1, <1>3 DEF Locked!Next, Locked!Take
<1>4. ASSUME NEW h \in Holders, lock = h, lock' = NoOne, UNCHANGED <<report, dataset>>
      PROVE  [Locked!Next]_<<lock, Committed>>
  <2>1. Committed' \in Locked!Replaced
    BY <1>1, <1>4, OwnerReplaces
  <2> QED BY <1>4, <2>1 DEF Locked!Next, Locked!Release
<1>5. ASSUME NEW h \in Holders, lock = h, lock' = h,
             HolderOf(report)' \in {HolderOf(report), h}, HolderOf(dataset)' \in {HolderOf(dataset), h}
      PROVE  [Locked!Next]_<<lock, Committed>>
  <2>1. Committed' \in Locked!Replaced
    BY <1>5, OwnerReplaces
  <2> QED BY <1>5, <2>1 DEF Locked!Next, Locked!Publish
<1>6. ASSUME NEW j \in Jobs, JobStep(j) PROVE [Locked!Next]_<<lock, Committed>>
  <2>0. Home[j] \in Holders /\ Home[j] # NoOne
    BY Homes DEF Holders
  <2>1. Keeps(j) \/ Takes(j) \/ Gives(j)
    BY <1>0, <1>6, LockMove
  <2>2. OwnPublication(j)
    BY <1>6, PublicationMove
  <2>3. pc[j] \in Working => lock = Home[j]
    BY DEF LockInv
  <2>4. CASE UNCHANGED <<report, dataset>>
    BY <1>2, <1>3, <1>4, <2>0, <2>1, <2>3, <2>4 DEF Keeps, Takes, Gives
  <2>5. CASE /\ pc[j] = "collecting" /\ pc'[j] = "judge"
             /\ report' \in {report, j} /\ dataset' \in {dataset, j}
    <3>1. lock = Home[j] /\ lock' = Home[j]
      BY <2>0, <2>1, <2>3, <2>5 DEF Keeps, Takes, Gives, Working
    <3>2. HolderOf(report)' \in {HolderOf(report), Home[j]}
      BY <2>5 DEF HolderOf
    <3>3. HolderOf(dataset)' \in {HolderOf(dataset), Home[j]}
      BY <2>5 DEF HolderOf
    <3> QED BY <1>5, <2>0, <3>1, <3>2, <3>3
  <2> QED BY <2>2, <2>4, <2>5 DEF OwnPublication
<1>7. ASSUME NEW s \in Servers, Crash(s) PROVE [Locked!Next]_<<lock, Committed>>
  <2>1. lock' = (IF lock = s THEN NoOne ELSE lock) /\ UNCHANGED <<report, dataset>>
    BY <1>7 DEF Crash
  <2> QED BY <1>2, <1>4, <2>1 DEF Holders
<1>8. ASSUME NEW s \in Servers, LoadJobs(s) \/ RewritePending(s) \/ Ready(s)
      PROVE  UNCHANGED <<lock, report, dataset>>
  BY <1>8 DEF LoadJobs, RewritePending, Ready, facts
<1>9. ASSUME NEW j \in Jobs, OrphanEnds(j) PROVE UNCHANGED <<lock, report, dataset>>
  BY <1>9 DEF OrphanEnds, OrphansAreSilent
<1>10. Timer \in Holders /\ Timer \notin Jobs
  BY NamesOK DEF Holders, NamesOK
<1>11. CASE TimerTakesLock
  BY <1>3, <1>10, <1>11 DEF TimerTakesLock, facts
<1>12. CASE TimerPublishes
  <2>1. lock = Timer /\ lock' = Timer /\ report' = Timer /\ dataset' = Timer
    BY <1>12 DEF TimerPublishes
  <2>2. HolderOf(report)' = Timer /\ HolderOf(dataset)' = Timer
    BY <1>10, <2>1 DEF HolderOf
  <2> QED BY <1>5, <1>10, <2>1, <2>2
<1>13. CASE TimerReleases
  BY <1>4, <1>10, <1>13 DEF TimerReleases, facts
<1>14. CASE NewDay \/ UNCHANGED vars
  BY <1>2, <1>14 DEF NewDay, vars, facts
<1> QED BY <1>2, <1>6, <1>7, <1>8, <1>9, <1>11, <1>12, <1>13, <1>14 DEF Next, JobStep

\* The administrator's workers, with their commands, restarts and any number of servers,
\* are owners of collection.lock as the collection cycle expects them: they take it when
\* it is free and publish only under it, unless a command outlives its server.
THEOREM WorkersKeepTheLock == Spec /\ [][OrphansAreSilent]_vars => Locked!Spec
<1>1. Init => Locked!Init
  <2> SUFFICES ASSUME Init PROVE Locked!Init
    OBVIOUS
  <2>1. HolderOf(report) = NoOne /\ HolderOf(dataset) = NoOne /\ lock = NoOne
    BY NamesOK DEF Init, HolderOf, NamesOK
  <2> QED BY <2>1 DEF Locked!Init, Committed
<1>2. Init => LockInv
  BY NamesOK DEF Init, LockInv, Working, NamesOK
<1>3. TypeOK /\ LockInv /\ [Next]_vars /\ [OrphansAreSilent]_vars => [Locked!Next]_<<lock, Committed>>
  <2>1. CASE UNCHANGED vars
    <3>1. UNCHANGED <<lock, report, dataset>>
      BY <2>1 DEF vars, facts
    <3> QED BY <3>1 DEF Committed, HolderOf
  <2>2. CASE OrphansAreSilent
    BY <2>2, LockedNext
  <2> QED BY <2>1, <2>2
<1> QED BY <1>1, <1>2, <1>3, LockStep, TypeCorrect, PTL DEF Spec, Locked!Spec
=============================================================================
