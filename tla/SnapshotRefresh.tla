--------------------------- MODULE SnapshotRefresh ---------------------------
(***************************************************************************)
(* dashboard/admin.py: the worker of one "snapshot_refresh" job, composed  *)
(* with the collection cycle it starts.  The worker owns collection.lock   *)
(* from before it reads the old publication until the job has its outcome; *)
(* in between it runs run_collection_cycle.py --market-id as a command and *)
(* judges the job by comparing the publication before and after.           *)
(***************************************************************************)
EXTENDS CollectionCycle

CONSTANTS
  Jobs,        \* refresh jobs; as owners of collection.lock they are among Others
  Command,     \* the run each job starts
  Profile,     \* the single-snapshot profile of each job
  Fallible     \* the jobs whose files, threads and programs may fail on them (a bound)

Commands == {Command[j] : j \in Jobs}

ASSUME RefreshOK ==
  /\ Jobs \subseteq Others
  /\ Command \in [Jobs -> Runs]
  /\ \A i, j \in Jobs : i # j => Command[i] # Command[j]
  /\ Profile \in [Jobs -> {"tvl", "cex_depth", "dex_depth"}]
  /\ Fallible \subseteq Jobs

Stages == {"none", "queued", "ready", "command", "after", "exit", "done", "lost"}

Outcomes == {"none", "failed", "partial", "succeeded"}

VARIABLES
  stage,      \* where each job is
  before,     \* who had published the target when the job read it
  failed,     \* the command of the job exited non-zero or was killed
  outcome,    \* the status the job ends with
  committed   \* its publication_committed flag

jobs == <<stage, before, failed, outcome, committed>>
all  == <<vars, jobs>>

RefreshInit ==
  /\ Init
  /\ stage = [j \in Jobs |-> "none"]
  /\ before = [j \in Jobs |-> NoOne]
  /\ failed = [j \in Jobs |-> FALSE]
  /\ outcome = [j \in Jobs |-> "none"]
  /\ committed = [j \in Jobs |-> FALSE]

\* the source a job refreshes
Target(j) == CASE Profile[j] = "tvl"       -> "tvl"
               [] Profile[j] = "cex_depth" -> "depth"
               [] Profile[j] = "dex_depth" -> "dex_depth"

Active(j) == stage[j] \notin {"none", "done"}

Advance(j, s) == stage' = [stage EXCEPT ![j] = s]

\* The job in memory ends before its file is saved.  When the save fails, the handler of
\* unexpected failures ends it once more, as failed, and keeps the flag.
End(j, o, c) ==
  /\ \E final \in {o, "failed"} :
       /\ final = o \/ j \in Fallible
       /\ outcome' = [outcome EXCEPT ![j] = final]
  /\ committed' = [committed EXCEPT ![j] = c]
  /\ Advance(j, "exit")

\* one job at a time is queued or running
CreateJob(j) ==
  /\ stage[j] = "none"
  /\ \A k \in Jobs : ~Active(k)
  /\ Advance(j, "queued")
  /\ UNCHANGED <<vars, before, failed, outcome, committed>>

\* The thread of the job cannot be started.
WorkerDoesNotStart(j) ==
  /\ stage[j] = "queued"
  /\ outcome' = [outcome EXCEPT ![j] = "failed"]
  /\ Advance(j, "done")
  /\ UNCHANGED <<vars, before, failed, committed>>

\* The lock file cannot be opened or locked, outside every handler: the thread is gone,
\* and the job stays queued for as long as the server runs.
JobLosesWorker(j) ==
  /\ stage[j] = "queued"
  /\ Advance(j, "lost")
  /\ UNCHANGED <<vars, before, failed, outcome, committed>>

JobTakesLock(j) ==
  /\ stage[j] = "queued"
  /\ OtherTakes(j)
  /\ Advance(j, "ready")
  /\ UNCHANGED <<before, failed, outcome, committed>>

\* Faulty variant: the job is put back although nothing takes it up again.
JobFindsLockBusyRequeued(j) ==
  /\ stage[j] = "queued"
  /\ collection # NoOne
  /\ outcome' = [outcome EXCEPT ![j] = "queued"]
  /\ Advance(j, "done")
  /\ UNCHANGED <<vars, before, failed, committed>>

JobFindsLockBusy(j) ==
  /\ stage[j] = "queued"
  /\ collection # NoOne
  /\ outcome' = [outcome EXCEPT ![j] = "failed"]
  /\ Advance(j, "done")
  /\ UNCHANGED <<vars, before, failed, committed>>

\* The target is resolved already, which counts as a success without a publication, or
\* it is unreadable or no longer eligible.
NothingToRefresh(j) ==
  /\ stage[j] = "ready"
  /\ \E o \in {"succeeded", "partial"} : End(j, o, FALSE)
  /\ UNCHANGED <<vars, before, failed>>

StartCommand(j) ==
  /\ stage[j] = "ready"
  /\ before' = [before EXCEPT ![j] = facts[Target(j)]]
  /\ Begin(Command[j])
  /\ config'[Command[j]] = [profile |-> Profile[j], publish |-> TRUE, exact |-> TRUE,
                            override |-> FALSE, failFast |-> FALSE]
  /\ Advance(j, "command")
  /\ UNCHANGED <<failed, outcome, committed>>

\* The log of the job cannot be opened, or the command not be executed.
CommandDoesNotStart(j) ==
  /\ stage[j] = "ready"
  /\ before' = [before EXCEPT ![j] = facts[Target(j)]]
  /\ failed' = [failed EXCEPT ![j] = TRUE]
  /\ Advance(j, "after")
  /\ UNCHANGED <<vars, outcome, committed>>

\* main() of the cycle exits non-zero for the status "failed" only
CommandExits(j) ==
  /\ stage[j] = "command"
  /\ pc[Command[j]] \in {"end", "stopped"}
  /\ failed' = [failed EXCEPT ![j] = \/ pc[Command[j]] = "stopped"
                                     \/ status[Command[j]] = "failed"]
  /\ Advance(j, "after")
  /\ UNCHANGED <<vars, before, outcome, committed>>

\* subprocess.run kills the command at its timeout
CommandTimesOut(j) ==
  /\ stage[j] = "command"
  /\ Stop(Command[j])
  /\ failed' = [failed EXCEPT ![j] = TRUE]
  /\ Advance(j, "after")
  /\ UNCHANGED <<before, outcome, committed>>

\* Faulty variant: exit code zero is taken for success.
JudgeByExitCode(j) ==
  /\ stage[j] = "after"
  /\ IF failed[j] THEN End(j, "partial", FALSE) ELSE End(j, "succeeded", TRUE)
  /\ UNCHANGED <<vars, before, failed>>

\* "resolved": the new row of the target is observed or a confirmed absence
Judge(j) ==
  /\ stage[j] = "after"
  /\ LET changed == facts[Target(j)] # before[j]
     IN  \/ End(j, "partial", FALSE)                    \* the target cannot be read
         \/ ~changed /\ End(j, "partial", FALSE)
         \/ changed /\ failed[j] /\ End(j, "partial", TRUE)
         \/ /\ changed
            /\ ~failed[j]
            /\ \E resolved \in BOOLEAN :
                 End(j, IF resolved THEN "succeeded" ELSE "partial", resolved)
  /\ UNCHANGED <<vars, before, failed>>

\* Any other exception on the way, the save of the running job and its log included.
UnexpectedFailure(j) ==
  /\ stage[j] \in {"ready", "after"}
  /\ End(j, "failed", FALSE)
  /\ UNCHANGED <<vars, before, failed>>

\* The worker leaves; what it read and what it saw of its command goes with it.
JobReleasesLock(j) ==
  /\ stage[j] = "exit"
  /\ OtherReleases(j)
  /\ Advance(j, "done")
  /\ before' = [before EXCEPT ![j] = NoOne]
  /\ failed' = [failed EXCEPT ![j] = FALSE]
  /\ UNCHANGED <<outcome, committed>>

JobStep(j) ==
  \/ JobTakesLock(j) \/ JobFindsLockBusy(j) \/ NothingToRefresh(j) \/ StartCommand(j)
  \/ CommandExits(j) \/ Judge(j)            \/ JobReleasesLock(j)

\* What may befall a job, and is never needed for its progress.
JobFault(j) ==
  \/ CommandTimesOut(j)
  \/ /\ j \in Fallible
     /\ \/ WorkerDoesNotStart(j)  \/ JobLosesWorker(j)
        \/ CommandDoesNotStart(j) \/ UnexpectedFailure(j)

\* Beside the jobs there are the timers, their step children, and the passing of time.
RefreshNext ==
  \/ \E j \in Jobs : CreateJob(j) \/ JobStep(j) \/ JobFault(j)
  \/ \E r \in Runs \ Commands : (Begin(r) \/ Stop(r)) /\ UNCHANGED jobs
  \/ \E r \in Runs : RunStep(r) /\ UNCHANGED jobs
  \/ AbandonedChildEnds /\ UNCHANGED jobs
  \/ SourceAges /\ UNCHANGED jobs

RefreshSpec == RefreshInit /\ [][RefreshNext]_all

\* A started program keeps executing and its step child ends (the units bound it with
\* TimeoutStartSec); that the timeout of a command ever expires is not assumed.
RefreshFairness ==
  /\ \A r \in Runs : WF_all(RunStep(r) /\ UNCHANGED jobs)
  /\ \A j \in Jobs : WF_all(JobStep(j))

FairRefreshSpec == RefreshSpec /\ RefreshFairness

-----------------------------------------------------------------------------

\* The variables of the jobs have their types.
RefreshTypeOK ==
  /\ stage \in [Jobs -> Stages]
  /\ before \in [Jobs -> Holders \cup {NoOne}]
  /\ failed \in [Jobs -> BOOLEAN]
  /\ outcome \in [Jobs -> Outcomes]
  /\ committed \in [Jobs -> BOOLEAN]

\* A job reports a committed publication only when its target is no longer published by
\* whoever published it before the command, and success only with such a publication, or
\* when it found its target resolved and started no command ("Exit code zero, an
\* unrelated Market update, unchanged publication identity ... is not success",
\* docs/market-facts-contract.md).
SuccessMeansNewPublication ==
  \A j \in Jobs : stage[j] = "exit" =>
    /\ committed[j] => facts[Target(j)] # before[j]
    /\ outcome[j] = "succeeded" => committed[j] \/ pc[Command[j]] = "idle"

\* Every created job gets an outcome, although its command asks for the very lock the
\* job holds, unless its worker is lost at the lock file; and every run that has begun
\* comes to its end.
JobsEnd ==
  /\ \A j \in Jobs : stage[j] = "queued" ~> stage[j] \in {"done", "lost"}
  /\ EveryRunEnds

\* The command of a refresh job forwards the market to the collector: a command
\* that ran to its end has run a step (docs/collection-operations.md, "Exact
\* latest-fact refresh").
CommandReachesCollector ==
  \A j \in Jobs : pc[Command[j]] = "end" => results[Command[j]] # <<>>
=============================================================================
