# CEX/DEX analysis: verification project

TLA+ models of the parts of this repository whose correctness depends on order: processes that
contend for one file lock, files replaced one by one, jobs that start programs and judge them by
what they leave behind, request threads that write through optimistic revisions. TLC checks the
models on small instances; TLAPS proves the most important properties for every instance.

Source paths are relative to the repository. `PROJECT.json` maps every definition to the lines it
models.

## 1. The system

The repository collects market facts about tokens on centralized (CEX) and decentralized (DEX)
exchanges, publishes them as CSV, JSON and SQLite files, and serves them in a dashboard. It is a
set of Python programs that share one machine and one directory, `data/local`. There is no message
passing. Programs interact through

- **advisory locks**: `collection/collection.lock` (every program that replaces published facts),
  `collection/primary-intent.lock` (the primary timers), `shadow` owner records inside the lock file,
  a lock beside the token registry, locks beside the route pointers;
- **published files**, each replaced by `os.replace`, and pointers (`latest.json`) to immutable
  directories;
- **child processes** and their exit status: the cycle starts collectors, the administrator worker
  starts the cycle, the backfill starts the daily pipeline;
- **one SQLite ledger** of token reviews, written by the threads of the dashboard;
- **threads** of the dashboard: HTTP requests, one job worker at a time, the summary warm-up.

### 1.1 Inventory

| Component (source) | State | Operations | Hard behaviour | What makes it correct |
|---|---|---|---|---|
| Collection cycle (`scripts/run_collection_cycle.py`) | two flocks, step results, published facts, price input, manifest, `latest.json` | take locks, run or skip a step, validate its publication, conclude, write reports, release | timers overlap; steps fail, are interrupted or leave their child behind; the process dies anywhere | only the lock owner publishes; DEX depth uses its own run's price; the reports tell the truth; nobody keeps a lock |
| Snapshot refresh job (`dashboard/admin.py`, `_run_job`, `_run_snapshot_refresh_job`) | job record, lock, publication seen before the command | queue, lock, run the command, compare, release | the command publishes and fails, times out, or is refused the lock its own job holds | success only with a new publication; every job ends |
| Bundle publication (`scripts/atomic_publication.py`) | destinations, staged files, backups | stage, replace, roll back, clean up | a fault at any call, a fault while handling a fault, interrupts, crash | all or nothing; never a missing file; old bytes recoverable |
| Daily pipeline and import (`scripts/run_fact_pipeline.py`, `scripts/import_local_snapshot.py`) | CSV copies, quality report, database, attempt evidence, rejected pointer | append, rebuild, audit, reject, replace, restore | crash between two replacements, then another append | database last; evidence belongs to the database it extends; a failed call changes nothing |
| Token review gate (`dashboard/token_reviews.py`, `dashboard/admin.py`) | review row with revision, audit ledger | submit, mail, retry, decide, start | concurrent administrators, lost writes, crash after an effect | one job, three mails, effects recorded |
| Job worker, token registry (`dashboard/admin.py`, `scripts/token_registry.py`) | job table and job files, registry file, two locks | create, run, judge, activate, restart | a write fails at any stage; the server stops during a job; a second process loads the same files | a live job has a worker; a token is active only with published rows; success means a new publication |
| Public action policy (`dashboard/public_actions.py`) | request times, in-flight groups | permit, release | budget counted before the thing counted exists; midnight | never more accepted than the budget |
| Exact backfill (`scripts/run_exact_backfill.py`) | collection lock, windows | lock, run windows, stop at the first bad one | runs the daily pipeline many times under one lock | stops at the first window that makes no progress |
| Lock evidence (`scripts/collection_lock_evidence.py`) | owner record, receipts, overflow marker | write and clear the owner, record a contention | owner dies without clearing; directory at its cap | a receipt names the real holder; the cap holds |
| Route shadow (`scripts/run_route_shadow.py`) | write-once members per run | start, finish, reconcile | runner and reconciler after a kill | one terminal per run |
| Route cohort (`scripts/collect_route_cohort.py`) | tasks per source, futures, child processes, outcomes, evidence directories | submit, wait, take answers, expire, kill, recheck, promote, roll back | answer, deadline and failure at once; children that survive their signals; limits per source | each leg ends once; only the deadline expires; no writer while evidence is promoted |
| Route publication (`scripts/route_publication.py`) | bundles, pointers | stage, validate, move the pointer | two publishers and a reader | a pointer names a complete bundle |
| Coverage gate, merge, quality (`scripts/publication_gate.py`, `bounded_snapshot_merge.py`, `quality_outcomes.py`) | none | pure functions over row sets | thresholds, zero denominators | no silent loss of coverage |
| Dashboard server (`dashboard/server.py`) | caches per source generation, warm-up state | sign, build, cache, recheck, invalidate, warm up, report health | sources replaced during a build; caches shared by threads; an old warm-up ends late | an answer belongs to one moment; ready means current |
| Raw retention (`scripts/retain_cex_depth_raw.py`) | snapshot directories, archives | compress, delete | crash between archive and removal | nothing is lost, the next plan works |
| Historical replay (`scripts/historical_foundry_*.py`) | journal, capture store | commit, recover | crash inside a commit | commit or nothing |
| Collectors, cost evidence, opportunity pipeline, projections, browser, demos, research | none that is shared | HTTP, arithmetic, rendering | - | tests |

`PROJECT.json` lists all of them, with the reason for each that is not modelled, and under `hazards`
the lines at which each hard behaviour bites and the properties that watch over it.

## 2. Modules

| Module | Models | State and actions correspond to |
|---|---|---|
| `CollectionCycle` | `run_collection_cycle.py` | one `pc` per invocation. `intent`, `collection` are the owners of the two flocks; `results` is `step_results`; `facts[s]` names the process that published source `s` last; `current` are the sources the freshness gate would accept; `price`/`depthPrice` say whose price input exists and whose was used for the published DEX depth; `children` are step children nobody waits for. Actions follow the main function in its order: `Begin`, `TakeIntent`/`IntentBusy`, `TakeCollection`/`CollectionBusy`, the step loop (`SkipDexDepth`, `StartStep`, `ChildSucceeds`, `ChildFails`, `RunnerStops`, `Validate`), `Conclude`, `WriteManifest`, `WriteLatest`, `ReleaseCollection`, `ReleaseIntent`. `Stop` is an exception that leaves the cycle or the death of the process. `Other*` are the other programs under `collection.lock`. |
| `SnapshotRefresh` | the refresh job of `dashboard/admin.py` | EXTENDS `CollectionCycle`: a job is one of the `Others`, its command is one of the `Runs`. `StartCommand` is `Begin` of that run with the job's profile and `--market-id`; `CommandTimesOut` is its `Stop`; `Judge` compares the publication before and after. `outcome` and `committed` are the job's `status` and `publication_committed`; `NothingToRefresh` with the outcome succeeded is `already_resolved`. `JobFault` collects what may befall a job: a thread that does not start, a lock file that cannot be opened, a command that cannot be executed, and the handler of unexpected exceptions. |
| `AtomicBundle` | `atomic_replace_bundle` | `phase` and `at` are the loop the call is in and the item it has come to; `committed` is the length of its list of the same name; each `os.replace`, restore and the clean-up is one action, with its failure beside it. |
| `Publication` | - | what a caller of `atomic_replace_bundle` relies on; the abstract specification `AtomicBundle` implements (`KeepsContract`). |
| `LockedFacts` | - | the contract of `collection.lock`: taken when free, released by its owner, facts replaced only while it is owned and by its owner. `CollectionCycle`, `SnapshotRefresh` and `AdminJobs` are proved to implement it. |
| `DailyImport` | `run_fact_pipeline.py`, `import_local_snapshot.py` | a file's content is the number of the call that built it, 0 if it was found there by the first call, -1 if it does not exist. `Aligned` is the check of `load_append_attempt_evidence`, which lets an append pass without evidence when there is no quality report; `Seed` is `seed_processed_from_local`: the published database, or the CSV copies where there is none; `Prepare` to `ReplaceDatabase` and `Restore*` are the publication. |
| `TokenReview` | `token_reviews.py` and the review methods of `AdminService` | the row (`status`, `notice`, `attempts`, length of the ledger) and one `step` per request thread. A revision is represented by the set `current` of threads that hold the newest one: every committed write sets it to the writer. `Insists`, `TryAgain`, `Refused` and `DatabaseFails` are `_complete_token_review_effect`: a lost revision is tried again, a full ledger and an error of SQLite (`invalid_review_database`) are not; `unwritten` remembers that the latter kept the result of a start from the row. |
| `ReviewContract` | - | what a review promises its requester and its auditors, without threads, revisions or restarts; `TokenReview` is proved to implement it. |
| `AdminJobs` | the job table and worker of `AdminService`, the registry record, `public_actions.py` | `memory` and `file` are a job's status in the table and on disk, `pc` its request and then its thread. `Permit`, `CreateJob`, `CreateOnboardingJob`, `StartWorker`, `TakeLock`/`LockBusy`/`LockFileUnavailable`, `Start`, `Publishes`, `CommandEnds`, `Judge`, `Verified`, `Activate`, `Exit` follow a job in the order of the code, each write of a file with its failure. A failed write of the registry may have replaced it (`UpsertFails`: the sync of the directory comes behind); a job ended because of a failed read or write saves its ending once more (`SetJobAfterFault`). `Crash`, `LoadJobs`, `RewritePending`, `Ready` are the stop and the next start of a server. A publication is the name of the job whose command committed it. |
| `SourceReader` | the answer loop of `dashboard/server.py` | `stamp` is what `stat` shows of each file, `content` what it says; `Sign`, `Ensure`, `Stat`, `Open`, `Recheck`, `Check`, `Retry` are one attempt, one file per step; `loaded`, `payloads`, `responses` are the caches and `generation` the signature they are kept for. `Collect`, `Begin`, `Finish` are the warm-up, `Peek`, `Report` the health check. |
| `RouteCohort` | `collect_route_cohort` and `_ForkProcessExecutor` | `pc` is the place in the parent; `pending`, `futures`, `batch` are the tasks before submission, outstanding, and returned by the last wait; `answer` and `alive` are the pipe and the process of each child. `Submit` to `BatchDone` are the loop, `CleanUp` the finally clause with `shutdown`, `ReadFails` an answer that cannot be unpickled, `InputsUnchanged`/`InputsChanged` the recheck, `Promote`, `EvidenceRefused`, `RunUnsafe`, `RollbackUnverified` the evidence of one market. |
| `MC*` | - | constants of the instances TLC checks. |
| `*_proofs` | - | theorems checked by TLAPS. |

Definitions commented "Faulty variant" are never used by a specification. Each is the change a
plausible bug would make to the definition below it, and replacing that definition by it must violate
a property: this shows that the property looks at the code it is about.

### Abstractions

- Contents are names of their author: the run, the call, or old/new/absent. Rows, hashes and
  timestamps are left out; where the code compares digests to recognise "the same publication", the
  models compare authors.
- The freshness gate is a nondeterministic verdict at publication (`accepted`) and `SourceAges` at any
  time later, so no property relies on clocks.
- A step child is one action at its end: its own publication is atomic or partial in the way
  `AtomicBundle` and `DailyImport` describe, and a child that fails may have published. A TVL or price child may
  have replaced only the processed price input, which both rewrite.
- `UnitSpec` of `CollectionCycle` is the cycle without the steps of abandoned children, as under systemd.
- `AdminJobs` has one file per job and one status per registry record; the registry is locked for each
  single write, which is one action, and a read is the action that uses it. The snapshot refresh job is not repeated there.
- In `SourceReader` a stamp is never used twice (modification and change time, size and inode), and the clock
  minute in the cache keys is left out: it can only separate answers further.
- The key under which `SourceReader` keeps a payload is the signature of the attempt. The code makes the key
  from stamps taken once more behind that signature; a change between the two is found by the recheck of the
  attempt, which discards the answer.
- In `RouteCohort` errors with the same way out are one action: every exception of `submit` is `SubmitRefused`, every
  error of the raw directories `RollbackUnverified`, and the last comparison of payloads and rows may make `Return` raise.
- In `TokenReview` a COMMIT that reports an error is taken to have stored nothing. A failed worker start leaves a
  failed job record that counts as no job.
- In `RouteCohort` the round robin over sources is a free choice among the sources that have work, room
  under their limit and, if not CEX, a worker beyond the one kept for CEX. Wall clock and monotonic clock run
  alike. Row, payload and evidence validation is a verdict. A child that outlasts SIGKILL is a process the bounded
  joins did not see end.
- A review is one contract; reviews share nothing but the database, whose transactions SQLite isolates.
- `ChildOutlives` says whether a step child can survive its runner. The code decides nothing here: it
  neither kills nor awaits the child (`default_step_runner`, lines 623-639). Under systemd the
  children die with the unit; from a terminal or the administrator's worker they may not. Both cases
  are checked.

## 3. Runs

| Run | Instance | Shows |
|---|---|---|
| `cycle_safety` | two runs of the hourly depth, exact DEX refresh and routes profiles in any pairing, one other program | `OnlyTheHolderPublishes`, `DepthUsesOwnPrice`, `LatestIsNewestManifest`, `LatestDescribesFacts`, `TypeOK`, with failures, interrupts and stops at every point |
| `cycle_orphan_writer` | two daily runs, children may be left behind | finding 1 |
| `refresh_jobs` | two jobs with their commands, an hourly timer, children may be left behind; one of the jobs may lose its thread, files or saves | `SuccessMeansNewPublication` (a committed publication is a new one; success without one is `already_resolved`), `AbandonedChildFailsItsRun`, `RefreshTypeOK`; under fairness `JobsEnd` (runs end, and jobs but for a worker lost at the lock file) and `LocksComeFree`: no early return, failure or refused second lock keeps a lock |
| `refresh_unreached` | one job and a timer | finding 2 |
| `bundle` | four destinations, one of them new, two faults | `AllOrNothing`, `OldBytesSurvive`, `NeverMissing`, `KeepsContract`, `TypeOK` |
| `import` | three supporting files, four calls, two faults each, crashes; at first nothing is published, or the CSV copies, or a database beside them, or all | `DatabaseIsCommitPoint`, `OwnDatabase`, `CallIsAtomic` |
| `review_threads` | three threads, three mails, eight events, crashes, database errors | `OneJob`, `MailBudget`, `OwnsEffect`, `LoopSuffices`, `JobRecordedUnlessFull`, `TypeOK` |
| `review_ledger` | one thread, the real bound of 50 events | finding 3 |
| `jobs` | two public retries with a budget of one, a refresh, an onboarding, three of which arrive, a timer, one midnight, two I/O faults, one restart | `QueuedHasWorker`, `PendingHasWorker`, `SuccessIsNews`, `ActivationIsEarned`, `BudgetHolds`, `OwnJobsDoNotCollide`, `TypeOK` |
| `jobs_two_processes` | a refresh and an onboarding in two server processes | finding 4 |
| `reader` | two files, two publications, a request, a warm-up and a health check, two attempts | `AnswerIsSnapshot`, `GivesUpOnlyWhenBusy`, `ReadyIsCurrent`, `TypeOK` |
| `cohort` | two CEX legs of one venue, a DEX leg on each of two chains, one to three workers, limits of one | `EveryLegEndsOnce`, `OnlyTheDeadlineExpires`, `CexSlotKept`, `NoWriterLeft`, `TypeOK` |

### Bounds

- **Two runs and one other program** (`cycle_*`): mutual exclusion, the lock order and a report
  overtaken by another are questions about a pair, and the third process shows a publication between
  two of a run's own steps. Each run executes once, so a lock handed back and forth more than three
  times is not reached; `OnlyTheHolderPublishes` is proved for any number. The profiles instantiated are those with a
  chain of dependent steps and, with `routes`, one that takes no intent lock, because the step loop treats every profile alike.
- **Two faults** (`bundle`): one fault starts the rollback, a second one hits the rollback or the
  clean-up. A third fault in the clean-up, after a restore has failed, replaces the RuntimeError that
  names the unrestored file by the clean-up's OSError; the message is then lost although the files are a mixture.
  `AllOrNothing` does not hold of that, the hazard list records it, and the theorem assumes at most two.
- **Four destinations**, one absent before: the shortest list with a first, a middle and a last
  element on either side of a new file.
- **Four calls** (`import`): publish, die half way, be refused, rebuild. Proved for any number. The directory found by
  the first call is every combination the pipeline leaves or an operator seeds: a report never comes without its database.
- **Three threads, eight events** (`review_threads`): three is the number of mail attempts; submit,
  claim, record, decide, start and finish take six events, so eight leaves room for retries and for the ledger to be
  full at every point. The real bound of 50 changes nothing but the length; the proofs hold for any.
- **Two faults, one restart, one midnight, three requests** (`jobs`): each hits any step of any job; two faults are a
  failed read or write and the failed save of the ending it causes, and what they leave behind meets the restart or
  the next job. `Requests` lets any three of the four requests arrive. Two retries are the least that can compete for a
  budget of one, and a third request is there to find the table busy.
- **Two files, two publications, two attempts** (`reader`): the least in which the parts of an answer can be of
  different moments, and a request can be disturbed in every attempt. A probe and a warm-up read the same files. Proved for any number.
- **Four legs** (`cohort`): two legs of a venue compete for its limit, and the CEX work can run out before or
  after a resolver answers; one worker is the boundary at which the kept slot leaves nothing for the
  resolvers. Proved for any number of legs, sources and workers.
- **Deadlock** is not checked where every process legitimately ends; `JobsEnd` (which includes
  `EveryRunEnds`) says what must not get stuck. `review_*` and `reader` check it.

### Fairness

`FairRefreshSpec` assumes weak fairness of each started run (its process is scheduled, and its step child
ends: the systemd units bound a run with TimeoutStartSec), that another owner of the lock finishes, and weak
fairness of a job's worker thread. Nothing is assumed of `Begin`, `Stop`, timers, ageing or abandoned children; nor that
the command's timeout ever expires: a job ends because its command does. The other modules state no fairness. What must not
be left waiting there is an invariant: `QueuedHasWorker`, `PendingHasWorker`, `OnlyTheDeadlineExpires`, `GivesUpOnlyWhenBusy`.

## 4. Proofs

Each holds for every value of the constants that satisfies the module's named assumption.

| Module | Theorems | Argument |
|---|---|---|
| `CollectionCycle_proofs` | `TypeCorrect`, `LockGuardsPublication`, `DepthPriceIsOwn`, `LatestIsNewest`, `LeftChildMeansFailure`, `LatestTellsTheTruth`, `RunsOnlyAdvance`, `CycleIsLocked` | `OnlyTheHolderPublishes` is not inductive: nothing in it says that a run inside its step loop owns the lock. `LockInv` ties ownership to the program position in both directions, including `intent`; `StepInv` bounds the step counter, which the types of `results` need. `NoOrphans` adds that without surviving children `children` stays empty. `LockGuardsPublication`, `DepthPriceIsOwn` and `LatestTellsTheTruth` assume `ChildOutlives = FALSE`; finding 1 shows that the first needs it. `PriceInv` follows the price input from the step that writes it to the depth step of the same run; `LatestInv` says that a run about to write latest.json has written the newest manifest; `ChildInv` that a run with a child left behind has stopped or a failed step among its results; `TruthInv` that the facts a run recorded are the facts until it gives the lock back, and that every difference between latest.json and a source afterwards is explained. `RunsOnlyAdvance` is the safety half of `EveryRunEnds`: `Rank` orders the places of the program, and each step of a run, a stop included, raises it to at most 23; its hypothesis is the invariant alone. `CycleIsLocked` maps every step to one of `LockedFacts` (`owner` is `collection`, `publisher` is `facts`), with `ChildOutlives = FALSE`. |
| `AtomicBundle_proofs` | `TypeCorrect`, `AlwaysReadable`, `AllOrNothingHolds`, `ImplementsContract`, `OldBytesAreKept`, `EndingsAreHonest` | `OnDisk`: unless interrupted, the destinations are exactly `Prefix(committed)`, in the commit loop and in the rollback, so that a finished rollback means `Prefix(0)`, the old contents. `Spent` counts the faults: a failed restore has used two. `AllOrNothingHolds` and `ImplementsContract` assume `FewFaults` (`MaxFaults <= 2`). `OnDisk` itself is inductive for any number of faults; with `BackedUp` (each replaced file that existed has its backup) it gives `OldBytesAreKept`. `EndingsAreHonest` is what remains without `FewFaults`: every file is old or new, a return means all of them are new, and a mixture is left only behind an interrupt or a restore that failed. |
| `DailyImport_proofs` | `TypeCorrect`, `DatabaseComesLast`, `CallsAreAtomic`, `AppendsExtendTheirDatabase`, `DatabaseGrowsByWholeCalls` | `NewestCall` (nothing is newer than the current call), `Replaced` (files before `at` are the call's), `SavedIsOld` and `Restored` (files after `at` in the rollback are the saved ones) together imply that the files are never older than the database, whatever earlier calls left. `AppendsExtendTheirDatabase` shows `OwnDatabase`: a running append extends the database that is still published, with the evidence of exactly that database; where no report is published it carries no evidence, and where no database is published it is seeded from the CSV copies (`Extends`). With `Replaced` it gives `DatabaseGrowsByWholeCalls`: a new database is complete and newer, and after an append extends what it replaces in the same sense. |
| `TokenReview_proofs` | `TypeCorrect`, `EffectsAreOwned`, `MailsAreBounded`, `OneJobEver`, `LoopIsNeverUsedUp`, `JobsAreRecorded`, `ReviewsKeepTheirContract` | `Reservations`: a thread that still holds the current revision knows the notice it read (`ClaimsKnow`), only the creator claims a pending mail (`PendingAlone`), one thread mails and one starts (`MailsAlone`, `StartsAlone`). `MailsPaid` and `JobCount` count effects against them. `LedgerPays`: each write a thread loses is another thread's event, so `tries` stays below the ledger's length. `JobInHand`: a created job is on the review or in the hands of the thread that created it, unless the server died or SQLite failed on the recording write; `JobsAreRecorded` is thus about lost revisions and the ledger, and excepts both. `ReviewsKeepTheirContract` maps each step to one step of `ReviewContract` or none: `JobMade` and `JobCount` say that the thread that concludes a start knows whether the job exists. |
| `SnapshotRefresh_proofs` | `JobsDriveTheCycle`, `RefreshTypeCorrect`, `SuccessIsNew`, `LeftChildMeansFailureHere`, `CommandsRunNothing`, `RefreshCommitsNothing`, `RefreshIsLocked` | `JobsDriveTheCycle` maps every step of the composition to a step or a stutter of `CollectionCycle`, so its invariants hold among jobs. `SuccessIsNew` needs that a name is never published twice: `ChildBehind` (a child left behind belongs to a step its run has passed) and `PublishedOnce` (a run publishes a source in at most one step) make `OldStaysOld`: what was replaced never comes back. It holds also when children outlive their runners. `CommandsRunNothing` turns finding 2 into a theorem: a job owns the lock as long as its command may run (`CommandInv`), so no command has a step result or a publication. With `ChildOutlives = FALSE` nothing is published while the job waits (`NoNews`), hence `RefreshCommitsNothing`: no job reports a committed publication, and the one success left is `already_resolved`, of a job that started no command. What `SuccessIsNew` says of committed publications therefore concerns only jobs beside children left behind. `RefreshIsLocked` composes `JobsDriveTheCycle` with `CycleIsLocked`. |
| `AdminJobs_proofs` | `TypeCorrect`, `LiveJobsHaveWorkers`, `PendingIsReconciled`, `OwnJobsNeverCollide`, `SuccessMeansNews`, `BudgetIsKept`, `ActivationsAreEarned`, `OneServerTellsTheTruth`, `RecordedEndingsAreFinal`, `TableAndFilesAgree`, `WorkersKeepTheLock` | `QueueInv`: a live job's thread has not come to its exit, where it gives the lock back. `LostInv`: only a failed open of `collection.lock` loses a thread. `LiveJobsHaveWorkers` says where the thread of a live job is, and excepts the lost one, whose job nobody ends before the next restart; that a thread goes on is not claimed. `LockInv` ties the lock to the one worker in its locked section. `PendingInv`: a pending token names its onboarding job; a running server still works on that job, a loading one has the token on its list, and a job that activated its token is not what the token waits for. `NewsInv`: a job whose command has not ended is named by no publication and no worker's memory of one (`FreshInv`), so what was published when a worker got the lock never comes back; from then on the report is what the job compares with, or newer. `BudgetInv`: at most one request is between its permit and the start of its worker, that one still finds room today, and the table of a running server knows every job that has a file. `EarnInv`: a token is reserved for the one onboarding thread that may write its record, so nobody rewrites it after a success. The set of jobs is finite, because restarts and the budget count jobs; everything else is arbitrary. `ActivationsAreEarned`, `OneServerTellsTheTruth`, `RecordedEndingsAreFinal` and `TableAndFilesAgree` assume one server process: a second one rewrites records and job files of a living one (finding 4). For the last two `FileInv` relates the table, the file and the failed writes of a job. `WorkersKeepTheLock` (`LockedFacts`, with the committed publication as the fact) assumes `OrphansAreSilent`: a command that outlived its server publishes nothing; the code does not enforce it, a service manager that kills the unit's processes does. |
| `SourceReader_proofs` | `TypeCorrect`, `AnswersAreSnapshots`, `GivesUpWhenBusy`, `ReadyMeansCurrent`, `AnswersAreFresh` | `AgreeInv`: no stamp noted anywhere is newer than the last publication, and what a cache, a payload or a thread holds for a signature agrees with the contents of every file whose stamp is still the one noted (`CachesAgree`, `ThreadAgrees`); the second reading of the stamps then shows that all of them agree. `PatienceInv`: each attempt used up has seen a publication the ones before had not. `ReadyInv` says the same of the files a warm-up and a probe collect one by one. `RecentInv` follows what was published before a request began into its signature; with `AnswersAreSnapshots` it makes an answer the state of all files at one moment of its own request, whatever the caches held. |
| `RouteCohort_proofs` | `TypeCorrect`, `LegsEndOnce`, `DeadlineAlone`, `SlotForCex`, `NoWriter`, `SourcesAreSpared`, `WorkersAreBounded` | `Ledger`: outcomes and the markets the tasks stand for partition the markets; a chain and one of its markets are never tasks at once. `Cleaned` carries this through the finally clause. `Deadline` needs that with no future outstanding something pending can be submitted (`WorkIsSubmitted`), for any limits and with one worker. `SlotForCex` rests on the CEX work only shrinking (`SlotMonotone`). `ChildrenInv` puts every living child among the futures of its source, which gives `SourcesAreSpared` from the limits of the scheduler; it assumes `Unkillable = FALSE`, because a child that survives its signals is no longer counted for its source. It stays counted for the pool: `WorkersAreBounded` needs no assumption. |

Three of these assumptions are about the environment, not the code. `ChildOutlives = FALSE`, `OrphansAreSilent` and `Unkillable = FALSE`
say that the operating system ends what the program has given up; the runs drop them where they check what happens otherwise.

Only model-checked: the liveness properties `JobsEnd` and `LocksComeFree`, which are outside the
prover's logic (`RunsOnlyAdvance` proves that nothing but waiting can keep a run from its end). Every invariant and action
property of a passing run is proved.

## 5. Findings

1. **A step child may publish without the lock** (`cycle_orphan_writer`,
   `scripts/run_collection_cycle.py:945`). When KeyboardInterrupt or a log error leaves the loop of `default_step_runner`, the
   child is neither killed nor awaited; the run concludes and releases the lock; the child publishes while
   another run owns it. `docs/collection-operations.md` says that a second run does not write facts
   while another profile owns the lock.
2. **The command of a refresh job never reaches its collector** (`refresh_unreached`,
   `dashboard/admin.py:1881`). The worker holds an exclusive flock on the file the command asks for
   without blocking, through another open file description. The command ends as `skipped_locked` with exit status
   zero, and the job ends as partial. The run finds the violation from the first command on.
3. **A started onboarding may stay unrecorded** (`review_ledger`, `dashboard/token_reviews.py:395`). If
   the reservation of a start is the fiftieth event, the job is created and recording it raises
   `audit_limit`: the review stays in `onboarding_starting`.

4. **A second process ends the jobs of a living one** (`jobs_two_processes`, `dashboard/admin.py:350`).
   Constructing an `AdminService` rewrites every queued or running job file as interrupted and the pending token as
   `needs_review`, without asking whether the process that owns the job is alive. A job of the administrator that
   imports `dashboard.server` while the server runs as `__main__` does so from within one process.

## 6. Not modelled

Arithmetic on prices, depth and costs, canonical JSON, HTTP clients, rendering, research copies and
demonstrations are pure or external and have their own tests. Components with their own control that are
still missing are in the plan.

Further limits of what is modelled: the timing of systemd timers; file system behaviour under power
loss (`fsync` is taken at its word); the text of log files; an interrupt delivered
between the return of the database replacement and the end of its try block, which rolls the CSV copies back under the
new database (listed as a hazard); what an operator does about a
job whose lock file could not be opened (its thread ends silently and it stays queued until the server restarts; the
models have it, no property forbids it, and it is listed as a hazard).

## 7. Plan

Order of the work; each module with its instance, its abstract specification where one is worth
stating, and the theorems aimed at.

1. `CollectionCycle`, `SnapshotRefresh`, `AtomicBundle` with `Publication`, `DailyImport`,
   `TokenReview`, with the theorems of section 4. *Done.*
2. `AdminJobs`, `SourceReader` and `RouteCohort`, and the composition in `SnapshotRefresh`, with their
   theorems. *Done.* The contracts `LockedFacts` and `ReviewContract`, and the programs that implement them. *Done.*
3. `RoutePublication` and its reader: pointers, bundles, the shared core lock; instance of two publishers and one reader; theorem:
   a pointer never names an incomplete bundle.
4. `LockEvidence` and `RouteShadow`, composed with the lock of `CollectionCycle`.
5. `Retention`, and the commit journal of the historical storage.
6. The coverage gate, the snapshot merge, the carry-forward of rows and the quality classification as operators, each compared
   with a reference definition over bounded inputs.

Modules are to be kept small enough to share runs: a run checks all properties that make sense of one
instance, and an instance is added only for a question none of the others asks.
