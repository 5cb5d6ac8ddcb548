----------------------- MODULE SnapshotRefresh_proofs -----------------------
(***************************************************************************)
(* Theorems about the refresh jobs composed with the collection cycle, for *)
(* any number of jobs, runs and argument vectors.  A behaviour of the jobs *)
(* is a behaviour of the cycle, so what is proved of the cycle holds here. *)
(* That a new publisher is news needs more: a process publishes a source   *)
(* at most once, even through a child it has left behind.                  *)
(***************************************************************************)
EXTENDS SnapshotRefresh, CollectionCycle_proofs

\* What a step of the composed system is to the cycle, other than a step of a run.
Beside == \/ \E o \in Others : OtherTakes(o) \/ OtherReleases(o)
          \/ SourceAges
          \/ UNCHANGED vars

\* Every step is one of the cycle's; no other program publishes.
CycleStep == \/ \E r \in Runs : Begin(r) \/ RunStep(r) \/ Stop(r)
             \/ AbandonedChildEnds
             \/ Beside

LEMMA StepIsCycleStep == [RefreshNext]_all => CycleStep
<1> SUFFICES ASSUME [RefreshNext]_all PROVE CycleStep
  OBVIOUS
<1> USE DEF CycleStep, Beside
<1>0. Jobs \subseteq Others /\ Command \in [Jobs -> Runs]
  BY RefreshOK DEF RefreshOK
<1>1. ASSUME NEW j \in Jobs, CreateJob(j) \/ JobStep(j) \/ JobFault(j) PROVE CycleStep
  <2>1. CASE CreateJob(j) \/ JobFindsLockBusy(j) \/ NothingToRefresh(j) \/ CommandExits(j) \/ Judge(j)
    BY <2>1 DEF CreateJob, JobFindsLockBusy, NothingToRefresh, CommandExits, Judge
  <2>4. CASE \/ WorkerDoesNotStart(j) \/ JobLosesWorker(j) \/ CommandDoesNotStart(j)
             \/ UnexpectedFailure(j)
    BY <2>4 DEF WorkerDoesNotStart, JobLosesWorker, CommandDoesNotStart, UnexpectedFailure
  <2>2. CASE JobTakesLock(j) \/ JobReleasesLock(j)
    BY <1>0, <2>2 DEF JobTakesLock, JobReleasesLock
  <2>3. CASE StartCommand(j) \/ CommandTimesOut(j)
    BY <1>0, <2>3 DEF StartCommand, CommandTimesOut
  <2> QED BY <1>1, <2>1, <2>2, <2>3, <2>4 DEF JobStep, JobFault
<1>2. CASE \E r \in Runs \ Commands : (Begin(r) \/ Stop(r)) /\ UNCHANGED jobs
  BY <1>2
<1>3. CASE \E r \in Runs : RunStep(r) /\ UNCHANGED jobs
  BY <1>3
<1>4. CASE AbandonedChildEnds \/ SourceAges
  BY <1>4
<1>5. CASE UNCHANGED all
  BY <1>5 DEF all
<1> QED BY <1>1, <1>2, <1>3, <1>4, <1>5 DEF RefreshNext

LEMMA CycleStepIsNext == CycleStep => [Next]_vars
BY DEF CycleStep, Beside, Next, UnitNext

\* The jobs drive the cycle only the way its specification allows: a command is a run
\* that begins, a killed one a run that stops, a job another owner of collection.lock.
THEOREM JobsDriveTheCycle == RefreshSpec => Spec
<1>1. RefreshInit => Init
  BY DEF RefreshInit
<1>2. [RefreshNext]_all => [Next]_vars
  BY StepIsCycleStep, CycleStepIsNext
<1> QED BY <1>1, <1>2, PTL DEF RefreshSpec, Spec

\* A child that a run has left behind keeps the run from reporting success here, too.
THEOREM LeftChildMeansFailureHere == RefreshSpec => []AbandonedChildFailsItsRun
BY JobsDriveTheCycle, LeftChildMeansFailure, PTL

LEMMA CycleInv == RefreshSpec => []IInv
BY JobsDriveTheCycle, Invariance, PTL

LEMMA TargetIsSource == \A j \in Jobs : Target(j) \in Sources
BY RefreshOK DEF RefreshOK, Target, Sources, StepNames

\* The variables of the jobs keep their types.
THEOREM RefreshTypeCorrect == RefreshSpec => []RefreshTypeOK
<1>1. RefreshInit => RefreshTypeOK
  BY DEF RefreshInit, RefreshTypeOK, Stages, Outcomes
<1>2. IInv /\ RefreshTypeOK /\ [RefreshNext]_all => RefreshTypeOK'
  <2> SUFFICES ASSUME IInv, RefreshTypeOK, [RefreshNext]_all PROVE RefreshTypeOK'
    OBVIOUS
  <2> USE DEF RefreshTypeOK, Stages, Outcomes, Advance
  <2>1. ASSUME NEW j \in Jobs, CreateJob(j) \/ JobStep(j) \/ JobFault(j)
        PROVE  RefreshTypeOK'
    <3>1. CASE CreateJob(j) \/ JobTakesLock(j) \/ JobReleasesLock(j)
      BY <3>1 DEF CreateJob, JobTakesLock, JobReleasesLock
    <3>2. CASE JobFindsLockBusy(j) \/ WorkerDoesNotStart(j) \/ JobLosesWorker(j)
      BY <3>2 DEF JobFindsLockBusy, WorkerDoesNotStart, JobLosesWorker
    <3>3. CASE NothingToRefresh(j) \/ UnexpectedFailure(j)
      <4>1. PICK o \in {"partial", "succeeded", "failed"} : End(j, o, FALSE)
        BY <3>3 DEF NothingToRefresh, UnexpectedFailure
      <4> QED BY <3>3, <4>1 DEF NothingToRefresh, UnexpectedFailure, End
    <3>4. CASE StartCommand(j) \/ CommandDoesNotStart(j)
      <4>1. facts[Target(j)] \in Holders \cup {NoOne}
        BY TargetIsSource DEF IInv, TypeOK
      <4> QED BY <3>4, <4>1 DEF StartCommand, CommandDoesNotStart
    <3>5. CASE CommandExits(j)
      BY <3>5 DEF CommandExits
    <3>6. CASE CommandTimesOut(j)
      BY <3>6 DEF CommandTimesOut
    <3>7. CASE Judge(j)
      <4>1. PICK o \in {"partial", "succeeded"}, c \in BOOLEAN : End(j, o, c)
        BY <3>7 DEF Judge
      <4> QED BY <3>7, <4>1 DEF Judge, End
    <3> QED BY <2>1, <3>1, <3>2, <3>3, <3>4, <3>5, <3>6, <3>7 DEF JobStep, JobFault
  <2>2. CASE UNCHANGED jobs
    BY <2>2 DEF jobs
  <2> QED BY <2>1, <2>2 DEF RefreshNext, all
<1> QED BY <1>1, <1>2, CycleInv, PTL DEF RefreshSpec

-----------------------------------------------------------------------------
(* A process publishes a source at most once.                              *)

Looping == {"intent", "collection", "step", "running", "validate"}

\* The first step of the profile that may still publish something.
Position(r) == Len(results[r]) + (IF pc[r] = "validate" THEN 2 ELSE 1)

\* Has run r yet to come to the step that publishes s?
MayYet(r, s) ==
  \/ pc[r] = "idle"
  \/ pc[r] \in Looping /\ \E i \in Position(r)..Len(Steps(r)) : Steps(r)[i] = s

LeftBehind(r, s) == [run |-> r, step |-> s] \in children

MayPublish(r, s) == MayYet(r, s) \/ LeftBehind(r, s)

\* A child that was left behind belongs to a step its run has passed.
ChildBehind == \A r \in Runs, s \in StepNames : LeftBehind(r, s) => ~MayYet(r, s)

\* Who has published a source does not publish it again.
PublishedOnce == \A s \in Sources, r \in Runs : facts[s] = r => ~MayPublish(r, s)

OnceInv == ChildBehind /\ PublishedOnce

\* No profile has a step twice.
LEMMA StepsDistinct ==
  ASSUME NEW profile \in DOMAIN ProfileSteps,
         NEW i \in 1..Len(ProfileSteps[profile]), NEW j \in 1..Len(ProfileSteps[profile]),
         ProfileSteps[profile][i] = ProfileSteps[profile][j]
  PROVE  i = j
<1>1. DOMAIN ProfileSteps =
        {"full", "daily", "tvl", "depth", "cex_depth", "dex_depth", "routes"}
  BY DEF ProfileSteps
<1>2. CASE profile = "full"      BY <1>2 DEF ProfileSteps
<1>3. CASE profile = "daily"     BY <1>3 DEF ProfileSteps
<1>4. CASE profile = "tvl"       BY <1>4 DEF ProfileSteps
<1>5. CASE profile = "depth"     BY <1>5 DEF ProfileSteps
<1>6. CASE profile = "cex_depth" BY <1>6 DEF ProfileSteps
<1>7. CASE profile = "dex_depth" BY <1>7 DEF ProfileSteps
<1>8. CASE profile = "routes"    BY <1>8 DEF ProfileSteps
<1> QED BY <1>1, <1>2, <1>3, <1>4, <1>5, <1>6, <1>7, <1>8

LEMMA NatPlus == \A n \in Nat : n + 1 \in Nat /\ n + 2 \in Nat
OBVIOUS

\* The counters of a run are numbers.
LEMMA RunCounters ==
  ASSUME TypeOK, NEW r \in Runs
  PROVE  /\ config[r].profile \in DOMAIN ProfileSteps
         /\ Len(results[r]) \in Nat
         /\ Len(Steps(r)) \in Nat
         /\ Position(r) \in Nat
<1>1. config[r].profile \in DOMAIN ProfileSteps
  BY DEF TypeOK, ConfigSet
<1>2. Len(results[r]) \in Nat
  BY DEF TypeOK
<1>3. Len(Steps(r)) \in Nat
  BY <1>1, StepsType, LenProperties DEF Steps
<1>4. Position(r) \in Nat
  BY <1>2, NatPlus DEF Position
<1> QED BY <1>1, <1>2, <1>3, <1>4

\* A step that leaves a run alone.
LEMMA SameYet ==
  ASSUME NEW r \in Runs, NEW s,
         pc'[r] = pc[r], config'[r] = config[r], results'[r] = results[r]
  PROVE  MayYet(r, s)' = MayYet(r, s)
BY DEF MayYet, Position, Steps

\* A run only advances in its profile.
LEMMA AdvanceYet ==
  ASSUME TypeOK, TypeOK', NEW r \in Runs, NEW s,
         config'[r] = config[r], pc[r] \in Looping, pc'[r] \in Looping,
         Position(r)' >= Position(r), MayYet(r, s)'
  PROVE  MayYet(r, s)
<1>1. Position(r) \in Nat /\ Position(r)' \in Nat
  <2>1. Len(results'[r]) \in Nat
    BY DEF TypeOK
  <2>2. Position(r)' \in Nat
    BY <2>1, NatPlus DEF Position
  <2> QED BY <2>2, RunCounters
<1>2. Len(Steps(r))' = Len(Steps(r)) /\ Len(Steps(r)) \in Nat
  BY RunCounters DEF Steps
<1>3. PICK i \in Position(r)'..Len(Steps(r))' : Steps(r)'[i] = s
  BY DEF MayYet, Looping
<1>4. i \in Position(r)..Len(Steps(r)) /\ Steps(r)[i] = s
  BY <1>1, <1>2, <1>3 DEF Steps
<1> QED BY <1>4 DEF MayYet

\* A running step is yet to publish; once the position is past it, it never publishes.
LEMMA StepPassed ==
  ASSUME IInv, TypeOK', NEW r \in Runs, pc[r] = "running", config'[r] = config[r],
         pc'[r] # "idle", NEW s, s = NextStep(r),
         pc'[r] \in Looping => Position(r)' > Position(r)
  PROVE  MayYet(r, s) /\ ~MayYet(r, s)'
<1> DEFINE n == Len(results[r]) + 1
<1>1. Position(r) = n /\ n \in Nat /\ n <= Len(Steps(r)) /\ Len(Steps(r)) \in Nat
  BY RunCounters DEF IInv, StepInv, Position
<1>2. s = Steps(r)[n]
  BY DEF NextStep
<1>3. MayYet(r, s)
  BY <1>1, <1>2 DEF MayYet, Looping
<1>4. ASSUME MayYet(r, s)' PROVE FALSE
  <2>1. PICK i \in Position(r)'..Len(Steps(r))' : Steps(r)'[i] = s
    BY <1>4 DEF MayYet
  <2>2. pc'[r] \in Looping
    BY <1>4 DEF MayYet
  <2>3. Position(r)' \in Nat /\ Position(r)' > n
    <3>1. Len(results'[r]) \in Nat
      BY DEF TypeOK
    <3>2. Position(r)' \in Nat
      BY <3>1, NatPlus DEF Position
    <3> QED BY <1>1, <2>2, <3>2
  <2>4. i \in 1..Len(Steps(r)) /\ n \in 1..Len(Steps(r)) /\ i # n /\ Steps(r)[i] = Steps(r)[n]
    BY <1>1, <1>2, <2>1, <2>3 DEF Steps
  <2> QED BY <2>4, StepsDistinct, RunCounters DEF IInv, Steps
<1> QED BY <1>3, <1>4

\* What one action of run r does to what the runs may yet publish.
YetShrinks == \A q \in Runs, s \in StepNames : MayYet(q, s)' => MayYet(q, s)

\* The step that was running has been passed.
StepIsOver(r) == \A s \in StepNames : s = NextStep(r) => MayYet(r, s) /\ ~MayYet(r, s)'

LEMMA OnlyOne ==
  ASSUME NEW r \in Runs,
         \A q \in Runs : q # r => /\ pc'[q] = pc[q] /\ config'[q] = config[q]
                                  /\ results'[q] = results[q],
         \A s \in StepNames : MayYet(r, s)' => MayYet(r, s)
  PROVE  YetShrinks
<1> SUFFICES ASSUME NEW q \in Runs, NEW s \in StepNames, MayYet(q, s)' PROVE MayYet(q, s)
  BY DEF YetShrinks
<1>1. CASE q = r
  BY <1>1
<1>2. CASE q # r
  BY <1>2, SameYet
<1> QED BY <1>1, <1>2

\* A run that leaves the step loop, or never entered it, publishes nothing any more.
LEMMA LeavesLoop ==
  ASSUME NEW r \in Runs, pc'[r] \notin Looping \cup {"idle"}
  PROVE  \A s \in StepNames : ~MayYet(r, s)'
BY DEF MayYet

\* Recording a result moves the position on.
LEMMA ResultMoves ==
  ASSUME IInv, NEW r \in Runs, NEW exit \in Exits, Len(results[r]) < Len(Steps(r)),
         Finished(r, exit), pc' = [pc EXCEPT ![r] = "step"]
  PROVE  /\ Position(r)' = Len(results[r]) + 2
         /\ pc'[r] = "step"
         /\ \A q \in Runs : q # r => pc'[q] = pc[q] /\ results'[q] = results[q]
<1>1. /\ Len(results'[r]) = Len(results[r]) + 1
      /\ \A q \in Runs : q # r => results'[q] = results[q]
  BY FinishedType DEF IInv
<1>2. pc'[r] = "step" /\ \A q \in Runs : q # r => pc'[q] = pc[q]
  BY DEF IInv, TypeOK
<1>3. Len(results[r]) \in Nat
  BY RunCounters DEF IInv
<1>4. Position(r)' = Len(results'[r]) + 1
  BY <1>2 DEF Position
<1>5. (Len(results[r]) + 1) + 1 = Len(results[r]) + 2
  BY <1>3
<1>6. Position(r)' = Len(results[r]) + 2
  BY <1>1, <1>4, <1>5
<1> QED BY <1>1, <1>2, <1>6

\* A step that records a result, from the loop, the child or the validation.
LEMMA RecordMoves ==
  ASSUME IInv, TypeOK', NEW r \in Runs, NEW exit \in Exits, Len(results[r]) < Len(Steps(r)),
         Finished(r, exit), pc' = [pc EXCEPT ![r] = "step"], UNCHANGED config,
         pc[r] \in {"step", "running", "validate"}
  PROVE  YetShrinks /\ (pc[r] = "running" => StepIsOver(r))
<1>1. /\ Position(r)' = Len(results[r]) + 2
      /\ pc'[r] = "step"
      /\ \A q \in Runs : q # r => pc'[q] = pc[q] /\ results'[q] = results[q]
  BY ResultMoves
<1>2. /\ Position(r) <= Len(results[r]) + 2
      /\ pc[r] = "running" => Position(r) < Len(results[r]) + 2
  <2>1. Len(results[r]) \in Nat
    BY RunCounters DEF IInv
  <2>2. CASE pc[r] = "validate"
    BY <2>1, <2>2 DEF Position
  <2>3. CASE pc[r] # "validate"
    <3>1. Position(r) = Len(results[r]) + 1
      BY <2>3 DEF Position
    <3> QED BY <2>1, <3>1
  <2> QED BY <2>2, <2>3
<1>3. TypeOK
  BY DEF IInv
<1>4. \A s \in StepNames : MayYet(r, s)' => MayYet(r, s)
  BY <1>1, <1>2, <1>3, AdvanceYet DEF Looping
<1>5. YetShrinks
  BY <1>1, <1>4, OnlyOne
<1>6. pc[r] = "running" => StepIsOver(r)
  BY <1>1, <1>2, StepPassed DEF StepIsOver
<1> QED BY <1>5, <1>6

LEMMA RunMoves ==
  ASSUME IInv, TypeOK', NEW r \in Runs, Begin(r) \/ RunStep(r) \/ Stop(r)
  PROVE  YetShrinks /\ (pc[r] = "running" => StepIsOver(r))
<1> USE DEF Goto
<1>0. TypeOK
  BY DEF IInv
<1>1. CASE Begin(r)
  <2>1. pc[r] = "idle" /\ \A q \in Runs : q # r => /\ pc'[q] = pc[q] /\ config'[q] = config[q]
                                                  /\ results'[q] = results[q]
    BY <1>0, <1>1 DEF Begin, TypeOK
  <2>2. \A s \in StepNames : MayYet(r, s)
    BY <2>1 DEF MayYet
  <2> QED BY <2>1, <2>2, OnlyOne
<1>2. CASE TakeIntent(r) \/ TakeCollection(r) \/ StartStep(r)
  <2>1. /\ pc[r] \in Looping /\ pc'[r] \in Looping
        /\ pc[r] # "running" /\ pc[r] # "validate" /\ pc'[r] # "validate"
        /\ UNCHANGED <<config, results>>
        /\ \A q \in Runs : q # r => pc'[q] = pc[q]
    BY <1>0, <1>2 DEF TakeIntent, TakeCollection, StartStep, Looping, TypeOK
  <2>2. Position(r)' = Position(r) /\ Position(r) \in Nat
    BY <1>0, <2>1, RunCounters DEF Position
  <2>3. \A s \in StepNames : MayYet(r, s)' => MayYet(r, s)
    BY <1>0, <2>1, <2>2, AdvanceYet
  <2> QED BY <2>1, <2>3, OnlyOne
<1>3. CASE ChildSucceeds(r)
  <2>1. /\ pc[r] = "running" /\ pc'[r] = "validate"
        /\ UNCHANGED <<config, results>>
        /\ \A q \in Runs : q # r => pc'[q] = pc[q]
    BY <1>0, <1>3 DEF ChildSucceeds, TypeOK
  <2>2. Position(r)' > Position(r) /\ Position(r) \in Nat /\ Position(r)' \in Nat
    BY <1>0, <2>1, RunCounters DEF Position
  <2>3. \A s \in StepNames : MayYet(r, s)' => MayYet(r, s)
    BY <1>0, <2>1, <2>2, AdvanceYet DEF Looping
  <2>4. StepIsOver(r)
    BY <2>1, <2>2, StepPassed DEF StepIsOver
  <2> QED BY <2>1, <2>3, <2>4, OnlyOne
<1>4. CASE SkipDexDepth(r)
  <2>1. Len(results[r]) < Len(Steps(r))
    <3>1. Len(results[r]) \in Nat /\ Len(Steps(r)) \in Nat
      BY <1>0, RunCounters
    <3> QED BY <1>4, <3>1 DEF SkipDexDepth, StepsDone, IInv, StepInv
  <2>2. pc' = [pc EXCEPT ![r] = "step"]
    BY <1>0, <1>4 DEF SkipDexDepth, TypeOK
  <2> QED BY <1>4, <2>1, <2>2, RecordMoves DEF SkipDexDepth, Exits
<1>5. CASE ChildFails(r) \/ RunnerStops(r) \/ Validate(r)
  <2>1. PICK exit \in Exits : Finished(r, exit)
    BY <1>5 DEF ChildFails, RunnerStops, Validate, Exits
  <2>2. /\ pc[r] \in {"running", "validate"}
        /\ pc' = [pc EXCEPT ![r] = "step"]
        /\ UNCHANGED config
    BY <1>5 DEF ChildFails, RunnerStops, Validate
  <2>3. Len(results[r]) < Len(Steps(r))
    BY <2>2 DEF IInv, StepInv
  <2> QED BY <2>1, <2>2, <2>3, RecordMoves
<1>6. CASE \/ IntentBusy(r) \/ CollectionBusy(r) \/ Conclude(r) \/ WriteManifest(r)
           \/ WriteLatest(r) \/ ReleaseCollection(r) \/ ReleaseIntent(r) \/ Stop(r)
  <2>1. /\ pc'[r] \notin Looping \cup {"idle"}
        /\ UNCHANGED <<config, results>>
        /\ \A q \in Runs : q # r => pc'[q] = pc[q]
    BY <1>0, <1>6
    DEF IntentBusy, CollectionBusy, Conclude, WriteManifest, WriteLatest, ReleaseCollection,
        ReleaseIntent, Stop, Looping, TypeOK
  <2>2. \A s \in StepNames : ~MayYet(r, s)'
    BY <2>1, LeavesLoop
  <2>3. pc[r] = "running" => StepIsOver(r)
    BY <2>1, StepPassed DEF StepIsOver
  <2> QED BY <2>1, <2>2, <2>3, OnlyOne
<1> QED BY <1>1, <1>2, <1>3, <1>4, <1>5, <1>6 DEF RunStep

-----------------------------------------------------------------------------
(* What a step publishes, and who may publish afterwards.                  *)

MayShrinks == \A r \in Runs, s \in StepNames : MayPublish(r, s)' => MayPublish(r, s)

\* A source gets a new publisher only from a run that spends its one chance.
NewPublisher ==
  \A s \in Sources :
    \/ facts'[s] = facts[s]
    \/ \E r \in Runs : facts'[s] = r /\ MayPublish(r, s) /\ ~MayPublish(r, s)'

\* The child of a run changes at most the source its step is named for.
LEMMA EffectOnFacts ==
  ASSUME NEW r \in Runs, NEW s \in StepNames, ChildEffect(r, s, config[r].publish)
  PROVE  facts' = facts \/ (s \in Sources /\ facts' = [facts EXCEPT ![s] = r])
BY DEF ChildEffect, Publish

\* The children a step of a run leaves behind, and the facts it publishes.
LEMMA RunEffects ==
  ASSUME IInv, NEW r \in Runs, Begin(r) \/ RunStep(r) \/ Stop(r)
  PROVE  \/ UNCHANGED <<facts, children>>
         \/ /\ pc[r] = "running"
            /\ UNCHANGED children
            /\ NextStep(r) \in Sources
            /\ facts' = [facts EXCEPT ![NextStep(r)] = r]
         \/ pc[r] = "running" /\ LeaveChild(r) /\ UNCHANGED facts
<1>1. ASSUME pc[r] = "running", UNCHANGED children,
             \/ ChildEffect(r, NextStep(r), config[r].publish)
             \/ UNCHANGED published
      PROVE  \/ UNCHANGED <<facts, children>>
             \/ NextStep(r) \in Sources /\ facts' = [facts EXCEPT ![NextStep(r)] = r]
  <2>1. NextStep(r) \in StepNames
    BY <1>1, StepInProfile DEF IInv, StepInv
  <2> QED BY <1>1, <2>1, EffectOnFacts DEF published
<1>2. CASE ChildSucceeds(r) \/ ChildFails(r)
  BY <1>1, <1>2 DEF ChildSucceeds, ChildFails
<1>3. CASE RunnerStops(r)
  BY <1>3 DEF RunnerStops, published
<1>4. CASE Stop(r)
  BY <1>1, <1>4 DEF Stop, published
<1>5. CASE \/ Begin(r) \/ TakeIntent(r) \/ IntentBusy(r) \/ TakeCollection(r) \/ CollectionBusy(r)
           \/ SkipDexDepth(r) \/ StartStep(r) \/ Validate(r)
  BY <1>5 DEF Begin, TakeIntent, IntentBusy, TakeCollection, CollectionBusy, SkipDexDepth,
     StartStep, Validate, published
<1>6. CASE \/ Conclude(r) \/ WriteManifest(r) \/ WriteLatest(r) \/ ReleaseCollection(r)
           \/ ReleaseIntent(r)
  BY <1>6 DEF Conclude, WriteManifest, WriteLatest, ReleaseCollection, ReleaseIntent, published
<1> QED BY <1>2, <1>3, <1>4, <1>5, <1>6 DEF RunStep

LEMMA RunPublishes ==
  ASSUME IInv, TypeOK', OnceInv, NEW r \in Runs, Begin(r) \/ RunStep(r) \/ Stop(r)
  PROVE  ChildBehind' /\ MayShrinks /\ NewPublisher
<1>1. YetShrinks /\ (pc[r] = "running" => StepIsOver(r))
  BY RunMoves
<1>2. Sources \subseteq StepNames
  BY DEF Sources
<1>3. ASSUME UNCHANGED children
      PROVE  ChildBehind' /\ MayShrinks
  <2>1. \A q \in Runs, s \in StepNames : LeftBehind(q, s)' = LeftBehind(q, s)
    BY <1>3 DEF LeftBehind
  <2> QED BY <1>1, <2>1 DEF OnceInv, ChildBehind, MayShrinks, MayPublish, YetShrinks
<1>4. CASE UNCHANGED <<facts, children>>
  BY <1>3, <1>4 DEF NewPublisher
<1>5. CASE /\ pc[r] = "running"
           /\ UNCHANGED children
           /\ NextStep(r) \in Sources
           /\ facts' = [facts EXCEPT ![NextStep(r)] = r]
  <2>1. PICK n \in StepNames : n = NextStep(r) /\ n \in Sources
    BY <1>2, <1>5
  <2>2. MayYet(r, n) /\ ~MayYet(r, n)'
    BY <1>1, <1>5, <2>1 DEF StepIsOver
  <2>3. ~LeftBehind(r, n)
    BY <2>1, <2>2 DEF OnceInv, ChildBehind
  <2>4. LeftBehind(r, n)' = LeftBehind(r, n)
    BY <1>5 DEF LeftBehind
  <2>5. MayPublish(r, n) /\ ~MayPublish(r, n)'
    BY <2>2, <2>3, <2>4 DEF MayPublish
  <2>6. ASSUME NEW s \in Sources
        PROVE  facts'[s] = facts[s] \/ (s = n /\ facts'[s] = r)
    BY <1>5, <2>1 DEF IInv, TypeOK
  <2>7. NewPublisher
    BY <2>1, <2>5, <2>6 DEF NewPublisher
  <2> QED BY <1>3, <1>5, <2>7
<1>6. CASE pc[r] = "running" /\ LeaveChild(r) /\ UNCHANGED facts
  <2>1. PICK n \in StepNames : n = NextStep(r)
    BY <1>6, StepInProfile DEF IInv, StepInv
  <2>2. MayYet(r, n) /\ ~MayYet(r, n)'
    BY <1>1, <1>6, <2>1 DEF StepIsOver
  <2>3. \A q \in Runs, s \in StepNames :
          LeftBehind(q, s)' <=> LeftBehind(q, s) \/ (q = r /\ s = n)
    BY <1>6, <2>1 DEF LeftBehind, LeaveChild
  <2>4. ChildBehind'
    BY <1>1, <2>2, <2>3 DEF OnceInv, ChildBehind, YetShrinks
  <2>5. MayShrinks
    BY <1>1, <2>2, <2>3 DEF MayShrinks, MayPublish, YetShrinks
  <2>6. NewPublisher
    BY <1>6 DEF NewPublisher
  <2> QED BY <2>4, <2>5, <2>6
<1> QED BY <1>4, <1>5, <1>6, RunEffects

LEMMA ChildPublishes ==
  ASSUME IInv, OnceInv, AbandonedChildEnds
  PROVE  ChildBehind' /\ MayShrinks /\ NewPublisher
<1>1. PICK c \in children :
         /\ children' = children \ {c}
         /\ \/ ChildEffect(c.run, c.step, config[c.run].publish)
            \/ UNCHANGED published
  BY DEF AbandonedChildEnds
<1> DEFINE r == c.run
           n == c.step
<1>2. r \in Runs /\ n \in StepNames /\ c = [run |-> r, step |-> n]
  BY DEF IInv, TypeOK
<1>3. \A q \in Runs, s \in StepNames : MayYet(q, s)' = MayYet(q, s)
  BY SameYet DEF AbandonedChildEnds
<1>4. \A q \in Runs, s \in StepNames : LeftBehind(q, s)' => LeftBehind(q, s)
  BY <1>1 DEF LeftBehind
<1>5. ChildBehind' /\ MayShrinks
  BY <1>3, <1>4 DEF OnceInv, ChildBehind, MayShrinks, MayPublish
<1>6. LeftBehind(r, n) /\ ~LeftBehind(r, n)'
  BY <1>1, <1>2 DEF LeftBehind
<1>7. MayPublish(r, n) /\ ~MayPublish(r, n)'
  BY <1>2, <1>3, <1>6 DEF OnceInv, ChildBehind, MayPublish
<1>8. facts' = facts \/ (n \in Sources /\ facts' = [facts EXCEPT ![n] = r])
  BY <1>1, <1>2, EffectOnFacts DEF published
<1>9. ASSUME NEW s \in Sources
      PROVE  facts'[s] = facts[s] \/ (s = n /\ facts'[s] = r)
  BY <1>8 DEF IInv, TypeOK
<1>10. NewPublisher
  BY <1>2, <1>7, <1>9 DEF NewPublisher
<1> QED BY <1>5, <1>10

LEMMA BesidePublishes ==
  ASSUME OnceInv, Beside
  PROVE  ChildBehind' /\ MayShrinks /\ NewPublisher
<1>1. UNCHANGED <<pc, config, results, children, facts>>
  BY DEF Beside, OtherTakes, OtherReleases, SourceAges, vars, published
<1>2. \A q \in Runs, s \in StepNames : MayYet(q, s)' = MayYet(q, s)
  BY <1>1, SameYet
<1>3. \A q \in Runs, s \in StepNames : LeftBehind(q, s)' = LeftBehind(q, s)
  BY <1>1 DEF LeftBehind
<1> QED BY <1>1, <1>2, <1>3 DEF OnceInv, ChildBehind, MayShrinks, MayPublish, NewPublisher

LEMMA OnceNext ==
  ASSUME IInv, TypeOK', OnceInv, CycleStep
  PROVE  OnceInv' /\ MayShrinks /\ NewPublisher
<1>1. ChildBehind' /\ MayShrinks /\ NewPublisher
  BY RunPublishes, ChildPublishes, BesidePublishes DEF CycleStep
<1>2. Sources \subseteq StepNames
  BY DEF Sources
<1>3. PublishedOnce'
  <2> SUFFICES ASSUME NEW s \in Sources, NEW r \in Runs, facts'[s] = r PROVE ~MayPublish(r, s)'
    BY DEF PublishedOnce
  <2>1. CASE facts'[s] = facts[s]
    BY <1>1, <1>2, <2>1 DEF OnceInv, PublishedOnce, MayShrinks
  <2>2. CASE facts'[s] # facts[s]
    BY <1>1, <2>2 DEF NewPublisher
  <2> QED BY <2>1, <2>2
<1> QED BY <1>1, <1>3 DEF OnceInv

-----------------------------------------------------------------------------
(* What becomes of the command of a job.  The job owns collection.lock for *)
(* as long as its command exists, so the command is refused.               *)

HasLock == {"ready", "command", "after", "exit"}

CommandRefused(j) ==
  /\ stage[j] \in HasLock => collection = j
  /\ stage[j] \in {"none", "queued", "ready"} => pc[Command[j]] = "idle"
  /\ pc[Command[j]] \in {"idle", "collection", "end", "stopped"}
  /\ pc[Command[j]] = "collection" =>
       stage[j] = "command" /\ config[Command[j]].profile = Profile[j]
  /\ results[Command[j]] = <<>>
  /\ pc[Command[j]] = "end" => status[Command[j]] = "skipped_locked"

NothingOfCommands ==
  /\ \A c \in children : c.run \notin Commands
  /\ \A s \in Sources : facts[s] \notin Commands

CommandInv == (\A j \in Jobs : CommandRefused(j)) /\ NothingOfCommands

LEMMA JobNames ==
  /\ \A j \in Jobs : Command[j] \in Runs /\ Command[j] \in Commands
  /\ \A j \in Jobs : j \in Others /\ j \notin Runs /\ j # NoOne
  /\ \A i, j \in Jobs : Command[i] = Command[j] => i = j
  /\ \A r \in Commands : \E j \in Jobs : r = Command[j]
  /\ Commands \subseteq Runs
  /\ NoOne \notin Runs
BY ConstantsOK, RefreshOK DEF ConstantsOK, RefreshOK, Commands, Holders

\* A step leaves a job and its command alone, and with them the lock the job owns.
Untouched(j) ==
  /\ stage'[j] = stage[j]
  /\ pc'[Command[j]] = pc[Command[j]]
  /\ config'[Command[j]] = config[Command[j]]
  /\ results'[Command[j]] = results[Command[j]]
  /\ status'[Command[j]] = status[Command[j]]
  /\ collection = j => collection' = j

LEMMA StillRefused ==
  ASSUME NEW j \in Jobs, CommandRefused(j), Untouched(j)
  PROVE  CommandRefused(j)'
BY DEF CommandRefused, Untouched, HasLock

\* What a run does to the variables of another run, and to the lock of another owner.
LEMMA RunTouchesItself ==
  ASSUME IInv, NEW r \in Runs, Begin(r) \/ RunStep(r) \/ Stop(r)
  PROVE  /\ \A q \in Runs : q # r => /\ pc'[q] = pc[q] /\ config'[q] = config[q]
                                     /\ results'[q] = results[q] /\ status'[q] = status[q]
         /\ collection \notin Runs \cup {NoOne} => collection' = collection
<1> USE DEF IInv, TypeOK, Goto, Finished, locks
<1>1. CASE Begin(r) \/ TakeIntent(r) \/ IntentBusy(r) \/ TakeCollection(r) \/ CollectionBusy(r)
  BY <1>1 DEF Begin, TakeIntent, IntentBusy, TakeCollection, CollectionBusy
<1>2. CASE SkipDexDepth(r) \/ StartStep(r) \/ ChildSucceeds(r) \/ ChildFails(r)
           \/ RunnerStops(r) \/ Validate(r)
  BY <1>2 DEF SkipDexDepth, StartStep, ChildSucceeds, ChildFails, RunnerStops, Validate
<1>3. CASE Conclude(r) \/ WriteManifest(r) \/ WriteLatest(r) \/ ReleaseIntent(r)
  BY <1>3 DEF Conclude, WriteManifest, WriteLatest, ReleaseIntent
<1>4. CASE ReleaseCollection(r)
  <2>1. collection = r
    BY <1>4 DEF ReleaseCollection, LockInv, Owning
  <2> QED BY <1>4, <2>1 DEF ReleaseCollection
<1>5. CASE Stop(r)
  BY <1>5 DEF Stop
<1> QED BY <1>1, <1>2, <1>3, <1>4, <1>5 DEF RunStep

LEMMA EndType ==
  ASSUME NEW k \in Jobs, NothingToRefresh(k) \/ UnexpectedFailure(k) \/ Judge(k)
  PROVE  /\ UNCHANGED <<vars, before, failed>>
         /\ stage[k] \in {"ready", "after"}
         /\ \E o \in Outcomes, c \in BOOLEAN : End(k, o, c)
BY DEF NothingToRefresh, UnexpectedFailure, Judge, Outcomes

LEMMA OtherJobMoves ==
  ASSUME IInv, RefreshTypeOK, NEW j \in Jobs, NEW k \in Jobs, k # j,
         CreateJob(k) \/ JobStep(k) \/ JobFault(k)
  PROVE  Untouched(j)
<1> USE DEF Untouched, Advance, RefreshTypeOK
<1>1. CASE \/ CreateJob(k) \/ JobFindsLockBusy(k) \/ CommandExits(k)
           \/ WorkerDoesNotStart(k) \/ JobLosesWorker(k) \/ CommandDoesNotStart(k)
  BY <1>1 DEF CreateJob, JobFindsLockBusy, CommandExits, WorkerDoesNotStart, JobLosesWorker,
     CommandDoesNotStart, vars, locks
<1>2. CASE NothingToRefresh(k) \/ UnexpectedFailure(k) \/ Judge(k)
  <2>1. UNCHANGED vars /\ \E o \in Outcomes, c \in BOOLEAN : End(k, o, c)
    BY <1>2, EndType
  <2> QED BY <2>1 DEF End, vars, locks
<1>3. CASE JobTakesLock(k) \/ JobReleasesLock(k)
  BY <1>3, JobNames DEF JobTakesLock, JobReleasesLock, OtherTakes, OtherReleases
<1>4. CASE StartCommand(k) \/ CommandTimesOut(k)
  <2>1. Command[k] \in Runs /\ Command[j] \in Runs /\ Command[k] # Command[j]
    BY JobNames
  <2>2. j \notin Runs \cup {NoOne}
    BY JobNames
  <2>3. (Begin(Command[k]) \/ Stop(Command[k])) /\ stage'[j] = stage[j]
    BY <1>4 DEF StartCommand, CommandTimesOut
  <2> QED BY <2>1, <2>2, <2>3, RunTouchesItself
<1> QED BY <1>1, <1>2, <1>3, <1>4 DEF JobStep, JobFault

LEMMA OwnJobMoves ==
  ASSUME IInv, RefreshTypeOK, NEW j \in Jobs, CommandRefused(j),
         CreateJob(j) \/ JobStep(j) \/ JobFault(j)
  PROVE  CommandRefused(j)'
<1> USE JobNames DEF CommandRefused, HasLock, Advance, RefreshTypeOK
<1>1. CASE CreateJob(j) \/ JobFindsLockBusy(j) \/ CommandExits(j)
  BY <1>1 DEF CreateJob, JobFindsLockBusy, CommandExits, vars, locks
<1>6. CASE WorkerDoesNotStart(j) \/ JobLosesWorker(j) \/ CommandDoesNotStart(j)
  BY <1>6 DEF WorkerDoesNotStart, JobLosesWorker, CommandDoesNotStart, vars, locks
<1>2. CASE NothingToRefresh(j) \/ UnexpectedFailure(j) \/ Judge(j)
  <2>1. /\ stage[j] \in {"ready", "after"} /\ UNCHANGED vars
        /\ \E o \in Outcomes, c \in BOOLEAN : End(j, o, c)
    BY <1>2, EndType
  <2> QED BY <2>1 DEF End, vars, locks
<1>3. CASE JobTakesLock(j) \/ JobReleasesLock(j)
  BY <1>3 DEF JobTakesLock, JobReleasesLock, OtherTakes, OtherReleases
<1>4. CASE StartCommand(j)
  <2>1. Profile[j] \in {"tvl", "cex_depth", "dex_depth"}
    BY RefreshOK DEF RefreshOK
  <2>2. PICK c \in Configs : /\ config' = [config EXCEPT ![Command[j]] = c]
                             /\ Goto(Command[j], IF c.profile \in {"daily", "depth"}
                                                 THEN "intent" ELSE "collection")
                             /\ UNCHANGED <<locks, results, status>>
    BY <1>4 DEF StartCommand, Begin
  <2>3. c.profile = Profile[j] /\ config'[Command[j]].profile = Profile[j]
    BY <1>4, <2>2 DEF StartCommand, IInv, TypeOK
  <2>4. pc'[Command[j]] = "collection"
    BY <2>1, <2>2, <2>3 DEF Goto, IInv, TypeOK
  <2>5. stage[j] = "ready" /\ stage'[j] = "command"
    BY <1>4 DEF StartCommand
  <2> QED BY <2>2, <2>3, <2>4, <2>5 DEF locks
<1>5. CASE CommandTimesOut(j)
  <2>1. stage[j] = "command" /\ stage'[j] = "after" /\ Stop(Command[j])
    BY <1>5 DEF CommandTimesOut
  <2>2. pc'[Command[j]] = "stopped" /\ UNCHANGED <<config, results, status>> /\ collection' = j
    BY <2>1 DEF Stop, Goto, IInv, TypeOK
  <2> QED BY <2>1, <2>2
<1> QED BY <1>1, <1>2, <1>3, <1>4, <1>5, <1>6 DEF JobStep, JobFault

\* The command finds the lock owned by its own job.
LEMMA OwnCommandMoves ==
  ASSUME IInv, NEW j \in Jobs, CommandRefused(j), RunStep(Command[j]), UNCHANGED jobs
  PROVE  CommandRefused(j)'
<1> DEFINE r == Command[j]
<1>1. r \in Runs /\ j # NoOne
  BY JobNames
<1>2. CollectionBusy(r)
  <2>1. pc[r] \in {"idle", "collection", "end", "stopped"}
    BY DEF CommandRefused
  <2>2. TakeCollection(r) \/ CollectionBusy(r)
    BY <2>1 DEF RunStep, TakeIntent, IntentBusy, SkipDexDepth, StartStep, ChildSucceeds,
       ChildFails, RunnerStops, Validate, Conclude, WriteManifest, WriteLatest,
       ReleaseCollection, ReleaseIntent
  <2>3. ~TakeCollection(r)
    BY <1>1 DEF TakeCollection, CommandRefused, HasLock
  <2> QED BY <2>2, <2>3
<1>3. /\ pc[r] = "collection" /\ stage[j] = "command" /\ config[r].profile = Profile[j]
      /\ collection = j
  BY <1>2 DEF CollectionBusy, CommandRefused, HasLock
<1>4. ~Primary(r)
  BY <1>3, RefreshOK DEF Primary, RefreshOK
<1>5. /\ pc'[r] = "end" /\ status'[r] = "skipped_locked"
      /\ UNCHANGED <<collection, config, results>>
  BY <1>1, <1>2, <1>4 DEF CollectionBusy, Goto, IInv, TypeOK, locks
<1>6. stage'[j] = "command" /\ results'[r] = <<>>
  BY <1>3, <1>5 DEF jobs, CommandRefused
<1> QED BY <1>3, <1>5, <1>6 DEF CommandRefused, HasLock

LEMMA CommandsBegin == RefreshInit => CommandInv
BY JobNames DEF RefreshInit, Init, NoFacts, CommandInv, CommandRefused, NothingOfCommands,
   HasLock

LEMMA CommandNext ==
  ASSUME IInv, RefreshTypeOK, CommandInv, [RefreshNext]_all
  PROVE  CommandInv'
<1>1. ASSUME NEW j \in Jobs PROVE CommandRefused(j)'
  <2>1. CommandRefused(j)
    BY DEF CommandInv
  <2>2. ASSUME NEW k \in Jobs, CreateJob(k) \/ JobStep(k) \/ JobFault(k)
        PROVE  CommandRefused(j)'
    <3>1. CASE k = j
      BY <2>1, <2>2, <3>1, OwnJobMoves
    <3>2. CASE k # j
      BY <2>1, <2>2, <3>2, OtherJobMoves, StillRefused
    <3> QED BY <3>1, <3>2
  <2>3. ASSUME NEW r \in Runs, Begin(r) \/ RunStep(r) \/ Stop(r), UNCHANGED jobs, r # Command[j]
        PROVE  CommandRefused(j)'
    <3>1. Command[j] \in Runs /\ j \notin Runs \cup {NoOne}
      BY JobNames
    <3>2. Untouched(j)
      BY <2>3, <3>1, RunTouchesItself DEF Untouched, jobs
    <3> QED BY <2>1, <3>2, StillRefused
  <2>4. CASE \E r \in Runs \ Commands : (Begin(r) \/ Stop(r)) /\ UNCHANGED jobs
    BY <2>3, <2>4, JobNames
  <2>5. CASE \E r \in Runs : RunStep(r) /\ UNCHANGED jobs
    BY <2>1, <2>3, <2>5, OwnCommandMoves
  <2>6. CASE (AbandonedChildEnds \/ SourceAges) /\ UNCHANGED jobs
    <3>1. Untouched(j)
      BY <2>6 DEF AbandonedChildEnds, SourceAges, Untouched, jobs, locks
    <3> QED BY <2>1, <3>1, StillRefused
  <2>7. CASE UNCHANGED all
    <3>1. Untouched(j)
      BY <2>7 DEF Untouched, all, vars, jobs, locks
    <3> QED BY <2>1, <3>1, StillRefused
  <2> QED BY <2>2, <2>4, <2>5, <2>6, <2>7 DEF RefreshNext
<1>2. NothingOfCommands'
  <2> USE DEF NothingOfCommands
  <2>1. NothingOfCommands
    BY DEF CommandInv
  <2>2. ASSUME NEW r \in Runs, Begin(r) \/ RunStep(r) \/ Stop(r)
        PROVE  NothingOfCommands'
    <3>1. CASE UNCHANGED <<facts, children>>
      BY <2>1, <3>1
    <3>2. CASE pc[r] = "running"
      <4>1. r \notin Commands
        BY <3>2, JobNames DEF CommandInv, CommandRefused
      <4>2. CASE /\ UNCHANGED children
                 /\ NextStep(r) \in Sources
                 /\ facts' = [facts EXCEPT ![NextStep(r)] = r]
        BY <2>1, <4>1, <4>2 DEF IInv, TypeOK
      <4>3. CASE LeaveChild(r) /\ UNCHANGED facts
        <5>1. \A c \in children' : c \in children \/ c.run = r
          BY <4>3 DEF LeaveChild
        <5> QED BY <2>1, <4>1, <4>3, <5>1
      <4> QED BY <2>2, <3>2, <4>2, <4>3, <2>1, RunEffects
    <3> QED BY <2>2, <3>1, <3>2, RunEffects
  <2>3. CASE AbandonedChildEnds
    <3>1. PICK c \in children :
             /\ children' = children \ {c}
             /\ \/ ChildEffect(c.run, c.step, config[c.run].publish)
                \/ UNCHANGED published
      BY <2>3 DEF AbandonedChildEnds
    <3>2. c.run \in Runs /\ c.step \in StepNames /\ c.run \notin Commands
      BY <2>1 DEF IInv, TypeOK
    <3>3. facts' = facts \/ (c.step \in Sources /\ facts' = [facts EXCEPT ![c.step] = c.run])
      BY <3>1, <3>2, EffectOnFacts DEF published
    <3>4. \A s \in Sources : facts'[s] = facts[s] \/ facts'[s] = c.run
      BY <3>3 DEF IInv, TypeOK
    <3> QED BY <2>1, <3>1, <3>2, <3>4
  <2>4. CASE Beside
    BY <2>1, <2>4 DEF Beside, OtherTakes, OtherReleases, SourceAges, vars, published
  <2> QED BY <2>2, <2>3, <2>4, StepIsCycleStep DEF CycleStep
<1> QED BY <1>1, <1>2 DEF CommandInv

\* A job's command that has ended was refused the lock its own job owned: it has run no
\* step of its profile and published nothing (the opposite of CommandReachesCollector,
\* for every number of jobs, runs and argument vectors).
CommandsAreRefused ==
  \A j \in Jobs :
    /\ results[Command[j]] = <<>>
    /\ pc[Command[j]] = "end" => status[Command[j]] = "skipped_locked"
    /\ \A s \in Sources : facts[s] # Command[j]

\* For every number of jobs, runs and argument vectors a refresh command ends without
\* having run a step or published a source: the job that waits for it owns
\* collection.lock (AdminService._run_snapshot_refresh_job, _run_job).
THEOREM CommandsRunNothing == RefreshSpec => []CommandsAreRefused
<1>1. RefreshInit => CommandInv
  BY CommandsBegin
<1>2. IInv /\ RefreshTypeOK /\ CommandInv /\ [RefreshNext]_all => CommandInv'
  BY CommandNext
<1>3. CommandInv => CommandsAreRefused
  BY JobNames DEF CommandInv, CommandRefused, NothingOfCommands, CommandsAreRefused
<1> QED BY <1>1, <1>2, <1>3, CycleInv, RefreshTypeCorrect, PTL DEF RefreshSpec

-----------------------------------------------------------------------------
(* Success means a new publication.                                        *)

\* Whoever had published the target before the command will not do so again.
OldStaysOld ==
  \A j \in Jobs, r \in Runs, s \in Sources :
    before[j] = r /\ Target(j) = s => ~MayPublish(r, s)

NewsInv == OldStaysOld /\ SuccessMeansNewPublication

\* What a step of the system may do to what a job has read and to its outcome.
JobKept(j) ==
  /\ outcome'[j] = outcome[j] /\ committed'[j] = committed[j]
  /\ before'[j] = before[j] /\ stage'[j] = stage[j]

\* A step of one job leaves the variables of the others alone.
LEMMA OtherJobsKept ==
  ASSUME RefreshTypeOK, NEW j \in Jobs, NEW k \in Jobs, k # j,
         CreateJob(k) \/ JobStep(k) \/ JobFault(k)
  PROVE  JobKept(j)
<1> USE DEF Advance, RefreshTypeOK, JobKept
<1>1. CASE \/ CreateJob(k) \/ JobTakesLock(k) \/ JobFindsLockBusy(k) \/ JobReleasesLock(k)
           \/ StartCommand(k) \/ CommandExits(k)
  BY <1>1 DEF CreateJob, JobTakesLock, JobFindsLockBusy, JobReleasesLock, StartCommand,
     CommandExits
<1>2. CASE \/ CommandTimesOut(k) \/ WorkerDoesNotStart(k) \/ JobLosesWorker(k)
           \/ CommandDoesNotStart(k)
  BY <1>2 DEF CommandTimesOut, WorkerDoesNotStart, JobLosesWorker, CommandDoesNotStart
<1>3. CASE NothingToRefresh(k) \/ UnexpectedFailure(k) \/ Judge(k)
  BY <1>3, EndType DEF End
<1> QED BY <1>1, <1>2, <1>3 DEF JobStep, JobFault

\* How a job comes to its end.
LEMMA WaysToEnd ==
  ASSUME RefreshTypeOK, [RefreshNext]_all, NEW j \in Jobs, stage'[j] = "exit"
  PROVE  JobKept(j) \/ NothingToRefresh(j) \/ UnexpectedFailure(j) \/ Judge(j)
<1>1. CASE UNCHANGED jobs
  BY <1>1 DEF jobs, JobKept
<1>2. ASSUME NEW k \in Jobs, CreateJob(k) \/ JobStep(k) \/ JobFault(k)
      PROVE  JobKept(j) \/ NothingToRefresh(j) \/ UnexpectedFailure(j) \/ Judge(j)
  <2>1. CASE k # j
    BY <1>2, <2>1, OtherJobsKept
  <2>2. CASE \/ CreateJob(j) \/ JobTakesLock(j) \/ JobFindsLockBusy(j) \/ JobReleasesLock(j)
             \/ StartCommand(j) \/ CommandExits(j) \/ CommandTimesOut(j)
             \/ WorkerDoesNotStart(j) \/ JobLosesWorker(j) \/ CommandDoesNotStart(j)
    BY <2>2 DEF CreateJob, JobTakesLock, JobFindsLockBusy, JobReleasesLock, StartCommand,
       CommandExits, CommandTimesOut, WorkerDoesNotStart, JobLosesWorker,
       CommandDoesNotStart, Advance, RefreshTypeOK
  <2> QED BY <1>2, <2>1, <2>2 DEF JobStep, JobFault
<1> QED BY <1>1, <1>2 DEF RefreshNext, all

\* A command that has not been started when its job ends is never started.
LEMMA IdleStays ==
  ASSUME IInv, RefreshTypeOK, [RefreshNext]_all, NEW j \in Jobs, pc[Command[j]] = "idle",
         stage[j] # "ready"
  PROVE  pc'[Command[j]] = "idle"
<1>0. Command[j] \in Runs /\ Command[j] \in Commands
  BY RefreshOK DEF RefreshOK, Commands
<1>1. ASSUME NEW r \in Runs, RunStep(r) PROVE pc'[Command[j]] = "idle"
  <2>1. r # Command[j]
    BY <1>1, <1>0 DEF RunStep, TakeIntent, IntentBusy, TakeCollection, CollectionBusy,
       SkipDexDepth, StartStep, ChildSucceeds, ChildFails, RunnerStops, Validate, Conclude,
       WriteManifest, WriteLatest, ReleaseCollection, ReleaseIntent
  <2> QED BY <1>0, <1>1, <2>1, RunTouchesItself
<1>2. ASSUME NEW r \in Runs \ Commands, Begin(r) \/ Stop(r) PROVE pc'[Command[j]] = "idle"
  BY <1>0, <1>2, RunTouchesItself
<1>3. ASSUME NEW k \in Jobs, CreateJob(k) \/ JobStep(k) \/ JobFault(k)
      PROVE  pc'[Command[j]] = "idle"
  <2>0. Command[k] \in Runs /\ (Command[k] = Command[j] => k = j)
    BY RefreshOK DEF RefreshOK
  <2>1. CASE StartCommand(k)
    <3>1. k # j /\ Begin(Command[k])
      BY <2>1 DEF StartCommand
    <3> QED BY <1>0, <2>0, <3>1, RunTouchesItself
  <2>2. CASE CommandTimesOut(k)
    <3>1. Stop(Command[k]) /\ pc[Command[k]] # "idle"
      BY <2>2 DEF CommandTimesOut, Stop
    <3> QED BY <1>0, <2>0, <3>1, RunTouchesItself
  <2>3. CASE JobTakesLock(k) \/ JobReleasesLock(k)
    BY <2>3 DEF JobTakesLock, JobReleasesLock, OtherTakes, OtherReleases
  <2>4. CASE \/ CreateJob(k) \/ JobFindsLockBusy(k) \/ CommandExits(k)
             \/ WorkerDoesNotStart(k) \/ JobLosesWorker(k) \/ CommandDoesNotStart(k)
    BY <2>4 DEF CreateJob, JobFindsLockBusy, CommandExits, WorkerDoesNotStart,
       JobLosesWorker, CommandDoesNotStart, vars
  <2>5. CASE NothingToRefresh(k) \/ UnexpectedFailure(k) \/ Judge(k)
    BY <2>5, EndType DEF vars
  <2> QED BY <1>3, <2>1, <2>2, <2>3, <2>4, <2>5 DEF JobStep, JobFault
<1>4. CASE AbandonedChildEnds \/ SourceAges \/ UNCHANGED all
  BY <1>4 DEF AbandonedChildEnds, SourceAges, all, vars
<1> QED BY <1>1, <1>2, <1>3, <1>4 DEF RefreshNext

LEMMA NewsNext ==
  ASSUME IInv, RefreshTypeOK, OnceInv, NewsInv, CommandInv, MayShrinks, NewPublisher,
         [RefreshNext]_all
  PROVE  NewsInv'
<1>0. Sources \subseteq StepNames
  BY DEF Sources
<1>1. OldStaysOld'
  <2> SUFFICES ASSUME NEW j \in Jobs, NEW r \in Runs, NEW s \in Sources,
                      before'[j] = r, Target(j) = s
               PROVE  ~MayPublish(r, s)'
    BY DEF OldStaysOld, Target
  <2>0. NoOne \notin Runs
    BY ConstantsOK DEF ConstantsOK, Holders
  <2>1. before'[j] = before[j] \/ before'[j] = facts[Target(j)]
    <3>1. CASE UNCHANGED before
      BY <3>1
    <3>2. CASE \E k \in Jobs : StartCommand(k) \/ CommandDoesNotStart(k)
      BY <3>2 DEF StartCommand, CommandDoesNotStart, RefreshTypeOK
    <3>3. CASE \E k \in Jobs : JobReleasesLock(k)
      BY <2>0, <3>3 DEF JobReleasesLock, RefreshTypeOK
    <3> QED
      BY <3>1, <3>2, <3>3
      DEF RefreshNext, JobStep, JobFault, CreateJob, JobTakesLock, JobFindsLockBusy,
          NothingToRefresh, CommandExits, CommandTimesOut, WorkerDoesNotStart,
          JobLosesWorker, UnexpectedFailure, Judge, jobs, all
  <2>2. ~MayPublish(r, s)
    BY <2>1 DEF NewsInv, OldStaysOld, OnceInv, PublishedOnce
  <2> QED BY <1>0, <2>2 DEF MayShrinks
<1>2. ASSUME NEW j \in Jobs, stage'[j] = "exit"
      PROVE  /\ committed'[j] => facts'[Target(j)] # before'[j]
             /\ outcome'[j] = "succeeded" => committed'[j] \/ pc'[Command[j]] = "idle"
  <2>1. CASE JobKept(j)
    <3>0. stage[j] = "exit"
      BY <1>2, <2>1 DEF JobKept
    <3>1. ASSUME committed'[j] PROVE facts'[Target(j)] # before'[j]
      <4>1. facts[Target(j)] # before[j] /\ Target(j) \in Sources
        BY <2>1, <3>0, <3>1, TargetIsSource DEF NewsInv, SuccessMeansNewPublication, JobKept
      <4>2. CASE facts'[Target(j)] = facts[Target(j)]
        BY <2>1, <4>1, <4>2 DEF JobKept
      <4>3. CASE \E r \in Runs : facts'[Target(j)] = r /\ MayPublish(r, Target(j))
        BY <2>1, <4>1, <4>3 DEF NewsInv, OldStaysOld, JobKept
      <4> QED BY <4>1, <4>2, <4>3 DEF NewPublisher
    <3>2. ASSUME outcome'[j] = "succeeded", ~committed'[j] PROVE pc'[Command[j]] = "idle"
      <4>1. pc[Command[j]] = "idle"
        BY <2>1, <3>0, <3>2 DEF NewsInv, SuccessMeansNewPublication, JobKept
      <4> QED BY <3>0, <4>1, IdleStays
    <3> QED BY <3>1, <3>2
  <2>2. CASE Judge(j)
    BY <2>2 DEF Judge, End, RefreshTypeOK, vars, published
  <2>3. CASE NothingToRefresh(j)
    <3>1. committed'[j] = FALSE
      BY <2>3 DEF NothingToRefresh, End, RefreshTypeOK
    <3>2. pc'[Command[j]] = "idle"
      BY <2>3 DEF NothingToRefresh, CommandInv, CommandRefused, vars
    <3> QED BY <3>1, <3>2
  <2>4. CASE UnexpectedFailure(j)
    <3>1. committed'[j] = FALSE /\ outcome'[j] = "failed"
      BY <2>4 DEF UnexpectedFailure, End, RefreshTypeOK
    <3> QED BY <3>1
  <2> QED BY <1>2, <2>1, <2>2, <2>3, <2>4, WaysToEnd
<1>3. SuccessMeansNewPublication'
  BY <1>2 DEF SuccessMeansNewPublication, Target
<1> QED BY <1>1, <1>3 DEF NewsInv

\* A job that reports a committed publication has a target published by another process
\* than before its command, and one that reports success has committed such a
\* publication or found its target resolved and started no command; for any number of
\* jobs and runs, also when step children outlive their runners.
THEOREM SuccessIsNew == RefreshSpec => []SuccessMeansNewPublication
<1>1. RefreshInit => OnceInv /\ NewsInv /\ CommandInv
  <2> SUFFICES ASSUME RefreshInit PROVE OnceInv /\ NewsInv /\ CommandInv
    OBVIOUS
  <2>1. NoOne \notin Runs
    BY ConstantsOK DEF ConstantsOK, Holders
  <2>2. OnceInv
    BY <2>1 DEF RefreshInit, Init, NoFacts, OnceInv, ChildBehind, PublishedOnce, LeftBehind
  <2>3. NewsInv
    BY <2>1 DEF RefreshInit, NewsInv, OldStaysOld, SuccessMeansNewPublication
  <2>4. CommandInv
    BY CommandsBegin
  <2> QED BY <2>2, <2>3, <2>4
<1>2. /\ IInv /\ IInv' /\ RefreshTypeOK /\ OnceInv /\ NewsInv /\ CommandInv /\ [RefreshNext]_all
      => OnceInv' /\ NewsInv' /\ CommandInv'
  BY StepIsCycleStep, OnceNext, NewsNext, CommandNext DEF IInv
<1>3. NewsInv => SuccessMeansNewPublication
  BY DEF NewsInv
<1> QED BY <1>1, <1>2, <1>3, CycleInv, RefreshTypeCorrect, PTL DEF RefreshSpec

-----------------------------------------------------------------------------
(* Without children that outlive their runners no job has anything to      *)
(* commit.                                                                 *)

\* No refresh job reports a committed publication, and the only success is that of a
\* job that found its target resolved and started no command.
NoJobCommits ==
  \A j \in Jobs :
    /\ ~committed[j]
    /\ outcome[j] = "succeeded" => stage[j] \in {"exit", "done"} /\ pc[Command[j]] = "idle"

\* What a job compares is the same publication twice.
NoNews == \A j \in Jobs : stage[j] \in {"command", "after"} => facts[Target(j)] = before[j]

LEMMA HeldFactsStay ==
  ASSUME ChildOutlives = FALSE, IInv, NoOrphans, CycleStep, NEW j \in Jobs, collection = j
  PROVE  facts' = facts
<1>1. ASSUME NEW r \in Runs, Begin(r) \/ RunStep(r) \/ Stop(r) PROVE facts' = facts
  <2>1. pc[r] # "running"
    BY JobNames DEF IInv, LockInv, Owning
  <2> QED BY <1>1, <2>1, RunEffects
<1>2. ~AbandonedChildEnds
  BY DEF AbandonedChildEnds, NoOrphans
<1>3. CASE Beside
  BY <1>3 DEF Beside, OtherTakes, OtherReleases, SourceAges, vars, published
<1> QED BY <1>1, <1>2, <1>3 DEF CycleStep

LEMMA NoNewsNext ==
  ASSUME ChildOutlives = FALSE, IInv, NoOrphans, RefreshTypeOK, CommandInv, NoNews,
         NoJobCommits, [RefreshNext]_all
  PROVE  NoNews' /\ NoJobCommits'
<1> SUFFICES ASSUME NEW j \in Jobs
             PROVE  /\ stage'[j] \in {"command", "after"} => facts'[Target(j)] = before'[j]
                    /\ ~committed'[j]
                    /\ outcome'[j] = "succeeded" =>
                         stage'[j] \in {"exit", "done"} /\ pc'[Command[j]] = "idle"
  BY DEF NoNews, NoJobCommits, Target
<1>1. stage[j] \in HasLock => facts' = facts
  BY StepIsCycleStep, HeldFactsStay DEF CommandInv, CommandRefused
<1>2. /\ stage[j] \in {"command", "after"} => facts[Target(j)] = before[j]
      /\ ~committed[j]
      /\ outcome[j] = "succeeded" => stage[j] \in {"exit", "done"} /\ pc[Command[j]] = "idle"
  BY DEF NoNews, NoJobCommits
<1>7. outcome[j] = "succeeded" => pc'[Command[j]] = "idle"
  BY <1>2, IdleStays
<1>3. CASE JobKept(j)
  BY <1>1, <1>2, <1>3, <1>7 DEF HasLock, JobKept
<1>4. CASE CreateJob(j) \/ JobStep(j) \/ JobFault(j)
  <2> USE DEF Advance, RefreshTypeOK, HasLock
  <2>1. CASE CreateJob(j) \/ JobTakesLock(j) \/ JobReleasesLock(j)
    BY <1>2, <1>7, <2>1 DEF CreateJob, JobTakesLock, JobReleasesLock
  <2>2. CASE JobFindsLockBusy(j) \/ WorkerDoesNotStart(j) \/ JobLosesWorker(j)
    BY <1>2, <1>7, <2>2 DEF JobFindsLockBusy, WorkerDoesNotStart, JobLosesWorker
  <2>3. CASE StartCommand(j) \/ CommandDoesNotStart(j)
    BY <1>1, <1>2, <1>7, <2>3 DEF StartCommand, CommandDoesNotStart
  <2>4. CASE CommandExits(j) \/ CommandTimesOut(j)
    BY <1>1, <1>2, <1>7, <2>4 DEF CommandExits, CommandTimesOut
  <2>5. CASE Judge(j)
    <3>1. facts[Target(j)] = before[j]
      BY <1>2, <2>5 DEF Judge
    <3>2. End(j, "partial", FALSE)
      BY <2>5, <3>1 DEF Judge
    <3> QED BY <3>2 DEF End
  <2>6. CASE UnexpectedFailure(j)
    BY <2>6 DEF UnexpectedFailure, End
  <2>7. CASE NothingToRefresh(j)
    <3>1. pc'[Command[j]] = "idle"
      BY <2>7 DEF NothingToRefresh, CommandInv, CommandRefused, vars
    <3>2. stage'[j] = "exit" /\ committed'[j] = FALSE
      BY <2>7 DEF NothingToRefresh, End
    <3> QED BY <3>1, <3>2
  <2> QED BY <1>4, <2>1, <2>2, <2>3, <2>4, <2>5, <2>6, <2>7 DEF JobStep, JobFault
<1>5. ASSUME NEW k \in Jobs, k # j, CreateJob(k) \/ JobStep(k) \/ JobFault(k)
      PROVE  JobKept(j)
  BY <1>5, OtherJobsKept
<1>6. CASE UNCHANGED jobs
  BY <1>3, <1>6 DEF jobs, JobKept
<1> QED BY <1>3, <1>4, <1>5, <1>6 DEF RefreshNext, all

\* Where a step child dies with its runner, as under the systemd units, no refresh job
\* ever reports a committed publication, whatever the timers publish beside it: the
\* publication it reads before its command is the one it reads after it.  The one success
\* left is "already_resolved", of a job that started no command.
THEOREM RefreshCommitsNothing ==
  ASSUME ChildOutlives = FALSE
  PROVE  RefreshSpec => []NoJobCommits
<1>1. RefreshInit => CommandInv /\ NoOrphans /\ NoNews /\ NoJobCommits
  BY CommandsBegin DEF RefreshInit, Init, NoOrphans, NoNews, NoJobCommits
<1>2. /\ IInv /\ RefreshTypeOK /\ CommandInv /\ NoOrphans /\ NoNews /\ NoJobCommits
      /\ [RefreshNext]_all
      => CommandInv' /\ NoOrphans' /\ NoNews' /\ NoJobCommits'
  BY ChildOutlives = FALSE, CommandNext, NoNewsNext, NoOrphansNext, StepIsCycleStep,
     CycleStepIsNext
<1> QED BY <1>1, <1>2, CycleInv, RefreshTypeCorrect, PTL DEF RefreshSpec

\* With the refresh jobs as further owners of collection.lock the protocol still holds: a
\* job owns the lock while the command it waits for finds it taken, and the facts change
\* under it only when no step child outlives its runner.
THEOREM RefreshIsLocked == ASSUME ChildOutlives = FALSE PROVE RefreshSpec => Locked!Spec
BY JobsDriveTheCycle, CycleIsLocked, PTL
=============================================================================
