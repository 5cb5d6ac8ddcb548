------------------------ MODULE CollectionCycle_proofs ------------------------
(***************************************************************************)
(* Theorems about CollectionCycle, for any number of runs, of other        *)
(* programs and of argument vectors.                                       *)
(***************************************************************************)
EXTENDS CollectionCycle, TLAPS, SequenceTheorems

\* A run between its flock on collection.lock and the release.
Owning == {"step", "running", "validate", "manifest", "latest", "unlock"}

\* The step counter of a run stays inside its profile.
StepInv ==
  \A r \in Runs :
    /\ Len(results[r]) <= Len(Steps(r))
    /\ pc[r] \in {"running", "validate"} => Len(results[r]) < Len(Steps(r))
    /\ pc[r] \in {"idle", "intent", "collection"} => results[r] = <<>>

\* Whoever is in the locked section is the recorded owner, and conversely.
LockInv ==
  /\ \A r \in Runs : pc[r] \in Owning => collection = r
  /\ collection \in Runs => pc[collection] \in Owning
  /\ \A r \in Runs : pc[r] \in Owning \cup {"collection", "unlock_intent"} /\ Primary(r)
                        => intent = r
  /\ \A r \in Runs : pc[r] \in {"intent", "unlock_intent"} => Primary(r)

IInv == TypeOK /\ StepInv /\ LockInv

-----------------------------------------------------------------------------

LEMMA StepsType ==
  ASSUME NEW profile \in DOMAIN ProfileSteps
  PROVE  ProfileSteps[profile] \in Seq(StepNames)
<1>1. DOMAIN ProfileSteps =
        {"full", "daily", "tvl", "depth", "cex_depth", "dex_depth", "routes"}
  BY DEF ProfileSteps
<1>2. CASE profile = "full"      BY <1>2 DEF ProfileSteps, StepNames
<1>3. CASE profile = "daily"     BY <1>3 DEF ProfileSteps, StepNames
<1>4. CASE profile = "tvl"       BY <1>4 DEF ProfileSteps, StepNames
<1>5. CASE profile = "depth"     BY <1>5 DEF ProfileSteps, StepNames
<1>6. CASE profile = "cex_depth" BY <1>6 DEF ProfileSteps, StepNames
<1>7. CASE profile = "dex_depth" BY <1>7 DEF ProfileSteps, StepNames
<1>8. CASE profile = "routes"    BY <1>8 DEF ProfileSteps, StepNames
<1>9. QED
  BY <1>1, <1>2, <1>3, <1>4, <1>5, <1>6, <1>7, <1>8

LEMMA StepInProfile ==
  ASSUME TypeOK, NEW r \in Runs, Len(results[r]) < Len(Steps(r))
  PROVE  NextStep(r) \in StepNames
<1>1. config[r] \in ConfigSet
  BY DEF TypeOK
<1>2. Steps(r) \in Seq(StepNames)
  BY <1>1, StepsType DEF Steps, ConfigSet
<1>3. Len(results[r]) \in Nat
  BY DEF TypeOK
<1>4. QED
  BY <1>2, <1>3 DEF NextStep

\* Recording a step result keeps the type of the results and counts the step.
LEMMA FinishedType ==
  ASSUME TypeOK, NEW r \in Runs, NEW exit \in Exits,
         Len(results[r]) < Len(Steps(r)), Finished(r, exit)
  PROVE  /\ results' \in [Runs -> Seq([step : StepNames, exit : Exits])]
         /\ Len(results'[r]) = Len(results[r]) + 1
         /\ \A q \in Runs : q # r => results'[q] = results[q]
<1> DEFINE R == [step : StepNames, exit : Exits]
           e == [step |-> NextStep(r), exit |-> exit]
<1>1. e \in R
  BY StepInProfile
<1>2. results \in [Runs -> Seq(R)]
  BY DEF TypeOK
<1>3. results' = [results EXCEPT ![r] = Append(results[r], e)]
  BY DEF Finished
<1>4. results[r] \in Seq(R)
  BY <1>2
<1> HIDE DEF R, e
<1>5. Append(results[r], e) \in Seq(R) /\ Len(Append(results[r], e)) = Len(results[r]) + 1
  BY <1>1, <1>4, AppendProperties
<1>6. results' \in [Runs -> Seq(R)] /\ Len(results'[r]) = Len(results[r]) + 1
  BY <1>2, <1>3, <1>5
<1>7. \A q \in Runs : q # r => results'[q] = results[q]
  BY <1>2, <1>3
<1>8. QED
  BY <1>6, <1>7 DEF R

PublishedType ==
  /\ facts \in [Sources -> Holders \cup {NoOne}]
  /\ current \subseteq Sources
  /\ price \in Holders \cup {NoOne}
  /\ depthPrice \in Holders \cup {NoOne}

\* What the step child of a run may change keeps its type.
LEMMA ChildEffectType ==
  ASSUME TypeOK, NEW p \in Runs, NEW s \in StepNames,
         ChildEffect(p, s, config[p].publish)
  PROVE  PublishedType'
  BY DEF TypeOK, ChildEffect, Publish, PublishedType, Holders

LEMMA InitInv == Init => IInv
<1> SUFFICES ASSUME Init PROVE IInv
  OBVIOUS
<1>1. TypeOK
  BY ConstantsOK
  DEF Init, NoConfig, NoFacts, TypeOK, Phases, Results, ConfigSet, ProfileSteps, Holders
<1>2. ASSUME NEW r \in Runs
      PROVE  /\ Len(results[r]) = 0 /\ results[r] = <<>>
             /\ pc[r] = "idle"
             /\ Len(Steps(r)) \in Nat
  <2>1. results[r] = <<>> /\ pc[r] = "idle"
    BY DEF Init
  <2>2. Steps(r) \in Seq(StepNames)
    BY <1>1, StepsType DEF Steps, TypeOK, ConfigSet
  <2>3. Len(Steps(r)) \in Nat
    BY <2>2, LenProperties
  <2>4. QED
    BY <2>1, <2>3, EmptySeq
<1>3. StepInv
  <2>1. ASSUME NEW r \in Runs PROVE Len(results[r]) <= Len(Steps(r))
    BY <1>2
  <2>2. ASSUME NEW r \in Runs
        PROVE  pc[r] \notin {"running", "validate"} /\ results[r] = <<>>
    BY <1>2
  <2>3. QED
    BY <2>1, <2>2, Zenon DEF StepInv
<1>4. LockInv
  BY ConstantsOK DEF Init, NoConfig, LockInv, Owning, Holders
<1>5. QED
  BY <1>1, <1>3, <1>4 DEF IInv

\* Type correctness is preserved by every action.
LEMMA TypeNext ==
  ASSUME IInv, [Next]_vars
  PROVE  TypeOK'
<1> USE ConstantsOK DEF IInv
<1>1. ASSUME NEW r \in Runs, Begin(r) PROVE TypeOK'
  BY <1>1 DEF Begin, TypeOK, Phases, Results, Exits, Goto, locks, published, reports, Holders
<1>2. ASSUME NEW r \in Runs, TakeIntent(r) PROVE TypeOK'
  BY <1>2 DEF TakeIntent, TypeOK, Phases, Results, Exits, Goto, locks, published, reports, Holders
<1>3. ASSUME NEW r \in Runs, IntentBusy(r) PROVE TypeOK'
  BY <1>3 DEF IntentBusy, TypeOK, Phases, Results, Exits, Goto, locks, published, reports, Holders
<1>4. ASSUME NEW r \in Runs, TakeCollection(r) PROVE TypeOK'
  BY <1>4 DEF TakeCollection, TypeOK, Phases, Results, Exits, Goto, locks, published, reports, Holders
<1>5. ASSUME NEW r \in Runs, CollectionBusy(r) PROVE TypeOK'
  BY <1>5 DEF CollectionBusy, TypeOK, Phases, Results, Exits, Goto, locks, published, reports, Holders
<1>6. ASSUME NEW r \in Runs, SkipDexDepth(r) PROVE TypeOK'
  <2>1. Len(results[r]) < Len(Steps(r))
    <3>1. Steps(r) \in Seq(StepNames) /\ results[r] \in Seq([step : StepNames, exit : Exits])
      BY StepsType DEF Steps, TypeOK, ConfigSet
    <3>2. QED
      BY <1>6, <3>1 DEF SkipDexDepth, StepsDone, StepInv
  <2>2. results' \in [Runs -> Seq([step : StepNames, exit : Exits])]
    BY <1>6, <2>1, FinishedType DEF SkipDexDepth, Exits
  <2>3. QED
    BY <1>6, <2>2 DEF SkipDexDepth, TypeOK, Phases, Results, Exits, Goto, locks, published, reports, Holders
<1>7. ASSUME NEW r \in Runs, StartStep(r) PROVE TypeOK'
  BY <1>7 DEF StartStep, TypeOK, Phases, Results, Exits, Goto, locks, published, reports, Holders
<1>8. ASSUME NEW r \in Runs, ChildSucceeds(r) PROVE TypeOK'
  <2>1. NextStep(r) \in StepNames
    BY <1>8, StepInProfile DEF ChildSucceeds, StepInv
  <2>2. ChildEffect(r, NextStep(r), config[r].publish) => PublishedType'
    BY <2>1, ChildEffectType
  <2>3. CASE ChildEffect(r, NextStep(r), config[r].publish)
    BY <1>8, <2>1, <2>2, <2>3 DEF ChildSucceeds, PublishedType, TypeOK, Phases, Results, Exits, Goto, locks, published, reports, Holders
  <2>4. CASE UNCHANGED published
    BY <1>8, <2>4 DEF ChildSucceeds, TypeOK, Phases, Results, Exits, Goto, locks, published, reports, Holders
  <2>5. QED
    BY <1>8, <2>3, <2>4 DEF ChildSucceeds
<1>9. ASSUME NEW r \in Runs, ChildFails(r) PROVE TypeOK'
  <2>1. NextStep(r) \in StepNames
    BY <1>9, StepInProfile DEF ChildFails, StepInv
  <2>2. ChildEffect(r, NextStep(r), config[r].publish) => PublishedType'
    BY <2>1, ChildEffectType
  <2>3. results' \in [Runs -> Seq([step : StepNames, exit : Exits])]
    <3>1. PICK exit \in Exits : Finished(r, exit)
      BY <1>9 DEF ChildFails, Exits
    <3>2. Len(results[r]) < Len(Steps(r))
      BY <1>9 DEF ChildFails, StepInv
    <3>3. QED
      BY <3>1, <3>2, FinishedType
  <2>4. CASE ChildEffect(r, NextStep(r), config[r].publish)
    BY <1>9, <2>1, <2>2, <2>3, <2>4 DEF ChildFails, PublishedType, TypeOK, Phases, Results, Exits, Goto, locks, published, reports, Holders
  <2>5. CASE UNCHANGED published
    BY <1>9, <2>3, <2>5 DEF ChildFails, TypeOK, Phases, Results, Exits, Goto, locks, published, reports, Holders
  <2>6. QED
    BY <1>9, <2>4, <2>5 DEF ChildFails
<1>10. ASSUME NEW r \in Runs, RunnerStops(r) PROVE TypeOK'
  <2>1. NextStep(r) \in StepNames
    BY <1>10, StepInProfile DEF RunnerStops, StepInv
  <2>2. results' \in [Runs -> Seq([step : StepNames, exit : Exits])]
    <3>1. PICK exit \in Exits : Finished(r, exit)
      BY <1>10 DEF RunnerStops, Exits
    <3>2. Len(results[r]) < Len(Steps(r))
      BY <1>10 DEF RunnerStops, StepInv
    <3>3. QED
      BY <3>1, <3>2, FinishedType
  <2>3. children' \subseteq [run : Runs, step : StepNames]
    BY <1>10, <2>1 DEF RunnerStops, LeaveChild, TypeOK
  <2>4. QED
    BY <1>10, <2>2, <2>3 DEF RunnerStops, TypeOK, Phases, Results, Exits, Goto, locks, published, reports, Holders
<1>11. ASSUME NEW r \in Runs, Validate(r) PROVE TypeOK'
  <2>1. results' \in [Runs -> Seq([step : StepNames, exit : Exits])]
    <3>1. PICK exit \in Exits : Finished(r, exit)
      BY <1>11 DEF Validate, Exits
    <3>2. Len(results[r]) < Len(Steps(r))
      BY <1>11 DEF Validate, StepInv
    <3>3. QED
      BY <3>1, <3>2, FinishedType
  <2>2. QED
    BY <1>11, <2>1 DEF Validate, TypeOK, Phases, Results, Exits, Goto, locks, published, reports, Holders
<1>12. ASSUME NEW r \in Runs, Conclude(r) PROVE TypeOK'
  <2>1. status' \in [Runs -> Results]
    BY <1>12 DEF Conclude, TypeOK, Results
  <2>2. recorded' \in [Runs -> [Sources -> Holders \cup {NoOne}]]
    BY <1>12 DEF Conclude, TypeOK
  <2>3. /\ pc' = [pc EXCEPT ![r] = "manifest"]
        /\ UNCHANGED <<locks, config, results, children, published, manifests, latest>>
    BY <1>12 DEF Conclude, Goto
  <2>4. QED
    <3>1. pc' \in [Runs -> Phases]
      BY <2>3 DEF TypeOK, Phases
    <3>2. UNCHANGED <<intent, collection, config, results, children, facts, current,
                      price, depthPrice, manifests, latest>>
      BY <2>3 DEF locks, published
    <3>3. QED
      BY <2>1, <2>2, <3>1, <3>2 DEF TypeOK
<1>13. ASSUME NEW r \in Runs, WriteManifest(r) PROVE TypeOK'
  <2>1. manifests' \in Seq(Runs)
    BY <1>13, AppendProperties DEF WriteManifest, TypeOK
  <2>2. /\ pc' \in [Runs -> Phases]
        /\ UNCHANGED <<intent, collection, config, results, status, children, facts,
                      current, price, depthPrice, recorded, latest>>
    BY <1>13 DEF WriteManifest, TypeOK, Phases, Goto, locks, published
  <2>3. QED
    BY <2>1, <2>2 DEF TypeOK
<1>14. ASSUME NEW r \in Runs, WriteLatest(r) PROVE TypeOK'
  BY <1>14 DEF WriteLatest, TypeOK, Phases, Results, Exits, Goto, locks, published, reports, Holders
<1>15. ASSUME NEW r \in Runs, ReleaseCollection(r) PROVE TypeOK'
  BY <1>15 DEF ReleaseCollection, TypeOK, Phases, Results, Exits, Goto, locks, published, reports, Holders
<1>16. ASSUME NEW r \in Runs, ReleaseIntent(r) PROVE TypeOK'
  BY <1>16 DEF ReleaseIntent, TypeOK, Phases, Results, Exits, Goto, locks, published, reports, Holders
<1>17. ASSUME NEW r \in Runs, Stop(r) PROVE TypeOK'
  <2>1. pc[r] = "running" => NextStep(r) \in StepNames
    BY StepInProfile DEF StepInv
  <2>2. children' \subseteq [run : Runs, step : StepNames]
    BY <1>17, <2>1 DEF Stop, LeaveChild, TypeOK
  <2>3. PublishedType'
    <3>1. CASE pc[r] = "running" /\ ChildEffect(r, NextStep(r), config[r].publish)
      BY <2>1, <3>1, ChildEffectType
    <3>2. CASE UNCHANGED published
      BY <3>2 DEF PublishedType, TypeOK, published
    <3>3. QED
      BY <1>17, <3>1, <3>2 DEF Stop
  <2>4. intent' \in Runs \cup {NoOne} /\ collection' \in Holders \cup {NoOne}
    BY <1>17 DEF Stop, TypeOK
  <2>5. /\ pc' \in [Runs -> Phases]
        /\ UNCHANGED <<config, results, status, recorded, manifests, latest>>
    BY <1>17 DEF Stop, Goto, TypeOK, Phases, reports
  <2>6. QED
    BY <2>2, <2>3, <2>4, <2>5 DEF PublishedType, TypeOK
<1>18. ASSUME NEW o \in Others, OtherTakes(o) PROVE TypeOK'
  BY <1>18 DEF OtherTakes, TypeOK, Phases, Results, Exits, Goto, locks, published, reports, Holders
<1>19. ASSUME NEW o \in Others, OtherPublishes(o) PROVE TypeOK'
  BY <1>19 DEF OtherPublishes, Publish, Sources, StepNames, TypeOK, Phases, Results, Exits, Goto, locks, published, reports, Holders
<1>20. ASSUME NEW o \in Others, OtherReleases(o) PROVE TypeOK'
  BY <1>20 DEF OtherReleases, TypeOK, Phases, Results, Exits, Goto, locks, published, reports, Holders
<1>21. CASE AbandonedChildEnds
  <2>1. PICK c \in children :
           /\ children' = children \ {c}
           /\ \/ ChildEffect(c.run, c.step, config[c.run].publish)
              \/ UNCHANGED published
    BY <1>21 DEF AbandonedChildEnds
  <2>2. ChildEffect(c.run, c.step, config[c.run].publish) => PublishedType'
    BY ChildEffectType DEF TypeOK
  <2>3. CASE ChildEffect(c.run, c.step, config[c.run].publish)
    BY <1>21, <2>1, <2>2, <2>3 DEF AbandonedChildEnds, PublishedType, TypeOK, Phases, Results, Exits, Goto, locks, published, reports, Holders
  <2>4. CASE UNCHANGED published
    BY <1>21, <2>1, <2>4 DEF AbandonedChildEnds, TypeOK, Phases, Results, Exits, Goto, locks, published, reports, Holders
  <2>5. QED
    BY <2>1, <2>3, <2>4
<1>22. CASE SourceAges
  BY <1>22 DEF SourceAges, TypeOK, Phases, Results, Exits, Goto, locks, published, reports, Holders
<1>23. CASE UNCHANGED vars
  BY <1>23 DEF vars, TypeOK, Phases, Results, Exits, Goto, locks, published, reports, Holders
<1>24. QED
  BY <1>1, <1>2, <1>3, <1>4, <1>5, <1>6, <1>7, <1>8, <1>9, <1>10, <1>11, <1>12, <1>13, <1>14, <1>15, <1>16, <1>17, <1>18, <1>19, <1>20, <1>21, <1>22, <1>23 DEF Next, UnitNext, RunStep

\* The step counter stays inside the profile.
LEMMA StepNext ==
  ASSUME IInv, [Next]_vars
  PROVE  StepInv'
<1> USE ConstantsOK DEF IInv
<1>1. ASSUME NEW r \in Runs, Begin(r) PROVE StepInv'
  <2>1. PICK c \in Configs : config' = [config EXCEPT ![r] = c]
    BY <1>1 DEF Begin
  <2>2. ProfileSteps[c.profile] \in Seq(StepNames)
    BY <2>1, StepsType DEF ConfigSet
  <2>3. QED
    BY <1>1, <2>1, <2>2 DEF Begin, StepInv, TypeOK, Goto, Steps, locks, published, reports
<1>2. ASSUME NEW r \in Runs, TakeIntent(r) PROVE StepInv'
  BY <1>2 DEF TakeIntent, StepInv, TypeOK, Goto, Steps, locks, published, reports
<1>3. ASSUME NEW r \in Runs, IntentBusy(r) PROVE StepInv'
  BY <1>3 DEF IntentBusy, StepInv, TypeOK, Goto, Steps, locks, published, reports
<1>4. ASSUME NEW r \in Runs, TakeCollection(r) PROVE StepInv'
  BY <1>4 DEF TakeCollection, StepInv, TypeOK, Goto, Steps, locks, published, reports
<1>5. ASSUME NEW r \in Runs, CollectionBusy(r) PROVE StepInv'
  BY <1>5 DEF CollectionBusy, StepInv, TypeOK, Goto, Steps, locks, published, reports
<1>6. ASSUME NEW r \in Runs, SkipDexDepth(r) PROVE StepInv'
  <2>1. Steps(r) \in Seq(StepNames) /\ results[r] \in Seq([step : StepNames, exit : Exits])
    BY StepsType DEF Steps, TypeOK, ConfigSet
  <2>2. Len(results[r]) < Len(Steps(r))
    BY <1>6, <2>1 DEF SkipDexDepth, StepsDone, StepInv
  <2>3. /\ Len(results'[r]) = Len(results[r]) + 1
        /\ \A q \in Runs : q # r => results'[q] = results[q]
    BY <1>6, <2>2, FinishedType DEF SkipDexDepth, Exits
  <2>4. QED
    BY <1>6, <2>1, <2>2, <2>3 DEF SkipDexDepth, StepInv, TypeOK, Goto, Steps, locks, published, reports
<1>7. ASSUME NEW r \in Runs, StartStep(r) PROVE StepInv'
  <2>1. Steps(r) \in Seq(StepNames) /\ results[r] \in Seq([step : StepNames, exit : Exits])
    BY StepsType DEF Steps, TypeOK, ConfigSet
  <2>2. Len(results[r]) < Len(Steps(r))
    BY <1>7, <2>1 DEF StartStep, StepsDone, StepInv
  <2>3. QED
    BY <1>7, <2>2 DEF StartStep, StepInv, TypeOK, Goto, Steps, locks, published, reports
<1>8. ASSUME NEW r \in Runs, ChildSucceeds(r) PROVE StepInv'
  BY <1>8 DEF ChildSucceeds, StepInv, TypeOK, Goto, Steps, locks, published, reports
<1>9. ASSUME NEW r \in Runs, ChildFails(r) PROVE StepInv'
  <2>1. PICK exit \in Exits : Finished(r, exit)
    BY <1>9 DEF ChildFails, Exits
  <2>2. Len(results[r]) < Len(Steps(r))
    BY <1>9 DEF ChildFails, StepInv
  <2>3. Steps(r) \in Seq(StepNames) /\ results[r] \in Seq([step : StepNames, exit : Exits])
    BY StepsType DEF Steps, TypeOK, ConfigSet
  <2>4. /\ Len(results'[r]) = Len(results[r]) + 1
        /\ \A q \in Runs : q # r => results'[q] = results[q]
    BY <2>1, <2>2, FinishedType
  <2>5. QED
    BY <1>9, <2>2, <2>3, <2>4 DEF ChildFails, StepInv, TypeOK, Goto, Steps, locks, published, reports
<1>10. ASSUME NEW r \in Runs, RunnerStops(r) PROVE StepInv'
  <2>1. PICK exit \in Exits : Finished(r, exit)
    BY <1>10 DEF RunnerStops, Exits
  <2>2. Len(results[r]) < Len(Steps(r))
    BY <1>10 DEF RunnerStops, StepInv
  <2>3. Steps(r) \in Seq(StepNames) /\ results[r] \in Seq([step : StepNames, exit : Exits])
    BY StepsType DEF Steps, TypeOK, ConfigSet
  <2>4. /\ Len(results'[r]) = Len(results[r]) + 1
        /\ \A q \in Runs : q # r => results'[q] = results[q]
    BY <2>1, <2>2, FinishedType
  <2>5. QED
    BY <1>10, <2>2, <2>3, <2>4 DEF RunnerStops, StepInv, TypeOK, Goto, Steps, locks, published, reports
<1>11. ASSUME NEW r \in Runs, Validate(r) PROVE StepInv'
  <2>1. PICK exit \in Exits : Finished(r, exit)
    BY <1>11 DEF Validate, Exits
  <2>2. Len(results[r]) < Len(Steps(r))
    BY <1>11 DEF Validate, StepInv
  <2>3. Steps(r) \in Seq(StepNames) /\ results[r] \in Seq([step : StepNames, exit : Exits])
    BY StepsType DEF Steps, TypeOK, ConfigSet
  <2>4. /\ Len(results'[r]) = Len(results[r]) + 1
        /\ \A q \in Runs : q # r => results'[q] = results[q]
    BY <2>1, <2>2, FinishedType
  <2>5. QED
    BY <1>11, <2>2, <2>3, <2>4 DEF Validate, StepInv, TypeOK, Goto, Steps, locks, published, reports
<1>12. ASSUME NEW r \in Runs, Conclude(r) PROVE StepInv'
  BY <1>12 DEF Conclude, StepInv, TypeOK, Goto, Steps, locks, published, reports
<1>13. ASSUME NEW r \in Runs, WriteManifest(r) PROVE StepInv'
  BY <1>13 DEF WriteManifest, StepInv, TypeOK, Goto, Steps, locks, published, reports
<1>14. ASSUME NEW r \in Runs, WriteLatest(r) PROVE StepInv'
  BY <1>14 DEF WriteLatest, StepInv, TypeOK, Goto, Steps, locks, published, reports
<1>15. ASSUME NEW r \in Runs, ReleaseCollection(r) PROVE StepInv'
  BY <1>15 DEF ReleaseCollection, StepInv, TypeOK, Goto, Steps, locks, published, reports
<1>16. ASSUME NEW r \in Runs, ReleaseIntent(r) PROVE StepInv'
  BY <1>16 DEF ReleaseIntent, StepInv, TypeOK, Goto, Steps, locks, published, reports
<1>17. ASSUME NEW r \in Runs, Stop(r) PROVE StepInv'
  BY <1>17 DEF Stop, StepInv, TypeOK, Goto, Steps, locks, published, reports
<1>18. ASSUME NEW o \in Others, OtherTakes(o) PROVE StepInv'
  BY <1>18 DEF OtherTakes, StepInv, TypeOK, Goto, Steps, locks, published, reports
<1>19. ASSUME NEW o \in Others, OtherPublishes(o) PROVE StepInv'
  BY <1>19 DEF OtherPublishes, StepInv, TypeOK, Goto, Steps, locks, published, reports
<1>20. ASSUME NEW o \in Others, OtherReleases(o) PROVE StepInv'
  BY <1>20 DEF OtherReleases, StepInv, TypeOK, Goto, Steps, locks, published, reports
<1>21. CASE AbandonedChildEnds
  BY <1>21 DEF AbandonedChildEnds, StepInv, TypeOK, Goto, Steps, locks, published, reports
<1>22. CASE SourceAges
  BY <1>22 DEF SourceAges, StepInv, TypeOK, Goto, Steps, locks, published, reports
<1>23. CASE UNCHANGED vars
  BY <1>23 DEF vars, StepInv, TypeOK, Goto, Steps, locks, published, reports
<1>24. QED
  BY <1>1, <1>2, <1>3, <1>4, <1>5, <1>6, <1>7, <1>8, <1>9, <1>10, <1>11, <1>12, <1>13, <1>14, <1>15, <1>16, <1>17, <1>18, <1>19, <1>20, <1>21, <1>22, <1>23 DEF Next, UnitNext, RunStep

\* Lock ownership and position in the program agree after every step.
LEMMA LockNext ==
  ASSUME IInv, [Next]_vars
  PROVE  LockInv'
<1> USE ConstantsOK DEF IInv
<1>1. ASSUME NEW r \in Runs, Begin(r) PROVE LockInv'
  BY <1>1 DEF Begin, ConfigSet, LockInv, Owning, TypeOK, Goto, Primary, Holders, locks
<1>2. ASSUME NEW r \in Runs, TakeIntent(r) PROVE LockInv'
  BY <1>2 DEF TakeIntent, LockInv, Owning, TypeOK, Goto, Primary, Holders, locks
<1>3. ASSUME NEW r \in Runs, IntentBusy(r) PROVE LockInv'
  BY <1>3 DEF IntentBusy, LockInv, Owning, TypeOK, Goto, Primary, Holders, locks
<1>4. ASSUME NEW r \in Runs, TakeCollection(r) PROVE LockInv'
  BY <1>4 DEF TakeCollection, LockInv, Owning, TypeOK, Goto, Primary, Holders, locks
<1>5. ASSUME NEW r \in Runs, CollectionBusy(r) PROVE LockInv'
  BY <1>5 DEF CollectionBusy, LockInv, Owning, TypeOK, Goto, Primary, Holders, locks
<1>6. ASSUME NEW r \in Runs, SkipDexDepth(r) PROVE LockInv'
  BY <1>6 DEF SkipDexDepth, LockInv, Owning, TypeOK, Goto, Primary, Holders, locks
<1>7. ASSUME NEW r \in Runs, StartStep(r) PROVE LockInv'
  BY <1>7 DEF StartStep, LockInv, Owning, TypeOK, Goto, Primary, Holders, locks
<1>8. ASSUME NEW r \in Runs, ChildSucceeds(r) PROVE LockInv'
  BY <1>8 DEF ChildSucceeds, LockInv, Owning, TypeOK, Goto, Primary, Holders, locks
<1>9. ASSUME NEW r \in Runs, ChildFails(r) PROVE LockInv'
  BY <1>9 DEF ChildFails, LockInv, Owning, TypeOK, Goto, Primary, Holders, locks
<1>10. ASSUME NEW r \in Runs, RunnerStops(r) PROVE LockInv'
  BY <1>10 DEF RunnerStops, LockInv, Owning, TypeOK, Goto, Primary, Holders, locks
<1>11. ASSUME NEW r \in Runs, Validate(r) PROVE LockInv'
  BY <1>11 DEF Validate, LockInv, Owning, TypeOK, Goto, Primary, Holders, locks
<1>12. ASSUME NEW r \in Runs, Conclude(r) PROVE LockInv'
  BY <1>12 DEF Conclude, LockInv, Owning, TypeOK, Goto, Primary, Holders, locks
<1>13. ASSUME NEW r \in Runs, WriteManifest(r) PROVE LockInv'
  BY <1>13 DEF WriteManifest, LockInv, Owning, TypeOK, Goto, Primary, Holders, locks
<1>14. ASSUME NEW r \in Runs, WriteLatest(r) PROVE LockInv'
  BY <1>14 DEF WriteLatest, LockInv, Owning, TypeOK, Goto, Primary, Holders, locks
<1>15. ASSUME NEW r \in Runs, ReleaseCollection(r) PROVE LockInv'
  BY <1>15 DEF ReleaseCollection, LockInv, Owning, TypeOK, Goto, Primary, Holders, locks
<1>16. ASSUME NEW r \in Runs, ReleaseIntent(r) PROVE LockInv'
  BY <1>16 DEF ReleaseIntent, LockInv, Owning, TypeOK, Goto, Primary, Holders, locks
<1>17. ASSUME NEW r \in Runs, Stop(r) PROVE LockInv'
  BY <1>17 DEF Stop, LockInv, Owning, TypeOK, Goto, Primary, Holders, locks
<1>18. ASSUME NEW o \in Others, OtherTakes(o) PROVE LockInv'
  BY <1>18 DEF OtherTakes, LockInv, Owning, TypeOK, Goto, Primary, Holders, locks
<1>19. ASSUME NEW o \in Others, OtherPublishes(o) PROVE LockInv'
  BY <1>19 DEF OtherPublishes, LockInv, Owning, TypeOK, Goto, Primary, Holders, locks
<1>20. ASSUME NEW o \in Others, OtherReleases(o) PROVE LockInv'
  BY <1>20 DEF OtherReleases, LockInv, Owning, TypeOK, Goto, Primary, Holders, locks
<1>21. CASE AbandonedChildEnds
  BY <1>21 DEF AbandonedChildEnds, LockInv, Owning, TypeOK, Goto, Primary, Holders, locks
<1>22. CASE SourceAges
  BY <1>22 DEF SourceAges, LockInv, Owning, TypeOK, Goto, Primary, Holders, locks
<1>23. CASE UNCHANGED vars
  BY <1>23 DEF vars, LockInv, Owning, TypeOK, Goto, Primary, Holders, locks
<1>24. QED
  BY <1>1, <1>2, <1>3, <1>4, <1>5, <1>6, <1>7, <1>8, <1>9, <1>10, <1>11, <1>12, <1>13, <1>14, <1>15, <1>16, <1>17, <1>18, <1>19, <1>20, <1>21, <1>22, <1>23 DEF Next, UnitNext, RunStep

LEMMA Invariance == Spec => []IInv
<1>1. IInv /\ [Next]_vars => IInv'
  BY TypeNext, StepNext, LockNext DEF IInv
<1>2. QED
  BY InitInv, <1>1, PTL DEF Spec

\* Every variable keeps its type in every behaviour.
THEOREM TypeCorrect == Spec => []TypeOK
  BY Invariance, PTL DEF IInv

-----------------------------------------------------------------------------

\* No child is left behind when the death of the runner takes the child with it.
NoOrphans == ChildOutlives = FALSE => children = {}

LEMMA NoOrphansNext ==
  ASSUME NoOrphans, [Next]_vars
  PROVE  NoOrphans'
<1>1. ASSUME NEW r \in Runs, Begin(r) PROVE NoOrphans'
  BY <1>1 DEF Begin, NoOrphans
<1>2. ASSUME NEW r \in Runs, RunStep(r) PROVE NoOrphans'
  <2>1. children' = children \/ RunnerStops(r)
    BY <1>2
    DEF RunStep, TakeIntent, IntentBusy, TakeCollection, CollectionBusy, SkipDexDepth,
        StartStep, ChildSucceeds, ChildFails, Validate, Conclude, WriteManifest,
        WriteLatest, ReleaseCollection, ReleaseIntent
  <2>2. QED
    BY <2>1 DEF RunnerStops, NoOrphans
<1>3. ASSUME NEW r \in Runs, Stop(r) PROVE NoOrphans'
  BY <1>3 DEF Stop, NoOrphans
<1>4. ASSUME NEW o \in Others, OtherTakes(o) \/ OtherPublishes(o) \/ OtherReleases(o)
      PROVE  NoOrphans'
  BY <1>4 DEF OtherTakes, OtherPublishes, OtherReleases, NoOrphans
<1>5. CASE AbandonedChildEnds
  BY <1>5 DEF AbandonedChildEnds, NoOrphans
<1>6. CASE SourceAges
  BY <1>6 DEF SourceAges, NoOrphans
<1>7. CASE UNCHANGED vars
  BY <1>7 DEF vars, NoOrphans
<1>8. QED
  BY <1>1, <1>2, <1>3, <1>4, <1>5, <1>6, <1>7 DEF Next, UnitNext

\* What one step does to the published facts.
HolderStep == \A s \in Sources : facts'[s] # facts[s] => collection = facts'[s]

\* The effect of the child of a run changes one source, in the name of that run.
LEMMA ChildEffectHolder ==
  ASSUME TypeOK, NEW p \in Runs, NEW s \in StepNames, collection = p,
         ChildEffect(p, s, config[p].publish)
  PROVE  HolderStep
  BY DEF ChildEffect, Publish, HolderStep, TypeOK

LEMMA HolderNext ==
  ASSUME ChildOutlives = FALSE, IInv, NoOrphans, [Next]_vars
  PROVE  HolderStep
<1>1. UNCHANGED facts => HolderStep
  BY DEF HolderStep
<1>2. ASSUME NEW r \in Runs, pc[r] = "running",
             ChildEffect(r, NextStep(r), config[r].publish)
      PROVE  HolderStep
  <2>1. collection = r
    BY <1>2 DEF IInv, LockInv, Owning
  <2>2. NextStep(r) \in StepNames
    BY <1>2, StepInProfile DEF IInv, StepInv
  <2>3. QED
    BY <1>2, <2>1, <2>2, ChildEffectHolder DEF IInv
<1>3. ASSUME NEW r \in Runs, Begin(r) PROVE HolderStep
  BY <1>1, <1>3 DEF Begin, published
<1>4. ASSUME NEW r \in Runs, RunStep(r) PROVE HolderStep
  <2>1. \/ UNCHANGED facts
        \/ pc[r] = "running" /\ ChildEffect(r, NextStep(r), config[r].publish)
    BY <1>4
    DEF RunStep, TakeIntent, IntentBusy, TakeCollection, CollectionBusy, SkipDexDepth,
        StartStep, ChildSucceeds, ChildFails, RunnerStops, Validate, Conclude,
        WriteManifest, WriteLatest, ReleaseCollection, ReleaseIntent, published
  <2>2. QED
    BY <1>1, <1>2, <2>1
<1>5. ASSUME NEW r \in Runs, Stop(r) PROVE HolderStep
  <2>1. \/ UNCHANGED facts
        \/ pc[r] = "running" /\ ChildEffect(r, NextStep(r), config[r].publish)
    BY <1>5 DEF Stop, published
  <2>2. QED
    BY <1>1, <1>2, <2>1
<1>6. ASSUME NEW o \in Others, OtherTakes(o) \/ OtherReleases(o) PROVE HolderStep
  BY <1>1, <1>6 DEF OtherTakes, OtherReleases, published
<1>7. ASSUME NEW o \in Others, OtherPublishes(o) PROVE HolderStep
  BY <1>7 DEF OtherPublishes, Publish, HolderStep, IInv, TypeOK
<1>8. CASE AbandonedChildEnds
  BY <1>8 DEF AbandonedChildEnds, NoOrphans
<1>9. CASE SourceAges
  BY <1>1, <1>9 DEF SourceAges
<1>10. CASE UNCHANGED vars
  BY <1>1, <1>10 DEF vars, published
<1>11. QED
  BY <1>3, <1>4, <1>5, <1>6, <1>7, <1>8, <1>9, <1>10 DEF Next, UnitNext

\* When no step child survives its runner, nothing is published by a process that
\* does not own collection.lock at that moment.
THEOREM LockGuardsPublication ==
  ASSUME ChildOutlives = FALSE
  PROVE  Spec => OnlyTheHolderPublishes
<1>1. Init => NoOrphans
  BY DEF Init, NoOrphans
<1>2. Spec => []NoOrphans
  BY <1>1, NoOrphansNext, PTL DEF Spec
<1>3. IInv /\ NoOrphans /\ [Next]_vars => [HolderStep]_vars
  BY HolderNext
<1>4. [HolderStep]_vars <=> [\A s \in Sources : facts'[s] # facts[s] => collection = facts'[s]]_vars
  BY DEF HolderStep
<1>5. QED
  BY Invariance, <1>2, <1>3, <1>4, PTL DEF Spec, OnlyTheHolderPublishes

-----------------------------------------------------------------------------
(* The price input of a published DEX depth.                               *)

\* What a run has done so far belongs to its profile, and whoever has passed its price
\* step, and is still in the step loop, wrote the price input last.
OfProfile(r)   == LastResult(r).step = Steps(r)[Len(results[r])]
PassedPrice(r) == LastResult(r).step \in PriceSteps /\ LastResult(r).exit = 0

PriceInv ==
  /\ \A r \in Runs : results[r] # <<>> => OfProfile(r)
  /\ \A r \in Runs : pc[r] = "step" /\ results[r] # <<>> /\ PassedPrice(r) => price = r
  /\ \A r \in Runs : pc[r] = "validate" /\ NextStep(r) \in PriceSteps => price = r
  /\ \A r \in Runs : pc[r] = "running" /\ NextStep(r) = "dex_depth" => price = r
  /\ DepthUsesOwnPrice

\* In every profile the step before dex_depth writes the price input.
LEMMA PriceComesFirst ==
  ASSUME TypeOK, NEW r \in Runs, Len(results[r]) < Len(Steps(r)), NextStep(r) = "dex_depth"
  PROVE  /\ Len(results[r]) \in Nat \ {0}
         /\ Steps(r)[Len(results[r])] \in PriceSteps
<1> DEFINE n == Len(results[r])
           p == config[r].profile
<1>1. n \in Nat /\ n < Len(ProfileSteps[p]) /\ ProfileSteps[p][n + 1] = "dex_depth"
  BY DEF TypeOK, Steps, NextStep
<1>2. p \in DOMAIN ProfileSteps
  BY DEF TypeOK, ConfigSet
<1>3. p \in {"full", "daily", "tvl", "depth", "cex_depth", "dex_depth", "routes"}
  BY <1>2 DEF ProfileSteps
<1> HIDE DEF n, p
<1>4. SUFFICES n # 0 /\ ProfileSteps[p][n] \in PriceSteps
  BY <1>1 DEF n, p, Steps
<1>5. CASE p = "full"
  BY <1>1, <1>5 DEF ProfileSteps, PriceSteps
<1>6. CASE p = "daily"
  BY <1>1, <1>6 DEF ProfileSteps, PriceSteps
<1>7. CASE p \in {"tvl", "cex_depth", "routes"}
  BY <1>1, <1>7 DEF ProfileSteps, PriceSteps
<1>8. CASE p = "depth"
  BY <1>1, <1>8 DEF ProfileSteps, PriceSteps
<1>9. CASE p = "dex_depth"
  BY <1>1, <1>9 DEF ProfileSteps, PriceSteps
<1>10. QED
  BY <1>3, <1>5, <1>6, <1>7, <1>8, <1>9

\* The result that is recorded is the last one, and of the step that was due.
LEMMA FinishedLast ==
  ASSUME TypeOK, NEW r \in Runs, NEW exit \in Exits,
         Len(results[r]) < Len(Steps(r)), Finished(r, exit), UNCHANGED config
  PROVE  /\ results'[r] # <<>>
         /\ LastResult(r)' = [step |-> NextStep(r), exit |-> exit]
         /\ Steps(r)'[Len(results'[r])] = NextStep(r)
         /\ \A q \in Runs : q # r => results'[q] = results[q]
<1> DEFINE R == [step : StepNames, exit : Exits]
           e == [step |-> NextStep(r), exit |-> exit]
<1>1. results \in [Runs -> Seq(R)] /\ e \in R
  BY StepInProfile DEF TypeOK
<1>2. results' = [results EXCEPT ![r] = Append(results[r], e)]
  BY DEF Finished
<1> HIDE DEF R, e
<1>3. /\ Len(Append(results[r], e)) = Len(results[r]) + 1
      /\ Append(results[r], e)[Len(results[r]) + 1] = e
      /\ Append(results[r], e) # <<>>
  BY <1>1, AppendProperties
<1>4. results'[r] = Append(results[r], e) /\ \A q \in Runs : q # r => results'[q] = results[q]
  BY <1>1, <1>2
<1>5. LastResult(r)' = e
  BY <1>3, <1>4 DEF LastResult
<1>6. Steps(r)'[Len(results'[r])] = NextStep(r)
  BY <1>3, <1>4 DEF Steps, NextStep
<1>7. QED
  BY <1>3, <1>4, <1>5, <1>6 DEF e

\* A step child changes the price input in the name of its run, and publishes DEX depth
\* from the price input it finds.
LEMMA EffectOnPrice ==
  ASSUME TypeOK, NEW p \in Runs, NEW s \in StepNames, NEW publishes \in BOOLEAN,
         ChildEffect(p, s, publishes), DepthUsesOwnPrice,
         s = "dex_depth" => price = p
  PROVE  /\ DepthUsesOwnPrice'
         /\ price' \in {price, p}
         /\ s \in PriceSteps => price' = p
<1>1. CASE s \in PriceSteps /\ price' = p /\ UNCHANGED <<facts, current, depthPrice>>
  BY <1>1 DEF DepthUsesOwnPrice
<1>2. ASSUME NEW accepted \in BOOLEAN, s \in Sources, Publish(p, s, accepted)
      PROVE  /\ DepthUsesOwnPrice'
             /\ price' \in {price, p}
             /\ s \in PriceSteps => price' = p
  <2>1. facts' = [facts EXCEPT ![s] = p] /\ facts \in [Sources -> Holders \cup {NoOne}]
    BY <1>2 DEF Publish, TypeOK
  <2>2. DepthUsesOwnPrice'
    BY <1>2, <2>1 DEF DepthUsesOwnPrice, Publish, Sources, StepNames
  <2>3. price' \in {price, p} /\ (s \in PriceSteps => price' = p)
    BY <1>2 DEF Publish, PriceSteps, Sources
  <2>4. QED
    BY <2>2, <2>3
<1>3. QED
  BY <1>1, <1>2 DEF ChildEffect

\* What is said of a run's results depends on nothing else.
LEMMA SameResults ==
  ASSUME UNCHANGED <<results, config>>
  PROVE  \A q \in Runs : /\ OfProfile(q)' = OfProfile(q)
                         /\ PassedPrice(q)' = PassedPrice(q)
                         /\ NextStep(q)' = NextStep(q)
BY DEF LastResult, Steps, NextStep, OfProfile, PassedPrice

\* Steps that neither publish nor record a result, and enter no part of the step loop.
LEMMA PriceQuiet ==
  ASSUME PriceInv, UNCHANGED <<results, config, price, facts, depthPrice>>,
         \A q \in Runs : pc'[q] = pc[q] \/ pc'[q] \notin {"step", "running", "validate"}
  PROVE  PriceInv'
<1>1. DepthUsesOwnPrice'
  BY DEF PriceInv, DepthUsesOwnPrice
<1>2. QED
  BY <1>1, SameResults DEF PriceInv

\* A child's end, or the end of waiting for it: the others are not in the step loop.
LEMMA PriceRecorded ==
  ASSUME IInv, PriceInv, NEW r \in Runs, NEW exit \in Exits,
         pc[r] \in Owning, pc' = [pc EXCEPT ![r] = "step"],
         Len(results[r]) < Len(Steps(r)), Finished(r, exit), UNCHANGED config,
         DepthUsesOwnPrice',
         NextStep(r) \in PriceSteps /\ exit = 0 => price' = r
  PROVE  PriceInv'
<1>1. /\ results'[r] # <<>>
      /\ LastResult(r)' = [step |-> NextStep(r), exit |-> exit]
      /\ Steps(r)'[Len(results'[r])] = NextStep(r)
      /\ \A q \in Runs : q # r => results'[q] = results[q]
  BY FinishedLast DEF IInv
<1>2. \A q \in Runs : q # r => pc'[q] = pc[q] /\ pc[q] \notin Owning
  BY DEF IInv, LockInv, TypeOK
<1>3. pc'[r] = "step"
  BY DEF IInv, TypeOK
<1>4. \A q \in Runs : q # r => OfProfile(q)' = OfProfile(q)
  BY <1>1 DEF LastResult, Steps, OfProfile
<1>5. OfProfile(r)' /\ (PassedPrice(r)' => NextStep(r) \in PriceSteps /\ exit = 0)
  BY <1>1 DEF OfProfile, PassedPrice
<1>6. QED
  BY <1>1, <1>2, <1>3, <1>4, <1>5 DEF PriceInv, Owning

LEMMA PriceNext ==
  ASSUME ChildOutlives = FALSE, IInv, NoOrphans, PriceInv, [Next]_vars
  PROVE  PriceInv'
<1> USE DEF IInv
<1>1. ASSUME NEW r \in Runs, Begin(r) PROVE PriceInv'
  <2>1. \A q \in Runs : q # r => config'[q] = config[q] /\ pc'[q] = pc[q]
    BY <1>1 DEF Begin, Goto, TypeOK
  <2>2. UNCHANGED <<results, price, facts, depthPrice>> /\ results[r] = <<>>
    BY <1>1 DEF Begin, published, StepInv
  <2>3. pc'[r] \in {"intent", "collection"}
    BY <1>1 DEF Begin, Goto, TypeOK
  <2>4. \A q \in Runs : q # r => OfProfile(q)' = OfProfile(q) /\ PassedPrice(q)' = PassedPrice(q)
    BY <2>1, <2>2 DEF LastResult, Steps, OfProfile, PassedPrice
  <2>5. \A q \in Runs : q # r => NextStep(q)' = NextStep(q)
    BY <2>1, <2>2 DEF NextStep, Steps
  <2>6. QED
    BY <2>1, <2>2, <2>3, <2>4, <2>5 DEF PriceInv, DepthUsesOwnPrice
<1>2. ASSUME NEW r \in Runs,
             \/ TakeIntent(r) \/ IntentBusy(r) \/ CollectionBusy(r) \/ Conclude(r)
             \/ WriteManifest(r) \/ WriteLatest(r) \/ ReleaseCollection(r) \/ ReleaseIntent(r)
      PROVE  PriceInv'
  <2>1. UNCHANGED <<results, config, price, facts, depthPrice>>
    BY <1>2 DEF TakeIntent, IntentBusy, CollectionBusy, Conclude, WriteManifest, WriteLatest,
                ReleaseCollection, ReleaseIntent, published
  <2>2. \A q \in Runs : pc'[q] = pc[q] \/ pc'[q] \notin {"step", "running", "validate"}
    BY <1>2 DEF TakeIntent, IntentBusy, CollectionBusy, Conclude, WriteManifest, WriteLatest,
                ReleaseCollection, ReleaseIntent, Goto, TypeOK
  <2>3. QED
    BY <2>1, <2>2, PriceQuiet
<1>3. ASSUME NEW r \in Runs, TakeCollection(r) PROVE PriceInv'
  <2>1. results[r] = <<>>
    BY <1>3 DEF TakeCollection, StepInv
  <2>2. pc' = [pc EXCEPT ![r] = "step"] /\ UNCHANGED <<results, config, price, facts, depthPrice>>
    BY <1>3 DEF TakeCollection, Goto, published
  <2>4. pc'[r] = "step" /\ \A q \in Runs : q # r => pc'[q] = pc[q]
    BY <2>2 DEF TypeOK
  <2>5. QED
    BY <2>1, <2>2, SameResults, <2>4 DEF PriceInv, DepthUsesOwnPrice
<1>4. ASSUME NEW r \in Runs, SkipDexDepth(r) PROVE PriceInv'
  <2>1. Len(results[r]) < Len(Steps(r))
    BY <1>4, StepsType DEF SkipDexDepth, StepsDone, StepInv, Steps, TypeOK, ConfigSet
  <2>2. NextStep(r) \notin PriceSteps
    BY <1>4 DEF SkipDexDepth, MissingPrice, PriceSteps
  <2>3. pc' = [pc EXCEPT ![r] = "step"]
    BY <1>4 DEF SkipDexDepth, TypeOK
  <2>4. QED
    BY <1>4, <2>1, <2>2, <2>3, PriceRecorded
    DEF SkipDexDepth, published, PriceInv, DepthUsesOwnPrice, Owning, Exits
<1>5. ASSUME NEW r \in Runs, StartStep(r) PROVE PriceInv'
  <2>1. Len(results[r]) < Len(Steps(r))
    BY <1>5, StepsType DEF StartStep, StepsDone, StepInv, Steps, TypeOK, ConfigSet
  <2>2. ASSUME NextStep(r) = "dex_depth" PROVE price = r
    <3>1. Len(results[r]) # 0 /\ Steps(r)[Len(results[r])] \in PriceSteps
      BY <2>1, <2>2, PriceComesFirst
    <3>2. results[r] # <<>>
      BY <3>1, EmptySeq DEF TypeOK
    <3>3. PassedPrice(r)
      BY <1>5, <2>2, <3>1, <3>2 DEF StartStep, MissingPrice, PriceInv, OfProfile, PassedPrice
    <3>4. QED
      BY <1>5, <3>2, <3>3 DEF StartStep, PriceInv
  <2>3. pc' = [pc EXCEPT ![r] = "running"] /\ UNCHANGED <<results, config, price, facts, depthPrice>>
    BY <1>5 DEF StartStep, Goto, published
  <2>5. DepthUsesOwnPrice'
    BY <2>3 DEF PriceInv, DepthUsesOwnPrice
  <2>6. pc'[r] = "running" /\ \A q \in Runs : q # r => pc'[q] = pc[q]
    BY <2>3 DEF TypeOK
  <2>7. QED
    BY <2>2, <2>3, SameResults, <2>5, <2>6 DEF PriceInv
<1>6. ASSUME NEW r \in Runs, pc[r] = "running", ChildEffect(r, NextStep(r), config[r].publish)
      PROVE  /\ DepthUsesOwnPrice' /\ price' \in {price, r}
             /\ NextStep(r) \in PriceSteps => price' = r
  <2>1. NextStep(r) \in StepNames
    BY <1>6, StepInProfile DEF StepInv
  <2>2. config[r].publish \in BOOLEAN
    BY DEF TypeOK, ConfigSet
  <2>3. QED
    BY <1>6, <2>1, <2>2, EffectOnPrice DEF PriceInv
<1>7. ASSUME NEW r \in Runs, ChildSucceeds(r) PROVE PriceInv'
  <2>1. pc[r] = "running" /\ UNCHANGED <<results, config>> /\ pc' = [pc EXCEPT ![r] = "validate"]
    BY <1>7 DEF ChildSucceeds, Goto
  <2>2. DepthUsesOwnPrice' /\ (NextStep(r) \in PriceSteps => price' = r)
    BY <1>6, <1>7 DEF ChildSucceeds, published, PriceInv, DepthUsesOwnPrice
  <2>3. \A q \in Runs : q # r => pc'[q] = pc[q] /\ pc[q] \notin Owning
    BY <2>1 DEF LockInv, TypeOK, Owning
  <2>5. pc'[r] = "validate"
    BY <2>1 DEF TypeOK
  <2>6. QED
    BY <2>1, <2>2, <2>3, SameResults, <2>5 DEF PriceInv, Owning
<1>8. ASSUME NEW r \in Runs, ChildFails(r) \/ RunnerStops(r) PROVE PriceInv'
  <2>1. PICK exit \in {1, 130} : Finished(r, exit)
    BY <1>8 DEF ChildFails, RunnerStops
  <2>2. Len(results[r]) < Len(Steps(r)) /\ pc[r] \in Owning
    BY <1>8 DEF ChildFails, RunnerStops, StepInv, Owning
  <2>3. DepthUsesOwnPrice'
    BY <1>6, <1>8 DEF ChildFails, RunnerStops, published, PriceInv, DepthUsesOwnPrice
  <2>4. exit \in Exits /\ exit # 0 /\ pc' = [pc EXCEPT ![r] = "step"] /\ UNCHANGED config
    BY <1>8, <2>1 DEF ChildFails, RunnerStops, Goto, Exits
  <2>5. QED
    BY <2>1, <2>2, <2>3, <2>4, PriceRecorded
<1>9. ASSUME NEW r \in Runs, Validate(r) PROVE PriceInv'
  <2>1. PICK exit \in Exits : Finished(r, exit)
    BY <1>9 DEF Validate, Exits
  <2>2. Len(results[r]) < Len(Steps(r)) /\ pc[r] \in Owning
    BY <1>9 DEF Validate, StepInv, Owning
  <2>3. pc' = [pc EXCEPT ![r] = "step"] /\ UNCHANGED <<config, price, facts, depthPrice>>
    BY <1>9 DEF Validate, Goto, published
  <2>4. NextStep(r) \in PriceSteps => price' = r
    BY <1>9, <2>3 DEF Validate, PriceInv
  <2>5. QED
    BY <2>1, <2>2, <2>3, <2>4, PriceRecorded DEF PriceInv, DepthUsesOwnPrice
<1>10. ASSUME NEW r \in Runs, Stop(r) PROVE PriceInv'
  <2>1. pc' = [pc EXCEPT ![r] = "stopped"] /\ UNCHANGED <<results, config>>
    BY <1>10 DEF Stop, Goto
  <2>2. CASE UNCHANGED published
    BY <2>1, <2>2, PriceQuiet DEF TypeOK, published
  <2>3. CASE pc[r] = "running" /\ ChildEffect(r, NextStep(r), config[r].publish)
    <3>1. DepthUsesOwnPrice'
      BY <1>6, <2>3
    <3>2. \A q \in Runs : q # r => pc'[q] = pc[q] /\ pc[q] \notin Owning
      BY <2>1, <2>3 DEF LockInv, TypeOK, Owning
    <3>4. pc'[r] = "stopped"
      BY <2>1 DEF TypeOK
    <3>5. QED
      BY <2>1, <3>1, <3>2, SameResults, <3>4 DEF PriceInv, Owning
  <2>4. QED
    BY <1>10, <2>2, <2>3 DEF Stop
<1>11. ASSUME NEW o \in Others, OtherTakes(o) \/ OtherReleases(o) PROVE PriceInv'
  BY <1>11, PriceQuiet DEF OtherTakes, OtherReleases, published
<1>12. ASSUME NEW o \in Others, OtherPublishes(o) PROVE PriceInv'
  <2>1. UNCHANGED <<pc, results, config, price, depthPrice>> /\ facts'["dex_depth"] = facts["dex_depth"]
    BY <1>12 DEF OtherPublishes, Publish, TypeOK, Sources, StepNames
  <2>2. QED
    BY <2>1, SameResults DEF PriceInv, DepthUsesOwnPrice
<1>13. CASE AbandonedChildEnds
  BY <1>13 DEF AbandonedChildEnds, NoOrphans
<1>14. CASE SourceAges
  BY <1>14, PriceQuiet DEF SourceAges
<1>15. CASE UNCHANGED vars
  BY <1>15, PriceQuiet DEF vars, published
<1>16. QED
  BY <1>1, <1>2, <1>3, <1>4, <1>5, <1>7, <1>8, <1>9, <1>10, <1>11, <1>12, <1>13, <1>14, <1>15
  DEF Next, UnitNext, RunStep

\* When no step child survives its runner, a published DEX depth was computed from a
\* price input its own run has written.
THEOREM DepthPriceIsOwn ==
  ASSUME ChildOutlives = FALSE
  PROVE  Spec => []DepthUsesOwnPrice
<1>1. Init => NoOrphans
  BY DEF Init, NoOrphans
<1>2. Spec => []NoOrphans
  BY <1>1, NoOrphansNext, PTL DEF Spec
<1>3. Init => PriceInv
  <2> SUFFICES ASSUME Init PROVE PriceInv
    OBVIOUS
  <2>1. \A r \in Runs : results[r] = <<>> /\ pc[r] = "idle"
    BY DEF Init
  <2>2. "dex_depth" \in Sources /\ \A r \in Runs : r # NoOne
    BY ConstantsOK DEF Sources, StepNames, Holders
  <2>3. facts["dex_depth"] = NoOne
    BY <2>2 DEF Init, NoFacts
  <2>4. QED
    BY <2>1, <2>2, <2>3 DEF PriceInv, DepthUsesOwnPrice
<1>4. IInv /\ NoOrphans /\ PriceInv /\ [Next]_vars => PriceInv'
  BY PriceNext
<1>5. PriceInv => DepthUsesOwnPrice
  BY DEF PriceInv
<1>6. QED
  BY Invariance, <1>2, <1>3, <1>4, <1>5, PTL DEF Spec

-----------------------------------------------------------------------------
(* The reports of the runs.                                                *)

LastManifest == manifests[Len(manifests)]

\* The run that is about to write latest.json has written the newest manifest.
LatestInv ==
  /\ \A r \in Runs : pc[r] = "latest" => manifests # <<>> /\ LastManifest = r
  /\ LatestIsNewestManifest

LEMMA LatestQuiet ==
  ASSUME TypeOK, LatestInv, UNCHANGED <<manifests, latest>>,
         \A q \in Runs : \/ pc'[q] = pc[q]
                         \/ pc[q] # "latest" /\ pc'[q] # "latest" /\ pc[q] # "stopped"
                         \/ pc'[q] = "stopped"
  PROVE  LatestInv'
<1>1. LastManifest' = LastManifest
  BY DEF LastManifest
<1>2. \A r \in Runs : pc'[r] = "latest" => pc[r] = "latest"
  OBVIOUS
<1>3. LatestIsNewestManifest => LatestIsNewestManifest'
  <2> SUFFICES ASSUME LatestIsNewestManifest, manifests # <<>>, latest # LastManifest
               PROVE  pc'[LastManifest] \in {"latest", "stopped"}
    BY <1>1 DEF LatestIsNewestManifest, LastManifest
  <2>1. pc[LastManifest] \in {"latest", "stopped"}
    BY DEF LatestIsNewestManifest, LastManifest
  <2>2. LastManifest \in Runs
    BY ElementOfSeq, EmptySeq DEF TypeOK, LastManifest
  <2>3. QED
    BY <2>1, <2>2
<1>4. QED
  BY <1>1, <1>2, <1>3 DEF LatestInv

LEMMA LatestNext ==
  ASSUME IInv, LatestInv, [Next]_vars
  PROVE  LatestInv'
<1> USE DEF IInv
<1>1. ASSUME NEW r \in Runs, WriteManifest(r) PROVE LatestInv'
  <2>1. /\ manifests' # <<>> /\ LastManifest' = r
    <3>1. manifests' = Append(manifests, r) /\ manifests \in Seq(Runs)
      BY <1>1 DEF WriteManifest, TypeOK
    <3>2. QED
      BY <3>1, AppendProperties DEF LastManifest
  <2>2. pc'[r] = "latest" /\ \A q \in Runs : q # r => pc'[q] = pc[q]
    BY <1>1 DEF WriteManifest, Goto, TypeOK
  <2>3. \A q \in Runs : q # r => pc[q] # "latest"
    BY <1>1 DEF WriteManifest, LockInv, Owning
  <2>4. QED
    BY <2>1, <2>2, <2>3 DEF LatestInv, LatestIsNewestManifest, LastManifest
<1>2. ASSUME NEW r \in Runs, WriteLatest(r) PROVE LatestInv'
  <2>1. latest' = r /\ LastManifest = r /\ UNCHANGED manifests
    BY <1>2 DEF WriteLatest, LatestInv
  <2>2. \A q \in Runs : pc'[q] # "latest"
    BY <1>2 DEF WriteLatest, Goto, LockInv, Owning, TypeOK
  <2>3. QED
    BY <2>1, <2>2 DEF LatestInv, LatestIsNewestManifest, LastManifest
<1>3. ASSUME NEW r \in Runs, Begin(r) \/ Stop(r) PROVE LatestInv'
  <2>1. UNCHANGED <<manifests, latest>>
    BY <1>3 DEF Begin, Stop, reports
  <2>2. QED
    BY <1>3, <2>1, LatestQuiet DEF Begin, Stop, Goto, TypeOK
<1>4. ASSUME NEW r \in Runs, RunStep(r), ~WriteManifest(r), ~WriteLatest(r) PROVE LatestInv'
  <2>1. UNCHANGED <<manifests, latest>>
    BY <1>4 DEF RunStep, TakeIntent, IntentBusy, TakeCollection, CollectionBusy, SkipDexDepth,
                StartStep, ChildSucceeds, ChildFails, RunnerStops, Validate, Conclude,
                ReleaseCollection, ReleaseIntent, reports
  <2>2. \E phase \in Phases \ {"latest"} : pc[r] \notin {"latest", "stopped"} /\ (Goto(r, phase) \/ UNCHANGED pc)
    BY <1>4 DEF RunStep, TakeIntent, IntentBusy, TakeCollection, CollectionBusy, SkipDexDepth,
                StartStep, ChildSucceeds, ChildFails, RunnerStops, Validate, Conclude,
                ReleaseCollection, ReleaseIntent, Phases
  <2>3. QED
    BY <2>1, <2>2, LatestQuiet DEF Goto, TypeOK
<1>5. ASSUME NEW o \in Others, OtherTakes(o) \/ OtherPublishes(o) \/ OtherReleases(o)
      PROVE  LatestInv'
  BY <1>5, LatestQuiet DEF OtherTakes, OtherPublishes, OtherReleases, reports
<1>6. CASE AbandonedChildEnds
  BY <1>6, LatestQuiet DEF AbandonedChildEnds, reports
<1>7. CASE SourceAges
  BY <1>7, LatestQuiet DEF SourceAges, reports
<1>8. CASE UNCHANGED vars
  BY <1>8, LatestQuiet DEF vars, reports
<1>9. QED
  BY <1>1, <1>2, <1>3, <1>4, <1>5, <1>6, <1>7, <1>8 DEF Next, UnitNext

\* latest.json describes the newest manifest, whatever children are left behind.
THEOREM LatestIsNewest == Spec => []LatestIsNewestManifest
<1>1. Init => LatestInv
  BY DEF Init, LatestInv, LatestIsNewestManifest
<1>2. IInv /\ LatestInv /\ [Next]_vars => LatestInv'
  BY LatestNext
<1>3. LatestInv => LatestIsNewestManifest
  BY DEF LatestInv
<1>4. QED
  BY Invariance, <1>1, <1>2, <1>3, PTL DEF Spec

-----------------------------------------------------------------------------
(* Children that are left behind.                                          *)

Before == {"idle", "intent", "collection", "step", "running", "validate"}

HasFailed(r) == \E i \in DOMAIN results[r] : results[r][i].exit # 0

\* The status is set once, after the steps; a run whose child was left behind has
\* stopped without a status, or has recorded a failure.
ChildInv ==
  /\ \A r \in Runs : pc[r] \in Before => status[r] = "none"
  /\ \A c \in children :
       /\ pc[c.run] = "stopped" \/ HasFailed(c.run)
       /\ status[c.run] # "succeeded"

\* A failure that is recorded stays recorded.
LEMMA FailureStays ==
  ASSUME TypeOK, NEW r \in Runs, NEW exit \in Exits,
         Len(results[r]) < Len(Steps(r)), Finished(r, exit)
  PROVE  /\ \A q \in Runs : HasFailed(q) => HasFailed(q)'
         /\ exit # 0 => HasFailed(r)'
<1> DEFINE R == [step : StepNames, exit : Exits]
           e == [step |-> NextStep(r), exit |-> exit]
<1>1. results \in [Runs -> Seq(R)] /\ e \in R /\ e.exit = exit
  BY StepInProfile DEF TypeOK
<1>2. results' = [results EXCEPT ![r] = Append(results[r], e)]
  BY DEF Finished
<1> HIDE DEF R, e
<1>3. /\ Len(Append(results[r], e)) = Len(results[r]) + 1
      /\ \A i \in 1 .. Len(results[r]) : Append(results[r], e)[i] = results[r][i]
      /\ Append(results[r], e)[Len(results[r]) + 1] = e
      /\ Append(results[r], e) \in Seq(R)
  BY <1>1, AppendProperties
<1>4. results'[r] = Append(results[r], e) /\ \A q \in Runs : q # r => results'[q] = results[q]
  BY <1>1, <1>2
<1>5. /\ DOMAIN results[r] = 1 .. Len(results[r])
      /\ DOMAIN Append(results[r], e) = 1 .. (Len(results[r]) + 1)
      /\ Len(results[r]) \in Nat
  BY <1>1, <1>3, LenProperties
<1>6. HasFailed(r) => HasFailed(r)'
  BY <1>3, <1>4, <1>5 DEF HasFailed
<1>7. exit # 0 => HasFailed(r)'
  BY <1>1, <1>3, <1>4, <1>5 DEF HasFailed
<1>8. QED
  BY <1>4, <1>6, <1>7 DEF HasFailed

LEMMA ChildNext ==
  ASSUME IInv, ChildInv, [Next]_vars
  PROVE  ChildInv'
<1> USE DEF IInv
<1>1. ASSUME UNCHANGED <<results, status, children>>, NEW r \in Runs,
             pc[r] # "stopped", pc'[r] \notin Before \/ pc[r] \in Before,
             \A q \in Runs : q # r => pc'[q] = pc[q]
      PROVE  ChildInv'
  BY <1>1 DEF ChildInv, HasFailed, TypeOK
<1>2. ASSUME NEW r \in Runs,
             \/ Begin(r) \/ TakeIntent(r) \/ TakeCollection(r) \/ StartStep(r) \/ ChildSucceeds(r)
             \/ WriteManifest(r) \/ WriteLatest(r) \/ ReleaseCollection(r) \/ ReleaseIntent(r)
      PROVE  ChildInv'
  <2>1. UNCHANGED <<results, status, children>>
    BY <1>2 DEF Begin, TakeIntent, TakeCollection, StartStep, ChildSucceeds, WriteManifest,
                WriteLatest, ReleaseCollection, ReleaseIntent
  <2>2. CASE pc[r] \in Before
    <3>1. \A q \in Runs : q # r => pc'[q] = pc[q]
      BY <1>2 DEF Begin, TakeIntent, TakeCollection, StartStep, ChildSucceeds, WriteManifest,
                  WriteLatest, ReleaseCollection, ReleaseIntent, Goto, TypeOK
    <3>2. pc[r] # "stopped"
      BY <2>2 DEF Before
    <3>3. QED
      BY <1>1, <2>1, <2>2, <3>1, <3>2
  <2>3. CASE pc[r] \notin Before
    <3>1. WriteManifest(r) \/ WriteLatest(r) \/ ReleaseCollection(r) \/ ReleaseIntent(r)
      BY <1>2, <2>3 DEF Begin, TakeIntent, TakeCollection, StartStep, ChildSucceeds, Before
    <3>2. /\ pc[r] \in {"manifest", "latest", "unlock", "unlock_intent"}
          /\ \E phase \in {"latest", "unlock", "unlock_intent", "end"} : Goto(r, phase)
      BY <3>1 DEF WriteManifest, WriteLatest, ReleaseCollection, ReleaseIntent
    <3>3. pc[r] # "stopped" /\ pc'[r] \notin Before /\ \A q \in Runs : q # r => pc'[q] = pc[q]
      BY <3>2 DEF Goto, TypeOK, Before
    <3>4. QED
      BY <1>1, <2>1, <3>3
  <2>4. QED
    BY <2>2, <2>3
<1>3. ASSUME NEW r \in Runs, IntentBusy(r) \/ CollectionBusy(r) PROVE ChildInv'
  <2>1. /\ UNCHANGED <<results, children>>
        /\ status' = [status EXCEPT ![r] = "skipped_locked"]
        /\ \E phase \in {"end", "unlock_intent"} : pc' = [pc EXCEPT ![r] = phase]
        /\ pc[r] \in {"intent", "collection"}
    BY <1>3 DEF IntentBusy, CollectionBusy, Goto
  <2>2. QED
    BY <2>1 DEF ChildInv, HasFailed, TypeOK, Before
<1>4. ASSUME NEW r \in Runs, SkipDexDepth(r) \/ ChildFails(r) \/ Validate(r) PROVE ChildInv'
  <2>1. PICK exit \in Exits : Finished(r, exit)
    BY <1>4 DEF SkipDexDepth, ChildFails, Validate, Exits
  <2>2. Len(results[r]) < Len(Steps(r))
    BY <1>4, StepsType DEF SkipDexDepth, ChildFails, Validate, StepsDone, StepInv, Steps, TypeOK, ConfigSet
  <2>3. \A q \in Runs : HasFailed(q) => HasFailed(q)'
    BY <2>1, <2>2, FailureStays
  <2>4. /\ UNCHANGED <<status, children>>
        /\ pc[r] \in Before
        /\ pc'[r] = "step" /\ \A q \in Runs : q # r => pc'[q] = pc[q]
    BY <1>4 DEF SkipDexDepth, ChildFails, Validate, Goto, TypeOK, Before
  <2>5. QED
    BY <2>3, <2>4 DEF ChildInv, TypeOK, Before
<1>5. ASSUME NEW r \in Runs, RunnerStops(r) PROVE ChildInv'
  <2>1. PICK exit \in {1, 130} : Finished(r, exit)
    BY <1>5 DEF RunnerStops
  <2>2. Len(results[r]) < Len(Steps(r)) /\ exit \in Exits /\ exit # 0
    BY <1>5, <2>1 DEF RunnerStops, StepInv, Exits
  <2>3. (\A q \in Runs : HasFailed(q) => HasFailed(q)') /\ HasFailed(r)'
    BY <2>1, <2>2, FailureStays
  <2>4. /\ UNCHANGED status
        /\ pc[r] \in Before
        /\ pc'[r] = "step" /\ \A q \in Runs : q # r => pc'[q] = pc[q]
    BY <1>5 DEF RunnerStops, Goto, TypeOK, Before
  <2>5. children' \subseteq children \cup {[run |-> r, step |-> NextStep(r)]}
    BY <1>5 DEF RunnerStops, LeaveChild
  <2>6. status[r] = "none"
    BY <2>4 DEF ChildInv
  <2>7. QED
    BY <2>3, <2>4, <2>5, <2>6 DEF ChildInv, TypeOK, Before
<1>6. ASSUME NEW r \in Runs, Conclude(r) PROVE ChildInv'
  <2>1. /\ UNCHANGED <<results, children>>
        /\ pc[r] = "step" /\ pc' = [pc EXCEPT ![r] = "manifest"]
        /\ \A q \in Runs : q # r => status'[q] = status[q]
    BY <1>6 DEF Conclude, Goto, TypeOK
  <2>2. HasFailed(r) => status'[r] # "succeeded"
    BY <1>6 DEF Conclude, AllStepsPassed, HasFailed, TypeOK
  <2>3. \A q \in Runs : HasFailed(q)' = HasFailed(q)
    BY <2>1 DEF HasFailed
  <2>4. pc'[r] = "manifest" /\ \A q \in Runs : q # r => pc'[q] = pc[q]
    BY <2>1 DEF TypeOK
  <2>5. QED
    BY <2>1, <2>2, <2>3, <2>4 DEF ChildInv, TypeOK, Before
<1>7. ASSUME NEW r \in Runs, Stop(r) PROVE ChildInv'
  <2>1. /\ UNCHANGED <<results, status>>
        /\ pc' = [pc EXCEPT ![r] = "stopped"]
    BY <1>7 DEF Stop, Goto
  <2>2. CASE UNCHANGED children
    BY <2>1, <2>2 DEF ChildInv, HasFailed, TypeOK, Before
  <2>3. CASE pc[r] = "running" /\ children' = children \cup {[run |-> r, step |-> NextStep(r)]}
    <3>1. status[r] = "none"
      BY <2>3 DEF ChildInv, Before
    <3>2. QED
      BY <2>1, <2>3, <3>1 DEF ChildInv, HasFailed, TypeOK, Before
  <2>4. QED
    BY <1>7, <2>2, <2>3 DEF Stop, LeaveChild
<1>8. CASE AbandonedChildEnds
  BY <1>8 DEF AbandonedChildEnds, ChildInv, HasFailed
<1>9. ASSUME NEW o \in Others, OtherTakes(o) \/ OtherPublishes(o) \/ OtherReleases(o)
      PROVE  ChildInv'
  BY <1>9 DEF OtherTakes, OtherPublishes, OtherReleases, ChildInv, HasFailed
<1>10. CASE SourceAges
  BY <1>10 DEF SourceAges, ChildInv, HasFailed
<1>11. CASE UNCHANGED vars
  BY <1>11 DEF vars, ChildInv, HasFailed
<1>12. QED
  BY <1>2, <1>3, <1>4, <1>5, <1>6, <1>7, <1>8, <1>9, <1>10, <1>11 DEF Next, UnitNext, RunStep

\* A run that stopped waiting for one of its children never reports success, for any
\* steps of its own and of the other processes while the child lives.
THEOREM LeftChildMeansFailure == Spec => []AbandonedChildFailsItsRun
<1>1. Init => ChildInv
  BY DEF Init, ChildInv
<1>2. IInv /\ ChildInv /\ [Next]_vars => ChildInv'
  BY ChildNext
<1>3. ChildInv => AbandonedChildFailsItsRun
  BY DEF ChildInv, AbandonedChildFailsItsRun
<1>4. QED
  BY Invariance, <1>1, <1>2, <1>3, PTL DEF Spec

-----------------------------------------------------------------------------
(* What latest.json says of the published facts.                           *)

\* After its manifest was begun a run only leaves.
Leaving == {"unlock", "unlock_intent", "end", "stopped"}

\* What is published is what latest.json says, or was published since by another
\* program, by a run that stopped, or by the run that owns the lock.
Explained(s) ==
  \/ facts[s] = recorded[latest][s]
  \/ facts[s] \in Others
  \/ facts[s] \in Runs /\ (pc[facts[s]] = "stopped" \/ collection = facts[s])

TruthInv ==
  /\ latest # NoOne => pc[latest] \in Leaving
  /\ \A r \in Runs : pc[r] \in {"manifest", "latest", "unlock"} => recorded[r] = facts
  /\ \A r \in Runs : pc[r] = "unlock" => latest = r
  /\ latest # NoOne => \A s \in Sources : Explained(s)

\* Steps that publish and report nothing, and do not give the lock back.
LEMMA TruthQuiet ==
  ASSUME TypeOK, TruthInv, UNCHANGED <<facts, recorded, latest>>,
         NEW r \in Runs, \A q \in Runs : q # r => pc'[q] = pc[q],
         pc[r] # "stopped", pc'[r] \notin {"manifest", "latest", "unlock"},
         pc[r] \in Leaving => pc'[r] \in Leaving,
         collection' = collection \/ collection = NoOne
  PROVE  TruthInv'
<1>1. latest' # NoOne => pc'[latest'] \in Leaving
  BY DEF TruthInv, TypeOK
<1>2. latest # NoOne => \A s \in Sources : Explained(s)'
  <2> SUFFICES ASSUME latest # NoOne, NEW s \in Sources PROVE Explained(s)'
    OBVIOUS
  <2>1. Explained(s)
    BY DEF TruthInv
  <2>2. CASE facts[s] = recorded[latest][s] \/ facts[s] \in Others
    BY <2>2 DEF Explained
  <2>3. CASE facts[s] \in Runs /\ pc[facts[s]] = "stopped"
    BY <2>3 DEF Explained
  <2>4. CASE facts[s] \in Runs /\ collection = facts[s]
    <3>1. facts[s] # NoOne
      BY <2>4, ConstantsOK DEF Holders
    <3>2. QED
      BY <2>4, <3>1 DEF Explained
  <2>5. QED
    BY <2>1, <2>2, <2>3, <2>4 DEF Explained
<1>3. QED
  BY <1>1, <1>2 DEF TruthInv

\* A step child publishes while its run, the owner, is in the step loop, or as it stops.
LEMMA TruthEffect ==
  ASSUME IInv, TruthInv, NEW r \in Runs, NEW exit \in {"step", "validate", "stopped"},
         pc[r] = "running", ChildEffect(r, NextStep(r), config[r].publish),
         pc' = [pc EXCEPT ![r] = exit], UNCHANGED <<recorded, latest>>,
         exit = "stopped" \/ UNCHANGED collection
  PROVE  TruthInv'
<1> USE DEF IInv
<1>1. collection = r
  BY DEF LockInv, Owning
<1>2. \A s \in Sources : facts'[s] = facts[s] \/ facts'[s] = r
  BY DEF ChildEffect, Publish, TypeOK
<1>3. \A q \in Runs : q # r => pc'[q] = pc[q] /\ pc[q] \notin Owning
  BY <1>1 DEF LockInv, TypeOK
<1>4. pc'[r] = exit
  BY DEF TypeOK
<1>5. latest # NoOne => latest \in Runs /\ latest # r
  BY DEF TruthInv, TypeOK, Leaving
<1>6. latest # NoOne => \A s \in Sources : Explained(s)'
  BY <1>1, <1>2, <1>3, <1>4, <1>5 DEF TruthInv, Explained
<1>7. QED
  BY <1>3, <1>4, <1>5, <1>6 DEF TruthInv, Owning

LEMMA TruthNext ==
  ASSUME ChildOutlives = FALSE, IInv, NoOrphans, TruthInv, [Next]_vars
  PROVE  TruthInv'
<1> USE DEF IInv
<1>1. ASSUME NEW r \in Runs,
             \/ Begin(r) \/ TakeIntent(r) \/ IntentBusy(r) \/ TakeCollection(r) \/ CollectionBusy(r)
             \/ SkipDexDepth(r) \/ StartStep(r) \/ RunnerStops(r) \/ Validate(r) \/ ReleaseIntent(r)
      PROVE  TruthInv'
  <2>1. UNCHANGED <<facts, recorded, latest>> /\ (collection' = collection \/ collection = NoOne)
    BY <1>1 DEF Begin, TakeIntent, IntentBusy, TakeCollection, CollectionBusy, SkipDexDepth,
                StartStep, RunnerStops, Validate, ReleaseIntent, locks, published, reports
  <2>2. /\ pc[r] \in {"idle", "intent", "collection", "step", "running", "validate", "unlock_intent"}
        /\ pc[r] = "unlock_intent" => ReleaseIntent(r)
    BY <1>1 DEF Begin, TakeIntent, IntentBusy, TakeCollection, CollectionBusy, SkipDexDepth,
                StartStep, RunnerStops, Validate, ReleaseIntent
  <2>3. /\ pc'[r] \in {"intent", "collection", "end", "step", "running", "unlock_intent"}
        /\ \A q \in Runs : q # r => pc'[q] = pc[q]
    <3>1. CASE Begin(r)
      BY <3>1 DEF Begin, Goto, TypeOK
    <3>2. CASE SkipDexDepth(r)
      BY <3>2 DEF SkipDexDepth
    <3>3. CASE ~Begin(r) /\ ~SkipDexDepth(r)
      BY <1>1, <3>3 DEF TakeIntent, IntentBusy, TakeCollection, CollectionBusy, StartStep,
                        RunnerStops, Validate, ReleaseIntent, Goto, TypeOK
    <3>4. QED
      BY <3>1, <3>2, <3>3
  <2>4. pc[r] = "unlock_intent" => pc'[r] = "end"
    BY <2>2 DEF ReleaseIntent, Goto, TypeOK
  <2>5. pc[r] # "stopped" /\ (pc[r] \in Leaving => pc'[r] \in Leaving)
    BY <2>2, <2>4 DEF Leaving
  <2>6. QED
    BY <2>1, <2>3, <2>5, TruthQuiet
<1>2. ASSUME NEW r \in Runs, ChildSucceeds(r) \/ ChildFails(r) PROVE TruthInv'
  <2>1. /\ pc[r] = "running"
        /\ \E phase \in {"step", "validate"} : pc' = [pc EXCEPT ![r] = phase]
        /\ UNCHANGED <<collection, recorded, latest>>
    BY <1>2 DEF ChildSucceeds, ChildFails, Goto, locks, reports
  <2>2. CASE UNCHANGED facts
    <3>1. /\ pc'[r] \in {"step", "validate"} /\ \A q \in Runs : q # r => pc'[q] = pc[q]
          /\ pc[r] \notin Leaving
      BY <2>1 DEF TypeOK, Leaving
    <3>2. QED
      BY <2>1, <2>2, <3>1, TruthQuiet
  <2>3. CASE ChildEffect(r, NextStep(r), config[r].publish)
    BY <2>1, <2>3, TruthEffect
  <2>4. QED
    BY <1>2, <2>2, <2>3 DEF ChildSucceeds, ChildFails, published
<1>3. ASSUME NEW r \in Runs, Conclude(r) PROVE TruthInv'
  <2>1. /\ pc[r] = "step" /\ pc'[r] = "manifest" /\ \A q \in Runs : q # r => pc'[q] = pc[q]
        /\ recorded'[r] = facts /\ \A q \in Runs : q # r => recorded'[q] = recorded[q]
        /\ UNCHANGED <<facts, latest, collection>>
    BY <1>3 DEF Conclude, Goto, TypeOK, published, locks
  <2>2. latest # NoOne => latest \in Runs /\ latest # r
    BY <2>1 DEF TruthInv, TypeOK, Leaving
  <2>3. collection = r
    BY <2>1 DEF LockInv, Owning
  <2>4. latest # NoOne => \A s \in Sources : Explained(s)'
    BY <2>1, <2>2, <2>3 DEF TruthInv, Explained
  <2>5. QED
    BY <2>1, <2>2, <2>4 DEF TruthInv
<1>4. ASSUME NEW r \in Runs, WriteManifest(r) PROVE TruthInv'
  <2>1. /\ pc[r] = "manifest" /\ pc'[r] = "latest" /\ \A q \in Runs : q # r => pc'[q] = pc[q]
        /\ UNCHANGED <<facts, recorded, latest, collection>>
    BY <1>4 DEF WriteManifest, Goto, TypeOK, published, locks
  <2>2. latest # NoOne => latest \in Runs /\ latest # r
    BY <2>1 DEF TruthInv, TypeOK, Leaving
  <2>3. collection = r
    BY <2>1 DEF LockInv, Owning
  <2>4. latest # NoOne => \A s \in Sources : Explained(s)'
    BY <2>1, <2>2, <2>3 DEF TruthInv, Explained
  <2>5. QED
    BY <2>1, <2>2, <2>4 DEF TruthInv
<1>5. ASSUME NEW r \in Runs, WriteLatest(r) PROVE TruthInv'
  <2>1. /\ pc[r] = "latest" /\ pc'[r] = "unlock" /\ \A q \in Runs : q # r => pc'[q] = pc[q]
        /\ latest' = r /\ UNCHANGED <<facts, recorded, collection>>
    BY <1>5 DEF WriteLatest, Goto, TypeOK, published, locks
  <2>2. \A q \in Runs : q # r => pc[q] \notin Owning
    BY <2>1 DEF LockInv, Owning
  <2>3. recorded[r] = facts
    BY <2>1 DEF TruthInv
  <2>4. QED
    BY <2>1, <2>2, <2>3 DEF TruthInv, Explained, Owning, Leaving
<1>6. ASSUME NEW r \in Runs, ReleaseCollection(r) PROVE TruthInv'
  <2>1. /\ pc[r] = "unlock" /\ pc'[r] \in {"unlock_intent", "end"}
        /\ \A q \in Runs : q # r => pc'[q] = pc[q]
        /\ UNCHANGED <<facts, recorded, latest>>
    BY <1>6 DEF ReleaseCollection, Goto, TypeOK, published, reports
  <2>2. latest = r /\ recorded[r] = facts
    BY <2>1 DEF TruthInv
  <2>3. \A q \in Runs : q # r => pc[q] \notin Owning
    BY <2>1 DEF LockInv, Owning
  <2>4. QED
    BY <2>1, <2>2, <2>3 DEF TruthInv, Explained, Owning, Leaving
<1>7. ASSUME NEW r \in Runs, Stop(r) PROVE TruthInv'
  <2>1. /\ pc' = [pc EXCEPT ![r] = "stopped"] /\ UNCHANGED <<recorded, latest>>
        /\ collection' = collection \/ collection = r
    BY <1>7 DEF Stop, Goto, reports
  <2>2. CASE UNCHANGED facts
    <3>1. pc'[r] = "stopped" /\ \A q \in Runs : q # r => pc'[q] = pc[q]
      BY <2>1 DEF TypeOK
    <3>2. latest # NoOne => \A s \in Sources : Explained(s)'
      BY <2>1, <2>2, <3>1 DEF TruthInv, Explained
    <3>3. latest' # NoOne => pc'[latest'] \in Leaving
      BY <2>1, <3>1 DEF TruthInv, TypeOK, Leaving
    <3>4. QED
      BY <2>1, <2>2, <3>1, <3>2, <3>3 DEF TruthInv
  <2>3. CASE pc[r] = "running" /\ ChildEffect(r, NextStep(r), config[r].publish)
    BY <2>1, <2>3, TruthEffect
  <2>4. QED
    BY <1>7, <2>2, <2>3 DEF Stop, published
<1>8. ASSUME NEW o \in Others, OtherTakes(o) \/ OtherReleases(o) PROVE TruthInv'
  <2>1. /\ UNCHANGED <<pc, facts, recorded, latest>> /\ collection \notin Runs
    BY <1>8, ConstantsOK DEF OtherTakes, OtherReleases, published, reports, Holders
  <2>2. latest # NoOne => \A s \in Sources : Explained(s)'
    BY <2>1 DEF TruthInv, Explained
  <2>3. QED
    BY <2>1, <2>2 DEF TruthInv
<1>9. ASSUME NEW o \in Others, OtherPublishes(o) PROVE TruthInv'
  <2>1. /\ UNCHANGED <<pc, recorded, latest, collection>> /\ collection = o /\ o \notin Runs
    BY <1>9, ConstantsOK DEF OtherPublishes, locks, reports
  <2>2. \A s \in Sources : facts'[s] = facts[s] \/ facts'[s] = o
    BY <1>9 DEF OtherPublishes, Publish, TypeOK
  <2>3. latest # NoOne => \A s \in Sources : Explained(s)'
    BY <2>1, <2>2 DEF TruthInv, Explained
  <2>4. \A q \in Runs : pc[q] \notin Owning
    BY <2>1 DEF LockInv
  <2>5. QED
    BY <2>1, <2>3, <2>4 DEF TruthInv, Owning
<1>10. CASE AbandonedChildEnds
  BY <1>10 DEF AbandonedChildEnds, NoOrphans
<1>11. ASSUME UNCHANGED <<pc, facts, recorded, latest, collection>> PROVE TruthInv'
  <2>1. \A s \in Sources : Explained(s)' = Explained(s)
    BY <1>11 DEF Explained
  <2>2. QED
    BY <1>11, <2>1 DEF TruthInv
<1>12. CASE SourceAges
  BY <1>11, <1>12 DEF SourceAges, locks, reports
<1>13. CASE UNCHANGED vars
  BY <1>11, <1>13 DEF vars, locks, published, reports
<1>14. QED
  BY <1>1, <1>2, <1>3, <1>4, <1>5, <1>6, <1>7, <1>8, <1>9, <1>10, <1>12, <1>13
  DEF Next, UnitNext, RunStep

\* When no step child survives its runner, and nobody holds the lock, latest.json tells
\* the truth about every source that no other program and no stopped run has published.
THEOREM LatestTellsTheTruth ==
  ASSUME ChildOutlives = FALSE
  PROVE  Spec => []LatestDescribesFacts
<1>1. Init => NoOrphans
  BY DEF Init, NoOrphans
<1>2. Spec => []NoOrphans
  BY <1>1, NoOrphansNext, PTL DEF Spec
<1>3. Init => TruthInv
  BY DEF Init, TruthInv
<1>4. IInv /\ NoOrphans /\ TruthInv /\ [Next]_vars => TruthInv'
  BY TruthNext
<1>5. TruthInv => LatestDescribesFacts
  BY ConstantsOK DEF TruthInv, Explained, LatestDescribesFacts, Holders
<1>6. QED
  BY Invariance, <1>2, <1>3, <1>4, <1>5, PTL DEF Spec

-----------------------------------------------------------------------------
(* A run only goes forward.                                                *)

\* How far a run has come: its phase, and in the step loop the steps it has recorded.
Rank(r) ==
  CASE pc[r] = "idle"          -> 0
    [] pc[r] = "intent"        -> 1
    [] pc[r] = "collection"    -> 2
    [] pc[r] = "step"          -> 3 * Len(results[r]) + 3
    [] pc[r] = "running"       -> 3 * Len(results[r]) + 4
    [] pc[r] = "validate"      -> 3 * Len(results[r]) + 5
    [] pc[r] = "manifest"      -> 19
    [] pc[r] = "latest"        -> 20
    [] pc[r] = "unlock"        -> 21
    [] pc[r] = "unlock_intent" -> 22
    [] OTHER                   -> 23

\* No step of the system takes a run back, and every step of its own takes it forward.
Advancing ==
  \A r \in Runs : /\ Rank(r) <= Rank(r)'
                  /\ Begin(r) \/ RunStep(r) \/ Stop(r) => Rank(r) < Rank(r)'

RankBounded == \A r \in Runs : Rank(r) \in 0 .. 23

\* The longest profile has five steps.
LEMMA LongestProfile ==
  ASSUME NEW profile \in DOMAIN ProfileSteps
  PROVE  Len(ProfileSteps[profile]) <= 5
<1>1. DOMAIN ProfileSteps =
        {"full", "daily", "tvl", "depth", "cex_depth", "dex_depth", "routes"}
  BY DEF ProfileSteps
<1>2. CASE profile = "full"      BY <1>2 DEF ProfileSteps
<1>3. CASE profile = "daily"     BY <1>3 DEF ProfileSteps
<1>4. CASE profile = "tvl"       BY <1>4 DEF ProfileSteps
<1>5. CASE profile = "depth"     BY <1>5 DEF ProfileSteps
<1>6. CASE profile = "cex_depth" BY <1>6 DEF ProfileSteps
<1>7. CASE profile = "dex_depth" BY <1>7 DEF ProfileSteps
<1>8. CASE profile = "routes"    BY <1>8 DEF ProfileSteps
<1> QED BY <1>1, <1>2, <1>3, <1>4, <1>5, <1>6, <1>7, <1>8

LEMMA ResultsAreFew ==
  ASSUME IInv, NEW r \in Runs
  PROVE  /\ Len(results[r]) \in Nat /\ Len(results[r]) <= 5
         /\ Len(Steps(r)) \in Nat
         /\ pc[r] \in Phases
         /\ pc[r] \in {"running", "validate"} => Len(results[r]) < 5
<1>1. Steps(r) \in Seq(StepNames) /\ Len(Steps(r)) <= 5
  BY StepsType, LongestProfile DEF IInv, Steps, TypeOK, ConfigSet
<1>2. Len(Steps(r)) \in Nat /\ Len(results[r]) \in Nat /\ pc[r] \in Phases
  BY <1>1, LenProperties DEF IInv, TypeOK
<1>3. Len(results[r]) <= Len(Steps(r))
  BY DEF IInv, StepInv
<1>4. pc[r] \in {"running", "validate"} => Len(results[r]) < Len(Steps(r))
  BY DEF IInv, StepInv
<1> QED BY <1>1, <1>2, <1>3, <1>4

\* A step that is recorded takes the run out of the step it was in.
LEMMA RecordedAdvances ==
  ASSUME IInv, NEW r \in Runs, NEW exit \in Exits, Finished(r, exit),
         pc[r] \in {"step", "running", "validate"}, pc'[r] = "step",
         Len(results[r]) < Len(Steps(r))
  PROVE  Rank(r) < Rank(r)'
<1>1. Len(results'[r]) = Len(results[r]) + 1
  BY FinishedType DEF IInv
<1>2. Len(results[r]) \in Nat
  BY ResultsAreFew
<1>3. Rank(r)' = 3 * Len(results[r]) + 6
  BY <1>1, <1>2 DEF Rank
<1> QED BY <1>2, <1>3 DEF Rank

LEMMA OwnStepAdvances ==
  ASSUME IInv, NEW r \in Runs, Begin(r) \/ RunStep(r) \/ Stop(r)
  PROVE  Rank(r) < Rank(r)'
<1>1. /\ Len(results[r]) \in Nat /\ Len(results[r]) <= 5
      /\ Len(Steps(r)) \in Nat /\ Len(results[r]) <= Len(Steps(r))
      /\ pc[r] \in Phases /\ pc \in [Runs -> Phases]
  BY ResultsAreFew DEF IInv, TypeOK, StepInv
<1>2. CASE Begin(r)
  <2>1. pc[r] = "idle" /\ pc'[r] \in {"intent", "collection"}
    BY <1>1, <1>2 DEF Begin, Goto
  <2> QED BY <2>1 DEF Rank
<1>3. CASE TakeIntent(r) \/ IntentBusy(r)
  <2>1. pc[r] = "intent" /\ pc'[r] \in {"collection", "end"}
    BY <1>1, <1>3 DEF TakeIntent, IntentBusy, Goto
  <2> QED BY <2>1 DEF Rank
<1>4. CASE TakeCollection(r)
  <2>1. pc[r] = "collection" /\ pc'[r] = "step" /\ results' = results
    BY <1>1, <1>4 DEF TakeCollection, Goto
  <2> QED BY <1>1, <2>1 DEF Rank
<1>5. CASE CollectionBusy(r)
  <2>1. pc[r] = "collection" /\ pc'[r] \in {"unlock_intent", "end"}
    BY <1>1, <1>5 DEF CollectionBusy, Goto
  <2> QED BY <2>1 DEF Rank
<1>6. CASE SkipDexDepth(r)
  <2>1. pc[r] = "step" /\ pc'[r] = "step" /\ Finished(r, 4) /\ ~ StepsDone(r)
    BY <1>6 DEF SkipDexDepth
  <2>2. Len(results[r]) < Len(Steps(r))
    BY <1>1, <2>1 DEF StepsDone
  <2> QED BY <2>1, <2>2, RecordedAdvances DEF Exits
<1>7. CASE StartStep(r)
  <2>1. pc[r] = "step" /\ pc'[r] = "running" /\ results' = results
    BY <1>1, <1>7 DEF StartStep, Goto
  <2> QED BY <1>1, <2>1 DEF Rank
<1>8. CASE ChildSucceeds(r)
  <2>1. pc[r] = "running" /\ pc'[r] = "validate" /\ results' = results
    BY <1>1, <1>8 DEF ChildSucceeds, Goto
  <2> QED BY <1>1, <2>1 DEF Rank
<1>9. CASE ChildFails(r) \/ RunnerStops(r) \/ Validate(r)
  <2>1. pc[r] \in {"running", "validate"} /\ pc'[r] = "step"
    BY <1>1, <1>9 DEF ChildFails, RunnerStops, Validate, Goto
  <2>2. \E exit \in Exits : Finished(r, exit)
    BY <1>9 DEF ChildFails, RunnerStops, Validate, Exits
  <2>3. Len(results[r]) < Len(Steps(r))
    BY <2>1 DEF IInv, StepInv
  <2> QED BY <2>1, <2>2, <2>3, RecordedAdvances
<1>10. CASE Conclude(r)
  <2>1. pc[r] = "step" /\ pc'[r] = "manifest"
    BY <1>1, <1>10 DEF Conclude, Goto
  <2> QED BY <1>1, <2>1 DEF Rank
<1>11. CASE WriteManifest(r)
  <2>1. pc[r] = "manifest" /\ pc'[r] = "latest"
    BY <1>1, <1>11 DEF WriteManifest, Goto
  <2> QED BY <2>1 DEF Rank
<1>12. CASE WriteLatest(r)
  <2>1. pc[r] = "latest" /\ pc'[r] = "unlock"
    BY <1>1, <1>12 DEF WriteLatest, Goto
  <2> QED BY <2>1 DEF Rank
<1>13. CASE ReleaseCollection(r)
  <2>1. pc[r] = "unlock" /\ pc'[r] \in {"unlock_intent", "end"}
    BY <1>1, <1>13 DEF ReleaseCollection, Goto
  <2> QED BY <2>1 DEF Rank
<1>14. CASE ReleaseIntent(r)
  <2>1. pc[r] = "unlock_intent" /\ pc'[r] = "end"
    BY <1>1, <1>14 DEF ReleaseIntent, Goto
  <2> QED BY <2>1 DEF Rank
<1>15. CASE Stop(r)
  <2>1. pc[r] \notin {"end", "stopped"} /\ pc'[r] = "stopped"
    BY <1>1, <1>15 DEF Stop, Goto
  <2>2. Rank(r)' = 23
    BY <2>1 DEF Rank
  <2>3. pc[r] \in {"running", "validate"} => Len(results[r]) < 5
    BY ResultsAreFew
  <2>4. Rank(r) < 23
    BY <1>1, <2>1, <2>3 DEF Rank, Phases
  <2> QED BY <2>2, <2>4
<1> QED BY <1>2, <1>3, <1>4, <1>5, <1>6, <1>7, <1>8, <1>9, <1>10, <1>11, <1>12, <1>13, <1>14,
           <1>15 DEF RunStep

\* A step of one run, or of the rest of the system, leaves the other runs where they are.
LEMMA OthersStay ==
  ASSUME IInv, NEW r \in Runs, Begin(r) \/ RunStep(r) \/ Stop(r), NEW q \in Runs, q # r
  PROVE  pc'[q] = pc[q] /\ results'[q] = results[q]
<1>1. pc \in [Runs -> Phases]
  BY DEF IInv, TypeOK
<1>2. \A exit : Finished(r, exit) => results'[q] = results[q]
  BY DEF Finished, IInv, TypeOK
<1>3. pc'[q] = pc[q]
  BY <1>1 DEF Begin, RunStep, TakeIntent, IntentBusy, TakeCollection, CollectionBusy,
    SkipDexDepth, StartStep, ChildSucceeds, ChildFails, RunnerStops, Validate, Conclude,
    WriteManifest, WriteLatest, ReleaseCollection, ReleaseIntent, Stop, Goto
<1>4. results'[q] = results[q]
  BY <1>2 DEF Begin, RunStep, TakeIntent, IntentBusy, TakeCollection, CollectionBusy,
    SkipDexDepth, StartStep, ChildSucceeds, ChildFails, RunnerStops, Validate, Conclude,
    WriteManifest, WriteLatest, ReleaseCollection, ReleaseIntent, Stop
<1> QED BY <1>3, <1>4

LEMMA RankIsNumber == IInv => RankBounded
<1> SUFFICES ASSUME IInv, NEW r \in Runs PROVE Rank(r) \in 0 .. 23
  BY DEF RankBounded
<1>1. /\ Len(results[r]) \in Nat /\ Len(results[r]) <= 5 /\ pc[r] \in Phases
  BY ResultsAreFew
<1>2. CASE pc[r] \in {"step", "running", "validate"}
  <2>1. Rank(r) \in Nat /\ Rank(r) <= 23
    BY <1>1, <1>2 DEF Rank
  <2> QED BY <2>1
<1>3. CASE pc[r] \notin {"step", "running", "validate"}
  <2>1. Rank(r) \in {0, 1, 2, 19, 20, 21, 22, 23}
    BY <1>1, <1>3 DEF Rank, Phases
  <2> QED BY <2>1
<1> QED BY <1>2, <1>3

LEMMA AdvancingNext == IInv /\ [Next]_vars => Advancing
<1> SUFFICES ASSUME IInv, [Next]_vars, NEW r \in Runs PROVE Rank(r) <= Rank(r)'
  BY OwnStepAdvances DEF Advancing
<1>1. Rank(r) \in 0 .. 23
  BY RankIsNumber DEF RankBounded
<1>2. ASSUME pc'[r] = pc[r], results'[r] = results[r] PROVE Rank(r) <= Rank(r)'
  <2>1. Rank(r)' = Rank(r)
    BY <1>2 DEF Rank
  <2> QED BY <1>1, <2>1
<1>3. ASSUME NEW q \in Runs, Begin(q) \/ RunStep(q) \/ Stop(q) PROVE Rank(r) <= Rank(r)'
  <2>1. CASE q = r
    <3>1. Rank(r) < Rank(r)'
      BY <1>3, <2>1, OwnStepAdvances
    <3>2. Rank(r)' \in Int
      <4>1. IInv'
        BY TypeNext, StepNext, LockNext DEF IInv
      <4>2. RankBounded'
        BY <4>1, RankIsNumber, PTL
      <4> QED BY <4>2 DEF RankBounded
    <3> QED BY <1>1, <3>1, <3>2
  <2>2. CASE q # r
    BY <1>2, <1>3, <2>2, OthersStay
  <2> QED BY <2>1, <2>2
<1>4. ASSUME NEW o \in Others, OtherTakes(o) \/ OtherPublishes(o) \/ OtherReleases(o)
      PROVE  Rank(r) <= Rank(r)'
  BY <1>2, <1>4 DEF OtherTakes, OtherPublishes, OtherReleases
<1>5. CASE SourceAges \/ AbandonedChildEnds \/ UNCHANGED vars
  BY <1>2, <1>5 DEF SourceAges, AbandonedChildEnds, vars
<1> QED BY <1>3, <1>4, <1>5 DEF Next, UnitNext

\* A run of the cycle makes at most 23 steps of its own, whatever fails, stops or is
\* refused: no retry, no loop and no other process takes it back (scripts/run_collection_cycle.py,
\* run_collection_cycle).  Whether it makes the next step is fairness.
THEOREM RunsOnlyAdvance == Spec => []RankBounded /\ [][Advancing]_vars
<1>1. IInv /\ [Next]_vars => [Advancing]_vars
  BY AdvancingNext
<1> QED BY <1>1, RankIsNumber, Invariance, PTL DEF Spec

-----------------------------------------------------------------------------
(* The protocol of collection.lock.                                        *)

Locked == INSTANCE LockedFacts WITH owner <- collection, publisher <- facts

LEMMA LockedInit == Init => Locked!Init
BY DEF Init, NoFacts, Locked!Init

\* A step child replaces facts only for its run.
LEMMA EffectReplaces ==
  ASSUME TypeOK, NEW h \in Holders, collection = h, NEW s, NEW b,
         ChildEffect(h, s, b) \/ UNCHANGED facts \/ \E a \in BOOLEAN : Publish(h, s, a)
  PROVE  facts' \in Locked!Replaced
BY DEF TypeOK, ChildEffect, Publish, Locked!Replaced

LEMMA LockedNext ==
  ChildOutlives = FALSE /\ IInv /\ NoOrphans /\ [Next]_vars
    => [Locked!Next]_<<collection, facts>>
<1> SUFFICES ASSUME ChildOutlives = FALSE, IInv, NoOrphans, [Next]_vars
             PROVE  [Locked!Next]_<<collection, facts>>
  OBVIOUS
<1>1. TypeOK /\ LockInv
  BY DEF IInv
<1>2. ASSUME UNCHANGED <<collection, facts>> PROVE [Locked!Next]_<<collection, facts>>
  BY <1>2
<1>3. ASSUME NEW h \in Holders, collection = h, collection' = h, facts' \in Locked!Replaced
      PROVE  [Locked!Next]_<<collection, facts>>
  BY <1>3 DEF Locked!Next, Locked!Publish
<1>4. ASSUME NEW h \in Holders, collection = h, collection' = NoOne, facts' \in Locked!Replaced
      PROVE  [Locked!Next]_<<collection, facts>>
  BY <1>4 DEF Locked!Next, Locked!Release
<1>5. ASSUME NEW h \in Holders, collection = NoOne, collection' = h, UNCHANGED facts
      PROVE  [Locked!Next]_<<collection, facts>>
  BY <1>5 DEF Locked!Next, Locked!Take
<1>6. ASSUME NEW h \in Holders, collection = h, UNCHANGED facts PROVE facts' \in Locked!Replaced
  BY <1>1, <1>6, EffectReplaces
<1>7. ASSUME NEW r \in Runs, Begin(r) \/ RunStep(r) \/ Stop(r)
      PROVE  [Locked!Next]_<<collection, facts>>
  <2>0. r \in Holders
    BY DEF Holders
  <2>1. CASE Begin(r) \/ TakeIntent(r) \/ IntentBusy(r) \/ CollectionBusy(r) \/ ReleaseIntent(r)
    BY <1>2, <2>1 DEF Begin, TakeIntent, IntentBusy, CollectionBusy, ReleaseIntent, locks, published
  <2>2. CASE TakeCollection(r)
    BY <1>5, <2>0, <2>2 DEF TakeCollection, published
  <2>3. CASE SkipDexDepth(r) \/ StartStep(r) \/ RunnerStops(r) \/ Validate(r)
    BY <1>2, <2>3 DEF SkipDexDepth, StartStep, RunnerStops, Validate, locks, published
  <2>4. CASE Conclude(r) \/ WriteManifest(r) \/ WriteLatest(r)
    BY <1>2, <2>4 DEF Conclude, WriteManifest, WriteLatest, locks, published
  <2>5. CASE ChildSucceeds(r) \/ ChildFails(r)
    <3>1. pc[r] = "running" /\ UNCHANGED collection
      BY <2>5 DEF ChildSucceeds, ChildFails, locks
    <3>2. ChildEffect(r, NextStep(r), config[r].publish) \/ UNCHANGED facts
      BY <2>5 DEF ChildSucceeds, ChildFails, published
    <3>3. collection = r
      BY <1>1, <3>1 DEF LockInv, Owning
    <3> QED BY <1>1, <1>3, <2>0, <3>1, <3>2, <3>3, EffectReplaces
  <2>6. CASE ReleaseCollection(r)
    <3>1. pc[r] = "unlock" /\ collection' = NoOne /\ UNCHANGED facts
      BY <2>6 DEF ReleaseCollection, published
    <3>2. collection = r
      BY <1>1, <3>1 DEF LockInv, Owning
    <3> QED BY <1>4, <1>6, <2>0, <3>1, <3>2
  <2>7. CASE Stop(r)
    <3>1. collection' = IF collection = r THEN NoOne ELSE collection
      BY <2>7 DEF Stop
    <3>2. \/ pc[r] = "running" /\ ChildEffect(r, NextStep(r), config[r].publish)
          \/ UNCHANGED facts
      BY <2>7 DEF Stop, published
    <3>3. pc[r] = "running" => collection = r
      BY <1>1 DEF LockInv, Owning
    <3>4. CASE collection = r
      <4>1. facts' \in Locked!Replaced
        BY <1>1, <2>0, <3>2, <3>4, EffectReplaces
      <4> QED BY <1>4, <2>0, <3>1, <3>4, <4>1
    <3>5. CASE collection # r
      BY <1>2, <3>1, <3>2, <3>3, <3>5
    <3> QED BY <3>4, <3>5
  <2> QED BY <1>7, <2>1, <2>2, <2>3, <2>4, <2>5, <2>6, <2>7 DEF RunStep
<1>8. ASSUME NEW o \in Others, OtherTakes(o) \/ OtherPublishes(o) \/ OtherReleases(o)
      PROVE  [Locked!Next]_<<collection, facts>>
  <2>0. o \in Holders
    BY DEF Holders
  <2>1. CASE OtherTakes(o)
    BY <1>5, <2>0, <2>1 DEF OtherTakes, published
  <2>2. CASE OtherPublishes(o)
    <3>1. collection = o /\ collection' = o /\ \E a \in BOOLEAN : Publish(o, "daily", a)
      BY <2>2 DEF OtherPublishes, locks
    <3> QED BY <1>1, <1>3, <2>0, <3>1, EffectReplaces
  <2>3. CASE OtherReleases(o)
    BY <1>4, <1>6, <2>0, <2>3 DEF OtherReleases, published
  <2> QED BY <1>8, <2>1, <2>2, <2>3
<1>9. CASE SourceAges \/ AbandonedChildEnds \/ UNCHANGED vars
  BY <1>2, <1>9 DEF SourceAges, AbandonedChildEnds, NoOrphans, vars, locks, published
<1> QED BY <1>7, <1>8, <1>9 DEF Next, UnitNext

\* Runs of the cycle and the other programs implement the protocol of collection.lock, as
\* in a systemd unit, where no step child outlives its runner.
THEOREM CycleIsLocked == ASSUME ChildOutlives = FALSE PROVE Spec => Locked!Spec
<1>1. Init => NoOrphans
  BY DEF Init, NoOrphans
<1>2. Spec => []NoOrphans
  BY <1>1, NoOrphansNext, PTL DEF Spec
<1>3. IInv /\ NoOrphans /\ [Next]_vars => [Locked!Next]_<<collection, facts>>
  BY LockedNext
<1> QED BY <1>2, <1>3, LockedInit, Invariance, PTL DEF Spec, Locked!Spec
=============================================================================
