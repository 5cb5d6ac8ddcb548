--------------------------- MODULE CollectionCycle ---------------------------
(***************************************************************************)
(* scripts/run_collection_cycle.py: invocations of the coordinated fact    *)
(* collection cycle that contend for primary-intent.lock and               *)
(* collection.lock, run the steps of their profile as child processes,     *)
(* gate each published step on freshness, and leave a manifest and         *)
(* latest.json behind.  The other programs that take collection.lock       *)
(* (exact backfill, administrator worker, identity migration) are holders  *)
(* that publish while they own it.                                         *)
(*                                                                         *)
(* A fact source is represented by the process that published it last; the *)
(* contents of CSV files, snapshots and logs are abstracted away.          *)
(***************************************************************************)
EXTENDS Naturals, Sequences

CONSTANTS
  Runs,           \* invocations of run_collection_cycle
  Others,         \* invocations of the other programs that lock collection.lock
  Configs,        \* the argument vectors a run may be started with
  NoOne,          \* nobody holds the lock / nothing published by these processes
  ChildOutlives   \* TRUE: a step child survives its interrupted step runner
                  \* (FALSE of a systemd unit, whose processes end together)

Holders == Runs \cup Others

StepNames == {"lifecycle", "daily", "depth", "tvl", "dex_price", "dex_depth", "routes"}

ProfileSteps ==
  [ full      |-> <<"lifecycle", "daily", "depth", "tvl", "dex_depth">>,
    daily     |-> <<"lifecycle", "daily", "tvl">>,
    tvl       |-> <<"tvl">>,
    depth     |-> <<"depth", "dex_price", "dex_depth">>,
    cex_depth |-> <<"depth">>,
    dex_depth |-> <<"dex_price", "dex_depth">>,
    routes    |-> <<"routes">> ]

PriceSteps == {"tvl", "dex_price"}          \* both rewrite the DEX USD-price input
Sources    == StepNames \ {"dex_price"}     \* what a step may publish, named for it
Exits      == {0, 1, 3, 4, 130}

\* profile; --publish-local; --market-id; a token or date override; --fail-fast.
\* An exact market refresh publishes one snapshot family.
ConfigSet ==
  {c \in [profile : DOMAIN ProfileSteps, publish : BOOLEAN, exact : BOOLEAN,
          override : BOOLEAN, failFast : BOOLEAN] :
     c.exact => c.publish /\ c.profile \in {"tvl", "cex_depth", "dex_depth"}}

Phases == {"idle", "intent", "collection", "step", "running", "validate",
           "manifest", "latest", "unlock", "unlock_intent", "end", "stopped"}

Results == {"none", "skipped_locked", "succeeded", "failed"}

ASSUME ConstantsOK ==
  /\ Configs \subseteq ConfigSet
  /\ Runs \cap Others = {}
  /\ NoOne \notin Holders
  /\ ChildOutlives \in BOOLEAN

VARIABLES
  intent,      \* owner of the flock on primary-intent.lock
  collection,  \* owner of the flock on collection.lock
  pc,          \* where each run is
  config,      \* its arguments
  results,     \* step_results of each run
  status,      \* the status it reports
  children,    \* step children whose runner stopped waiting for them
  facts,       \* who published each source last
  current,     \* sources the freshness gate would accept now
  price,       \* who wrote the processed DEX price input last
  depthPrice,  \* whose price input the published DEX depth was computed from
  recorded,    \* the facts each manifest describes
  manifests,   \* runs in the order their manifest.json was written
  latest       \* the run latest.json describes

locks     == <<intent, collection>>
published == <<facts, current, price, depthPrice>>
reports   == <<recorded, manifests, latest>>
vars == <<locks, pc, config, results, status, children, published, reports>>

NoConfig == [profile |-> "tvl", publish |-> FALSE, exact |-> FALSE,
             override |-> FALSE, failFast |-> FALSE]
NoFacts == [s \in Sources |-> NoOne]

Init ==
  /\ intent = NoOne
  /\ collection = NoOne
  /\ pc = [r \in Runs |-> "idle"]
  /\ config = [r \in Runs |-> NoConfig]
  /\ results = [r \in Runs |-> <<>>]
  /\ status = [r \in Runs |-> "none"]
  /\ children = {}
  /\ facts = NoFacts
  /\ current = {}
  /\ price = NoOne
  /\ depthPrice = NoOne
  /\ recorded = [r \in Runs |-> NoFacts]
  /\ manifests = <<>>
  /\ latest = NoOne

-----------------------------------------------------------------------------
(* The lock domain: intent, then collection, neither waited for.           *)

Primary(r) == config[r].profile \in {"daily", "depth"}

Goto(r, phase) == pc' = [pc EXCEPT ![r] = phase]

\* The arguments are validated and the step commands built before any lock.
Begin(r) ==
  /\ pc[r] = "idle"
  /\ \E c \in Configs :
       /\ config' = [config EXCEPT ![r] = c]
       /\ Goto(r, IF c.profile \in {"daily", "depth"} THEN "intent" ELSE "collection")
  /\ UNCHANGED <<locks, results, status, children, published, reports>>

TakeIntent(r) ==
  /\ pc[r] = "intent"
  /\ intent = NoOne
  /\ intent' = r
  /\ Goto(r, "collection")
  /\ UNCHANGED <<collection, config, results, status, children, published, reports>>

IntentBusy(r) ==
  /\ pc[r] = "intent"
  /\ intent # NoOne
  /\ status' = [status EXCEPT ![r] = "skipped_locked"]
  /\ Goto(r, "end")
  /\ UNCHANGED <<locks, config, results, children, published, reports>>

\* Faulty variant: the flock result is ignored.
TakeCollectionUnchecked(r) ==
  /\ pc[r] = "collection"
  /\ collection' = r
  /\ Goto(r, "step")
  /\ UNCHANGED <<intent, config, results, status, children, published, reports>>

TakeCollection(r) ==
  /\ pc[r] = "collection"
  /\ collection = NoOne
  /\ collection' = r
  /\ Goto(r, "step")
  /\ UNCHANGED <<intent, config, results, status, children, published, reports>>

\* Faulty variant: the early return does not reach the release of the intent lock.
CollectionBusyKeepsIntent(r) ==
  /\ pc[r] = "collection"
  /\ collection # NoOne
  /\ status' = [status EXCEPT ![r] = "skipped_locked"]
  /\ Goto(r, "end")
  /\ UNCHANGED <<locks, config, results, children, published, reports>>

\* Faulty variant: LOCK_NB is dropped, the run waits for the lock.
CollectionBusyWaits(r) ==
  /\ pc[r] = "collection"
  /\ FALSE
  /\ UNCHANGED vars

CollectionBusy(r) ==
  /\ pc[r] = "collection"
  /\ collection # NoOne
  /\ status' = [status EXCEPT ![r] = "skipped_locked"]
  /\ Goto(r, IF Primary(r) THEN "unlock_intent" ELSE "end")
  /\ UNCHANGED <<locks, config, results, children, published, reports>>

ReleaseCollection(r) ==
  /\ pc[r] = "unlock"
  /\ collection' = NoOne
  /\ Goto(r, IF Primary(r) THEN "unlock_intent" ELSE "end")
  /\ UNCHANGED <<intent, config, results, status, children, published, reports>>

ReleaseIntent(r) ==
  /\ pc[r] = "unlock_intent"
  /\ intent' = NoOne
  /\ Goto(r, "end")
  /\ UNCHANGED <<collection, config, results, status, children, published, reports>>

-----------------------------------------------------------------------------
(* The step loop.                                                          *)

Steps(r)    == ProfileSteps[config[r].profile]
NextStep(r) == Steps(r)[Len(results[r]) + 1]
LastResult(r) == results[r][Len(results[r])]

Interrupted(r) ==
  /\ results[r] # <<>>
  /\ \/ LastResult(r).exit = 130
     \/ config[r].failFast /\ LastResult(r).exit # 0

StepsDone(r) == Len(results[r]) = Len(Steps(r)) \/ Interrupted(r)

\* Faulty variant: the exit code of the price step is not looked at.
MissingPriceNever(r) == FALSE

MissingPrice(r) ==
  /\ NextStep(r) = "dex_depth"
  /\ results[r] # <<>>
  /\ LastResult(r).step \in PriceSteps
  /\ LastResult(r).exit # 0

Finished(r, exit) ==
  results' = [results EXCEPT ![r] = Append(@, [step |-> NextStep(r), exit |-> exit])]

\* dex_depth is not attempted without the price input this run has refreshed
SkipDexDepth(r) ==
  /\ pc[r] = "step"
  /\ ~StepsDone(r)
  /\ MissingPrice(r)
  /\ Finished(r, 4)
  /\ UNCHANGED <<locks, pc, config, status, children, published, reports>>

StartStep(r) ==
  /\ pc[r] = "step"
  /\ ~StepsDone(r)
  /\ ~MissingPrice(r)
  /\ Goto(r, "running")
  /\ UNCHANGED <<locks, config, results, status, children, published, reports>>

\* The child of process p, running step s, replaces what it publishes; "accepted"
\* says whether the freshness gate would accept the publication.
Publish(p, s, accepted) ==
  /\ facts' = [facts EXCEPT ![s] = p]
  /\ current' = IF accepted THEN current \cup {s} ELSE current \ {s}
  /\ depthPrice' = IF s = "dex_depth" THEN price ELSE depthPrice
  /\ price' = IF s = "tvl" THEN p ELSE price

\* What a child may have done by the time it ends: replaced its publication,
\* replaced only the processed price input, or nothing.
ChildEffect(p, s, publishes) ==
  \/ /\ publishes
     /\ s \in Sources
     /\ \E accepted \in BOOLEAN : Publish(p, s, accepted)
  \/ /\ s \in PriceSteps
     /\ price' = p
     /\ UNCHANGED <<facts, current, depthPrice>>

\* A price step that exits zero has written the price input.
ChildSucceeds(r) ==
  /\ pc[r] = "running"
  /\ \/ ChildEffect(r, NextStep(r), config[r].publish)
     \/ NextStep(r) \notin PriceSteps /\ UNCHANGED published
  /\ Goto(r, "validate")
  /\ UNCHANGED <<locks, config, results, status, children, reports>>

ChildFails(r) ==
  /\ pc[r] = "running"
  /\ \/ ChildEffect(r, NextStep(r), config[r].publish)
     \/ UNCHANGED published
  /\ \E exit \in {1, 130} : Finished(r, exit)
  /\ Goto(r, "step")
  /\ UNCHANGED <<locks, config, status, children, reports>>

LeaveChild(r) == children' = children \cup {[run |-> r, step |-> NextStep(r)]}

\* KeyboardInterrupt or an I/O error in the runner itself: the step is recorded
\* as failed, and nothing terminates or awaits the child.
RunnerStops(r) ==
  /\ pc[r] = "running"
  /\ \E exit \in {1, 130} : Finished(r, exit)
  /\ IF ChildOutlives THEN LeaveChild(r) ELSE UNCHANGED children
  /\ Goto(r, "step")
  /\ UNCHANGED <<locks, config, status, published, reports>>

\* A child nobody waits for runs to its end.
AbandonedChildEnds ==
  /\ \E c \in children :
       /\ children' = children \ {c}
       /\ \/ ChildEffect(c.run, c.step, config[c.run].publish)
          \/ UNCHANGED published
  /\ UNCHANGED <<locks, pc, config, results, status, reports>>

ShouldValidate(r) ==
  /\ config[r].publish
  /\ ~config[r].exact
  /\ NextStep(r) \notin {"dex_price", "routes"}
  /\ NextStep(r) = "daily" => ~config[r].override

Validate(r) ==
  /\ pc[r] = "validate"
  /\ \/ /\ NextStep(r) = "routes"          \* the cohort report in the log is checked
        /\ \E exit \in {0, 3} : Finished(r, exit)
     \/ /\ NextStep(r) # "routes"
        /\ Finished(r, IF ShouldValidate(r) /\ NextStep(r) \notin current THEN 3 ELSE 0)
  /\ Goto(r, "step")
  /\ UNCHANGED <<locks, config, status, children, published, reports>>

-----------------------------------------------------------------------------
(* The end of a run: status, manifest.json, latest.json, locks.            *)

\* Faulty variant: only the last step decides.
LastStepPassed(r) ==
  /\ Len(results[r]) = Len(Steps(r))
  /\ LastResult(r).exit = 0

AllStepsPassed(r) ==
  /\ Len(results[r]) = Len(Steps(r))
  /\ \A i \in DOMAIN results[r] : results[r][i].exit = 0

\* Faulty variant: an unreadable publication is a third status.
ConcludeInvalid(r) ==
  /\ pc[r] = "step"
  /\ StepsDone(r)
  /\ \E readable \in BOOLEAN :
       status' = [status EXCEPT ![r] =
                    IF ~readable THEN "invalid"
                    ELSE IF AllStepsPassed(r) THEN "succeeded" ELSE "failed"]
  /\ recorded' = [recorded EXCEPT ![r] = facts]
  /\ Goto(r, "manifest")
  /\ UNCHANGED <<locks, config, results, children, published, manifests, latest>>

\* "readable": the published files still validate after the last step
Conclude(r) ==
  /\ pc[r] = "step"
  /\ StepsDone(r)
  /\ \E readable \in BOOLEAN :
       status' = [status EXCEPT ![r] =
                    IF AllStepsPassed(r) /\ readable THEN "succeeded" ELSE "failed"]
  /\ recorded' = [recorded EXCEPT ![r] = facts]
  /\ Goto(r, "manifest")
  /\ UNCHANGED <<locks, config, results, children, published, manifests, latest>>

\* Faulty variant: the lock is given back before latest.json is written.
WriteManifestUnlocks(r) ==
  /\ pc[r] = "manifest"
  /\ manifests' = Append(manifests, r)
  /\ collection' = NoOne
  /\ Goto(r, "latest")
  /\ UNCHANGED <<intent, config, results, status, children, published, recorded, latest>>

WriteManifest(r) ==
  /\ pc[r] = "manifest"
  /\ manifests' = Append(manifests, r)
  /\ Goto(r, "latest")
  /\ UNCHANGED <<locks, config, results, status, children, published, recorded, latest>>

\* Faulty variant: latest.json is kept for successful runs only.
WriteLatestIfSucceeded(r) ==
  /\ pc[r] = "latest"
  /\ latest' = IF status[r] = "succeeded" THEN r ELSE latest
  /\ Goto(r, "unlock")
  /\ UNCHANGED <<locks, config, results, status, children, published, recorded, manifests>>

WriteLatest(r) ==
  /\ pc[r] = "latest"
  /\ latest' = r
  /\ Goto(r, "unlock")
  /\ UNCHANGED <<locks, config, results, status, children, published, recorded, manifests>>

\* An exception that leaves the cycle, or the death of the process group: the
\* descriptors are closed and with them both locks.  A step child that was
\* running may already have done its work, or may be left behind.
Stop(r) ==
  /\ pc[r] \notin {"idle", "end", "stopped"}
  /\ intent' = IF intent = r THEN NoOne ELSE intent
  /\ collection' = IF collection = r THEN NoOne ELSE collection
  /\ \/ /\ pc[r] = "running"
        /\ ChildEffect(r, NextStep(r), config[r].publish)
        /\ UNCHANGED children
     \/ /\ pc[r] = "running"
        /\ ChildOutlives
        /\ LeaveChild(r)
        /\ UNCHANGED published
     \/ UNCHANGED <<published, children>>
  /\ Goto(r, "stopped")
  /\ UNCHANGED <<config, results, status, reports>>

-----------------------------------------------------------------------------
(* The rest of the system.                                                 *)

OtherTakes(o) ==
  /\ collection = NoOne
  /\ collection' = o
  /\ UNCHANGED <<intent, pc, config, results, status, children, published, reports>>

OtherPublishes(o) ==
  /\ collection = o
  /\ \E accepted \in BOOLEAN : Publish(o, "daily", accepted)
  /\ UNCHANGED <<locks, pc, config, results, status, children, reports>>

OtherReleases(o) ==
  /\ collection = o
  /\ collection' = NoOne
  /\ UNCHANGED <<intent, pc, config, results, status, children, published, reports>>

\* Time passes: a source crosses its freshness threshold.
SourceAges ==
  /\ \E s \in current : current' = current \ {s}
  /\ UNCHANGED <<locks, pc, config, results, status, children,
                 facts, price, depthPrice, reports>>

RunStep(r) ==
  \/ TakeIntent(r)   \/ IntentBusy(r)     \/ TakeCollection(r) \/ CollectionBusy(r)
  \/ SkipDexDepth(r) \/ StartStep(r)      \/ ChildSucceeds(r)  \/ ChildFails(r)
  \/ RunnerStops(r)  \/ Validate(r)       \/ Conclude(r)       \/ WriteManifest(r)
  \/ WriteLatest(r)  \/ ReleaseCollection(r) \/ ReleaseIntent(r)

\* A step child dies with its runner, as in a systemd unit: it is never left behind.
UnitNext ==
  \/ \E r \in Runs : Begin(r) \/ RunStep(r) \/ Stop(r)
  \/ \E o \in Others : OtherTakes(o) \/ OtherPublishes(o) \/ OtherReleases(o)
  \/ SourceAges

Next == UnitNext \/ AbandonedChildEnds

Spec     == Init /\ [][Next]_vars
UnitSpec == Init /\ [][UnitNext]_vars

-----------------------------------------------------------------------------
(* Properties.                                                             *)

\* Every variable has its type.
TypeOK ==
  /\ intent \in Runs \cup {NoOne}
  /\ collection \in Holders \cup {NoOne}
  /\ pc \in [Runs -> Phases]
  /\ config \in [Runs -> ConfigSet]
  /\ results \in [Runs -> Seq([step : StepNames, exit : Exits])]
  /\ status \in [Runs -> Results]
  /\ children \subseteq [run : Runs, step : StepNames]
  /\ facts \in [Sources -> Holders \cup {NoOne}]
  /\ current \subseteq Sources
  /\ price \in Holders \cup {NoOne}
  /\ depthPrice \in Holders \cup {NoOne}
  /\ recorded \in [Runs -> [Sources -> Holders \cup {NoOne}]]
  /\ manifests \in Seq(Runs)
  /\ latest \in Runs \cup {NoOne}

\* A process changes published facts only while it owns collection.lock
\* (docs/collection-operations.md, "Lock and manifest").
OnlyTheHolderPublishes ==
  [][\A s \in Sources : facts'[s] # facts[s] => collection = facts'[s]]_vars

\* A DEX depth publication of a run was computed from a price input that the
\* same run, or nobody in between, has written: the price step directly before
\* dex_depth passed and the lock was never given away.
DepthUsesOwnPrice ==
  \A r \in Runs : facts["dex_depth"] = r => depthPrice = r

\* latest.json always describes the most recent manifest, except for a run that
\* is about to write it or stopped just before it could.
LatestIsNewestManifest ==
  manifests # <<>> /\ latest # manifests[Len(manifests)]
    => pc[manifests[Len(manifests)]] \in {"latest", "stopped"}

\* When nobody holds the lock, what latest.json says of the published facts is
\* true, but for sources published by another program or by a stopped run.
LatestDescribesFacts ==
  collection = NoOne /\ latest # NoOne
    => \A s \in Sources :
         \/ facts[s] = recorded[latest][s]
         \/ facts[s] \in Others
         \/ facts[s] \in Runs /\ pc[facts[s]] = "stopped"

\* A run that stopped waiting for one of its children never reports success.
AbandonedChildFailsItsRun ==
  \A c \in children : status[c.run] # "succeeded"

\* Every run that has begun comes to an end.
EveryRunEnds == \A r \in Runs : pc[r] # "idle" ~> pc[r] \in {"end", "stopped"}

\* Whatever is refused, fails or stops, both locks are free again and again.
LocksComeFree == []<>(intent = NoOne) /\ []<>(collection = NoOne)
=============================================================================
