------------------------------ MODULE RouteCohort ------------------------------
(***************************************************************************)
(* scripts/collect_route_cohort.py, collect_route_cohort: one call collects *)
(* the legs of its routes in child processes before a deadline.  A CEX leg *)
(* is a task of its venue; the DEX legs of a chain become tasks once the   *)
(* resolver of the chain has fixed their block.  The parent submits tasks  *)
(* under the limits of their sources, waits for answers, kills what is     *)
(* left, and moves the evidence of the completed legs to accepted/.        *)
(*                                                                         *)
(* A row, its evidence and its typed payloads are the market they are of.  *)
(* The round robin between sources is a free choice among the tasks that   *)
(* may be submitted.  Wall clock and monotonic clock run alike.            *)
(***************************************************************************)
EXTENDS Naturals, FiniteSets

CONSTANTS
  Cex, Dex,          \* the markets of the selected routes
  Source,            \* the venue or the chain of each
  WorkerLimits,      \* the values max_workers may have
  PerVenue,          \* cex_workers_per_venue
  PerChain,          \* dex_workers_per_chain
  Unkillable         \* TRUE: a child may outlast the wait that follows its SIGKILL

Markets == Cex \cup Dex
Chains  == {Source[m] : m \in Dex}      \* a chain also names the task of its resolver
Tasks   == Markets \cup Chains

ASSUME RoutesOK ==
  /\ Cex \cap Dex = {} /\ Chains \cap Markets = {}
  /\ IsFiniteSet(Tasks)
  /\ WorkerLimits \subseteq Nat \ {0}
  /\ PerVenue \in Nat \ {0} /\ PerChain \in Nat \ {0}
  /\ Unkillable \in BOOLEAN

Phases  == {"submit", "loop", "batch", "cleanup", "check", "promote", "returned", "raised"}
Answers == {"none", "row", "failed", "late", "error", "unstarted"}

VARIABLES
  pc,
  workers,     \* max_workers of this call
  due,         \* the deadline has passed
  moved,       \* the input generation is no longer the expected one
  pending,     \* tasks not yet submitted
  futures,     \* tasks submitted and not yet looked at
  batch,       \* of these, the ones the last wait returned
  answer,      \* what the pipe of each task holds
  alive,       \* tasks whose child process is alive
  raising,     \* an exception is on its way out of the loop
  blocks,      \* chains with a fixed block
  completed, terminal, expired,   \* the markets by outcome
  todo,        \* completed markets whose evidence is still to be promoted
  accepted     \* markets with evidence in accepted/

work     == <<pending, futures, batch, raising>>
children == <<answer, alive>>
outcomes == <<completed, terminal, expired, blocks>>
evidence == <<todo, accepted>>
world    == <<workers, due, moved>>
vars == <<pc, work, children, outcomes, evidence, world>>

Init ==
  /\ pc = "submit"
  /\ workers \in WorkerLimits
  /\ due = FALSE
  /\ moved = FALSE
  /\ pending = Cex \cup Chains
  /\ futures = {}
  /\ batch = {}
  /\ answer = [t \in Tasks |-> "none"]
  /\ alive = {}
  /\ raising = FALSE
  /\ blocks = {}
  /\ completed = {} /\ terminal = {} /\ expired = {}
  /\ todo = {} /\ accepted = {}

\* the DEX markets of a set of chains
LegsOf(chains) == {m \in Dex : Source[m] \in chains}

\* Faulty variant: the name of the item stands for its markets.
MarketsOfItem(tasks) == tasks

\* the markets a set of tasks stands for
MarketsOf(tasks) == (tasks \cap Markets) \cup LegsOf(tasks)

-----------------------------------------------------------------------------
(* submit_fairly and the executor.                                         *)

Rivals(t) ==
  CASE t \in Cex    -> {f \in futures \cap Cex : Source[f] = Source[t]}
    [] t \in Dex    -> {f \in futures \cap Dex : Source[f] = Source[t]}
    [] t \in Chains -> futures \cap {t}

Limit(t) == CASE t \in Cex -> PerVenue [] t \in Dex -> PerChain [] t \in Chains -> 1

\* Faulty variant: only a CEX leg that is submitted counts.
CexWorkActive == futures \cap Cex # {}

\* Faulty variant: work remains until every CEX leg has a row.
CexWorkWithoutRow == Cex \ completed # {}

CexWorkOutstanding == (pending \cup futures) \cap Cex # {}

NonCexCapacity == IF CexWorkOutstanding THEN workers - 1 ELSE workers

Eligible ==
  {t \in pending : /\ Cardinality(Rivals(t)) < Limit(t)
                   /\ t \in Cex \/ Cardinality(futures \ Cex) < NonCexCapacity}

Submitting == pc = "submit" /\ Cardinality(futures) < workers /\ Eligible # {}

\* The process is forked; or fork fails, which is the answer of the future.
Submit ==
  /\ Submitting
  /\ Cardinality(alive) < workers
  /\ \E t \in Eligible :
       /\ pending' = pending \ {t}
       /\ futures' = futures \cup {t}
       /\ \/ alive' = alive \cup {t} /\ UNCHANGED answer
          \/ answer' = [answer EXCEPT ![t] = "unstarted"] /\ UNCHANGED alive
  /\ UNCHANGED <<pc, batch, raising, outcomes, evidence, world>>

\* A child that could not be killed still counts as a live worker; the check for other
\* threads and the pipe may fail at any time.
SubmitRefused ==
  /\ Submitting
  /\ \E t \in Eligible : pending' = pending \ {t}
  /\ raising' = TRUE
  /\ pc' = "cleanup"
  /\ UNCHANGED <<futures, batch, children, outcomes, evidence, world>>

Submitted ==
  /\ pc = "submit"
  /\ ~Submitting
  /\ pc' = "loop"
  /\ UNCHANGED <<work, children, outcomes, evidence, world>>

\* collect_one and resolve_one return a row, a reason, or that the deadline has passed; or
\* something they do not catch is sent as an error.
ChildAnswers(t) ==
  /\ t \in alive
  /\ answer[t] = "none"
  /\ \E a \in {"failed", "error"} \cup (IF due THEN {"late"} ELSE {"row"}) :
       answer' = [answer EXCEPT ![t] = a]
  /\ UNCHANGED <<pc, work, alive, outcomes, evidence, world>>

\* A child ends after its answer, or dies and leaves an end of file.
ChildExits(t) ==
  /\ t \in alive
  /\ alive' = alive \ {t}
  /\ answer' = IF answer[t] = "none" THEN [answer EXCEPT ![t] = "error"] ELSE answer
  /\ UNCHANGED <<pc, work, outcomes, evidence, world>>

-----------------------------------------------------------------------------
(* The loop.                                                               *)

\* wait_for_any returns futures that are done already before it looks at the pipes
Ready == LET unstarted == {t \in futures : answer[t] = "unstarted"}
         IN  IF unstarted # {} THEN unstarted ELSE {t \in futures : answer[t] # "none"}

\* No time is left, or the wait used it up, or there is nothing to wait for.
LoopEnds ==
  /\ pc = "loop"
  /\ futures = {} \/ due
  /\ pc' = "cleanup"
  /\ UNCHANGED <<work, children, outcomes, evidence, world>>

\* A child that has answered is joined, terminated and killed, a fraction of a second each.
Wait ==
  /\ pc = "loop"
  /\ Ready # {}
  /\ batch' = Ready
  /\ \E stuck \in SUBSET (IF Unkillable THEN alive \cap Ready ELSE {}) :
       alive' = (alive \ Ready) \cup stuck
  /\ pc' = "batch"
  /\ UNCHANGED <<pending, futures, raising, answer, outcomes, evidence, world>>

\* An answer that cannot be read is one that says the child failed; an error of another
\* kind leaves the loop with the future still open.
ReadFails ==
  /\ pc = "loop"
  /\ Ready # {}
  /\ \A t \in Ready : answer[t] # "unstarted"
  /\ raising' = TRUE
  /\ pc' = "cleanup"
  /\ UNCHANGED <<pending, futures, batch, children, outcomes, evidence, world>>

Pop(t) ==
  /\ pc = "batch"
  /\ t \in batch
  /\ futures' = futures \ {t}
  /\ batch' = batch \ {t}

\* An answer that is looked at after the deadline does not count.
TooLate(t) ==
  /\ Pop(t)
  /\ due \/ answer[t] = "late"
  /\ expired' = expired \cup MarketsOf({t})
  /\ UNCHANGED <<pc, pending, raising, children, completed, terminal, blocks, evidence, world>>

TakeBlock(t) ==
  /\ Pop(t)
  /\ ~due
  /\ t \in Chains
  /\ answer[t] = "row"
  /\ blocks' = blocks \cup {t}
  /\ pending' = pending \cup LegsOf({t})
  /\ UNCHANGED <<pc, raising, children, completed, terminal, expired, evidence, world>>

TakeRow(t) ==
  /\ Pop(t)
  /\ ~due
  /\ t \in Markets
  /\ answer[t] = "row"
  /\ completed' = completed \cup {t}
  /\ UNCHANGED <<pc, pending, raising, children, terminal, expired, blocks, evidence, world>>

TakeReason(t) ==
  /\ Pop(t)
  /\ ~due
  /\ answer[t] = "failed"
  /\ terminal' = terminal \cup MarketsOf({t})
  /\ UNCHANGED <<pc, pending, raising, children, completed, expired, blocks, evidence, world>>

\* future.result() raises what killed the child or kept it from starting.
TakeError(t) ==
  /\ Pop(t)
  /\ ~due
  /\ answer[t] \in {"error", "unstarted"}
  /\ raising' = TRUE
  /\ pc' = "cleanup"
  /\ UNCHANGED <<pending, children, outcomes, evidence, world>>

BatchDone ==
  /\ pc = "batch"
  /\ batch = {}
  /\ pc' = "submit"
  /\ UNCHANGED <<work, children, outcomes, evidence, world>>

-----------------------------------------------------------------------------
(* The finally clause, the recheck of the inputs, the evidence.            *)

\* Faulty variant: work that was never submitted is not looked at.
LeftSubmitted == futures

LeftBehind == futures \cup pending

\* Faulty variant: only the children whose future is still open are looked at.
SurvivorsOfOpenFutures(stuck) == stuck \cap futures

Survivors(stuck) == stuck

\* What is left expires; every child is terminated, joined, killed and joined.
CleanUp ==
  /\ pc = "cleanup"
  /\ expired' = expired \cup MarketsOf(LeftBehind)
  /\ pending' = {} /\ futures' = {} /\ batch' = {}
  /\ \E stuck \in SUBSET (IF Unkillable THEN alive ELSE {}) :
       /\ alive' = stuck
       /\ pc' = IF raising \/ Survivors(stuck) # {} THEN "raised" ELSE "check"
  /\ UNCHANGED <<raising, answer, completed, terminal, blocks, evidence, world>>

InputsChanged ==
  /\ pc = "check"
  /\ moved
  /\ pc' = "raised"
  /\ UNCHANGED <<work, children, outcomes, evidence, world>>

\* A block dated after the end of the collection is no block; it was accepted because
\* it is dated before the deadline.
InputsUnchanged ==
  /\ pc = "check"
  /\ ~moved
  /\ \E future \in SUBSET (IF due THEN {} ELSE blocks) :
       /\ blocks' = blocks \ future
       /\ terminal' = terminal \cup LegsOf(future)
       /\ completed' = completed \ LegsOf(future)
       /\ todo' = completed \ LegsOf(future)
  /\ pc' = "promote"
  /\ UNCHANGED <<work, children, expired, accepted, world>>

\* The directories of the run are no longer the ones that were created.
RunUnsafe ==
  /\ pc = "promote"
  /\ accepted = {} /\ todo = completed
  /\ terminal' = terminal \cup completed
  /\ completed' = {}
  /\ todo' = {}
  /\ UNCHANGED <<pc, work, children, expired, blocks, accepted, world>>

\* A row may come without a response to keep.
Promote(m) ==
  /\ pc = "promote"
  /\ m \in todo
  /\ todo' = todo \ {m}
  /\ \/ accepted' = accepted \cup {m}
     \/ UNCHANGED accepted
  /\ UNCHANGED <<pc, work, children, outcomes, world>>

\* The evidence is refused, or was promoted, found changed and rolled back.
EvidenceRefused(m) ==
  /\ pc = "promote"
  /\ m \in todo
  /\ todo' = todo \ {m}
  /\ terminal' = terminal \cup {m}
  /\ completed' = completed \ {m}
  /\ UNCHANGED <<pc, work, children, expired, blocks, accepted, world>>

\* An error of the run's directories ends the call as well.
RollbackUnverified(m) ==
  /\ pc = "promote"
  /\ m \in todo
  /\ \/ accepted' = accepted \cup {m}
     \/ UNCHANGED accepted
  /\ pc' = "raised"
  /\ UNCHANGED <<work, children, outcomes, todo, world>>

\* The payloads are compared with the rows once more.
Return ==
  /\ pc = "promote"
  /\ todo = {}
  /\ pc' \in {"returned", "raised"}
  /\ UNCHANGED <<work, children, outcomes, evidence, world>>

-----------------------------------------------------------------------------

Collecting == pc \in {"submit", "loop", "batch", "cleanup"}

\* After the finally clause nobody looks at the deadline, after the recheck at the inputs.
DeadlinePasses ==
  /\ Collecting
  /\ ~due
  /\ due' = TRUE
  /\ UNCHANGED <<pc, work, children, outcomes, evidence, workers, moved>>

InputsMove ==
  /\ Collecting
  /\ ~moved
  /\ moved' = TRUE
  /\ UNCHANGED <<pc, work, children, outcomes, evidence, workers, due>>

Next ==
  \/ Submit \/ SubmitRefused \/ Submitted
  \/ LoopEnds \/ Wait \/ ReadFails \/ BatchDone
  \/ \E t \in Tasks : TooLate(t) \/ TakeBlock(t) \/ TakeRow(t) \/ TakeReason(t) \/ TakeError(t)
  \/ CleanUp \/ InputsChanged \/ InputsUnchanged \/ RunUnsafe
  \/ \E m \in Markets : Promote(m) \/ EvidenceRefused(m) \/ RollbackUnverified(m)
  \/ Return
  \/ \E t \in Tasks : ChildAnswers(t) \/ ChildExits(t)
  \/ DeadlinePasses \/ InputsMove

Spec == Init /\ [][Next]_vars

-----------------------------------------------------------------------------

\* The variables have their types.
TypeOK ==
  /\ pc \in Phases
  /\ workers \in WorkerLimits
  /\ due \in BOOLEAN /\ moved \in BOOLEAN /\ raising \in BOOLEAN
  /\ pending \subseteq Tasks /\ futures \subseteq Tasks /\ batch \subseteq futures
  /\ answer \in [Tasks -> Answers]
  /\ alive \subseteq Tasks
  /\ blocks \subseteq Chains
  /\ completed \subseteq Markets /\ terminal \subseteq Markets /\ expired \subseteq Markets
  /\ todo \subseteq completed /\ accepted \subseteq Markets

\* The cohort that is returned has every market exactly once: with its row, with a reason,
\* or as too late; whatever order answers, deadline and failures came in.  Evidence is
\* accepted for rows alone ("never omitted", docs/route-cohort-data-contract.md:183-187).
EveryLegEndsOnce ==
  pc = "returned" =>
    /\ completed \cup terminal \cup expired = Markets
    /\ completed \cap terminal = {}
    /\ (completed \cup terminal) \cap expired = {}
    /\ accepted \subseteq completed

\* Only the deadline makes a leg too late: neither the slot kept for CEX work nor the
\* limit of a source ends the loop while time and work are left, with any number of workers.
OnlyTheDeadlineExpires == expired # {} => due \/ raising

\* While CEX work remains, resolvers and pool calls leave it a worker
\* (docs/route-cohort-data-contract.md:160-167).
CexSlotKept ==
  (pending \cup futures) \cap Cex # {} => Cardinality(futures \ Cex) < workers

\* Nothing is promoted or returned while a child lives that could still write its evidence.
NoWriterLeft == pc \in {"check", "promote", "returned"} => alive = {}
=============================================================================
