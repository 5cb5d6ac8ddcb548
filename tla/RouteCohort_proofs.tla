--------------------------- MODULE RouteCohort_proofs ---------------------------
(***************************************************************************)
(* Theorems about RouteCohort: the outcomes of a returned cohort, what     *)
(* makes a leg expire, the worker kept for CEX work, and the children.     *)
(***************************************************************************)
EXTENDS RouteCohort, FiniteSetTheorems, TLAPS

\* While tasks are left, and no exception is on its way, they and the outcomes cover the
\* markets; a task never stands for a market that has an outcome, or that another task is.
Ledger ==
  /\ ~raising => Markets = completed \cup terminal \cup expired \cup MarketsOf(pending \cup futures)
  /\ completed \cap terminal = {}
  /\ (completed \cup terminal) \cap expired = {}
  /\ (completed \cup terminal \cup expired) \cap MarketsOf(pending \cup futures) = {}
  /\ pending \cap futures = {}
  /\ \A m \in Dex : m \in pending \cup futures => Source[m] \notin pending \cup futures

\* The finally clause leaves no task, and only a call without an exception goes on.
Cleaned ==
  /\ ~Collecting => pending = {} /\ futures = {}
  /\ pc \in {"check", "promote", "returned"} => ~raising
  /\ Collecting \/ pc = "check" => todo = {} /\ accepted = {}
  /\ pc = "returned" => todo = {}
  /\ pc # "raised" => accepted \subseteq completed /\ accepted \cap todo = {}

\* The loop ends with work left only when time is up or an exception was raised.
Deadline ==
  /\ \A t \in Tasks : answer[t] = "late" => due
  /\ pc = "loop" /\ futures = {} => pending = {}
  /\ pc = "cleanup" => raising \/ due \/ pending \cup futures = {}
  /\ OnlyTheDeadlineExpires

IInv == TypeOK /\ Ledger /\ Cleaned /\ Deadline

-----------------------------------------------------------------------------

\* A market is never a chain, and the markets of a set are those of its parts.
LEMMA MarketFacts ==
  /\ \A S, T : MarketsOf(S \cup T) = MarketsOf(S) \cup MarketsOf(T)
  /\ \A S : MarketsOf(S) \subseteq Markets
  /\ MarketsOf({}) = {}
  /\ MarketsOf(Cex \cup Chains) = Markets
  /\ \A m \in Markets : MarketsOf({m}) = {m}
  /\ \A c \in Chains : MarketsOf({c}) = LegsOf({c})
  /\ \A S : LegsOf(S) \subseteq Dex /\ LegsOf(S) \subseteq Markets
  /\ \A c \in Chains : MarketsOf(LegsOf({c})) = LegsOf({c})
  BY RoutesOK DEF MarketsOf, LegsOf, Markets, Chains

\* Two tasks that are not a leg and the resolver of its chain stand for different markets.
LEMMA TasksAreApart ==
  ASSUME NEW S, NEW t \in S, S \subseteq Tasks,
         \A m \in Dex : m \in S => Source[m] \notin S
  PROVE  MarketsOf({t}) \cap MarketsOf(S \ {t}) = {}
  BY RoutesOK DEF MarketsOf, LegsOf, Markets, Chains, Tasks

LEMMA FiniteTasks ==
  ASSUME NEW S, S \subseteq Tasks
  PROVE  IsFiniteSet(S) /\ Cardinality(S) \in Nat
  BY RoutesOK, FS_Subset, FS_CardinalityType

-----------------------------------------------------------------------------

LEMMA TypeInit == Init => TypeOK
  BY RoutesOK DEF Init, TypeOK, Phases, Answers, Tasks, Markets

\* Every step keeps the types.
LEMMA TypeNext == TypeOK /\ [Next]_vars => TypeOK'
<1> SUFFICES ASSUME TypeOK, [Next]_vars PROVE TypeOK'
  OBVIOUS
<1> USE DEF TypeOK, Phases, Answers, work, children, outcomes, evidence, world
<1>1. CASE Submit
  BY <1>1 DEF Submit, Eligible
<1>2. CASE SubmitRefused
  BY <1>2 DEF SubmitRefused
<1>3. CASE Submitted
  BY <1>3 DEF Submitted
<1>4. CASE LoopEnds
  BY <1>4 DEF LoopEnds
<1>5. CASE Wait \/ ReadFails
  BY <1>5 DEF Wait, ReadFails, Ready
<1>6. CASE BatchDone
  BY <1>6 DEF BatchDone
<1>7. ASSUME NEW t \in Tasks, TooLate(t) PROVE TypeOK'
  <2>1. MarketsOf({t}) \subseteq Markets
    BY MarketFacts
  <2>2. QED
    BY <1>7, <2>1 DEF TooLate, Pop
<1>8. ASSUME NEW t \in Tasks, TakeBlock(t) PROVE TypeOK'
  <2>1. LegsOf({t}) \subseteq Tasks
    BY MarketFacts DEF Tasks
  <2>2. QED
    BY <1>8, <2>1 DEF TakeBlock, Pop
<1>9. ASSUME NEW t \in Tasks, TakeRow(t) PROVE TypeOK'
  BY <1>9 DEF TakeRow, Pop
<1>10. ASSUME NEW t \in Tasks, TakeReason(t) PROVE TypeOK'
  <2>1. MarketsOf({t}) \subseteq Markets
    BY MarketFacts
  <2>2. QED
    BY <1>10, <2>1 DEF TakeReason, Pop
<1>11. ASSUME NEW t \in Tasks, TakeError(t) PROVE TypeOK'
  BY <1>11 DEF TakeError, Pop
<1>12. CASE CleanUp
  <2>1. MarketsOf(LeftBehind) \subseteq Markets
    BY MarketFacts
  <2>2. QED
    BY <1>12, <2>1 DEF CleanUp
<1>13. CASE InputsChanged
  BY <1>13 DEF InputsChanged
<1>14. CASE InputsUnchanged
  <2>1. PICK future \in SUBSET (IF due THEN {} ELSE blocks) :
          /\ blocks' = blocks \ future
          /\ terminal' = terminal \cup LegsOf(future)
          /\ completed' = completed \ LegsOf(future)
          /\ todo' = completed \ LegsOf(future)
    BY <1>14 DEF InputsUnchanged
  <2>2. LegsOf(future) \subseteq Markets
    BY MarketFacts
  <2>3. QED
    BY <1>14, <2>1, <2>2 DEF InputsUnchanged
<1>15. CASE RunUnsafe
  BY <1>15 DEF RunUnsafe
<1>16. ASSUME NEW m \in Markets, Promote(m) PROVE TypeOK'
  BY <1>16 DEF Promote
<1>17. ASSUME NEW m \in Markets, EvidenceRefused(m) PROVE TypeOK'
  BY <1>17 DEF EvidenceRefused
<1>18. ASSUME NEW m \in Markets, RollbackUnverified(m) PROVE TypeOK'
  BY <1>18 DEF RollbackUnverified
<1>19. CASE Return
  BY <1>19 DEF Return
<1>20. ASSUME NEW t \in Tasks, ChildAnswers(t) PROVE TypeOK'
  BY <1>20 DEF ChildAnswers
<1>21. ASSUME NEW t \in Tasks, ChildExits(t) PROVE TypeOK'
  BY <1>21 DEF ChildExits
<1>22. CASE DeadlinePasses
  BY <1>22 DEF DeadlinePasses
<1>23. CASE InputsMove
  BY <1>23 DEF InputsMove
<1>24. CASE UNCHANGED vars
  BY <1>24 DEF vars
<1>25. QED
  BY <1>1, <1>2, <1>3, <1>4, <1>5, <1>6, <1>7, <1>8, <1>9, <1>10, <1>11, <1>12, <1>13, <1>14,
     <1>15, <1>16, <1>17, <1>18, <1>19, <1>20, <1>21, <1>22, <1>23, <1>24 DEF Next

-----------------------------------------------------------------------------

LEMMA LedgerInit == Init => Ledger /\ Cleaned
<1> SUFFICES ASSUME Init PROVE Ledger /\ Cleaned
  OBVIOUS
<1>1. pending \cup futures = Cex \cup Chains
  BY DEF Init
<1>2. MarketsOf(pending \cup futures) = Markets
  BY <1>1, MarketFacts
<1>3. \A m \in Dex : m \notin Cex \cup Chains
  BY RoutesOK DEF Markets
<1>4. Ledger
  BY <1>1, <1>2, <1>3 DEF Init, Ledger
<1>5. Cleaned
  BY DEF Init, Cleaned, Collecting
<1>6. QED
  BY <1>4, <1>5

\* Taking a task off the list takes its markets off what the list stands for.
LEMMA PopApart ==
  ASSUME TypeOK, Ledger, NEW t \in Tasks, Pop(t), pending' = pending
  PROVE  /\ (pending \cup futures)' = (pending \cup futures) \ {t}
         /\ MarketsOf(pending \cup futures)
              = MarketsOf({t}) \cup MarketsOf((pending \cup futures)')
         /\ MarketsOf({t}) \cap MarketsOf((pending \cup futures)') = {}
<1>1. t \in futures /\ t \notin pending
  BY DEF Pop, Ledger, TypeOK
<1>2. (pending \cup futures)' = (pending \cup futures) \ {t}
  BY <1>1 DEF Pop
<1>3. pending \cup futures = {t} \cup ((pending \cup futures) \ {t})
  BY <1>1
<1>4. MarketsOf(pending \cup futures) = MarketsOf({t}) \cup MarketsOf((pending \cup futures) \ {t})
  BY <1>3, MarketFacts
<1>5. MarketsOf({t}) \cap MarketsOf((pending \cup futures) \ {t}) = {}
  <2>1. pending \cup futures \subseteq Tasks /\ t \in pending \cup futures
    BY <1>1 DEF TypeOK
  <2>2. QED
    BY <2>1, TasksAreApart DEF Ledger
<1>6. QED
  BY <1>2, <1>4, <1>5

\* Every step keeps the ledger.
LEMMA LedgerNext == IInv /\ [Next]_vars => Ledger'
<1> SUFFICES ASSUME IInv, [Next]_vars PROVE Ledger'
  OBVIOUS
<1>0. TypeOK /\ Ledger /\ Cleaned /\ Deadline
  BY DEF IInv
<1> DEFINE W == pending \cup futures
<1>1. CASE Submit
  <2>1. W' = W /\ pending' \cap futures' = {}
    BY <1>0, <1>1 DEF Submit, Eligible, Ledger
  <2>2. UNCHANGED <<completed, terminal, expired, raising>>
    BY <1>1 DEF Submit, outcomes
  <2>3. QED
    BY <1>0, <2>1, <2>2 DEF Ledger
<1>2. CASE SubmitRefused
  <2>1. PICK t \in Eligible : pending' = pending \ {t}
    BY <1>2 DEF SubmitRefused
  <2>2. W' \subseteq W /\ raising' = TRUE /\ W = W' \cup (W \ W')
    BY <1>2, <2>1 DEF SubmitRefused
  <2>3. MarketsOf(W') \subseteq MarketsOf(W)
    BY <2>2, MarketFacts
  <2>4. UNCHANGED <<completed, terminal, expired>>
    BY <1>2 DEF SubmitRefused, outcomes
  <2>5. pending' \cap futures' = {}
    BY <1>0, <1>2, <2>1 DEF SubmitRefused, Ledger
  <2>6. QED
    BY <1>0, <2>2, <2>3, <2>4, <2>5 DEF Ledger
<1>3. ASSUME UNCHANGED <<pending, futures, completed, terminal, expired>>,
             raising => raising'
      PROVE  Ledger'
  BY <1>0, <1>3 DEF Ledger, MarketsOf, LegsOf
<1>4. CASE Submitted \/ LoopEnds \/ Wait \/ ReadFails \/ BatchDone
  BY <1>3, <1>4 DEF Submitted, LoopEnds, Wait, ReadFails, BatchDone, work, outcomes
<1>5. ASSUME NEW t \in Tasks, TooLate(t) PROVE Ledger'
  <2>1. Pop(t) /\ pending' = pending
    BY <1>5 DEF TooLate
  <2>2. expired' = expired \cup MarketsOf({t}) /\ UNCHANGED <<completed, terminal, raising>>
    BY <1>5 DEF TooLate
  <2>3. pending' \cap futures' = {}
    BY <1>0, <2>1 DEF Ledger, Pop
  <2>4. QED
    BY <1>0, <2>1, <2>2, <2>3, PopApart DEF Ledger
<1>6. ASSUME NEW t \in Tasks, TakeReason(t) PROVE Ledger'
  <2>1. Pop(t) /\ pending' = pending
    BY <1>6 DEF TakeReason
  <2>2. terminal' = terminal \cup MarketsOf({t}) /\ UNCHANGED <<completed, expired, raising>>
    BY <1>6 DEF TakeReason
  <2>3. pending' \cap futures' = {}
    BY <1>0, <2>1 DEF Ledger, Pop
  <2>4. QED
    BY <1>0, <2>1, <2>2, <2>3, PopApart DEF Ledger
<1>7. ASSUME NEW t \in Tasks, TakeRow(t) PROVE Ledger'
  <2>1. Pop(t) /\ pending' = pending
    BY <1>7 DEF TakeRow
  <2>2. completed' = completed \cup MarketsOf({t}) /\ UNCHANGED <<terminal, expired, raising>>
    BY <1>7, MarketFacts DEF TakeRow
  <2>3. pending' \cap futures' = {}
    BY <1>0, <2>1 DEF Ledger, Pop
  <2>4. QED
    BY <1>0, <2>1, <2>2, <2>3, PopApart DEF Ledger
<1>8. ASSUME NEW t \in Tasks, TakeError(t) PROVE Ledger'
  <2>1. Pop(t) /\ pending' = pending /\ raising' = TRUE
    BY <1>8 DEF TakeError
  <2>2. UNCHANGED <<completed, terminal, expired>>
    BY <1>8 DEF TakeError, outcomes
  <2>3. pending' \cap futures' = {}
    BY <1>0, <2>1 DEF Ledger, Pop
  <2>4. QED
    BY <1>0, <2>1, <2>2, <2>3, PopApart DEF Ledger
<1>9. ASSUME NEW t \in Tasks, TakeBlock(t) PROVE Ledger'
  <2>1. t \in Chains /\ t \in futures /\ t \in W
    BY <1>0, <1>9 DEF TakeBlock, Pop, TypeOK
  <2>2. W' = (W \ {t}) \cup LegsOf({t})
    BY <1>0, <1>9, <2>1 DEF TakeBlock, Pop, Ledger
  <2>3. UNCHANGED <<completed, terminal, expired, raising>>
    BY <1>9 DEF TakeBlock
  <2>4. W = (W \ {t}) \cup {t}
    BY <2>1
  <2>5. MarketsOf(W) = MarketsOf(W \ {t}) \cup MarketsOf({t})
    BY <2>4, MarketFacts
  <2>6. MarketsOf(W') = MarketsOf(W \ {t}) \cup MarketsOf(LegsOf({t}))
    <3>1. MarketsOf((W \ {t}) \cup LegsOf({t})) = MarketsOf(W \ {t}) \cup MarketsOf(LegsOf({t}))
      BY MarketFacts
    <3> HIDE DEF W
    <3>2. QED
      BY <2>2, <3>1
  <2>7. MarketsOf(W') = MarketsOf(W)
    BY <2>1, <2>5, <2>6, MarketFacts
  <2>8. pending' \cap futures' = {}
    <3>1. LegsOf({t}) \cap futures = {}
      BY <1>0, <2>1 DEF Ledger, LegsOf
    <3>2. QED
      BY <1>0, <1>9, <3>1 DEF TakeBlock, Pop, Ledger
  <2>9. \A m \in Dex : m \in W' => Source[m] \notin W'
    <3> SUFFICES ASSUME NEW m \in Dex, m \in W' PROVE Source[m] \notin W'
      OBVIOUS
    <3>1. Source[m] \in Chains /\ Source[m] \notin LegsOf({t})
      BY RoutesOK DEF LegsOf, Chains, Markets
    <3>2. CASE m \in LegsOf({t})
      BY <2>2, <3>1, <3>2 DEF LegsOf
    <3>3. CASE m \in W
      BY <1>0, <2>2, <3>1, <3>3 DEF Ledger
    <3>4. QED
      BY <2>2, <3>2, <3>3
  <2>10. QED
    BY <1>0, <2>3, <2>7, <2>8, <2>9 DEF Ledger
<1>10. CASE CleanUp
  <2>1. W' = {} /\ MarketsOf(W') = {}
    BY <1>10, MarketFacts DEF CleanUp
  <2>2. expired' = expired \cup MarketsOf(W)
    <3>1. LeftBehind = W
      BY DEF LeftBehind
    <3>2. QED
      BY <1>10, <3>1 DEF CleanUp
  <2>3. UNCHANGED <<completed, terminal, raising>>
    BY <1>10 DEF CleanUp
  <2>4. QED
    BY <1>0, <2>1, <2>2, <2>3 DEF Ledger
<1>11. CASE InputsUnchanged
  <2>1. PICK future \in SUBSET (IF due THEN {} ELSE blocks) :
          /\ terminal' = terminal \cup LegsOf(future)
          /\ completed' = completed \ LegsOf(future)
    BY <1>11 DEF InputsUnchanged
  <2>2. ~raising /\ W = {} /\ MarketsOf(W) = {} /\ W' = {} /\ MarketsOf(W') = {}
    BY <1>0, <1>11, MarketFacts DEF InputsUnchanged, Cleaned, Collecting, work
  <2>3. UNCHANGED <<expired, raising>>
    BY <1>11 DEF InputsUnchanged, work
  <2>4. LegsOf(future) \cap expired = {}
    <3>1. CASE due
      BY <2>1, <3>1 DEF LegsOf
    <3>2. CASE ~due
      BY <1>0, <2>2, <3>2 DEF Deadline, OnlyTheDeadlineExpires
    <3>3. QED
      BY <3>1, <3>2
  <2>5. LegsOf(future) \subseteq Markets
    BY MarketFacts
  <2>6. Markets = completed' \cup terminal' \cup expired'
    BY <1>0, <2>1, <2>2, <2>3, <2>5 DEF Ledger
  <2>7. completed' \cap terminal' = {} /\ (completed' \cup terminal') \cap expired' = {}
    BY <1>0, <2>1, <2>3, <2>4 DEF Ledger
  <2>8. QED
    BY <2>2, <2>6, <2>7 DEF Ledger
<1>12. CASE RunUnsafe
  <2>1. UNCHANGED <<pending, futures, raising, expired>>
    BY <1>12 DEF RunUnsafe, work
  <2>2. completed' = {} /\ terminal' = terminal \cup completed
    BY <1>12 DEF RunUnsafe
  <2>3. MarketsOf(W') = MarketsOf(W)
    BY <2>1
  <2>4. QED
    BY <1>0, <2>1, <2>2, <2>3 DEF Ledger
<1>13. ASSUME NEW m \in Markets, EvidenceRefused(m) PROVE Ledger'
  <2>1. UNCHANGED <<pending, futures, raising, expired>> /\ m \in completed
    BY <1>0, <1>13 DEF EvidenceRefused, work, TypeOK
  <2>2. completed' = completed \ {m} /\ terminal' = terminal \cup {m}
    BY <1>13 DEF EvidenceRefused
  <2>3. MarketsOf(W') = MarketsOf(W)
    BY <2>1
  <2>4. QED
    BY <1>0, <2>1, <2>2, <2>3 DEF Ledger
<1>14. ASSUME NEW m \in Markets, Promote(m) \/ RollbackUnverified(m) PROVE Ledger'
  BY <1>3, <1>14 DEF Promote, RollbackUnverified, work, outcomes
<1>15. CASE InputsChanged \/ Return
  BY <1>3, <1>15 DEF InputsChanged, Return, work, outcomes
<1>16. ASSUME NEW t \in Tasks, ChildAnswers(t) \/ ChildExits(t) PROVE Ledger'
  BY <1>3, <1>16 DEF ChildAnswers, ChildExits, work, outcomes
<1>17. CASE DeadlinePasses \/ InputsMove
  BY <1>3, <1>17 DEF DeadlinePasses, InputsMove, work, outcomes
<1>18. CASE UNCHANGED vars
  BY <1>3, <1>18 DEF vars, work, outcomes
<1>19. QED
  BY <1>1, <1>2, <1>4, <1>5, <1>6, <1>7, <1>8, <1>9, <1>10, <1>11, <1>12, <1>13, <1>14, <1>15,
     <1>16, <1>17, <1>18 DEF Next

\* Every step keeps what the finally clause leaves, and where evidence may be.
LEMMA CleanedNext == IInv /\ [Next]_vars => Cleaned'
<1> SUFFICES ASSUME IInv, [Next]_vars PROVE Cleaned'
  OBVIOUS
<1>0. TypeOK /\ Cleaned
  BY DEF IInv
<1> USE DEF Cleaned, Collecting, work, outcomes, evidence
<1>1. CASE Submit
  BY <1>0, <1>1 DEF Submit, Submitting
<1>2. CASE SubmitRefused
  BY <1>0, <1>2 DEF SubmitRefused, Submitting
<1>3. CASE Submitted \/ LoopEnds \/ Wait \/ ReadFails \/ BatchDone
  BY <1>0, <1>3 DEF Submitted, LoopEnds, Wait, ReadFails, BatchDone
<1>4. ASSUME NEW t \in Tasks, TooLate(t) \/ TakeBlock(t) \/ TakeReason(t) \/ TakeError(t)
      PROVE  Cleaned'
  BY <1>0, <1>4 DEF TooLate, TakeBlock, TakeReason, TakeError, Pop
<1>5. ASSUME NEW t \in Tasks, TakeRow(t) PROVE Cleaned'
  BY <1>0, <1>5 DEF TakeRow, Pop
<1>6. CASE CleanUp
  BY <1>0, <1>6 DEF CleanUp
<1>7. CASE InputsChanged
  BY <1>0, <1>7 DEF InputsChanged
<1>8. CASE InputsUnchanged
  BY <1>0, <1>8 DEF InputsUnchanged
<1>9. CASE RunUnsafe
  BY <1>0, <1>9 DEF RunUnsafe
<1>10. ASSUME NEW m \in Markets, Promote(m) PROVE Cleaned'
  BY <1>0, <1>10 DEF Promote, TypeOK
<1>11. ASSUME NEW m \in Markets, EvidenceRefused(m) PROVE Cleaned'
  BY <1>0, <1>11 DEF EvidenceRefused
<1>12. ASSUME NEW m \in Markets, RollbackUnverified(m) PROVE Cleaned'
  BY <1>0, <1>12 DEF RollbackUnverified
<1>13. CASE Return
  BY <1>0, <1>13 DEF Return
<1>14. ASSUME NEW t \in Tasks, ChildAnswers(t) \/ ChildExits(t) PROVE Cleaned'
  BY <1>0, <1>14 DEF ChildAnswers, ChildExits
<1>15. CASE DeadlinePasses \/ InputsMove
  BY <1>0, <1>15 DEF DeadlinePasses, InputsMove
<1>16. CASE UNCHANGED vars
  BY <1>0, <1>16 DEF vars
<1>17. QED
  BY <1>1, <1>2, <1>3, <1>4, <1>5, <1>6, <1>7, <1>8, <1>9, <1>10, <1>11, <1>12, <1>13, <1>14,
     <1>15, <1>16 DEF Next

\* With no future outstanding, whatever is pending can be submitted: a CEX leg always, and
\* anything else unless a CEX leg keeps the only worker.
LEMMA WorkIsSubmitted ==
  ASSUME TypeOK, futures = {}, pending # {}, pc = "submit"
  PROVE  Submitting
<1>1. workers \in Nat \ {0} /\ Cardinality({}) = 0
  BY RoutesOK, FS_EmptySet DEF TypeOK
<1>2. \A t \in pending : Cardinality(Rivals(t)) < Limit(t)
  <2> SUFFICES ASSUME NEW t \in pending PROVE Cardinality(Rivals(t)) < Limit(t)
    OBVIOUS
  <2>1. t \in Cex \/ t \in Dex \/ t \in Chains
    BY DEF TypeOK, Tasks, Markets
  <2>2. Rivals(t) = {}
    BY <2>1 DEF Rivals
  <2>3. Limit(t) \in Nat \ {0}
    BY <2>1, RoutesOK DEF Limit
  <2>4. QED
    BY <1>1, <2>2, <2>3
<1>3. Eligible # {}
  <2>1. futures \ Cex = {}
    OBVIOUS
  <2>2. CASE pending \cap Cex # {}
    BY <1>2, <2>2 DEF Eligible
  <2>3. CASE pending \cap Cex = {}
    <3>1. NonCexCapacity = workers
      BY <2>3 DEF NonCexCapacity, CexWorkOutstanding
    <3>2. Cardinality(futures \ Cex) < NonCexCapacity
      BY <1>1, <2>1, <3>1
    <3>3. QED
      BY <1>2, <3>2 DEF Eligible
  <2>4. QED
    BY <2>2, <2>3
<1>4. QED
  BY <1>1, <1>3 DEF Submitting

\* Every step keeps the reasons for which the loop ends.
LEMMA DeadlineNext == IInv /\ [Next]_vars => Deadline'
<1> SUFFICES ASSUME IInv, [Next]_vars PROVE Deadline'
  OBVIOUS
<1>0. TypeOK /\ Ledger /\ Deadline /\ Cleaned
  BY DEF IInv
<1> USE DEF Deadline, OnlyTheDeadlineExpires, work, outcomes, evidence, children, world
<1>1. CASE Submit
  BY <1>0, <1>1 DEF Submit, Submitting, TypeOK, Eligible
<1>2. CASE SubmitRefused
  BY <1>0, <1>2 DEF SubmitRefused
<1>3. CASE Submitted
  <2>1. futures = {} => pending = {}
    BY <1>0, <1>3, WorkIsSubmitted DEF Submitted
  <2>2. QED
    BY <1>0, <1>3, <2>1 DEF Submitted
<1>4. CASE LoopEnds
  BY <1>0, <1>4 DEF LoopEnds
<1>5. CASE Wait \/ ReadFails
  BY <1>0, <1>5 DEF Wait, ReadFails
<1>6. CASE BatchDone
  BY <1>0, <1>6 DEF BatchDone
<1>7. ASSUME NEW t \in Tasks, TooLate(t) PROVE Deadline'
  BY <1>0, <1>7 DEF TooLate, Pop
<1>8. ASSUME NEW t \in Tasks, TakeBlock(t) \/ TakeRow(t) \/ TakeReason(t) \/ TakeError(t)
      PROVE  Deadline'
  BY <1>0, <1>8 DEF TakeBlock, TakeRow, TakeReason, TakeError, Pop
<1>9. CASE CleanUp
  <2>1. raising \/ due \/ LeftBehind = {}
    BY <1>0, <1>9 DEF CleanUp, LeftBehind
  <2>2. raising \/ due \/ MarketsOf(LeftBehind) = {}
    BY <2>1, MarketFacts
  <2>3. /\ expired' = expired \cup MarketsOf(LeftBehind)
        /\ UNCHANGED <<raising, due, answer>>
        /\ pc' \notin {"loop", "cleanup"}
    BY <1>9 DEF CleanUp
  <2>4. QED
    BY <1>0, <2>2, <2>3
<1>10. CASE InputsChanged
  BY <1>0, <1>10 DEF InputsChanged
<1>11. CASE InputsUnchanged
  BY <1>0, <1>11 DEF InputsUnchanged
<1>12. CASE RunUnsafe \/ Return
  BY <1>0, <1>12 DEF RunUnsafe, Return
<1>13. ASSUME NEW m \in Markets, Promote(m) \/ EvidenceRefused(m) \/ RollbackUnverified(m)
      PROVE  Deadline'
  BY <1>0, <1>13 DEF Promote, EvidenceRefused, RollbackUnverified
<1>14. ASSUME NEW t \in Tasks, ChildAnswers(t) PROVE Deadline'
  BY <1>0, <1>14 DEF ChildAnswers, TypeOK
<1>15. ASSUME NEW t \in Tasks, ChildExits(t) PROVE Deadline'
  BY <1>0, <1>15 DEF ChildExits, TypeOK
<1>16. CASE DeadlinePasses \/ InputsMove
  BY <1>0, <1>16 DEF DeadlinePasses, InputsMove
<1>17. CASE UNCHANGED vars
  BY <1>0, <1>17 DEF vars
<1>18. QED
  BY <1>1, <1>2, <1>3, <1>4, <1>5, <1>6, <1>7, <1>8, <1>9, <1>10, <1>11, <1>12, <1>13, <1>14,
     <1>15, <1>16, <1>17 DEF Next

LEMMA Inductive == Spec => []IInv
<1>1. Init => IInv
  <2>1. Init => Deadline
    BY DEF Init, Deadline, OnlyTheDeadlineExpires
  <2>2. QED
    BY <2>1, TypeInit, LedgerInit DEF IInv
<1>2. IInv /\ [Next]_vars => IInv'
  BY TypeNext, LedgerNext, CleanedNext, DeadlineNext DEF IInv
<1>3. QED
  BY <1>1, <1>2, PTL DEF Spec

\* Type correctness, for any markets, limits and numbers of workers.
THEOREM TypeCorrect == Spec => []TypeOK
<1>1. IInv => TypeOK
  BY DEF IInv
<1>2. QED
  BY <1>1, Inductive, PTL

\* collect_route_cohort returns every market exactly once, and evidence of rows alone.
THEOREM LegsEndOnce == Spec => []EveryLegEndsOnce
<1>1. IInv => EveryLegEndsOnce
  <2> SUFFICES ASSUME IInv, pc = "returned"
      PROVE  /\ completed \cup terminal \cup expired = Markets
             /\ completed \cap terminal = {}
             /\ (completed \cup terminal) \cap expired = {}
             /\ accepted \subseteq completed
    BY DEF EveryLegEndsOnce
  <2>1. ~raising /\ pending \cup futures = {} /\ accepted \subseteq completed
    BY DEF IInv, Cleaned, Collecting
  <2>2. MarketsOf(pending \cup futures) = {}
    BY <2>1, MarketFacts
  <2>3. QED
    BY <2>1, <2>2 DEF IInv, Ledger
<1>2. QED
  BY <1>1, Inductive, PTL

\* Without an exception a leg expires only when the deadline has passed.
THEOREM DeadlineAlone == Spec => []OnlyTheDeadlineExpires
<1>1. IInv => OnlyTheDeadlineExpires
  BY DEF IInv, Deadline
<1>2. QED
  BY <1>1, Inductive, PTL

-----------------------------------------------------------------------------

LEMMA SlotInit == Init => CexSlotKept
  BY RoutesOK, FS_EmptySet DEF Init, CexSlotKept

\* Fewer futures leave more workers.
LEMMA SlotMonotone ==
  ASSUME TypeOK, TypeOK', CexSlotKept, workers' = workers,
         futures' \subseteq futures,
         (pending' \cup futures') \cap Cex \subseteq (pending \cup futures) \cap Cex
  PROVE  CexSlotKept'
<1>1. futures' \ Cex \subseteq futures \ Cex /\ futures \ Cex \subseteq Tasks
  BY DEF TypeOK
<1>2. Cardinality(futures' \ Cex) <= Cardinality(futures \ Cex)
  BY <1>1, FiniteTasks, FS_Subset
<1>3. Cardinality(futures' \ Cex) \in Nat /\ Cardinality(futures \ Cex) \in Nat /\ workers \in Nat
  BY <1>1, FiniteTasks, RoutesOK DEF TypeOK
<1>4. QED
  BY <1>2, <1>3 DEF CexSlotKept

\* Every step keeps a worker for CEX work.
LEMMA SlotNext == TypeOK /\ TypeOK' /\ CexSlotKept /\ [Next]_vars => CexSlotKept'
<1> SUFFICES ASSUME TypeOK, TypeOK', CexSlotKept, [Next]_vars PROVE CexSlotKept'
  OBVIOUS
<1>1. CASE Submit
  <2>1. PICK t \in Eligible : pending' = pending \ {t} /\ futures' = futures \cup {t}
    BY <1>1 DEF Submit
  <2>2. pending' \cup futures' = pending \cup futures /\ workers' = workers
    BY <1>1, <2>1 DEF Submit, Eligible, world
  <2>3. CASE t \in Cex
    <3>1. futures' \ Cex = futures \ Cex
      BY <2>1, <2>3
    <3>2. QED
      BY <2>1, <2>2, <3>1 DEF CexSlotKept
  <2>4. CASE t \notin Cex
    <3>1. Cardinality(futures \ Cex) < NonCexCapacity
      BY <2>4 DEF Eligible
    <3>2. futures' \ Cex = (futures \ Cex) \cup {t}
      BY <2>1, <2>4
    <3>3. IsFiniteSet(futures \ Cex) /\ Cardinality(futures \ Cex) \in Nat /\ workers \in Nat
      <4>1. futures \ Cex \subseteq Tasks
        BY DEF TypeOK
      <4>2. QED
        BY <4>1, FiniteTasks, RoutesOK DEF TypeOK
    <3>4. Cardinality(futures' \ Cex) <= Cardinality(futures \ Cex) + 1
      BY <3>2, <3>3, FS_AddElement
    <3>5. Cardinality(futures' \ Cex) \in Nat
      <4>1. futures' \ Cex \subseteq Tasks
        BY DEF TypeOK
      <4>2. QED
        BY <4>1, FiniteTasks
    <3>6. CASE CexWorkOutstanding
      BY <2>2, <3>1, <3>3, <3>4, <3>5, <3>6 DEF CexSlotKept, NonCexCapacity
    <3>7. CASE ~CexWorkOutstanding
      BY <2>2, <3>7 DEF CexSlotKept, CexWorkOutstanding
    <3>8. QED
      BY <3>6, <3>7
  <2>5. QED
    BY <2>3, <2>4
<1>2. CASE SubmitRefused
  BY <1>2, SlotMonotone DEF SubmitRefused, world
<1>3. CASE Submitted \/ LoopEnds \/ Wait \/ ReadFails \/ BatchDone
  BY <1>3, SlotMonotone DEF Submitted, LoopEnds, Wait, ReadFails, BatchDone, work, world
<1>4. ASSUME NEW t \in Tasks, TooLate(t) \/ TakeRow(t) \/ TakeReason(t) \/ TakeError(t)
      PROVE  CexSlotKept'
  BY <1>4, SlotMonotone DEF TooLate, TakeRow, TakeReason, TakeError, Pop, world
<1>5. ASSUME NEW t \in Tasks, TakeBlock(t) PROVE CexSlotKept'
  <2>1. LegsOf({t}) \cap Cex = {}
    BY RoutesOK, MarketFacts
  <2>2. QED
    BY <1>5, <2>1, SlotMonotone DEF TakeBlock, Pop, world
<1>6. CASE CleanUp
  BY <1>6, SlotMonotone DEF CleanUp, world
<1>7. CASE InputsChanged \/ InputsUnchanged \/ RunUnsafe \/ Return
  BY <1>7, SlotMonotone DEF InputsChanged, InputsUnchanged, RunUnsafe, Return, work, world
<1>8. ASSUME NEW m \in Markets, Promote(m) \/ EvidenceRefused(m) \/ RollbackUnverified(m)
      PROVE  CexSlotKept'
  BY <1>8, SlotMonotone DEF Promote, EvidenceRefused, RollbackUnverified, work, world
<1>9. ASSUME NEW t \in Tasks, ChildAnswers(t) \/ ChildExits(t) PROVE CexSlotKept'
  BY <1>9, SlotMonotone DEF ChildAnswers, ChildExits, work, world
<1>10. CASE DeadlinePasses \/ InputsMove
  BY <1>10, SlotMonotone DEF DeadlinePasses, InputsMove, work, world
<1>11. CASE UNCHANGED vars
  BY <1>11, SlotMonotone DEF vars, work, world
<1>12. QED
  BY <1>1, <1>2, <1>3, <1>4, <1>5, <1>6, <1>7, <1>8, <1>9, <1>10, <1>11 DEF Next

\* While CEX work remains, resolvers and pool calls never hold all workers.
THEOREM SlotForCex == Spec => []CexSlotKept
<1>1. TypeOK /\ CexSlotKept /\ [Next]_vars => CexSlotKept'
  BY SlotNext, TypeNext
<1>2. QED
  BY <1>1, SlotInit, TypeCorrect, PTL DEF Spec

\* No child outlives the finally clause of a call that goes on to promote evidence.
THEOREM NoWriter == Spec => []NoWriterLeft
<1>1. Init => NoWriterLeft
  BY DEF Init, NoWriterLeft
<1>2. NoWriterLeft /\ [Next]_vars => NoWriterLeft'
  <2> SUFFICES ASSUME NoWriterLeft, [Next]_vars PROVE NoWriterLeft'
    OBVIOUS
  <2> USE DEF NoWriterLeft, children
  <2>1. CASE CleanUp
    BY <2>1 DEF CleanUp, Survivors
  <2>2. CASE Submit \/ SubmitRefused \/ Submitted
    BY <2>2 DEF Submit, SubmitRefused, Submitted, Submitting
  <2>3. CASE LoopEnds \/ Wait \/ ReadFails \/ BatchDone
    BY <2>3 DEF LoopEnds, Wait, ReadFails, BatchDone
  <2>4. ASSUME NEW t \in Tasks,
               TooLate(t) \/ TakeBlock(t) \/ TakeRow(t) \/ TakeReason(t) \/ TakeError(t)
        PROVE  NoWriterLeft'
    BY <2>4 DEF TooLate, TakeBlock, TakeRow, TakeReason, TakeError, Pop
  <2>5. CASE InputsChanged \/ InputsUnchanged \/ RunUnsafe \/ Return
    BY <2>5 DEF InputsChanged, InputsUnchanged, RunUnsafe, Return
  <2>6. ASSUME NEW m \in Markets, Promote(m) \/ EvidenceRefused(m) \/ RollbackUnverified(m)
        PROVE  NoWriterLeft'
    BY <2>6 DEF Promote, EvidenceRefused, RollbackUnverified
  <2>7. ASSUME NEW t \in Tasks, ChildAnswers(t) \/ ChildExits(t) PROVE NoWriterLeft'
    BY <2>7 DEF ChildAnswers, ChildExits
  <2>8. CASE DeadlinePasses \/ InputsMove
    BY <2>8 DEF DeadlinePasses, InputsMove
  <2>9. CASE UNCHANGED vars
    BY <2>9 DEF vars
  <2>10. QED
    BY <2>1, <2>2, <2>3, <2>4, <2>5, <2>6, <2>7, <2>8, <2>9 DEF Next
<1>3. QED
  BY <1>1, <1>2, PTL DEF Spec

-----------------------------------------------------------------------------
(* The children that run at the same time.                                 *)

\* tasks of the venue or chain of a leg
Peers(m, tasks) == {t \in tasks : Source[t] = Source[m]}

Spared(tasks) ==
  /\ \A m \in Cex : Cardinality(Peers(m, tasks \cap Cex)) <= PerVenue
  /\ \A m \in Dex : Cardinality(Peers(m, tasks \cap Dex)) <= PerChain

\* No call has more children than workers, and no venue and no chain has more of them
\* than its own limit.
WorkersBound  == Cardinality(alive) <= workers
SourcesSpared == Spared(alive)

\* Fewer tasks of a source leave its limit alone.
LEMMA SparedSubset ==
  ASSUME NEW S, NEW T, S \subseteq T, T \subseteq Tasks, Spared(T)
  PROVE  Spared(S)
<1>1. ASSUME NEW m, NEW K PROVE Cardinality(Peers(m, S \cap K)) <= Cardinality(Peers(m, T \cap K))
  <2>1. Peers(m, S \cap K) \subseteq Peers(m, T \cap K) /\ Peers(m, T \cap K) \subseteq Tasks
    BY DEF Peers
  <2> QED BY <2>1, FiniteTasks, FS_Subset
<1>2. ASSUME NEW m, NEW K PROVE Cardinality(Peers(m, S \cap K)) \in Nat /\ Cardinality(Peers(m, T \cap K)) \in Nat
  <2>1. Peers(m, S \cap K) \subseteq Tasks /\ Peers(m, T \cap K) \subseteq Tasks
    BY DEF Peers
  <2> QED BY <2>1, FiniteTasks
<1>3. PerVenue \in Nat /\ PerChain \in Nat
  BY RoutesOK
<1>4. ASSUME NEW m \in Cex PROVE Cardinality(Peers(m, S \cap Cex)) <= PerVenue
  <2>1. Cardinality(Peers(m, S \cap Cex)) <= Cardinality(Peers(m, T \cap Cex))
    BY <1>1
  <2>2. Cardinality(Peers(m, S \cap Cex)) \in Nat /\ Cardinality(Peers(m, T \cap Cex)) \in Nat
    BY <1>2
  <2>3. Cardinality(Peers(m, T \cap Cex)) <= PerVenue
    BY DEF Spared
  <2> QED BY <1>3, <2>1, <2>2, <2>3
<1>5. ASSUME NEW m \in Dex PROVE Cardinality(Peers(m, S \cap Dex)) <= PerChain
  <2>1. Cardinality(Peers(m, S \cap Dex)) <= Cardinality(Peers(m, T \cap Dex))
    BY <1>1
  <2>2. Cardinality(Peers(m, S \cap Dex)) \in Nat /\ Cardinality(Peers(m, T \cap Dex)) \in Nat
    BY <1>2
  <2>3. Cardinality(Peers(m, T \cap Dex)) <= PerChain
    BY DEF Spared
  <2> QED BY <1>3, <2>1, <2>2, <2>3
<1> QED BY <1>4, <1>5 DEF Spared

LEMMA OneElementMore ==
  ASSUME NEW S, NEW x, IsFiniteSet(S), Cardinality(S) \in Nat
  PROVE  Cardinality(S \cup {x}) \in Nat /\ Cardinality(S \cup {x}) <= Cardinality(S) + 1
<1>1. Cardinality(S \cup {x}) = IF x \in S THEN Cardinality(S) ELSE Cardinality(S) + 1
  BY FS_AddElement
<1> QED BY <1>1

\* One more task of a source that has room.
LEMMA OneMore ==
  ASSUME TypeOK, NEW K, NEW limit \in Nat, NEW t,
         \A m \in K : Cardinality(Peers(m, futures \cap K)) <= limit,
         t \in K => Cardinality(Peers(t, futures \cap K)) < limit
  PROVE  \A m \in K : Cardinality(Peers(m, (futures \cup {t}) \cap K)) <= limit
<1> SUFFICES ASSUME NEW m \in K
             PROVE  Cardinality(Peers(m, (futures \cup {t}) \cap K)) <= limit
  OBVIOUS
<1>1. CASE t \in K /\ Source[t] = Source[m]
  <2>1. Peers(m, (futures \cup {t}) \cap K) = Peers(t, futures \cap K) \cup {t}
    BY <1>1 DEF Peers
  <2>2. Peers(t, futures \cap K) \subseteq Tasks
    BY DEF Peers, TypeOK
  <2>3. IsFiniteSet(Peers(t, futures \cap K)) /\ Cardinality(Peers(t, futures \cap K)) \in Nat
    BY <2>2, FiniteTasks
  <2>4. Cardinality(Peers(t, futures \cap K) \cup {t}) <= Cardinality(Peers(t, futures \cap K)) + 1
    BY <2>3, OneElementMore
  <2>5. Cardinality(Peers(t, futures \cap K) \cup {t}) \in Nat
    BY <2>3, OneElementMore
  <2>6. Cardinality(Peers(t, futures \cap K)) < limit
    BY <1>1
  <2>7. Cardinality(Peers(t, futures \cap K) \cup {t}) <= limit
    BY <2>3, <2>4, <2>5, <2>6
  <2> QED BY <2>1, <2>7
<1>2. CASE ~ (t \in K /\ Source[t] = Source[m])
  <2>1. Peers(m, (futures \cup {t}) \cap K) = Peers(m, futures \cap K)
    BY <1>2 DEF Peers
  <2> QED BY <2>1
<1> QED BY <1>1, <1>2

\* Every child that can be killed belongs to a future that nobody has looked at.
ChildrenInv ==
  /\ alive \subseteq futures \ batch
  /\ Spared(futures)

LEMMA ChildrenStep ==
  Unkillable = FALSE /\ TypeOK /\ TypeOK' /\ Ledger /\ ChildrenInv /\ [Next]_vars => ChildrenInv'
<1> SUFFICES ASSUME Unkillable = FALSE, TypeOK, TypeOK', Ledger, ChildrenInv, [Next]_vars
             PROVE  ChildrenInv'
  OBVIOUS
<1>0. Spared(futures) /\ futures \subseteq Tasks
  BY DEF ChildrenInv, TypeOK
<1>1. ASSUME futures' \subseteq futures, alive' \subseteq futures' \ batch' PROVE ChildrenInv'
  BY <1>0, <1>1, SparedSubset DEF ChildrenInv
<1>2. ASSUME UNCHANGED <<futures, batch>>, alive' \subseteq alive PROVE ChildrenInv'
  BY <1>1, <1>2 DEF ChildrenInv
<1>3. CASE Submit
  <2>1. PICK t \in Eligible : /\ futures' = futures \cup {t} /\ t \in pending
                              /\ Cardinality(Rivals(t)) < Limit(t) /\ t \in Tasks
                              /\ alive' \subseteq alive \cup {t}
    BY <1>3 DEF Submit, Eligible, TypeOK
  <2>2. t \in Cex => Cardinality(Peers(t, futures \cap Cex)) < PerVenue
    <3>1. SUFFICES ASSUME t \in Cex PROVE Cardinality(Peers(t, futures \cap Cex)) < PerVenue
      OBVIOUS
    <3>2. t \notin Dex /\ t \notin Chains
      BY <3>1, RoutesOK DEF Markets
    <3>3. Rivals(t) = Peers(t, futures \cap Cex) /\ Limit(t) = PerVenue
      BY <3>1, <3>2 DEF Rivals, Limit, Peers
    <3> QED BY <2>1, <3>3
  <2>3. t \in Dex => Cardinality(Peers(t, futures \cap Dex)) < PerChain
    <3>1. SUFFICES ASSUME t \in Dex PROVE Cardinality(Peers(t, futures \cap Dex)) < PerChain
      OBVIOUS
    <3>2. t \notin Cex /\ t \notin Chains
      BY <3>1, RoutesOK DEF Markets
    <3>3. Rivals(t) = Peers(t, futures \cap Dex) /\ Limit(t) = PerChain
      BY <3>1, <3>2 DEF Rivals, Limit, Peers
    <3> QED BY <2>1, <3>3
  <2>4. \A m \in Cex : Cardinality(Peers(m, (futures \cup {t}) \cap Cex)) <= PerVenue
    BY <1>0, <2>2, OneMore, RoutesOK DEF Spared
  <2>5. \A m \in Dex : Cardinality(Peers(m, (futures \cup {t}) \cap Dex)) <= PerChain
    BY <1>0, <2>3, OneMore, RoutesOK DEF Spared
  <2>6. Spared(futures)'
    BY <2>1, <2>4, <2>5 DEF Spared, Peers
  <2>7. batch' = batch /\ t \notin batch
    BY <1>3, <2>1 DEF Submit, Ledger, TypeOK
  <2> QED BY <2>1, <2>6, <2>7 DEF ChildrenInv
<1>4. CASE SubmitRefused \/ Submitted \/ LoopEnds \/ ReadFails \/ BatchDone
  BY <1>2, <1>4 DEF SubmitRefused, Submitted, LoopEnds, ReadFails, BatchDone, work, children
<1>5. CASE Wait
  <2>1. futures' = futures /\ batch' = Ready /\ alive' \subseteq alive \ Ready
    BY <1>5 DEF Wait
  <2> QED BY <1>1, <2>1 DEF ChildrenInv
<1>6. ASSUME NEW t \in Tasks, Pop(t), alive' = alive PROVE ChildrenInv'
  <2>1. futures' = futures \ {t} /\ batch' = batch \ {t} /\ t \in batch
    BY <1>6 DEF Pop
  <2> QED BY <1>1, <1>6, <2>1 DEF ChildrenInv
<1>7. ASSUME NEW t \in Tasks,
             TooLate(t) \/ TakeBlock(t) \/ TakeRow(t) \/ TakeReason(t) \/ TakeError(t)
      PROVE  ChildrenInv'
  BY <1>6, <1>7 DEF TooLate, TakeBlock, TakeRow, TakeReason, TakeError, children
<1>8. CASE CleanUp
  <2>1. futures' = {} /\ alive' = {}
    BY <1>8 DEF CleanUp
  <2> QED BY <1>1, <2>1
<1>9. CASE InputsChanged \/ InputsUnchanged \/ RunUnsafe \/ Return
  BY <1>2, <1>9 DEF InputsChanged, InputsUnchanged, RunUnsafe, Return, work, children
<1>10. ASSUME NEW m \in Markets, Promote(m) \/ EvidenceRefused(m) \/ RollbackUnverified(m)
      PROVE  ChildrenInv'
  BY <1>2, <1>10 DEF Promote, EvidenceRefused, RollbackUnverified, work, children
<1>11. ASSUME NEW t \in Tasks, ChildAnswers(t) \/ ChildExits(t) PROVE ChildrenInv'
  BY <1>2, <1>11 DEF ChildAnswers, ChildExits, work
<1>12. CASE DeadlinePasses \/ InputsMove
  BY <1>2, <1>12 DEF DeadlinePasses, InputsMove, work, children
<1>13. CASE UNCHANGED vars
  BY <1>2, <1>13 DEF vars, work, children
<1> QED BY <1>3, <1>4, <1>5, <1>7, <1>8, <1>9, <1>10, <1>11, <1>12, <1>13 DEF Next

\* A venue and a chain are never asked by more children at once than their limit allows
\* (cex_workers_per_venue, dex_workers_per_chain of collect_route_cohort), as long as a
\* killed child is gone before its future is given up.
THEOREM SourcesAreSpared == ASSUME Unkillable = FALSE PROVE Spec => []SourcesSpared
<1>1. Init => ChildrenInv
  <2> SUFFICES ASSUME Init PROVE ChildrenInv
    OBVIOUS
  <2>1. futures = {} /\ alive = {}
    BY DEF Init
  <2>2. \A m : Cardinality(Peers(m, {})) = 0
    BY FS_EmptySet DEF Peers
  <2>3. \A m : Cardinality(Peers(m, {} \cap Cex)) = 0 /\ Cardinality(Peers(m, {} \cap Dex)) = 0
    BY <2>2
  <2> QED BY <2>1, <2>3, RoutesOK DEF ChildrenInv, Spared
<1>2. TypeOK /\ TypeOK' /\ Ledger /\ ChildrenInv /\ [Next]_vars => ChildrenInv'
  BY ChildrenStep
<1>3. TypeOK /\ ChildrenInv => SourcesSpared
  <2> SUFFICES ASSUME TypeOK, ChildrenInv PROVE SourcesSpared
    OBVIOUS
  <2>1. alive \subseteq futures /\ futures \subseteq Tasks /\ Spared(futures)
    BY DEF TypeOK, ChildrenInv
  <2> QED BY <2>1, SparedSubset DEF SourcesSpared
<1>4. IInv => TypeOK /\ Ledger
  BY DEF IInv
<1> QED BY <1>1, <1>2, <1>3, <1>4, Inductive, PTL DEF Spec

\* The executor never has more children than workers, although children that could not be
\* killed stay and go on counting.
THEOREM WorkersAreBounded == Spec => []WorkersBound
<1>1. Init => WorkersBound
  BY RoutesOK, FS_EmptySet DEF Init, WorkersBound
<1>2. TypeOK /\ TypeOK' /\ WorkersBound /\ [Next]_vars => WorkersBound'
  <2> SUFFICES ASSUME TypeOK, TypeOK', WorkersBound, [Next]_vars PROVE WorkersBound'
    OBVIOUS
  <2>0. workers \in Nat /\ IsFiniteSet(alive) /\ Cardinality(alive) \in Nat /\ Cardinality(alive') \in Nat
    BY FiniteTasks, RoutesOK DEF TypeOK
  <2>1. workers' = workers
    BY DEF Next, vars, world, Submit, SubmitRefused, Submitted, LoopEnds, Wait, ReadFails, BatchDone,
           TooLate, TakeBlock, TakeRow, TakeReason, TakeError, CleanUp, InputsChanged, InputsUnchanged,
           RunUnsafe, Promote, EvidenceRefused, RollbackUnverified, Return, ChildAnswers,
           ChildExits, DeadlinePasses, InputsMove
  <2>2. ASSUME alive' \subseteq alive PROVE WorkersBound'
    <3>1. Cardinality(alive') <= Cardinality(alive)
      BY <2>0, <2>2, FS_Subset
    <3> QED BY <2>0, <2>1, <3>1 DEF WorkersBound
  <2>3. CASE Submit
    <3>1. PICK t \in Eligible : alive' = alive \cup {t} \/ alive' = alive
      BY <2>3 DEF Submit, Eligible
    <3>2. CASE alive' = alive \cup {t}
      <4>1. Cardinality(alive') <= Cardinality(alive) + 1
        BY <2>0, <3>2, FS_AddElement
      <4>2. Cardinality(alive) < workers
        BY <2>3 DEF Submit
      <4> QED BY <2>0, <2>1, <4>1, <4>2 DEF WorkersBound
    <3> QED BY <2>2, <3>1, <3>2
  <2>4. CASE SubmitRefused \/ Submitted \/ LoopEnds \/ ReadFails \/ BatchDone
    BY <2>2, <2>4 DEF SubmitRefused, Submitted, LoopEnds, ReadFails, BatchDone, children
  <2>5. CASE Wait
    <3>1. alive' \subseteq alive
      BY <2>5 DEF Wait
    <3> QED BY <2>2, <3>1
  <2>6. CASE CleanUp
    <3>1. alive' \subseteq alive
      BY <2>6 DEF CleanUp
    <3> QED BY <2>2, <3>1
  <2>7. ASSUME NEW t \in Tasks,
               TooLate(t) \/ TakeBlock(t) \/ TakeRow(t) \/ TakeReason(t) \/ TakeError(t)
        PROVE  WorkersBound'
    BY <2>2, <2>7 DEF TooLate, TakeBlock, TakeRow, TakeReason, TakeError, children
  <2>8. CASE InputsChanged \/ InputsUnchanged \/ RunUnsafe \/ Return
    BY <2>2, <2>8 DEF InputsChanged, InputsUnchanged, RunUnsafe, Return, children
  <2>9. ASSUME NEW m \in Markets, Promote(m) \/ EvidenceRefused(m) \/ RollbackUnverified(m)
        PROVE  WorkersBound'
    BY <2>2, <2>9 DEF Promote, EvidenceRefused, RollbackUnverified, children
  <2>10. ASSUME NEW t \in Tasks, ChildAnswers(t) \/ ChildExits(t) PROVE WorkersBound'
    BY <2>2, <2>10 DEF ChildAnswers, ChildExits
  <2>11. CASE DeadlinePasses \/ InputsMove
    BY <2>2, <2>11 DEF DeadlinePasses, InputsMove, children
  <2>12. CASE UNCHANGED vars
    BY <2>2, <2>12 DEF vars, children
  <2> QED BY <2>3, <2>4, <2>5, <2>6, <2>7, <2>8, <2>9, <2>10, <2>11, <2>12 DEF Next
<1> QED BY <1>1, <1>2, TypeCorrect, PTL DEF Spec
=============================================================================
