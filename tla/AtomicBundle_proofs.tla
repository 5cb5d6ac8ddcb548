------------------------- MODULE AtomicBundle_proofs -------------------------
(***************************************************************************)
(* Proofs about atomic_replace_bundle, for any list of destinations.  The  *)
(* argument: until it is interrupted, the replaced destinations are always *)
(* a prefix of the list, of the length the call remembers; and two faults  *)
(* are not enough to fail, to fail in the rollback and to fail again in    *)
(* the cleanup.                                                            *)
(***************************************************************************)
EXTENDS AtomicBundle, SequenceTheorems, TLAPS

\* The destinations after the first n of them were replaced.
Prefix(n) == [p \in Files |-> IF \E i \in 1..n : Order[i] = p THEN "new" ELSE Before[p]]

\* A destination of the list is one of Files.
LEMMA OrderInFiles == \A i \in 1..Len(Order) : Order[i] \in Files
<1>1. Order \in Seq(Files)
  BY BundleOK DEF BundleOK
<1> QED BY <1>1, ElementOfSeq

\* The length of the list is a positive number.
LEMMA LenOrder == Len(Order) \in Nat /\ Len(Order) > 0 /\ DOMAIN Order = 1..Len(Order)
BY BundleOK DEF BundleOK

\* Before and Target are contents of the destinations.
LEMMA Contents == /\ Before \in [Files -> {"old", "new", "absent"}]
                  /\ Target \in [Files -> {"old", "new", "absent"}]
BY DEF Before, Target

-----------------------------------------------------------------------------

\* Every variable of the call keeps its type.
THEOREM TypeCorrect == Spec => []TypeOK
<1>1. Init => TypeOK
  BY BundleOK, LenOrder, Contents DEF Init, TypeOK, Phases, Endings, BundleOK
<1>2. TypeOK /\ [Next]_vars => TypeOK'
  <2> SUFFICES ASSUME TypeOK, [Next]_vars PROVE TypeOK'
    OBVIOUS
  <2> USE LenOrder, OrderInFiles, Contents DEF TypeOK, Phases, Endings
  <2>1. CASE Check
    BY <2>1 DEF Check
  <2>2. CASE Stage
    <3>1. backups' \subseteq Existing
      BY <2>2 DEF Stage
    <3>2. at' \in 1..(Len(Order) + 1)
      BY <2>2 DEF Stage
    <3> QED BY <2>2, <3>1, <3>2 DEF Stage
  <2>3. CASE AllStaged
    BY <2>3 DEF AllStaged
  <2>4. CASE StepFails
    BY <2>4, BundleOK DEF StepFails, Fault, BundleOK
  <2>5. CASE Replace
    BY <2>5 DEF Replace
  <2>6. CASE InterruptReplace
    BY <2>6, BundleOK DEF InterruptReplace, Fault, BundleOK
  <2>7. CASE AllReplaced
    BY <2>7 DEF AllReplaced
  <2>8. CASE Restore
    BY <2>8 DEF Restore
  <2>9. CASE RestoreFails
    BY <2>9, BundleOK DEF RestoreFails, Fault, BundleOK
  <2>10. CASE InterruptRestore
    BY <2>10, BundleOK DEF InterruptRestore, Fault, BundleOK
  <2>11. CASE RolledBack
    BY <2>11 DEF RolledBack
  <2>12. CASE Cleanup
    BY <2>12 DEF Cleanup
  <2>13. CASE CleanupFails
    BY <2>13, BundleOK DEF CleanupFails, Fault, BundleOK
  <2>14. CASE Crash
    BY <2>14 DEF Crash
  <2>15. CASE UNCHANGED vars
    BY <2>15 DEF vars
  <2> QED
    BY <2>1, <2>2, <2>3, <2>4, <2>5, <2>6, <2>7, <2>8, <2>9, <2>10, <2>11,
       <2>12, <2>13, <2>14, <2>15 DEF Next
<1> QED BY <1>1, <1>2, PTL DEF Spec

\* A destination that existed before the call exists at every moment: for any number
\* of faults, with interrupts and crashes.
THEOREM AlwaysReadable == Spec => []NeverMissing
<1>1. Init => NeverMissing
  BY BundleOK DEF Init, NeverMissing, Before, BundleOK
<1>2. TypeOK /\ NeverMissing /\ [Next]_vars => NeverMissing'
  <2> SUFFICES ASSUME TypeOK, NeverMissing, [Next]_vars PROVE NeverMissing'
    OBVIOUS
  <2> USE BundleOK, LenOrder, OrderInFiles DEF TypeOK, NeverMissing, BundleOK
  <2>1. CASE Replace \/ InterruptReplace
    BY <2>1 DEF Replace, InterruptReplace
  <2>2. CASE Restore
    <3>1. Order[committed] \in Files
      BY <2>2 DEF Restore
    <3>2. Order[committed] \in Existing => Before[Order[committed]] = "old"
      BY <3>1 DEF Before
    <3> QED BY <2>2, <3>1, <3>2 DEF Restore
  <2>3. CASE \/ Check \/ Stage \/ AllStaged \/ StepFails \/ AllReplaced \/ RestoreFails
             \/ InterruptRestore \/ RolledBack \/ Cleanup \/ CleanupFails \/ Crash
             \/ UNCHANGED vars
    BY <2>3 DEF Check, Stage, AllStaged, StepFails, AllReplaced, RestoreFails,
       InterruptRestore, RolledBack, Cleanup, CleanupFails, Crash, vars
  <2> QED BY <2>1, <2>2, <2>3 DEF Next
<1> QED BY <1>1, <1>2, TypeCorrect, PTL DEF Spec

-----------------------------------------------------------------------------
(* With at most two faults: all or nothing.                                *)

LEMMA PrefixType == \A n \in 0..Len(Order) : Prefix(n) \in [Files -> {"old", "new", "absent"}]
BY Contents DEF Prefix

LEMMA PrefixNone == Prefix(0) = Before
BY DEF Prefix, Before

LEMMA PrefixAll == Prefix(Len(Order)) = Target
<1>1. \A p \in Files : \E i \in 1..Len(Order) : Order[i] = p
  BY LenOrder DEF Files
<1> QED BY <1>1 DEF Prefix, Target

\* Replacing the next destination makes the prefix one longer.
LEMMA PrefixGrows ==
  ASSUME NEW n \in 0..Len(Order), n < Len(Order)
  PROVE  [Prefix(n) EXCEPT ![Order[n + 1]] = "new"] = Prefix(n + 1)
<1> DEFINE g == [Prefix(n) EXCEPT ![Order[n + 1]] = "new"]
<1>1. g \in [Files -> {"old", "new", "absent"}]
  BY PrefixType
<1>2. ASSUME NEW p \in Files PROVE g[p] = Prefix(n + 1)[p]
  <2>1. (\E i \in 1..(n + 1) : Order[i] = p) <=> (Order[n + 1] = p \/ \E i \in 1..n : Order[i] = p)
    BY LenOrder
  <2> QED BY <2>1 DEF Prefix
<1> QED BY <1>1, <1>2 DEF Prefix

\* Restoring the last one makes it one shorter, since no destination occurs twice.
LEMMA PrefixShrinks ==
  ASSUME NEW n \in 1..Len(Order)
  PROVE  [Prefix(n) EXCEPT ![Order[n]] = Before[Order[n]]] = Prefix(n - 1)
<1> DEFINE g == [Prefix(n) EXCEPT ![Order[n]] = Before[Order[n]]]
<1>1. \A i, j \in 1..Len(Order) : Order[i] = Order[j] => i = j
  BY BundleOK, LenOrder DEF BundleOK
<1>2. ASSUME NEW p \in Files PROVE g[p] = Prefix(n - 1)[p]
  <2>1. CASE p = Order[n]
    <3>1. ~ \E i \in 1..(n - 1) : Order[i] = p
      BY <1>1, <2>1, LenOrder
    <3> QED BY <2>1, <3>1 DEF Prefix
  <2>2. CASE p # Order[n]
    <3>1. (\E i \in 1..n : Order[i] = p) <=> (\E i \in 1..(n - 1) : Order[i] = p)
      BY <2>2, LenOrder
    <3> QED BY <2>2, <3>1 DEF Prefix
  <2> QED BY <2>1, <2>2
<1> QED BY <1>2 DEF Prefix

\* The faults used up by each verdict.
Spent == /\ verdict = "returned" => phase \in {"check", "stage", "commit", "cleanup", "end"}
         /\ verdict \in {"raised", "interrupted"} => faults >= 1
         /\ verdict = "unrestored" => faults >= 2

\* What is on disk in each phase.
OnDisk == /\ phase \in {"check", "stage"} => committed = 0 /\ verdict = "returned"
          /\ phase = "commit" => at = committed + 1 /\ verdict = "returned"
          /\ phase \in {"check", "stage", "commit"} => files = Prefix(committed)
          /\ phase = "rollback" =>
               /\ verdict \in {"raised", "unrestored", "interrupted"}
               /\ verdict = "raised" => files = Prefix(committed)
          /\ phase = "cleanup" =>
               /\ verdict = "returned" => files = Target
               /\ verdict = "raised" => files = Before
          /\ phase # "end" <=> outcome = "pending"
          /\ \A p \in Files : files[p] \in {Before[p], Target[p]}
          /\ verdict \in {"returned", "raised", "unrestored", "interrupted"}

BundleInv == Spent /\ OnDisk /\ AllOrNothing

FewFaults == MaxFaults <= 2

LEMMA BundleInvInit == Init => BundleInv
BY PrefixNone, Contents DEF Init, BundleInv, Spent, OnDisk, AllOrNothing, Target, Before

\* What is on disk does not depend on the number of faults.
LEMMA OnDiskStep == TypeOK /\ OnDisk /\ [Next]_vars => OnDisk'
<1> SUFFICES ASSUME TypeOK, OnDisk, [Next]_vars PROVE OnDisk'
  OBVIOUS
<1> USE LenOrder, OrderInFiles, Contents DEF TypeOK, OnDisk
<1>0. Prefix(Len(Order)) = Target /\ Prefix(0) = Before
  BY PrefixAll, PrefixNone
<1>1. CASE Check
  BY <1>0, <1>1 DEF Check
<1>2. CASE Stage
  BY <1>2 DEF Stage
<1>3. CASE AllStaged
  BY <1>3 DEF AllStaged
<1>4. CASE StepFails
  BY <1>4 DEF StepFails
<1>5. CASE Replace
  <2>1. files = Prefix(committed) /\ at = committed + 1 /\ committed < Len(Order)
    BY <1>5 DEF Replace
  <2>2. files' = Prefix(committed') /\ at' = committed' + 1
    BY <1>5, <2>1, PrefixGrows DEF Replace
  <2>3. \A p \in Files : files'[p] \in {Before[p], Target[p]}
    BY <2>2, <1>5 DEF Replace, Target
  <2> QED BY <2>2, <2>3, <1>5 DEF Replace
<1>6. CASE InterruptReplace
  <2>1. files' \in [Files -> {"old", "new", "absent"}]
    BY <1>6 DEF InterruptReplace
  <2>2. \A p \in Files : files'[p] \in {Before[p], Target[p]}
    BY <1>6 DEF InterruptReplace, Target
  <2> QED BY <2>1, <2>2, <1>6 DEF InterruptReplace
<1>7. CASE AllReplaced
  <2>1. files = Target
    BY <1>0, <1>7 DEF AllReplaced
  <2> QED BY <2>1, <1>7 DEF AllReplaced
<1>8. CASE Restore
  <2>1. ASSUME verdict = "raised" PROVE files' = Prefix(committed')
    <3>1. committed \in 1..Len(Order) /\ files = Prefix(committed)
      BY <1>8, <2>1 DEF Restore
    <3>2. files' = [Prefix(committed) EXCEPT ![Order[committed]] = Before[Order[committed]]]
      BY <1>8, <3>1 DEF Restore
    <3>3. committed' = committed - 1
      BY <1>8 DEF Restore
    <3> QED BY ONLY <3>1, <3>2, <3>3, PrefixShrinks
  <2>2. \A p \in Files : files'[p] \in {Before[p], Target[p]}
    BY <1>8 DEF Restore
  <2> QED BY <2>1, <2>2, <1>8 DEF Restore
<1>9. CASE RestoreFails
  BY <1>9 DEF RestoreFails
<1>10. CASE InterruptRestore
  BY <1>10 DEF InterruptRestore
<1>11. CASE RolledBack
  BY <1>0, <1>11 DEF RolledBack
<1>12. CASE Cleanup
  BY <1>12 DEF Cleanup
<1>13. CASE CleanupFails
  BY <1>13 DEF CleanupFails
<1>14. CASE Crash
  BY <1>14 DEF Crash
<1>15. CASE UNCHANGED vars
  BY <1>15 DEF vars
<1> QED
  BY <1>1, <1>2, <1>3, <1>4, <1>5, <1>6, <1>7, <1>8, <1>9, <1>10, <1>11,
     <1>12, <1>13, <1>14, <1>15 DEF Next

LEMMA BundleInvStep == FewFaults /\ TypeOK /\ BundleInv /\ [Next]_vars => BundleInv'
<1> SUFFICES ASSUME FewFaults, TypeOK, BundleInv, [Next]_vars PROVE BundleInv'
  OBVIOUS
<1>0. OnDisk /\ OnDisk'
  BY OnDiskStep DEF BundleInv
<1> SUFFICES Spent' /\ AllOrNothing'
  BY <1>0 DEF BundleInv
<1> USE <1>0 DEF FewFaults, TypeOK, BundleInv, Spent, OnDisk, AllOrNothing
<1>1. CASE \/ Check \/ Stage \/ AllStaged \/ AllReplaced \/ RolledBack \/ Crash
           \/ UNCHANGED vars
  <2>1. CASE Check
    BY <2>1, PrefixNone DEF Check
  <2>2. CASE Stage \/ AllStaged \/ AllReplaced
    BY <2>2 DEF Stage, AllStaged, AllReplaced
  <2>3. CASE RolledBack \/ Crash \/ UNCHANGED vars
    BY <2>3 DEF RolledBack, Crash, vars
  <2> QED BY <1>1, <2>1, <2>2, <2>3
<1>2. CASE StepFails
  BY <1>2, BundleOK DEF StepFails, Fault, BundleOK
<1>3. CASE Replace \/ Restore
  BY <1>3 DEF Replace, Restore
<1>4. CASE InterruptReplace
  BY <1>4, BundleOK DEF InterruptReplace, Fault, BundleOK
<1>5. CASE RestoreFails
  <2>1. verdict' = "unrestored" /\ phase' = "rollback" /\ UNCHANGED <<files, outcome>>
    BY <1>5 DEF RestoreFails
  <2>2. faults \in Nat /\ faults >= 1 /\ faults' = faults + 1
    BY <1>5, BundleOK DEF RestoreFails, Fault, BundleOK
  <2> QED BY <1>5, <2>1, <2>2 DEF RestoreFails
<1>6. CASE InterruptRestore
  BY <1>6, BundleOK DEF InterruptRestore, Fault, BundleOK
<1>7. CASE Cleanup
  BY <1>7 DEF Cleanup
<1>8. CASE CleanupFails
  <2>1. verdict \in {"returned", "raised", "interrupted"}
    BY <1>8, BundleOK DEF CleanupFails, Fault, BundleOK
  <2> QED BY <2>1, <1>8 DEF CleanupFails, Fault
<1> QED BY <1>1, <1>2, <1>3, <1>4, <1>5, <1>6, <1>7, <1>8 DEF Next

\* With at most two I/O faults and interrupts, a returned call has replaced every
\* destination and an uninterrupted one that raises has replaced none, or all when only
\* the cleanup failed.
THEOREM AllOrNothingHolds == ASSUME FewFaults PROVE Spec => []AllOrNothing
<1>1. BundleInv => AllOrNothing
  BY DEF BundleInv
<1> QED BY <1>1, BundleInvInit, BundleInvStep, TypeCorrect, FewFaults, PTL DEF Spec

\* The contract's own step, seen through the mapping.
ContractResult == IF outcome = "raised" /\ verdict = "interrupted" THEN "interrupted" ELSE outcome
ContractVars == <<IF outcome = "pending" THEN Before ELSE files, ContractResult>>

\* A mixture is a content made of old and new files.
LEMMA Mixed == ASSUME NEW f \in [Files -> {"old", "new", "absent"}],
                      \A p \in Files : f[p] \in {Before[p], Target[p]}
               PROVE  f \in Contract!Mixtures
<1>1. Contract!Paths = Files
  BY DEF Contract!Paths, Before
<1>2. f \in [Files -> {Before[p] : p \in Files} \cup {Target[p] : p \in Files}]
  OBVIOUS
<1> QED BY <1>1, <1>2 DEF Contract!Mixtures

\* Every step of the call is a step of the contract, or leaves its variables alone.
LEMMA StepKeepsContract ==
  FewFaults /\ TypeOK /\ TypeOK' /\ BundleInv /\ BundleInv' /\ [Next]_vars
    => [Contract!Next]_ContractVars
<1> SUFFICES ASSUME FewFaults, TypeOK, TypeOK', BundleInv, BundleInv', [Next]_vars
             PROVE  [Contract!Next]_ContractVars
  OBVIOUS
<1> USE DEF BundleInv, OnDisk
<1>1. CASE outcome' = "pending"
  <2>1. outcome = "pending"
    BY <1>1 DEF Next, Check, Stage, AllStaged, StepFails, Replace, InterruptReplace, AllReplaced,
       Restore, RestoreFails, InterruptRestore, RolledBack, Cleanup, CleanupFails, Crash, vars
  <2>2. UNCHANGED Before
    BY DEF Before
  <2> QED BY <1>1, <2>1, <2>2 DEF ContractVars, ContractResult
<1>2. CASE outcome # "pending"
  <2>1. phase = "end"
    BY <1>2
  <2>2. UNCHANGED <<files, outcome, verdict>>
    BY <2>1, <1>2 DEF Next, Check, Stage, AllStaged, StepFails, Replace, InterruptReplace, AllReplaced,
       Restore, RestoreFails, InterruptRestore, RolledBack, Cleanup, CleanupFails, Crash, vars
  <2>3. UNCHANGED Before
    BY DEF Before
  <2> QED BY <1>2, <2>2, <2>3 DEF ContractVars, ContractResult
<1>3. CASE outcome = "pending" /\ outcome' # "pending"
  <2>1. files' \in Contract!Mixtures
    BY Mixed DEF TypeOK
  <2>2. outcome' = "returned" => files' = Target
    BY DEF AllOrNothing
  <2>3. outcome' = "raised" /\ verdict' # "interrupted" => files' \in {Before, Target}
    BY DEF AllOrNothing
  <2>4. outcome' \in {"returned", "raised", "unrestored", "interrupted", "crashed"}
    BY <1>3 DEF TypeOK, Endings
  <2>5. Contract!Return \/ Contract!Raise \/ Contract!GiveUp
    BY <1>3, <2>1, <2>2, <2>3, <2>4 DEF Contract!Return, Contract!Raise, Contract!GiveUp
  <2> QED BY <2>5 DEF Contract!Next
<1> QED BY <1>1, <1>2, <1>3

\* With at most two I/O faults and interrupts, the call implements the contract
\* that its callers rely on, for any list of destinations.
THEOREM ImplementsContract == ASSUME FewFaults PROVE Spec => KeepsContract
<1>1. Init => Contract!Init
  BY DEF Init, Contract!Init
<1>2. FewFaults /\ TypeOK /\ TypeOK' /\ BundleInv /\ BundleInv' /\ [Next]_vars
        => [Contract!Next]_<<IF outcome = "pending" THEN Before ELSE files,
                             IF outcome = "raised" /\ verdict = "interrupted"
                               THEN "interrupted" ELSE outcome>>
  BY StepKeepsContract DEF ContractVars, ContractResult
<1> QED
  BY <1>1, <1>2, BundleInvInit, BundleInvStep, TypeCorrect, FewFaults, PTL
     DEF Spec, KeepsContract, Contract!Spec

-----------------------------------------------------------------------------
(* The old bytes, for any number of faults.                                *)

NewHasBackup == \A p \in Existing : files[p] = "new" => p \in backups

\* The destinations before the current one are backed up while staging, all of them
\* from the first replacement on; an ordinary rollback gives up a backup only by restoring it.
BackedUp ==
  /\ phase = "check" => at = 1
  /\ phase = "stage" => \A i \in 1..(at - 1) : Order[i] \in Existing => Order[i] \in backups
  /\ phase = "commit" => Existing \subseteq backups
  /\ phase = "rollback" /\ verdict = "raised" => NewHasBackup

BackupInv == BackedUp /\ OldBytesSurvive

\* Before the call no destination is new.
LEMMA NothingNew == \A p \in Files : Before[p] # "new"
BY DEF Before

\* The destinations that existed are destinations.
LEMMA ExistingFiles == Existing \subseteq Files
BY BundleOK DEF BundleOK

LEMMA BackedUpStep == TypeOK /\ OnDisk /\ BackedUp /\ [Next]_vars => BackedUp'
<1> SUFFICES ASSUME TypeOK, OnDisk, BackedUp, [Next]_vars PROVE BackedUp'
  OBVIOUS
<1> USE LenOrder, OrderInFiles DEF TypeOK, BackedUp
<1>1. CASE Check
  BY <1>1 DEF Check
<1>2. CASE Stage
  <2>1. phase = "stage" /\ phase' = "stage" /\ at' = at + 1 /\ verdict' = verdict
    BY <1>2 DEF Stage
  <2>2. ASSUME NEW i \in 1..(at' - 1), Order[i] \in Existing PROVE Order[i] \in backups'
    <3>1. i \in 1..(at - 1) \/ i = at
      BY <2>1, <2>2
    <3> QED BY <1>2, <2>1, <2>2, <3>1 DEF Stage
  <2> QED BY <2>1, <2>2
<1>3. CASE AllStaged
  <2>1. ASSUME NEW p \in Existing PROVE p \in backups
    <3>1. PICK i \in 1..Len(Order) : Order[i] = p
      BY ExistingFiles DEF Files
    <3>2. i \in 1..(at - 1) /\ phase = "stage"
      BY <1>3 DEF AllStaged
    <3> QED BY <3>1, <3>2, <2>1
  <2> QED BY <1>3, <2>1 DEF AllStaged
<1>4. CASE StepFails
  <2>1. NewHasBackup'
    <3>1. CASE phase = "stage"
      <4>1. files = Before
        BY <3>1, PrefixNone DEF OnDisk
      <4> QED BY <1>4, <4>1, NothingNew, ExistingFiles DEF StepFails, NewHasBackup
    <3>2. CASE phase = "commit"
      BY <1>4, <3>2 DEF StepFails, NewHasBackup
    <3> QED BY <1>4, <3>1, <3>2 DEF StepFails
  <2> QED BY <1>4, <2>1 DEF StepFails
<1>5. CASE Replace \/ InterruptReplace \/ AllReplaced
  BY <1>5 DEF Replace, InterruptReplace, AllReplaced
<1>6. CASE Restore
  <2> DEFINE q == Order[committed]
  <2>1. q \in Files /\ files' = [files EXCEPT ![q] = Before[q]] /\ backups' = backups \ {q}
    BY <1>6 DEF Restore
  <2>2. ASSUME verdict = "raised" PROVE NewHasBackup'
    <3>1. NewHasBackup
      BY <1>6, <2>2 DEF Restore
    <3>2. ASSUME NEW p \in Existing, files'[p] = "new" PROVE p \in backups'
      <4>1. p # q /\ files[p] = "new"
        BY <2>1, <3>2, NothingNew, ExistingFiles
      <4> QED BY <2>1, <3>1, <4>1 DEF NewHasBackup
    <3> QED BY <3>2 DEF NewHasBackup
  <2> QED BY <1>6, <2>2 DEF Restore
<1>7. CASE RestoreFails \/ InterruptRestore \/ RolledBack
  BY <1>7 DEF RestoreFails, InterruptRestore, RolledBack
<1>8. CASE Cleanup \/ CleanupFails \/ Crash
  BY <1>8 DEF Cleanup, CleanupFails, Crash
<1>9. CASE UNCHANGED vars
  BY <1>9 DEF vars, NewHasBackup
<1> QED BY <1>1, <1>2, <1>3, <1>4, <1>5, <1>6, <1>7, <1>8, <1>9 DEF Next

LEMMA BackupStep == TypeOK /\ OnDisk /\ OnDisk' /\ BackupInv /\ [Next]_vars => BackupInv'
<1> SUFFICES ASSUME TypeOK, OnDisk, OnDisk', BackupInv, [Next]_vars PROVE BackupInv'
  OBVIOUS
<1>0. BackedUp'
  BY BackedUpStep DEF BackupInv
<1> SUFFICES OldBytesSurvive'
  BY <1>0 DEF BackupInv
<1> USE ExistingFiles, OrderInFiles, LenOrder DEF TypeOK, BackupInv, BackedUp, OldBytesSurvive
<1>1. CASE Check \/ Stage \/ AllStaged \/ AllReplaced \/ RolledBack \/ Crash \/ UNCHANGED vars
  BY <1>1 DEF Check, Stage, AllStaged, AllReplaced, RolledBack, Crash, vars
<1>2. CASE StepFails
  BY <1>0, <1>2 DEF StepFails, NewHasBackup
<1>3. CASE Replace
  BY <1>3 DEF Replace
<1>4. CASE InterruptReplace \/ RestoreFails \/ InterruptRestore
  BY <1>4 DEF InterruptReplace, RestoreFails, InterruptRestore
<1>5. CASE Restore
  BY <1>0, <1>5 DEF Restore, OnDisk, NewHasBackup
<1>6. CASE Cleanup \/ CleanupFails
  <2>1. verdict = "returned" => files = Target
    BY <1>6 DEF Cleanup, CleanupFails, OnDisk
  <2>2. verdict = "raised" => files = Before
    BY <1>6 DEF Cleanup, CleanupFails, OnDisk
  <2>3. files' = files /\ verdict' = verdict
    BY <1>6 DEF Cleanup, CleanupFails
  <2>4. verdict \in {"returned", "raised", "unrestored", "interrupted"}
    BY DEF OnDisk
  <2> QED BY <2>1, <2>2, <2>3, <2>4, NothingNew
<1> QED BY <1>1, <1>2, <1>3, <1>4, <1>5, <1>6 DEF Next

\* While the destinations are a mixture, the old bytes of every replaced one are on disk,
\* for any number of faults, unless a restore failed or was interrupted.
THEOREM OldBytesAreKept == Spec => []OldBytesSurvive
<1>1. Init => OnDisk /\ BackupInv
  <2>1. Init => OnDisk
    BY BundleInvInit DEF BundleInv
  <2>2. Init => BackupInv
    BY NothingNew, ExistingFiles DEF Init, BackupInv, BackedUp, OldBytesSurvive
  <2> QED BY <2>1, <2>2
<1>2. BackupInv => OldBytesSurvive
  BY DEF BackupInv
<1> QED BY <1>1, <1>2, TypeCorrect, OnDiskStep, BackupStep, PTL DEF Spec

-----------------------------------------------------------------------------
(* All or nothing, for any number of faults.                               *)

\* A destination never holds anything but its old or its new file; a call that returns has
\* replaced them all; and one that raises left a mixture only when a restore failed or
\* somebody interrupted it.
HonestEnding ==
  /\ \A p \in Files : files[p] \in {Before[p], Target[p]}
  /\ outcome = "returned" => files = Target
  /\ outcome = "raised" /\ verdict \notin {"interrupted", "unrestored"} => files \in {Before, Target}

LEMMA HonestStep == TypeOK /\ OnDisk /\ OnDisk' /\ HonestEnding /\ [Next]_vars => HonestEnding'
<1> SUFFICES ASSUME TypeOK, OnDisk, OnDisk', HonestEnding, [Next]_vars PROVE HonestEnding'
  OBVIOUS
<1>0. \A p \in Files : files'[p] \in {Before[p], Target[p]}
  BY DEF OnDisk
<1>1. CASE phase' # "end"
  <2>1. outcome' = "pending"
    BY <1>1 DEF OnDisk
  <2> QED BY <1>0, <2>1 DEF HonestEnding
<1>2. CASE Check
  <2>1. files' = Before /\ outcome' # "returned"
    BY <1>2, PrefixNone DEF Check, OnDisk
  <2> QED BY <1>0, <2>1 DEF HonestEnding
<1>3. CASE Cleanup
  BY <1>0, <1>3 DEF Cleanup, OnDisk, HonestEnding
<1>4. CASE CleanupFails
  <2>1. files' = files /\ outcome' = "raised" /\ verdict' = verdict /\ phase = "cleanup"
    BY <1>4 DEF CleanupFails
  <2> QED BY <1>0, <2>1 DEF OnDisk, HonestEnding
<1>5. CASE Crash
  BY <1>0, <1>5 DEF Crash, HonestEnding
<1>6. CASE UNCHANGED vars
  BY <1>6 DEF vars, HonestEnding
<1>7. CASE \/ Stage \/ AllStaged \/ StepFails \/ Replace \/ InterruptReplace \/ AllReplaced
           \/ Restore \/ RestoreFails \/ InterruptRestore \/ RolledBack
  <2>1. phase' # "end"
    BY <1>7 DEF Stage, AllStaged, StepFails, Replace, InterruptReplace, AllReplaced, Restore,
                RestoreFails, InterruptRestore, RolledBack
  <2> QED BY <1>1, <2>1
<1> QED BY <1>2, <1>3, <1>4, <1>5, <1>6, <1>7 DEF Next

\* For any number of faults the return of atomic_replace_bundle means a complete bundle, and
\* the one exception that can stand for a half-replaced bundle without saying so is an
\* error of the cleanup that takes the place of "could not restore".
THEOREM EndingsAreHonest == Spec => []HonestEnding
<1>1. Init => OnDisk /\ HonestEnding
  BY BundleInvInit DEF Init, BundleInv, OnDisk, HonestEnding
<1>2. TypeOK /\ OnDisk /\ HonestEnding /\ [Next]_vars => OnDisk' /\ HonestEnding'
  BY OnDiskStep, HonestStep
<1> QED BY <1>1, <1>2, TypeCorrect, PTL DEF Spec
=============================================================================
