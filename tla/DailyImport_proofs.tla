------------------------- MODULE DailyImport_proofs -------------------------
(***************************************************************************)
(* Proofs about the daily pipeline, for any list of supporting files, any  *)
(* number of calls and any number of I/O faults.                           *)
(***************************************************************************)
EXTENDS DailyImport, SequenceTheorems, TLAPS

\* The positions of the list name supporting files.
LEMMA Positions == /\ Len(Order) \in Nat
                   /\ DOMAIN Order = 1..Len(Order)
                   /\ \A i \in 1..Len(Order) : Order[i] \in Supporting
<1>1. Order \in Seq(Supporting)
  BY ImportOK DEF ImportOK
<1> QED BY <1>1, ElementOfSeq

\* Every supporting file has a position.
LEMMA Listed == \A f \in Supporting : \E i \in 1..Len(Order) : Order[i] = f
BY Positions DEF Supporting

LEMMA Bounds == MaxCalls \in Nat /\ MaxFaults \in Nat
BY ImportOK DEF ImportOK

-----------------------------------------------------------------------------

\* The generations are integers.
LEMMA Numbers == ASSUME TypeOK
                 PROVE  /\ call \in Int /\ db \in Int
                        /\ \A f \in Supporting : files[f] \in Int /\ saved.files[f] \in Int
BY Bounds DEF TypeOK, Generations, Calls, Absent

\* The loop of each phase stays within the list.
InList == /\ phase \in {"collect", "audit"} => at = 1
          /\ phase = "replace" => at >= 1
          /\ phase = "rollback" => at <= Len(Order)

LEMMA TypeInit == Init => TypeOK /\ InList
BY Bounds, Positions DEF Init, InList, TypeOK, Calls, Generations, Found, Absent, Modes, Phases, Results

LEMMA TypeStep == TypeOK /\ InList /\ [Next]_vars => TypeOK' /\ InList'
<1> SUFFICES ASSUME TypeOK, InList, [Next]_vars PROVE TypeOK' /\ InList'
  OBVIOUS
<1> USE Bounds, Positions DEF TypeOK, InList, Calls, Generations, Found, Absent, Modes, Phases, Results, published
<1>1. CASE StartAppend
  <2>1. files["report"] \in Generations /\ Seed \in [Csv -> Generations]
    BY ImportOK DEF ImportOK, Seed, Csv
  <2>2. /\ call' = call + 1 /\ call < MaxCalls /\ at' = 1 /\ faults' = 0 /\ verdict' = "returned"
        /\ mode' = "append" /\ UNCHANGED <<files, db, rejected, saved>>
    BY <1>1 DEF StartAppend, StartCall
  <2>3. /\ phase' \in {"idle", "collect"} /\ result' \in {result, "refused"}
        /\ evidence' \in {evidence, files["report"]} /\ seed' \in {seed, Seed}
    BY <1>1 DEF StartAppend, EndWith
  <2> QED BY <2>1, <2>2, <2>3
<1>2. CASE StartRebuild
  BY <1>2 DEF StartRebuild, StartCall
<1>3. CASE Collect
  BY <1>3 DEF Collect
<1>4. CASE CollectFails
  BY <1>4 DEF CollectFails, EndWith
<1>5. CASE Reject
  BY <1>5 DEF Reject, EndWith
<1>6. CASE Prepare
  BY <1>6 DEF Prepare
<1>7. CASE ReplaceFile
  <2>1. at \in 1..Len(Order) /\ Order[at] \in Supporting
    BY <1>7 DEF ReplaceFile
  <2> QED BY <1>7, <2>1 DEF ReplaceFile
<1>8. CASE ReplaceFails
  BY <1>8 DEF ReplaceFails, Fault
<1>9. CASE ReplaceDatabase
  BY <1>9 DEF ReplaceDatabase, EndWith
<1>10. CASE Restore
  <2>0. at \in 1..Len(Order)
    BY <1>10 DEF Restore
  <2>1. Order[at] \in Supporting /\ saved.files[Order[at]] \in Generations
    BY <2>0
  <2> QED BY <1>10, <2>1 DEF Restore
<1>11. CASE RestoreFails
  BY <1>11 DEF RestoreFails, Fault
<1>12. CASE RolledBack
  BY <1>12 DEF RolledBack, EndWith
<1>13. CASE Crash
  BY <1>13 DEF Crash, EndWith
<1>14. CASE UNCHANGED vars
  BY <1>14 DEF vars
<1> QED
  BY <1>1, <1>2, <1>3, <1>4, <1>5, <1>6, <1>7, <1>8, <1>9, <1>10, <1>11,
     <1>12, <1>13, <1>14 DEF Next

\* Every variable of the pipeline keeps its type.
THEOREM TypeCorrect == Spec => []TypeOK
BY TypeInit, TypeStep, PTL DEF Spec

-----------------------------------------------------------------------------
(* The database is the commit point.  The files before the position of the *)
(* replacing loop are new, those after the position of the restoring loop  *)
(* are as saved, unless a restore failed.                                  *)

NewestCall == /\ db <= call
              /\ \A f \in Supporting : files[f] <= call
              /\ Supports(files, db)

Replaced == phase = "replace" => \A i \in 1..Len(Order) : i < at => files[Order[i]] = call

SavedIsOld == phase \in {"replace", "rollback"} =>
                /\ saved.db = db
                /\ \A f \in Supporting : saved.files[f] <= call
                /\ Supports(saved.files, db)

Restored == phase = "rollback" =>
              /\ verdict \in {"raised", "unrestored"}
              /\ verdict = "raised" =>
                   \A i \in 1..Len(Order) : i > at => files[Order[i]] = saved.files[Order[i]]

CommitInv == InList /\ NewestCall /\ Replaced /\ SavedIsOld /\ Restored

\* Files that support a database still do when some are replaced by newer ones, ...
LEMMA SupportsNewer ==
  ASSUME NEW fs, NEW gs, NEW d \in Int, NEW c \in Int, d <= c,
         \A f \in Supporting : fs[f] \in Int /\ gs[f] \in {fs[f], c},
         Supports(fs, d)
  PROVE  Supports(gs, d)
BY DEF Supports

\* ... or by others that support it.
LEMMA SupportsMixed ==
  ASSUME NEW fs, NEW gs, NEW hs, NEW d \in Int,
         \A f \in Supporting : hs[f] \in {fs[f], gs[f]},
         Supports(fs, d), Supports(gs, d)
  PROVE  Supports(hs, d)
BY DEF Supports

LEMMA CommitInit == Init => CommitInv
BY TypeInit, Bounds DEF Init, CommitInv, NewestCall, Supports, Csv, Found, Absent, Calls, Replaced, SavedIsOld, Restored

LEMMA CommitStep == TypeOK /\ CommitInv /\ [Next]_vars => CommitInv'
<1> SUFFICES ASSUME TypeOK, CommitInv, [Next]_vars PROVE CommitInv'
  OBVIOUS
<1>0. InList'
  BY TypeStep DEF CommitInv
<1> USE <1>0, Bounds, Positions DEF CommitInv, TypeOK, Calls, Generations, Found, Absent, published
<1>1. CASE StartAppend \/ StartRebuild
  <2>1. phase' \in {"idle", "collect"} /\ call' = call + 1 /\ UNCHANGED <<files, db>>
    BY <1>1 DEF StartAppend, StartRebuild, StartCall, EndWith
  <2>2. NewestCall'
    BY <2>1 DEF NewestCall
  <2> QED BY <2>1, <2>2 DEF Replaced, SavedIsOld, Restored
<1>2. CASE Collect \/ CollectFails \/ Reject \/ Crash \/ RolledBack
  <2>1. phase' \in {"idle", "audit"} /\ UNCHANGED <<call, files, db>>
    BY <1>2 DEF Collect, CollectFails, Reject, Crash, RolledBack, EndWith
  <2> QED BY <2>1 DEF NewestCall, Replaced, SavedIsOld, Restored
<1>3. CASE Prepare
  <2>1. /\ phase' = "replace" /\ UNCHANGED <<call, at, files, db>>
        /\ saved' = [files |-> files, db |-> db]
    BY <1>3 DEF Prepare
  <2>2. Replaced'
    BY <1>3, <2>1 DEF Prepare, Replaced, InList
  <2> QED BY <2>1, <2>2 DEF NewestCall, SavedIsOld, Restored
<1>4. CASE ReplaceFile
  <2>0. at \in 1..Len(Order)
    BY <1>4 DEF ReplaceFile, InList
  <2>1. /\ phase = "replace" /\ at <= Len(Order) /\ at' = at + 1
        /\ files' = [files EXCEPT ![Order[at]] = call]
        /\ UNCHANGED <<call, phase, db, saved>>
    BY <1>4 DEF ReplaceFile
  <2>2. NewestCall'
    <3>1. \A f \in Supporting : files'[f] \in {files[f], call}
      BY <2>1
    <3>2. db <= call /\ db' = db /\ call' = call
      BY <2>1 DEF NewestCall
    <3>3. Supports(files', db)
      BY <3>1, <3>2, Numbers, SupportsNewer DEF NewestCall
    <3>4. ASSUME NEW f \in Supporting PROVE files'[f] <= call
      <4>1. files[f] \in Int /\ call \in Int /\ files[f] <= call
        BY Numbers DEF NewestCall
      <4>2. files'[f] \in {files[f], call}
        BY <3>1
      <4> HIDE <1>0, Bounds, Positions DEF CommitInv, TypeOK
      <4> QED BY <4>1, <4>2
    <3> QED BY <3>2, <3>3, <3>4 DEF NewestCall
  <2>3. Replaced'
    <3>1. ASSUME NEW i \in 1..Len(Order), i < at + 1 PROVE files'[Order[i]] = call
      <4>1. CASE i = at
        BY <2>0, <2>1, <4>1
      <4>2. CASE i < at
        BY <2>0, <2>1, <4>2 DEF Replaced
      <4> QED BY <2>0, <3>1, <4>1, <4>2
    <3>2. \A i \in 1..Len(Order) : i < at' => files'[Order[i]] = call'
      BY <2>1, <3>1
    <3> QED BY <3>2 DEF Replaced
  <2> QED BY <2>1, <2>2, <2>3 DEF SavedIsOld, Restored
<1>5. CASE ReplaceFails
  <2>1. /\ phase = "replace" /\ phase' = "rollback" /\ at' = Len(Order) /\ verdict' = "raised"
        /\ UNCHANGED <<call, files, db, saved>>
    BY <1>5 DEF ReplaceFails
  <2> QED BY <2>1 DEF NewestCall, Replaced, SavedIsOld, Restored
<1>6. CASE ReplaceDatabase
  <2>1. /\ phase = "replace" /\ at > Len(Order) /\ phase' = "idle" /\ db' = call
        /\ UNCHANGED <<call, files>>
    BY <1>6 DEF ReplaceDatabase, EndWith
  <2>2. \A f \in Supporting : files'[f] = call
    BY <2>1, Listed DEF Replaced
  <2>3. Supports(files', call)
    BY <2>2, Numbers DEF Supports
  <2>4. NewestCall'
    BY <2>1, <2>2, <2>3, Numbers DEF NewestCall
  <2> QED BY <2>1, <2>4 DEF Replaced, SavedIsOld, Restored
<1>7. CASE Restore
  <2>0. at \in 1..Len(Order)
    BY <1>7 DEF Restore, InList
  <2>1. /\ phase = "rollback" /\ at' = at - 1
        /\ files' = [files EXCEPT ![Order[at]] = saved.files[Order[at]]]
        /\ UNCHANGED <<call, phase, db, saved, verdict>>
    BY <1>7 DEF Restore
  <2>2. NewestCall'
    <3>1. ASSUME NEW f \in Supporting PROVE files'[f] \in {files[f], saved.files[f]}
      BY <2>0, <2>1
    <3>2. saved.db = db /\ db <= call /\ db' = db /\ call' = call
      BY <2>1 DEF NewestCall, SavedIsOld
    <3>3. Supports(files', db)
      BY <2>1, <3>1, <3>2, Numbers, SupportsMixed DEF NewestCall, SavedIsOld
    <3>4. \A f \in Supporting : files'[f] <= call
      BY <2>1, <3>1, Numbers DEF NewestCall, SavedIsOld
    <3> QED BY <3>2, <3>3, <3>4 DEF NewestCall
  <2>3. Restored'
    <3>1. ASSUME verdict = "raised", NEW i \in 1..Len(Order), i > at - 1
          PROVE  files'[Order[i]] = saved.files[Order[i]]
      <4>1. CASE i = at
        BY <2>0, <2>1, <4>1
      <4>2. CASE i > at
        BY <2>0, <2>1, <3>1, <4>2 DEF Restored
      <4> QED BY <2>0, <3>1, <4>1, <4>2
    <3> QED BY <2>1, <3>1 DEF Restored
  <2> QED BY <2>0, <2>1, <2>2, <2>3 DEF Replaced, SavedIsOld
<1>8. CASE RestoreFails
  <2>1. /\ phase = "rollback" /\ verdict' = "unrestored"
        /\ UNCHANGED <<call, phase, files, db, saved>>
    BY <1>8 DEF RestoreFails
  <2> QED BY <2>1 DEF NewestCall, Replaced, SavedIsOld, Restored
<1>9. CASE UNCHANGED vars
  BY <1>9 DEF vars, NewestCall, Replaced, SavedIsOld, Restored
<1> QED
  BY <1>1, <1>2, <1>3, <1>4, <1>5, <1>6, <1>7, <1>8, <1>9 DEF Next

\* The database of a call is never visible before its CSV copies and its quality report, whatever fails or dies.
THEOREM DatabaseComesLast == Spec => []DatabaseIsCommitPoint
<1>1. CommitInv => DatabaseIsCommitPoint
  BY DEF CommitInv, NewestCall, DatabaseIsCommitPoint
<1> QED BY <1>1, CommitInit, CommitStep, TypeCorrect, PTL DEF Spec

\* A call that returns has published everything, and one that
\* raised or was rejected has changed nothing.
THEOREM CallsAreAtomic == Spec => CallIsAtomic
<1> DEFINE Ends ==
      phase # "idle" /\ phase' = "idle" =>
        /\ result' = "returned" => db' = call /\ \A f \in Supporting : files'[f] = call
        /\ result' \in {"raised", "rejected"} =>
             IF phase = "rollback" THEN files' = saved.files /\ db' = saved.db
                                   ELSE UNCHANGED <<files, db>>
<1>1. TypeOK /\ CommitInv /\ [Next]_vars => [Ends]_vars
  <2> SUFFICES ASSUME TypeOK, CommitInv, [Next]_vars, phase # "idle", phase' = "idle"
               PROVE  Ends \/ UNCHANGED vars
    OBVIOUS
  <2> USE Bounds, Positions DEF TypeOK, Calls, Generations, Found, Absent, EndWith, published
  <2>1. CASE ReplaceDatabase
    <3>1. \A f \in Supporting : files[f] = call
      BY <2>1, Listed DEF ReplaceDatabase, CommitInv, Replaced
    <3> QED BY <2>1, <3>1 DEF ReplaceDatabase
  <2>2. CASE RolledBack
    <3>1. CASE verdict = "raised"
      <4>1. \A f \in Supporting : files[f] = saved.files[f]
        BY <2>2, <3>1, Listed DEF RolledBack, CommitInv, Restored
      <4>2. files = saved.files
        BY <4>1
      <4>3. db = saved.db
        BY <2>2 DEF RolledBack, CommitInv, SavedIsOld
      <4> QED BY <2>2, <3>1, <4>2, <4>3 DEF RolledBack
    <3>2. CASE verdict = "unrestored"
      BY <2>2, <3>2 DEF RolledBack
    <3> QED BY <2>2, <3>1, <3>2 DEF RolledBack, CommitInv, Restored
  <2>3. CASE CollectFails \/ Reject \/ Crash
    BY <2>3 DEF CollectFails, Reject, Crash
  <2>4. CASE \/ StartAppend \/ StartRebuild \/ Collect \/ Prepare \/ ReplaceFile \/ ReplaceFails
             \/ Restore \/ RestoreFails
    BY <2>4 DEF StartAppend, StartRebuild, StartCall, Collect, Prepare, ReplaceFile, ReplaceFails,
       Restore, RestoreFails
  <2> QED BY <2>1, <2>2, <2>3, <2>4 DEF Next
<1> QED BY <1>1, CommitInit, CommitStep, TypeCorrect, PTL DEF Spec, CallIsAtomic

\* A running append extends the publication it found, as far as that is still in place:
\* the database until the commit point, the files until the first replacement, after
\* which saved holds them.
Extends(fs, d) ==
  /\ d # Absent => \A f \in Csv : seed[f] = d
  /\ d = Absent => \A f \in Csv : seed[f] = fs[f] /\ fs[f] # Absent
  /\ evidence = fs["report"]
  /\ evidence # Absent => \A f \in Supporting : fs[f] = d

ExtendsFound ==
  mode = "append" =>
    /\ phase \in {"collect", "audit"} => Extends(files, db)
    /\ phase \in {"replace", "rollback"} => Extends(saved.files, db)

LEMMA ExtendsStep == TypeOK /\ ExtendsFound /\ [Next]_vars => ExtendsFound'
<1> SUFFICES ASSUME TypeOK, ExtendsFound, [Next]_vars PROVE ExtendsFound'
  OBVIOUS
<1> USE DEF ExtendsFound, published
<1>1. CASE StartAppend
  <2>1. CASE Aligned /\ Seedable
    <3>1. /\ evidence' = files["report"] /\ seed' = Seed /\ phase' = "collect"
          /\ UNCHANGED <<files, db>>
      BY <1>1, <2>1 DEF StartAppend, StartCall
    <3>2. Extends(files, db)'
      BY <2>1, <3>1 DEF Aligned, Seedable, Seed, Extends
    <3> QED BY <3>1, <3>2
  <2>2. CASE ~(Aligned /\ Seedable)
    BY <1>1, <2>2 DEF StartAppend, EndWith
  <2> QED BY <2>1, <2>2
<1>2. CASE StartRebuild
  BY <1>2 DEF StartRebuild
<1>3. CASE Prepare
  <2>1. mode' = mode /\ phase = "audit" /\ phase' = "replace"
        /\ saved' = [files |-> files, db |-> db] /\ UNCHANGED <<db, seed, evidence>>
    BY <1>3 DEF Prepare
  <2> QED BY <2>1 DEF Extends
<1>4. CASE Collect
  BY <1>4 DEF Collect, Extends
<1>5. CASE ReplaceFile \/ ReplaceFails \/ Restore \/ RestoreFails
  BY <1>5 DEF ReplaceFile, ReplaceFails, Restore, RestoreFails, Extends
<1>6. CASE CollectFails \/ Reject \/ ReplaceDatabase \/ RolledBack \/ Crash
  BY <1>6 DEF CollectFails, Reject, ReplaceDatabase, RolledBack, Crash, EndWith
<1>7. CASE UNCHANGED vars
  BY <1>7 DEF vars, Extends
<1> QED BY <1>1, <1>2, <1>3, <1>4, <1>5, <1>6, <1>7 DEF Next

LEMMA ExtendsAlways == Spec => []ExtendsFound
<1>1. Init => ExtendsFound
  BY DEF Init, ExtendsFound
<1> QED BY <1>1, ExtendsStep, TypeCorrect, PTL DEF Spec

\* The candidate of an append and the evidence it carries are those of the published
\* database, after any history of crashes; it carries none only beside a database older
\* than every call (run_fact_pipeline.py: load_append_attempt_evidence and
\* seed_processed_from_local).
THEOREM AppendsExtendTheirDatabase == Spec => []OwnDatabase
<1>1. TypeOK /\ CommitInv /\ ExtendsFound => OwnDatabase
  <2> SUFFICES ASSUME TypeOK, CommitInv, ExtendsFound, mode = "append", phase # "idle"
               PROVE  /\ db # Absent => \A f \in Csv : seed[f] = db
                      /\ evidence # Absent => evidence = db
                      /\ db > Found => evidence = db
                      /\ db = Absent => evidence = Absent /\ \A f \in Csv : seed[f] # Absent
    BY DEF OwnDatabase
  <2> DEFINE fs == IF phase \in {"replace", "rollback"} THEN saved.files ELSE files
  <2>1. Extends(fs, db)
    BY DEF ExtendsFound, TypeOK, Phases
  <2>2. Supports(fs, db)
    BY DEF CommitInv, NewestCall, SavedIsOld
  <2>3. "report" \in Supporting /\ fs["report"] \in Int /\ db \in Int
    BY ImportOK, Bounds DEF ImportOK, TypeOK, Generations, Calls, Absent
  <2>4. db > Found => fs["report"] >= db
    BY <2>2, <2>3 DEF Supports, Found
  <2> HIDE DEF fs
  <2>5. db > Found => evidence = db
    BY <2>1, <2>3, <2>4 DEF Extends, Found, Absent
  <2>6. evidence # Absent => evidence = db
    BY <2>1, <2>3 DEF Extends
  <2> QED BY <2>1, <2>5, <2>6 DEF Extends
<1> QED BY <1>1, ExtendsAlways, CommitInit, CommitStep, TypeCorrect, PTL DEF Spec

\* The database is replaced only by that of a newer call whose CSV copies and quality
\* report are in place: no failure, crash or refused append takes it back.  An append that
\* replaces it was seeded from it, or where there was none from the CSV copies, carries
\* the evidence of the report it found, none if there was none, and no report but that of
\* the database replaced (import_local_snapshot.py: import_snapshot;
\* run_fact_pipeline.py: load_append_attempt_evidence, seed_processed_from_local).
THEOREM DatabaseGrowsByWholeCalls ==
  Spec => [][db' # db => /\ db' = call /\ db < call
                         /\ result' = "returned"
                         /\ \A f \in Supporting : files'[f] = call
                         /\ mode = "append" => saved.db = db /\ Extends(saved.files, db)]_vars
<1> DEFINE Grows == db' # db => /\ db' = call /\ db < call
                                /\ result' = "returned"
                                /\ \A f \in Supporting : files'[f] = call
                                /\ mode = "append" => saved.db = db /\ Extends(saved.files, db)
<1>1. TypeOK /\ CommitInv /\ ExtendsFound /\ [Next]_vars => [Grows]_vars
  <2> SUFFICES ASSUME TypeOK, CommitInv, ExtendsFound, [Next]_vars, db' # db PROVE Grows
    OBVIOUS
  <2>1. CASE ReplaceDatabase
    <3>1. \A f \in Supporting : files[f] = call
      BY <2>1, Listed, Bounds, Positions DEF ReplaceDatabase, CommitInv, Replaced, TypeOK
    <3>2. db \in Int /\ call \in Int /\ db <= call /\ db # call
      BY <2>1, Bounds DEF TypeOK, Calls, Generations, Absent, CommitInv, NewestCall, ReplaceDatabase
    <3>3. mode = "append" => saved.db = db /\ Extends(saved.files, db)
      BY <2>1 DEF ReplaceDatabase, ExtendsFound, CommitInv, SavedIsOld
    <3> QED BY <2>1, <3>1, <3>2, <3>3 DEF ReplaceDatabase, EndWith
  <2>2. CASE ~ReplaceDatabase
    BY <2>2 DEF Next, vars, published, StartAppend, StartRebuild, StartCall, Collect, CollectFails,
       Reject, Prepare, ReplaceFile, ReplaceFails, Restore, RestoreFails, RolledBack, Crash
  <2> QED BY <2>1, <2>2
<1> QED BY <1>1, ExtendsAlways, CommitInit, CommitStep, TypeCorrect, PTL DEF Spec
=============================================================================
