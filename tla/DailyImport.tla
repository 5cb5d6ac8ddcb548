----------------------------- MODULE DailyImport -----------------------------
(***************************************************************************)
(* scripts/run_fact_pipeline.py and scripts/import_local_snapshot.py: one  *)
(* after the other, calls of the daily pipeline load the attempt evidence  *)
(* of the publication they extend, collect, audit, and publish the CSV     *)
(* copies, the quality report and, as the commit point, the SQLite         *)
(* database.  Calls fail anywhere and die between two replacements; the    *)
(* next call starts from whatever is left.                                 *)
(*                                                                         *)
(* The content of a file is the number of the call that built it; what the *)
(* directory held before the first call is Found, and a file that is not   *)
(* there is Absent.  The first call may find nothing, the CSV copies of a  *)
(* hand-made snapshot, a database from before there were reports, or all.  *)
(* The exact-identity quarantine, which only some candidates carry, is     *)
(* replaced and restored like the files of Order and is left out.          *)
(***************************************************************************)
EXTENDS Integers, Sequences

CONSTANTS
  Order,        \* the supporting files, in the order they are replaced
  MaxCalls,     \* bound on the number of pipeline calls
  MaxFaults     \* bound on the I/O faults of each call

Supporting == {Order[i] : i \in DOMAIN Order}
Csv        == Supporting \ {"report"}

ASSUME ImportOK ==
  /\ Order \in Seq(Supporting)
  /\ "report" \in Supporting
  /\ MaxCalls \in Nat
  /\ MaxFaults \in Nat

Phases  == {"idle", "collect", "audit", "replace", "rollback"}
Results == {"none", "returned", "raised", "unrestored", "refused", "rejected", "crashed"}
Modes   == {"append", "rebuild"}

Found  == 0
Absent == -1

Calls       == 0..MaxCalls
Generations == Calls \cup {Absent}

VARIABLES
  call,      \* number of the current or last call
  mode,      \* --append, or a full collection
  phase,     \* where it is
  at,        \* the supporting file its loop has come to
  files,     \* the published supporting files
  db,        \* the published database
  saved,     \* the publication when the call began to replace
  evidence,  \* whose attempt evidence the call carries forward, Absent: none
  seed,      \* what each CSV of the call's candidate was seeded from
  rejected,  \* the call the rejected-report pointer names
  verdict,   \* what a running call will end with
  faults,
  result     \* how the last call ended

published == <<files, db, rejected>>
vars == <<call, mode, phase, at, published, saved, evidence, seed, verdict, faults, result>>

Init ==
  /\ call = 0
  /\ mode = "rebuild"
  /\ phase = "idle"
  /\ at = 1
  /\ files \in [Supporting -> {Absent, Found}]
  /\ db \in {Absent, Found}
  /\ \A f \in Csv : files["report"] <= db /\ db <= files[f]
  /\ saved = [files |-> files, db |-> db]
  /\ evidence = Absent
  /\ seed = [f \in Csv |-> Absent]
  /\ rejected = Absent
  /\ verdict = "returned"
  /\ faults = 0
  /\ result = "none"

Fault == faults < MaxFaults /\ faults' = faults + 1

EndWith(r) ==
  /\ phase' = "idle"
  /\ result' = r

-----------------------------------------------------------------------------
(* The candidate.                                                          *)

\* Faulty variant: a report is believed without a look at its lineage.
AlignedUnchecked == files["report"] # Absent => db # Absent

\* load_append_attempt_evidence: once there is a report, it, the CSV copies and the
\* database must share one origin; without one there is no evidence to preserve.
Aligned == files["report"] # Absent => \A f \in Supporting : files[f] = db

\* seed_processed_from_local: the rows of the database, or else the CSV copies.
Seed     == [f \in Csv |-> IF db # Absent THEN db ELSE files[f]]
Seedable == \A f \in Csv : Seed[f] # Absent

StartCall ==
  /\ phase = "idle"
  /\ call < MaxCalls
  /\ call' = call + 1
  /\ at' = 1
  /\ faults' = 0
  /\ verdict' = "returned"
  /\ UNCHANGED <<published, saved>>

StartAppend ==
  /\ StartCall
  /\ mode' = "append"
  /\ IF Aligned /\ Seedable
       THEN /\ evidence' = files["report"]
            /\ seed' = Seed
            /\ phase' = "collect"
            /\ UNCHANGED result
       ELSE /\ EndWith("refused")
            /\ UNCHANGED <<evidence, seed>>

StartRebuild ==
  /\ StartCall
  /\ mode' = "rebuild"
  /\ evidence' = Absent
  /\ seed' = [f \in Csv |-> Absent]
  /\ phase' = "collect"
  /\ UNCHANGED result

\* A collector, the CSV validation or the database build raises.
CollectFails ==
  /\ phase \in {"collect", "audit"}
  /\ EndWith("raised")
  /\ UNCHANGED <<call, mode, at, published, saved, evidence, seed, verdict, faults>>

Collect ==
  /\ phase = "collect"
  /\ phase' = "audit"
  /\ UNCHANGED <<call, mode, at, published, saved, evidence, seed, verdict, faults, result>>

\* Hard-invalid facts: the candidate is archived under quality/rejected, and the
\* pointer to it is replaced.
Reject ==
  /\ phase = "audit"
  /\ rejected' = call
  /\ EndWith("rejected")
  /\ UNCHANGED <<call, mode, at, files, db, saved, evidence, seed, verdict, faults>>

\* The database is built and every supporting file that exists is copied aside; of one
\* that does not, that is remembered.
Prepare ==
  /\ phase = "audit"
  /\ saved' = [files |-> files, db |-> db]
  /\ phase' = "replace"
  /\ UNCHANGED <<call, mode, at, published, evidence, seed, verdict, faults, result>>

-----------------------------------------------------------------------------
(* The publication.                                                        *)

ReplaceFile ==
  /\ phase = "replace"
  /\ at <= Len(Order)
  /\ files' = [files EXCEPT ![Order[at]] = call]
  /\ at' = at + 1
  /\ UNCHANGED <<call, mode, phase, db, saved, evidence, seed, rejected, verdict, faults, result>>

ReplaceFails ==
  /\ phase = "replace"
  /\ Fault
  /\ phase' = "rollback"
  /\ at' = Len(Order)
  /\ verdict' = "raised"
  /\ UNCHANGED <<call, mode, published, saved, evidence, seed, result>>

\* Faulty variant: the database is put in place first.
ReplaceDatabaseFirst ==
  /\ phase = "replace"
  /\ db' = call
  /\ IF at > Len(Order) THEN EndWith("returned") ELSE UNCHANGED <<phase, result>>
  /\ UNCHANGED <<call, mode, at, files, saved, evidence, seed, rejected, verdict, faults>>

ReplaceDatabase ==
  /\ phase = "replace"
  /\ at > Len(Order)
  /\ db' = call
  /\ EndWith("returned")
  /\ UNCHANGED <<call, mode, at, files, saved, evidence, seed, rejected, verdict, faults>>

\* Faulty variant: only the files replaced before the last one are put back.
RestoreSkipsLast ==
  /\ phase = "rollback"
  /\ at > 0
  /\ files' = IF at = Len(Order) THEN files
                ELSE [files EXCEPT ![Order[at]] = saved.files[Order[at]]]
  /\ at' = at - 1
  /\ UNCHANGED <<call, mode, phase, db, saved, evidence, seed, rejected, verdict, faults, result>>

\* Every supporting file is put back, newest first, whether replaced or not; one that was
\* Absent is unlinked.
Restore ==
  /\ phase = "rollback"
  /\ at > 0
  /\ files' = [files EXCEPT ![Order[at]] = saved.files[Order[at]]]
  /\ at' = at - 1
  /\ UNCHANGED <<call, mode, phase, db, saved, evidence, seed, rejected, verdict, faults, result>>

RestoreFails ==
  /\ phase = "rollback"
  /\ at > 0
  /\ Fault
  /\ at' = at - 1
  /\ verdict' = "unrestored"
  /\ UNCHANGED <<call, mode, phase, published, saved, evidence, seed, result>>

RolledBack ==
  /\ phase = "rollback"
  /\ at = 0
  /\ EndWith(verdict)
  /\ UNCHANGED <<call, mode, at, published, saved, evidence, seed, verdict, faults>>

Crash ==
  /\ phase # "idle"
  /\ EndWith("crashed")
  /\ UNCHANGED <<call, mode, at, published, saved, evidence, seed, verdict, faults>>

Next ==
  \/ StartAppend \/ StartRebuild \/ Collect \/ CollectFails \/ Reject \/ Prepare
  \/ ReplaceFile \/ ReplaceFails \/ ReplaceDatabase
  \/ Restore \/ RestoreFails \/ RolledBack \/ Crash

Spec == Init /\ [][Next]_vars

-----------------------------------------------------------------------------

\* Every variable has its type.
TypeOK ==
  /\ call \in Calls
  /\ mode \in Modes
  /\ phase \in Phases
  /\ at \in 0..(Len(Order) + 1)
  /\ files \in [Supporting -> Generations]
  /\ db \in Generations
  /\ saved \in [files : [Supporting -> Generations], db : Generations]
  /\ evidence \in Generations
  /\ seed \in [Csv -> Generations]
  /\ rejected \in Generations
  /\ verdict \in Results
  /\ faults \in 0..MaxFaults
  /\ result \in Results

\* The database of a call becomes visible only when its CSV copies and its quality
\* report are in place, in every state a reader or a later call can meet; a report may be
\* missing only beside a database from before the first call
\* (import_local_snapshot.py:616-617).
Supports(fs, d) == \A f \in Supporting : fs[f] >= d \/ (f = "report" /\ d = Found)
DatabaseIsCommitPoint == Supports(files, db)

\* An append extends the publication it was started on, also after earlier calls died
\* between two replacements: its candidate was seeded from the published database, or
\* where there is none from CSV copies that were there, and the evidence it carries is
\* that of the same database.  It carries none only if no call has ever returned.
OwnDatabase ==
  mode = "append" /\ phase # "idle" =>
    /\ db # Absent => \A f \in Csv : seed[f] = db
    /\ evidence # Absent => evidence = db
    /\ db > Found => evidence = db
    /\ db = Absent => evidence = Absent /\ \A f \in Csv : seed[f] # Absent

\* A call that returns has published everything; one that is rejected or raises has
\* changed nothing, whatever it had replaced before the failure.
CallIsAtomic ==
  [][phase # "idle" /\ phase' = "idle" =>
       /\ result' = "returned" => db' = call /\ \A f \in Supporting : files'[f] = call
       /\ result' \in {"raised", "rejected"} =>
            IF phase = "rollback" THEN files' = saved.files /\ db' = saved.db
                                  ELSE UNCHANGED <<files, db>>]_vars
=============================================================================
