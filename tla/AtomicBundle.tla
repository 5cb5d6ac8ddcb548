---------------------------- MODULE AtomicBundle ----------------------------
(***************************************************************************)
(* scripts/atomic_publication.py: one call of atomic_replace_bundle.  All  *)
(* payloads and backups are staged beside their destinations, then the     *)
(* destinations are replaced one by one; an exception rolls the replaced   *)
(* ones back, newest first.  I/O faults and interrupts are counted, and    *)
(* the process may die anywhere.  KeyboardInterrupt is told apart from an  *)
(* error only where it does more: between an os.replace and the statement  *)
(* that remembers it, in the fsync at the end, and in the rollback.  The   *)
(* staged files themselves are not represented: nobody reads them, and a   *)
(* partly written one stays behind.                                        *)
(***************************************************************************)
EXTENDS Naturals, Sequences

CONSTANTS
  Order,        \* the destinations, in the order of the items
  Existing,     \* those that exist before the call
  MaxFaults     \* bound on the faults and interrupts of one behaviour

Files == {Order[i] : i \in DOMAIN Order}

ASSUME BundleOK ==
  /\ Order \in Seq(Files)
  /\ Order # <<>>
  /\ \A i, j \in DOMAIN Order : Order[i] = Order[j] => i = j
  /\ Existing \subseteq Files
  /\ MaxFaults \in Nat

Before == [p \in Files |-> IF p \in Existing THEN "old" ELSE "absent"]
Target == [p \in Files |-> "new"]

Phases  == {"check", "stage", "commit", "rollback", "cleanup", "end"}
Endings == {"pending", "returned", "raised", "unrestored", "interrupted", "crashed"}

VARIABLES
  phase,      \* where the call is
  at,         \* the item the current loop has come to
  files,      \* the destinations
  backups,    \* destinations whose backup is on disk
  committed,  \* how many items the call knows to have replaced
  verdict,    \* what the call will end with
  faults,     \* faults so far
  outcome     \* how the call ended

vars == <<phase, at, files, backups, committed, verdict, faults, outcome>>

Init ==
  /\ phase = "check"
  /\ at = 1
  /\ files = Before
  /\ backups = {}
  /\ committed = 0
  /\ verdict = "returned"
  /\ faults = 0
  /\ outcome = "pending"

Fault == faults < MaxFaults /\ faults' = faults + 1

\* Duplicate, irregular or missing destinations are refused before any write.
Check ==
  /\ phase = "check"
  /\ \/ phase' = "stage" /\ UNCHANGED outcome
     \/ phase' = "end" /\ outcome' = "raised"
  /\ UNCHANGED <<at, files, backups, committed, verdict, faults>>

\* Faulty variant: a backup is assumed for every destination.
StageAll ==
  /\ phase = "stage"
  /\ at <= Len(Order)
  /\ backups' = backups \cup {Order[at]}
  /\ at' = at + 1
  /\ UNCHANGED <<phase, files, committed, verdict, faults, outcome>>

Stage ==
  /\ phase = "stage"
  /\ at <= Len(Order)
  /\ backups' = backups \cup ({Order[at]} \cap Existing)
  /\ at' = at + 1
  /\ UNCHANGED <<phase, files, committed, verdict, faults, outcome>>

AllStaged ==
  /\ phase = "stage"
  /\ at > Len(Order)
  /\ phase' = "commit"
  /\ at' = 1
  /\ UNCHANGED <<files, backups, committed, verdict, faults, outcome>>

\* Writing a stage or backup file, or replacing a destination, raises; the fsync of
\* the directories after the last replacement does not.
StepFails ==
  /\ phase \in {"stage", "commit"}
  /\ at <= Len(Order)
  /\ Fault
  /\ phase' = "rollback"
  /\ verdict' = "raised"
  /\ UNCHANGED <<at, files, backups, committed, outcome>>

\* Faulty variant: the destination is not remembered for the rollback.
ReplaceForgotten ==
  /\ phase = "commit"
  /\ at <= Len(Order)
  /\ files' = [files EXCEPT ![Order[at]] = "new"]
  /\ at' = at + 1
  /\ UNCHANGED <<phase, backups, committed, verdict, faults, outcome>>

Replace ==
  /\ phase = "commit"
  /\ at <= Len(Order)
  /\ files' = [files EXCEPT ![Order[at]] = "new"]
  /\ committed' = at
  /\ at' = at + 1
  /\ UNCHANGED <<phase, backups, verdict, faults, outcome>>

\* KeyboardInterrupt after os.replace and before committed.append, or in the fsync
\* when there is nothing left to replace
InterruptReplace ==
  /\ phase = "commit"
  /\ Fault
  /\ files' = IF at <= Len(Order) THEN [files EXCEPT ![Order[at]] = "new"] ELSE files
  /\ phase' = "rollback"
  /\ verdict' = "interrupted"
  /\ UNCHANGED <<at, backups, committed, outcome>>

AllReplaced ==
  /\ phase = "commit"
  /\ at > Len(Order)
  /\ phase' = "cleanup"
  /\ UNCHANGED <<at, files, backups, committed, verdict, faults, outcome>>

\* Faulty variant: a destination is unlinked and its backup is left alone.
RestoreUnlinks ==
  /\ phase = "rollback"
  /\ committed > 0
  /\ files' = [files EXCEPT ![Order[committed]] = "absent"]
  /\ committed' = committed - 1
  /\ UNCHANGED <<phase, at, backups, verdict, faults, outcome>>

\* Faulty variant: a destination that did not exist is left in place.
RestoreKeepsNew ==
  /\ phase = "rollback"
  /\ committed > 0
  /\ LET p == Order[committed]
     IN  /\ files' = IF p \in Existing THEN [files EXCEPT ![p] = "old"] ELSE files
         /\ backups' = backups \ {p}
  /\ committed' = committed - 1
  /\ UNCHANGED <<phase, at, verdict, faults, outcome>>

Restore ==
  /\ phase = "rollback"
  /\ committed > 0
  /\ LET p == Order[committed]
     IN  /\ files' = [files EXCEPT ![p] = Before[p]]
         /\ backups' = backups \ {p}
  /\ committed' = committed - 1
  /\ UNCHANGED <<phase, at, verdict, faults, outcome>>

RestoreFails ==
  /\ phase = "rollback"
  /\ committed > 0
  /\ Fault
  /\ verdict' = "unrestored"
  /\ committed' = committed - 1
  /\ UNCHANGED <<phase, at, files, backups, outcome>>

\* An interrupt is no OSError: it leaves the rollback where it is.
InterruptRestore ==
  /\ phase = "rollback"
  /\ Fault
  /\ phase' = "cleanup"
  /\ verdict' = "interrupted"
  /\ UNCHANGED <<at, files, backups, committed, outcome>>

RolledBack ==
  /\ phase = "rollback"
  /\ committed = 0
  /\ phase' = "cleanup"
  /\ UNCHANGED <<at, files, backups, committed, verdict, faults, outcome>>

\* Faulty variant: each backup goes as soon as its destination is replaced.
CleanupEarly ==
  /\ phase \in {"commit", "cleanup"}
  /\ backups' = {}
  /\ phase' = IF phase = "cleanup" THEN "end" ELSE phase
  /\ outcome' = IF phase = "cleanup" THEN verdict ELSE outcome
  /\ UNCHANGED <<at, files, committed, verdict, faults>>

\* Staged files and unused backups are unlinked.
Cleanup ==
  /\ phase = "cleanup"
  /\ backups' = {}
  /\ phase' = "end"
  /\ outcome' = verdict
  /\ UNCHANGED <<at, files, committed, verdict, faults>>

\* An error of the cleanup replaces the exception that was on its way.
CleanupFails ==
  /\ phase = "cleanup"
  /\ Fault
  /\ backups' \in SUBSET backups
  /\ phase' = "end"
  /\ outcome' = "raised"
  /\ UNCHANGED <<at, files, committed, verdict>>

Crash ==
  /\ phase # "end"
  /\ phase' = "end"
  /\ outcome' = "crashed"
  /\ UNCHANGED <<at, files, backups, committed, verdict, faults>>

Next ==
  \/ Check   \/ Stage   \/ AllStaged        \/ StepFails
  \/ Replace \/ InterruptReplace            \/ AllReplaced
  \/ Restore \/ RestoreFails \/ InterruptRestore \/ RolledBack
  \/ Cleanup \/ CleanupFails \/ Crash

Spec == Init /\ [][Next]_vars

-----------------------------------------------------------------------------

\* Every variable has its type.
TypeOK ==
  /\ phase \in Phases
  /\ at \in 1..(Len(Order) + 1)
  /\ files \in [Files -> {"old", "new", "absent"}]
  /\ backups \subseteq Existing
  /\ committed \in 0..Len(Order)
  /\ verdict \in Endings
  /\ faults \in 0..MaxFaults
  /\ outcome \in Endings

\* The bundle is published completely or not at all ("Replace every target or
\* restore every pre-call byte on an exception", atomic_publication.py:96), unless
\* the call says that it could not restore a file, was interrupted ("failure atomicity
\* for ordinary I/O exceptions"), or the process died.
AllOrNothing ==
  /\ outcome = "returned" => files = Target
  /\ outcome = "raised" /\ verdict # "interrupted" => files \in {Before, Target}

\* As long as the destinations are a mixture, also after a crash, the old bytes of
\* every replaced destination are still on disk, unless a restore failed or was
\* interrupted.
OldBytesSurvive ==
  files # Target /\ verdict \notin {"unrestored", "interrupted"}
    => \A p \in Existing : files[p] = "new" => p \in backups

\* A destination that existed before the call exists at every moment, whatever
\* fails, is interrupted or dies: a reader always finds the old or the new file.
NeverMissing == \A p \in Existing : files[p] # "absent"

\* The contract of the call, as its callers see it.  An interrupted call stays one,
\* also when an error of the cleanup replaces KeyboardInterrupt in the end.
Contract == INSTANCE Publication
              WITH content <- IF outcome = "pending" THEN Before ELSE files,
                   result  <- IF outcome = "raised" /\ verdict = "interrupted"
                                THEN "interrupted" ELSE outcome

\* The call implements the contract: a return means that every file is new, an
\* exception that every file is as it was, or new when only the cleanup failed.
KeepsContract == Contract!Spec
=============================================================================
