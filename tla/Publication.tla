----------------------------- MODULE Publication -----------------------------
(***************************************************************************)
(* What a caller may rely on when a group of files is published: the call  *)
(* returns with every file replaced, or it raises with every file as it    *)
(* was (or, when only the cleanup failed, with every file replaced).  When *)
(* a file could not be restored the call says so; KeyboardInterrupt or a   *)
(* crash of the process may leave any mixture.                             *)
(***************************************************************************)
CONSTANTS Before, Target     \* contents of the files, functions on the same paths
VARIABLES content, result

Paths == DOMAIN Before
Mixtures == {f \in [Paths -> {Before[p] : p \in Paths} \cup {Target[p] : p \in Paths}] :
               \A p \in Paths : f[p] \in {Before[p], Target[p]}}

Init == content = Before /\ result = "pending"

Return == /\ result = "pending"
          /\ result' = "returned"
          /\ content' = Target

Raise == /\ result = "pending"
         /\ result' = "raised"
         /\ content' \in {Before, Target}

GiveUp == /\ result = "pending"
          /\ result' \in {"unrestored", "interrupted", "crashed"}
          /\ content' \in Mixtures

Next == Return \/ Raise \/ GiveUp

Spec == Init /\ [][Next]_<<content, result>>
=============================================================================
