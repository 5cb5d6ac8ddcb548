-------------------------- MODULE MCSnapshotRefresh --------------------------
(* Refresh jobs and their commands beside the hourly timer.                *)
EXTENDS SnapshotRefresh

CONSTANTS job1, job2, command1, command2

Commands1 == [j \in {job1} |-> command1]
Commands2 == [j \in {job1, job2} |-> IF j = job1 THEN command1 ELSE command2]
Tvl  == [j \in {job1} |-> "tvl"]
Both == [j \in {job1, job2} |-> IF j = job1 THEN "tvl" ELSE "cex_depth"]

\* the arguments of the commands and of the timers beside them
Timer(profile) == [profile |-> profile, publish |-> TRUE, exact |-> FALSE,
                   override |-> FALSE, failFast |-> FALSE]
Refresh(profile) == [profile |-> profile, publish |-> TRUE, exact |-> TRUE,
                     override |-> FALSE, failFast |-> FALSE]
TvlConfigs  == {Refresh("tvl"), Timer("tvl")}
BothConfigs == {Refresh("tvl"), Refresh("cex_depth"), Timer("depth")}
=============================================================================
