SPECIFICATION FairRefreshSpec
CONSTANTS
  job1 = job1
  job2 = job2
  command1 = command1
  command2 = command2
  Runs = {timer, command1, command2}
  Others = {job1, job2}
  NoOne = NoOne
  ChildOutlives = TRUE
  Configs <- BothConfigs
  Jobs = {job1, job2}
  Command <- Commands2
  Profile <- Both
  Fallible = {job2}
\* every job and every run comes to its end
CHECK_DEADLOCK FALSE
INVARIANTS RefreshTypeOK SuccessMeansNewPublication AbandonedChildFailsItsRun
PROPERTIES JobsEnd LocksComeFree
