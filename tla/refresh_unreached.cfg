SPECIFICATION RefreshSpec
CONSTANTS
  job1 = job1
  job2 = job2
  command1 = command1
  command2 = command2
  Runs = {timer, command1}
  Others = {job1}
  NoOne = NoOne
  ChildOutlives = FALSE
  Configs <- TvlConfigs
  Jobs = {job1}
  Command <- Commands1
  Profile <- Tvl
  Fallible = {job1}
\* every job and every run comes to its end
CHECK_DEADLOCK FALSE
INVARIANTS CommandReachesCollector
