SPECIFICATION Spec
CONSTANTS
  Runs = {r1, r2}
  Others = {}
  NoOne = NoOne
  ChildOutlives = TRUE
  Configs <- DailyConfigs
SYMMETRY Symmetric
\* every invocation runs to its end
CHECK_DEADLOCK FALSE
PROPERTIES OnlyTheHolderPublishes
