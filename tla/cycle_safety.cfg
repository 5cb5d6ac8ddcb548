SPECIFICATION UnitSpec
CONSTANTS
  Runs = {r1, r2}
  Others = {backfill}
  NoOne = NoOne
  ChildOutlives = FALSE
  Configs <- HourlyConfigs
SYMMETRY Symmetric
\* every invocation runs to its end
CHECK_DEADLOCK FALSE
INVARIANTS TypeOK DepthUsesOwnPrice LatestIsNewestManifest LatestDescribesFacts
PROPERTIES OnlyTheHolderPublishes
