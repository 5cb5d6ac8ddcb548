SPECIFICATION Spec
CONSTANTS
  venue = venue
  chain1 = chain1
  chain2 = chain2
  a = a
  b = b
  d = d
  e = e
  Cex = {a, b}
  Dex = {d, e}
  Source <- SourceOf
  WorkerLimits = {1, 2, 3}
  PerVenue = 1
  PerChain = 1
  Unkillable = TRUE
SYMMETRY Alike
\* a call returns or raises
CHECK_DEADLOCK FALSE
INVARIANTS TypeOK EveryLegEndsOnce OnlyTheDeadlineExpires CexSlotKept NoWriterLeft
