SPECIFICATION Spec
CONSTANTS
  Order <- SupportingFiles
  MaxCalls = 4
  MaxFaults = 2
\* MaxCalls bounds the calls
CHECK_DEADLOCK FALSE
INVARIANTS DatabaseIsCommitPoint OwnDatabase
PROPERTIES CallIsAtomic
