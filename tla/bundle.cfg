SPECIFICATION Spec
CONSTANTS
  Order <- Bundle
  Existing <- Present
  MaxFaults = 2
\* the call ends
CHECK_DEADLOCK FALSE
INVARIANTS TypeOK AllOrNothing OldBytesSurvive NeverMissing
PROPERTIES KeepsContract
