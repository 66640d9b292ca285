SPECIFICATION FairSpec
CONSTANTS
  MaxCrashes = 2
  MaxFaults = 1
INVARIANTS RecordsAreHonest LineFailureWasNotSent
PROPERTIES Decided
CHECK_DEADLOCK FALSE
