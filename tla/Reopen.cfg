\* Three gates, one open operation of any kind at a time, any call cut off at any commit.
SPECIFICATION Spec
CONSTANTS
  N = 3
  MaxAttempts = 3
  MaxOps = 1
INVARIANTS TypeOK PassedIsApproved
PROPERTIES WithdrawnIsFinal CompletedAtTarget
CHECK_DEADLOCK FALSE
