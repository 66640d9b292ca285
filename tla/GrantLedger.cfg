SPECIFICATION Spec
CONSTANTS
  Runs = {r1, r2}
  MaxKeys = 2
  Limit <- SmallLimit
  Estimates = {2}
  Usages = {1, 3}
  MaxCrashes = 1
  NoAmount = NoAmount
SYMMETRY RunSymmetry
CHECK_DEADLOCK FALSE
INVARIANTS TypeOK WithinLimits SettledIsReported AnsweredIsCharged NoResidue RecoveredFromRecord
PROPERTIES GrantStatusIsFinal
