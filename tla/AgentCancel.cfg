\* A follow-up task whose token the task before it removes, and a cancellation.
SPECIFICATION Spec
CONSTANTS
  Fingerprints = {"A", "B"}
  MaxProposals = 2
  MaxIterations = 2
  MaxChanges = 0
  MaxCrashes = 0
  MaxLost = 0
  MaxMishaps = 0
PROPERTIES CancelledRunStops
CHECK_DEADLOCK FALSE
