\* One automation, two triggers, a clock that may run past both, one crash or failing write.
SPECIFICATION FairSpec
CONSTANTS
  Interval = 1
  OverlapPolicies = {"skip"}
  MisfirePolicies = {"skip", "run_once"}
  MaxTime = 3
  LastTrigger = 2
  MaxMishaps = 1
INVARIANTS TypeOK RefusedStaysQuiet StartedIsNotRetried
PROPERTIES IntentsSettle
CHECK_DEADLOCK FALSE
