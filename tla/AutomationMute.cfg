\* The same instance: a process that dies between the claim of a trigger and its rescheduling.
SPECIFICATION FairSpec
CONSTANTS
  Interval = 1
  OverlapPolicies = {"skip"}
  MisfirePolicies = {"skip", "run_once"}
  MaxTime = 3
  LastTrigger = 2
  MaxMishaps = 1
PROPERTIES NeverMute
CHECK_DEADLOCK FALSE
