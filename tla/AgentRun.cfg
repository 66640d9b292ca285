\* The provider changes and comes back, the process dies, and again while it starts, one
\* pause loses its checkpoint: up to three of these in one behaviour.
SPECIFICATION FairSpec
CONSTANTS
  Fingerprints = {"A", "B"}
  MaxProposals = 2
  MaxIterations = 2
  MaxChanges = 2
  MaxCrashes = 2
  MaxLost = 1
  MaxMishaps = 3
INVARIANTS TypeOK OneDriver
PROPERTIES StartupSettles TasksEnd KeepsContract
CHECK_DEADLOCK FALSE
