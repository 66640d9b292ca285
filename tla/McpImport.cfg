\* Two imports of one commit; each may be asked for twice, two mishaps.
SPECIFICATION Spec
CONSTANTS
  i1 = i1
  i2 = i2
  Imports = {i1, i2}
  MaxRequests = 2
  MaxMishaps = 2
INVARIANTS WithdrawnNeverServes ProbesOnRequest
PROPERTY ProbingEnds
