SPECIFICATION Spec
CONSTANTS
  a = a
  b = b
  c = c
  Tasks = {a, b, c}
  Deps <- SmallDeps
  Given <- SmallGiven
  Serial = {a, b}
  MaxRevs = 2
  MaxDrafts = 1
  MaxAttempts = 2
  MaxParallel = 2
SYMMETRY SmallSymmetry
CHECK_DEADLOCK FALSE
INVARIANTS TypeOK DependenciesFirst OneWriter
