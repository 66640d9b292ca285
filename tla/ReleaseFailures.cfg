\* Three attempts, permissions that change, and any write of a handler may also fail by itself.
SPECIFICATION Spec
CONSTANTS
  NGates = 2
  MaxAttempts = 3
  MaxRequests = 1
  MaxContent = 1
  MaxItems = 1
  Passing = {1}
  Releasable = {1}
  Policies = {p1, p2}
  Ttl = FALSE
  WritesFail = TRUE
  None = None
INVARIANTS SingleActive
PROPERTIES ApprovedOnOpenRequest
