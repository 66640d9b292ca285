\* A process that dies between any two commits of a handler and is started again.
SPECIFICATION Spec
CONSTANTS
  NGates = 2
  MaxAttempts = 2
  MaxRequests = 2
  MaxContent = 3
  MaxItems = 1
  Passing = {2}
  Releasable = {2}
  Policies = {p1}
  Ttl = TRUE
  WritesFail = FALSE
  None = None
INVARIANTS TypeOK ApprovedReleaseComplete ApprovalsRecovered OutcomeIsVerdict PassedOnApproval
