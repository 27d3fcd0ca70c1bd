SPECIFICATION FairSpec
CONSTANTS
  NumChecks = 3
  Dependencies <- MCDependencies
  Required = {1, 2}
  Unconfigured = {}
  MaxAttempts <- MCAttempts
  RepairLimit = 2
  Requests = {q1, q2}
  NoRequest = NoRequest
  ContextErrors = {"TIMED_OUT"}
  SaveFaults = TRUE
INVARIANTS
    PassedIsProven
PROPERTIES
    VerdictStable
    RequestsEnd
CHECK_DEADLOCK FALSE
