SPECIFICATION Spec
CONSTANTS
  Deployments = {d1, d2}
  Projects = {p1}
  Runs = {r1}
  NoRun = NoRun
  Requests <- MCRequests
  p1 = p1
  r1 = r1
  Callers = {c1}
  NoDeployment = NoDeployment
  SaveFaults = TRUE
  ExecFaults = TRUE
  MaxCrashes = 1
SYMMETRY Symmetry
INVARIANTS
    ActiveIsEarned
    PointerIsLive
    RecordSettles
CHECK_DEADLOCK FALSE
