SPECIFICATION Spec
CONSTANTS
  NumSteps = 4
  Dependencies <- ForkJoin
  Callers = {c1}
  SaveFaults = FALSE
  ExecFaults = TRUE
  MaxCrashes = 0
INVARIANT ReadyMeansPassed
