SPECIFICATION Spec
CONSTANTS
  NumSteps = 4
  Dependencies <- ForkJoin
  Callers = {c1, c2}
  SaveFaults = TRUE
  ExecFaults = TRUE
  MaxCrashes = 1
SYMMETRY Symmetry
INVARIANTS
    ReadyIsComplete
    StopHonoured
    NoRuntimeLost
