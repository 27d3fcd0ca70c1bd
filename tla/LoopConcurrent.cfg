SPECIFICATION Spec
CONSTANTS
  Loops = {l1}
  NoLoop = NoLoop
  NumStages = 2
  Callers = {c1}
  Boot = Boot
  Runners = {w1, w2}
  Calls = {"plan", "start", "resume"}
  StoreFaults = TRUE
  Outcomes = {"COMPLETED", "BLOCKED", "ERROR", "OTHER"}
  MaxCrashes = 1
SYMMETRY Symmetry
INVARIANTS
    OneWorkerPerLoop
    CompletedMeansAllDone
CHECK_DEADLOCK FALSE
