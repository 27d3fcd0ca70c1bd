SPECIFICATION FairSpec
CONSTANTS
  Loops = {l1, l2}
  NoLoop = NoLoop
  NumStages = 3
  Callers = {}
  Boot = Boot
  Runners = {w1, w2}
  Calls = {}
  StoreFaults = TRUE
  Outcomes = {"COMPLETED", "BLOCKED", "ERROR", "OTHER"}
  MaxCrashes = 2
PROPERTIES ContractRefined LoopSettles
CHECK_DEADLOCK FALSE
