SPECIFICATION FairSpec
CONSTANTS
  Tasks <- MCTasks
  Graphs <- MCGraphs
  MaxParallelArg = 2
  MaxAttempts <- MCMaxAttempts
  Errors <- MCErrors
  RetryableErrors <- MCRetryable
  HasDeadline <- MCHasDeadline
  ResultStatuses <- MCResults
  Main = Main
INVARIANTS
    Bounded
    DependencyOrder
    NoOrphanRunning
    VerdictSound
    IndependentWorkDone
    CrashNeedsParallelBatch
PROPERTIES
    RunReturns
CHECK_DEADLOCK FALSE
