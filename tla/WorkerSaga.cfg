SPECIFICATION SagaSpec
CONSTANTS
  theJob = theJob
  theTask = theTask
  g1 = g1
  Jobs = {theJob}
  Tasks = {theTask}
  Generations = {g1}
  TaskOf <- MCTaskOf
  GenerationOf <- MCGenerationOf
  Kind <- MCKind
  Owners = {o1, o2}
  Tokens = {k1, k2}
  MaxAttempts = 2
  LeaseSeconds = 1
  MaxDelay = 0
  NULL = NULL
  Signals = {}
  MaxRevision = 1
  MaxApplied = 2
SYMMETRY Symmetry
INVARIANTS AppliedOnce OnlyJournaledIntent MovesAfterEffect CompletedMeansDone
PROPERTIES ProgressDurable CompensationIsBarrier
