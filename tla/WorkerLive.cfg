SPECIFICATION FairSagaSpec
CONSTANTS
  theJob = theJob
  theTask = theTask
  g1 = g1
  Jobs = {theJob}
  Tasks = {theTask}
  Generations = {g1}
  TaskOf <- MCTaskOf
  GenerationOf <- MCGenerationOf
  Kind <- MCKind
  Owners = {o1, o2}
  Tokens = {k1, k2}
  MaxAttempts = 1
  LeaseSeconds = 2
  MaxDelay = 0
  NULL = NULL
  Signals = {"draining", "interrupted"}
  MaxRevision = 0
  MaxApplied = 2
PROPERTIES WatchedQuarantineEnds WorkerImplementsLedger UnattendedLeaseEnds
