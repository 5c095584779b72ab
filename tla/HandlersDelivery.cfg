SPECIFICATION Spec
CONSTANTS
  Tasks = {theTask}
  Handlers = {w1}
  Submitters = {s1}
  MaxAttempts = 0
  MaxCommit = 3
  MaxSeq = 2
  MaxWork = 4
  NULL = NULL
INVARIANTS HandlersTypeOK IntegratedMeansLanded NewestSubmissionKept CursorMissesNothing
PROPERTIES HandlersDeliver
