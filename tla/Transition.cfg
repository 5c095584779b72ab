SPECIFICATION Spec
CONSTANTS
  reopen = reopen
  auditDone = auditDone
  Intents = {reopen, auditDone}
  Executors = {e1, e2}
  Lane <- MCLane
  Target <- MCTarget
  Statuses = {"open", "validation", "done"}
  MaxRev = 0
  NULL = NULL
SYMMETRY Symmetry
INVARIANTS TransitionTypeOK SuccessWasReached OneSagaPerTask SettledIsOver
PROPERTIES OutcomeStands
