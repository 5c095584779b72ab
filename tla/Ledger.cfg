SPECIFICATION Spec
CONSTANTS
  impl = impl
  other = other
  audit = audit
  repair = repair
  theTask = theTask
  g1 = g1
  g2 = g2
  Jobs = {impl, audit}
  Tasks = {theTask}
  Generations = {g1, g2}
  TaskOf <- MCTaskOf
  GenerationOf <- MCGenerationOf
  Kind <- MCKind
  Owners = {o1, o2}
  Tokens = {k1, k2, k3}
  MaxAttempts = 2
  LeaseSeconds = 2
  MaxDelay = 1
  NULL = NULL
SYMMETRY Symmetry
INVARIANTS TypeOK AttemptAccounting DetachedCallFenced OneRunningPerTask
PROPERTIES LeaseRespected FinalizingKept RevokedStaysRevoked
