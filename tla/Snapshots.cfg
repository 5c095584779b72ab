SPECIFICATION Spec
CONSTANTS
  Tasks = {t1}
  Decisions = {act, wait}
  Acting = {act}
  Recurring = {act}
  Scans = {s1, s2}
  Tokens = {k1, k2}
  MaxGen = 3
  MaxAttempts = 1
  NULL = NULL
SYMMETRY Symmetry
INVARIANTS SnapshotTypeOK RunningIsAuthorised CursorBacked
PROPERTIES QuarantineHeld OnlyWorkersFinish
CHECK_DEADLOCK FALSE
