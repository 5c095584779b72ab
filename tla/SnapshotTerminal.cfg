SPECIFICATION Spec
CONSTANTS
  Tasks = {t1}
  Decisions = {act, wait}
  Acting = {act}
  Recurring = {act}
  Scans = {s1, s2}
  Tokens = {k1}
  MaxGen = 2
  MaxAttempts = 1
  NULL = NULL
PROPERTIES TerminalRowsImmutable
CHECK_DEADLOCK FALSE
