SPECIFICATION Spec
CONSTANTS
  act = act
  other = other
  wait = wait
  retry = retry
  start = start
  Scans = {s1, s2}
  Calls = {c1, c2}
  Events = {retry, start}
  Decisions = {act, other, wait}
  Event <- MCEvent
  MaxGen = 4
  MaxSeq = 2
  NULL = NULL
SYMMETRY Symmetry
INVARIANTS EventLanesTypeOK NoConflictingSnapshot OneLiveDisposition UnclaimedIsCurrent AnsweredEventsRan
PROPERTIES DisplacedByNewer
CHECK_DEADLOCK FALSE
