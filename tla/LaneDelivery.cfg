SPECIFICATION Spec
CONSTANTS
  Tasks = {theTask}
  Budget = 2
  MaxAttempts = 2
  MaxCommit = 3
  MaxSeq = 2
  NULL = NULL
PROPERTIES LaneDelivers LandedNotOvertaken
