SPECIFICATION FairSpec
CONSTANTS
  MaxRequests = 2
  Tasks = {t1, t2}
  MaxRetries = 1
  MaxBreaks = 1
  MaxFailures = 1
  QueueCap = 2
INVARIANTS
  TypeOK
  OneActiveTask
  UninstalledIsTrue
PROPERTIES
  TaskOrder
  ActiveTaskEnds
CHECK_DEADLOCK FALSE
