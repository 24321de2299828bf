SPECIFICATION Spec
CONSTANTS
  MaxRequests = 1
  Tasks = {t1}
  MaxRetries = 0
  MaxBreaks = 1
  MaxFailures = 0
  QueueCap = 2
PROPERTY
  FinalizedAfterAck
CHECK_DEADLOCK FALSE
