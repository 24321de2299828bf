SPECIFICATION FairSpec
CONSTANTS
  Instances = {"op1", "op2"}
  MaxSessions = 2
  Goroutines = {g1}
  NoLoop = NoLoop
  MaxElections = 2
PROPERTIES
  OnlyLeaseHolderPushes
  LeaderStreamIsServed
CHECK_DEADLOCK FALSE
