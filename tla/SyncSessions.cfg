SPECIFICATION Spec
CONSTANTS
  Instances = {"op1", "op2"}
  MaxSessions = 2
  Goroutines = {g1, g2}
  NoLoop = NoLoop
  MaxElections = 2
INVARIANTS
  TypeOK
  LiveLoopIsStoppable
  OneLeaderEntry
  ClosedSessionLeavesNothing
PROPERTIES
  EntryRemovedByItsOwner
CHECK_DEADLOCK FALSE
