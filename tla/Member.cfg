SPECIFICATION MCSpec
CONSTANTS
  Events = {e1, e2}
  Retained = {e1}
  HookCap = 1
  MaxPosts = 2
  QueueCap = 1
  MaxRetries = 2
  StreamCap = 1
  MaxSessions = 2
  MaxConfigs = 1
  MaxFaults = 1
  PContents = {"a", "b", "x"}
  BadContents = {"x"}
  HistoryLimit = 3
  MaxCollisions = 2
  MaxChanges = 2
  MaxFailures = 1
  MaxResets = 1
  RefGroups = {"g1", "g2"}
  RefPolicies = {"p1"}
  MaxEdits = 2
  MaxErrors = 1
  ExSpecs <- MCExSpecs
  MaxTime = 5
  MaxHubEdits = 3
INVARIANTS
  MemberTypesOK
  NoSilentLoss
  SendsArePaidFor
  ReadyIsCaptured
PROPERTIES
  EventsSettle
  PolicySettles
  MembersAreReferenced
  DeletedGroupsGo
  ActiveEnds
CHECK_DEADLOCK FALSE
