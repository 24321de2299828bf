SPECIFICATION MCSpec
CONSTANTS
  Policies = {"p"}
  Groups = {"g"}
  Owners = {"system", "t1"}
  System = "system"
  PolicyContents = {"a", "b"}
  NoObject = NoObject
  Requests = {r1, r2}
  Free = Free
  GroupInputs <- MCGroupInputs
  MaxVersions = 3
  Exceptions = {"default", "x"}
  DefaultException = "default"
  PlainDistributions = {"d", "all"}
  DefaultDistribution = "all"
  Handlers = {h1, h2}
  Targets = {everywhere, some}
  AllClusters = everywhere
  Absent = Absent
  ScopeClusters = {"c1", "c2"}
  Uninstalled = {"c2"}
  ScopeTenants = {"t1", "t2"}
  ActiveTenants = {"t1"}
  InitialTenant <- MCInitialTenant
  ScopeHandlers = {h1, h2}
  MaxScopeWrites = 2
  MaxLostNotices = 1
  Clients = {"k1", "k2"}
  MaxRevisions = 4
  Names = {"admin", "u"}
  Tenants = {"t"}
  Secrets = {"x", "y"}
  NoPassword = ""
  MaxFailed = 2
  HistoryCount = 1
  Calls = {c1, c2}
  MaxCalls = 5
  MaxSessions_ = 2
INVARIANTS
  ConsoleTypesOK
  NoOrphanExceptionScope
  QuietMeansOwn
  
  AdminRemains
  FailuresLock
PROPERTIES
  CatalogueIsAtomic
  CodeSetsFirstPassword
CHECK_DEADLOCK FALSE
