SPECIFICATION MCSpec
CONSTANTS
  RPolicies = {"p1", "p2"}
  RGroups = {"g1", "g2"}
  RDists = {"d1", "d2"}
  PolicyModes <- MCPolicyModes
  ResolveInputs <- MCResolveInputs
  DistInputs <- MCDistInputs
  PendingLimit = 1
  IncidentCap = 1
  MaxKeys = 2
  MaxRevision = 3
  MaxTroubles = 1
  Gateways = {"gw"}
  Operators = {"o1", "o2"}
  Hidden = {"o2"}
  NoDataAfter = 1
  HealthRange = 1
  SampleRetention = 2
  BucketSkew = 1
  SampleCap = 1
  MaxMinutes = 4
  MaxFaulty = 1
  EventInputs <- MCEventInputs
  RuleInputs <- MCRuleInputs
  RetentionInputs = {0, 2}
  DefaultRetention = 1
  TrimSpace <- MCTrimmed
  CleanupBatchSize = 1
  MaxRetention = 365
  MaxDays = 3
  MaxRows = 2
  MaxSaves = 2
  MaxLosses = 1
  WPolicies = {"p"}
  WGroups = {"g1", "g2"}
  WExceptions = {"x"}
  WNamespaces = {"n"}
  PolicyInputs <- MCPolicyInputs
  GroupObjInputs <- MCGroupObjInputs
  ExceptionInputs <- MCExceptionInputs
  Unknown = Unknown
INVARIANTS
  GatewayTypesOK
  RenderedIsStrictest
  
  
  RulesReachStoredRows
  DecisionIsStrict
CHECK_DEADLOCK FALSE
