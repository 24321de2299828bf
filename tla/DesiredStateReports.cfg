SPECIFICATION Spec
CONSTANTS
  dist = dist
  enabled = enabled
  missing = missing
  disabled = disabled
  emptyHash = emptyHash
  groupHash = groupHash
  Dists = {dist}
  Contents = {enabled, missing, disabled}
  Hashes = {emptyHash, groupHash}
  HashOf <- MCHashOf
  BadRefs <- MCBadRefs
  MaxChanges = 0
  MaxBreaks = 0
  MaxFlips = 1
  QueueCap = 1
PROPERTIES
  ReportIsLastOutcome
