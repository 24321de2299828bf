SPECIFICATION Spec
CONSTANTS
  dist = dist
  enabled = enabled
  missing = missing
  disabled = disabled
  emptyHash = emptyHash
  groupHash = groupHash
  Dists = {dist}
  Contents = {enabled, missing}
  Hashes = {emptyHash, groupHash}
  HashOf <- MCHashOf
  BadRefs <- MCBadRefs
  MaxChanges = 2
  MaxBreaks = 1
  MaxFlips = 0
  QueueCap = 1
INVARIANTS
  TypeOK
  NoLostWakeup
PROPERTIES
  TraceIsRendered
