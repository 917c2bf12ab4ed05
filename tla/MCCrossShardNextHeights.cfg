\* Goroutines in any order, no restarts.
CONSTANTS
  Shards = {0, 1}
  MaxHeight = 4
  SendsAt = {2, 4}
  MaxConfirmed <- MCMaxConfirmed
  BackAt = {}
  ForksAt = {}
  Forked <- MCForked
  CrossShard <- MCCrossShard
  MAX_PENDING_CROSS_SHARD_IN_POOL = 1
SPECIFICATION UnorderedSpec
INVARIANTS
  NextHeightsAreInOrder
