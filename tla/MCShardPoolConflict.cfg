\* Two forks from the genesis block, all of them known to the beacon.
CONSTANTS
  Top = 6
  ForkAt = {2, 3, 4, 5, 6}
  Block <- MCBlock
  Genesis <- MCGenesis
  Parent <- MCParent
  Signed <- MCBlock
  MaxKnown = 6
  MaxValidBlock = 6
  MaxPendingBlock = 6
  CacheSize = 2
SPECIFICATION ShardAlone
INVARIANTS
  ConflictedBlockIsTried
