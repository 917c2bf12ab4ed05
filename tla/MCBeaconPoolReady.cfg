\* A chain without forks; pools with room for all of it.
CONSTANTS
  Top = 6
  ForkAt = {}
  Block <- MCBlock
  Genesis <- MCGenesis
  Parent <- MCParent
  Signed <- MCBlock
  MaxKnown = 1
  MaxValidBlock = 6
  MaxPendingBlock = 6
  CacheSize = 1
SPECIFICATION BeaconAlone
INVARIANTS
  ValidPoolIsReady
