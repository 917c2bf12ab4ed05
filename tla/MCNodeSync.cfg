\* Beacon blocks up to height 4, shard blocks up to height 3, no forks; the
\* pending pools have room for all of them, the valid pools have not.
\* Cross-shard blocks up to height 5, one of them of a fork.
\* The bounded chains end.
CHECK_DEADLOCK FALSE
CONSTANTS
  BeaconTop = 4
  ShardTop = 3
  BeaconBlock <- MCBeaconBlock
  BeaconGenesis <- MCGenesis
  BeaconParent <- MCBeaconParent
  ShardBlock <- MCShardBlock
  ShardGenesis <- MCGenesis
  ShardParent <- MCShardParent
  Confirms <- MCConfirms
  MaxValidBlock = 1
  MaxPendingBlock = 3
  CacheSize = 3
SPECIFICATION DeliverySpec
PROPERTIES
  ImplementsChainSync
  IsDelivery
  AllProcessed
