\* Small pools and a chain that forks for two heights; two clients of the
\* wallet; bytes of two bits; a group of order 17.  Parts may come to their end.
CONSTANTS
  Top = 5
  ForkAt = {2, 3}
  Block <- MCBlock
  Genesis <- MCGenesis
  Parent <- MCParent
  Signed <- MCBlock
  MaxValidBlock = 3
  MaxPendingBlock = 2
  CacheSize = 1
  MaxKnown = 5
  CrossTop = 4
  SendsAt = {2, 4}
  ForksAt = {3}
  MAX_PENDING_CROSS_SHARD_IN_POOL = 1
  Clients = {c1, c2}
  Chosen = {1}
  Numbers = {1, 2}
  Foreign = {7}
  Passphrases = {"p", "q"}
  AutoInitFlag = TRUE
  Coins <- MCCoins
  MaxCalls = 2
  MaxCrashes = 1
  ByteBits = 2
  Radix = 3
  LimbBytes = 2
  WordBits = 3
  MinUnits = 1
  MaxUnits = 2
  Values <- MCValues
  Q = 17
  VectorLength = 16
  CMRingSizeExp = 2
  MaxExp = 4
  GreedyFrom = 3
  MaxCoins = 4
  Jobs <- MCJobs
  FeeTxs = {1, 2, 3}
  FeeRate <- MCFeeRate
  FeeDepth = 2
  FeeBinSize = 3
  MaxReplacements = 2
  MaxRollback = 2
  FirstHeight = 3
  LastHeight = 5
  MaxTxsPerBlock = 2
  MaxOrphans = 2
SPECIFICATION PartsSpec
INVARIANTS
  BeaconPoolIsSound
  ShardPoolIsSound
  CrossShardProcessedOnce
  AccountsSurvive
  BalancesAgree
  TextsAreFaithful
  ProofsAreComplete
  ProofsAreSound
  PaymentsAreExact
PROPERTIES
  RollbackIsExact
CHECK_DEADLOCK FALSE
