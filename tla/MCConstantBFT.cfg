\* Four validators, two of which may go to a second round and one may restart:
\* forks happen.  Two epochs of four beacon blocks, in which stakers are chosen,
\* assigned, swapped in and swapped out.
CONSTANTS
  N = 4
  ProposerIdx = 0
  MoreAt = {2, 3}
  Starts = 2
  MaxStarts <- MCMaxStarts
  MaxMissing = 1
  MayRestart = {3}
  Up = {}
  NoBlockIn = {}
  a1 = a1
  b1 = b1
  c1 = c1
  k1 = k1
  k2 = k2
  ActiveShards = 2
  BeaconGenesis <- MCBeaconGenesis
  ShardGenesis <- MCShardGenesis
  Staker = {k1, k2}
  Home <- MCHome
  RandomShard <- MCRandomShard
  EPOCH = 4
  RANDOM_TIME = 2
  OFFSET = 1
  Impatient = FALSE
  MaxBeaconHeight = 9
  MaxShardHeight <- MCMaxShardHeight
  PayTo <- MCPayTo
  Kind <- MCKind
  MaxStakes = 1
SPECIFICATION ValidatorsSpec
INVARIANTS
  RandomSignsOnce
  CertificateIsSound
  ForkNeedsTwoRounds
  ViewsAgree
  EveryStakeCounts
  RewardsArePaidOnce
\* An engine stops when it has used its starts, the bounded chains end.
CHECK_DEADLOCK FALSE
