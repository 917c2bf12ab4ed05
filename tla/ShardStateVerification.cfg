\* One shard with forks whose pool overflows: 2 valid and 1 invalid blocks
\* allowed, and at most 2 handed out at a time.  A proposer sends any two states.
CONSTANTS
  Shards = {s1}
  Hashes = {h1, h2}
  MaxHeight = 7
  MAX_VALID_SHARD_TO_BEACON_BLK_IN_POOL = 2
  MAX_INVALID_SHARD_TO_BEACON_BLK_IN_POOL = 1
  MaxGet = 2
  MaxStates = 2
SPECIFICATION LiveSpec
INVARIANTS
  ValidRun
  RunIsMaximal
PROPERTIES
  SignedStatesContinueRun
  AllConfirmed
