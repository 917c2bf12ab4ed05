\* Four nodes and seven plans of messages; four validators and three rounds.
\* Plans and rounds end.
SPECIFICATION MessagesSpec
CONSTANTS
    na = na
    nb = nb
    nc = nc
    nr = nr
    NoShard = NoShard
    NoNode = NoNode
    Node <- MCNode
    Links <- MCLinks
    ShardOf <- MCShardOf
    Beacon = {nr}
    RelayShard <- MCRelayShard
    Stored <- MCStored
    Plans <- MCPlans
    TxCacheSize = 1
PROPERTIES TxSpreads RequestsAreAnswered TimelyCommitteeCommits
CHECK_DEADLOCK FALSE
