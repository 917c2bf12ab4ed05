SPECIFICATION ConnSpec
CONSTANTS
    p1 = p1
    p2 = p2
    Self = self
    NoConn = NoConn
    Peer = {p1, p2}
    Committees <- MCCommittees
    RandShards <- MCRandShards
    MaxConns = 2
    MaxDials = 1
    MaxOutPeers = 1
    MaxInPeers = 2
    MaxPeersSameShard = 1
    MaxPeersOtherShard = 1
    MaxPeersOther = 1
    MaxPeersNoShard = 1
    MaxPeersBeacon = 1
    MaxRetryConn = 2
INVARIANTS TableIsExact
PROPERTIES LostConnectionsEnd
CHECK_DEADLOCK FALSE
