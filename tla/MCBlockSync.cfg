CONSTANTS
  p1 = p1
  p2 = p2
  Peer = {p1, p2}
  PeerStates <- MCPeerStates
  Confirms <- MCConfirms
  BeaconTop = 4
  ShardTop = 3
  Room = 3
  MaxBlkReqPerPeer = 2
  MaxBlkReqPerTime = 3
SPECIFICATION SyncSpec
PROPERTIES NodeCatchesUp
