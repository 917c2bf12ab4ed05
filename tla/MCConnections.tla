--------------------------- MODULE MCConnections ---------------------------
(***************************************************************************)
(* Two peers: both of the node's shard, or one in the beacon committee and *)
(* the other in another shard, so that every limit can be met and exceeded.*)
(***************************************************************************)
EXTENDS Connections, TLC

CONSTANTS p1, p2

MCCommittees == {[current |-> 0, beacon |-> {}, shardOf |-> p1 :> 0 @@ p2 :> 0],
                 [current |-> 0, beacon |-> {p1}, shardOf |-> p2 :> 1 @@ Self :> 0]}
MCRandShards == <<1, 0>>
=============================================================================
