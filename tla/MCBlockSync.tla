---------------------------- MODULE MCBlockSync ----------------------------
(***************************************************************************)
(* Beacon blocks up to height 4 and shard blocks up to height 3; one peer  *)
(* has all of them, the other gets them while the node syncs.              *)
(***************************************************************************)
EXTENDS BlockSync, TLC

CONSTANTS p1, p2

MCConfirms == <<1, 1, 3, 3>>
MCPeerStates == p1 :> <<[beacon |-> 4, shard |-> 3]>>
             @@ p2 :> <<[beacon |-> 3, shard |-> 2], [beacon |-> 4, shard |-> 3]>>
=============================================================================
