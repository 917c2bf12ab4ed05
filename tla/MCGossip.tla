------------------------------ MODULE MCGossip ------------------------------
(***************************************************************************)
(* Two systems side by side, of which a behaviour runs one.  The messages  *)
(* of two nodes na and nb of shard 1, nc of shard 2, and nr of the beacon  *)
(* committee: nr relays transactions of shard 1 and nb those of shard 2;   *)
(* all but nc and nr, and na and nc, are connected.  And the consensus of  *)
(* a committee of four whose messages come in time.                        *)
(***************************************************************************)
EXTENDS Gossip, TLC

CONSTANTS na, nb, nc, nr

MCNode == {na, nb, nc, nr}
MCLinks == LET L == {<<na, nb>>, <<na, nr>>, <<nb, nr>>, <<nb, nc>>} IN L \cup {<<l[2], l[1]>> : l \in L}
MCShardOf == na :> 1 @@ nb :> 1 @@ nc :> 2 @@ nr :> NoShard
MCRelayShard == [n \in MCNode |-> IF n = nr THEN {1} ELSE IF n = nb THEN {2} ELSE {}]
MCStored == na :> {} @@ nb :> {"shardBlock", "beaconBlock"} @@ nc :> {"shardBlock"} @@ nr :> {"beaconBlock"}

To(n, type, about, from, shard, size) ==
    [cmd |-> type.cmd, about |-> about, from |-> from, to |-> n, shard |-> shard, size |-> size]

tx == To(NoNode, MessageTx, "tx", na, 1, 100)
tokenTx == To(NoNode, MessageTxToken, "tokenTx", nc, 2, 100)
largeTx == To(NoNode, MessageTxPrivacyToken, "largeTx", nc, 1, 5000)
beaconBlock == To(NoNode, MessageBlockBeacon, "beaconBlock", nr, NoShard, 1)
getBeaconBlock == To(nb, MessageGetBlockBeacon, "beaconBlock", na, NoShard, 1)
getShardBlock(s) == To(NoNode, MessageGetBlockShard, "shardBlock", na, s, 1)

\* Transactions that push one another out of the cache; a block that is
\* announced while it is asked for; the same request twice, to a shard with
\* a peer and to one without; messages that have to be passed on.
MCPlans ==
    {<<tx, tokenTx>>, <<largeTx, tx>>, <<beaconBlock, getBeaconBlock, getBeaconBlock, beaconBlock>>,
     <<getShardBlock(1), getShardBlock(2), getShardBlock(1), largeTx>>,
     <<To(NoNode, MessageCrossShard, "crossBlock", na, 2, 1),
       To(NoNode, MessageShardToBeacon, "toBeacon", nc, NoShard, 1)>>,
     <<To(NoNode, MessagePeerState, "state", nb, NoShard, 1), To(NoNode, MessageBFTPrepare, "vote", nb, 1, 1)>>,
     <<To(nr, MessageVersion, "version", nb, NoShard, 1)>>}

-----------------------------------------------------------------------------
VARIABLES
  timely,   \* whether it is the committee that runs
  round, phase, draw, pendingBlock, best, readyMsgs, proposeMsgs, prepareMsgs, commitMsgs

bftVars == <<round, phase, draw, pendingBlock, best, readyMsgs, proposeMsgs, prepareMsgs, commitMsgs>>

\* The proposer of the first round is down, the one of the second makes no block.
Committee == INSTANCE ConstantBFT WITH
  N <- 4, ProposerIdx <- 0, MaxStarts <- [v \in 0 .. 3 |-> 3], MaxMissing <- 4, MayRestart <- {},
  Up <- {0, 2, 3}, NoBlockIn <- {2}

MessagesNext ==
  /\ UNCHANGED timely
  /\ \/ ~timely /\ GossipNext /\ UNCHANGED bftVars
     \/ timely /\ Committee!TimelyNext /\ UNCHANGED gossipVars

MessagesInit == timely \in BOOLEAN /\ GossipInit /\ Committee!Init

\* The fair actions of Gossip are disabled while it rests.
MessagesSpec ==
  /\ MessagesInit
  /\ [][MessagesNext]_<<timely, gossipVars, bftVars>>
  /\ GossipFairness /\ WF_bftVars(timely /\ Committee!TimelyNext)

-----------------------------------------------------------------------------
\* When messages come in time and more than two thirds of the committee run,
\* they all end with the same block, although a proposer is down and another one
\* makes no block (consensus/constantbft).
TimelyCommitteeCommits == timely => Committee!AllCommit
=============================================================================
