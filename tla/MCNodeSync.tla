----------------------------- MODULE MCNodeSync -----------------------------
(***************************************************************************)
(* Two systems side by side, of which a behaviour runs one: a node that    *)
(* follows two chains without forks (NodeSync), and the transfer of blocks *)
(* from shard 1 to shard 0 with goroutines in order, without restarts      *)
(* (CrossShard).                                                           *)
(***************************************************************************)
EXTENDS NodeSync

CONSTANTS
  BeaconTop,  \* bound: greatest height of a beacon block
  ShardTop    \* bound: greatest height of a shard block

MCGenesis == [height |-> 1, hash |-> "a"]
Chain(top) == [height : 2..top, hash : {"a"}]
ParentIn(chain) == [b \in chain |-> [height |-> b.height - 1, hash |-> "a"]]

MCBeaconBlock == Chain(BeaconTop)
MCShardBlock == Chain(ShardTop)
MCBeaconParent == ParentIn(MCBeaconBlock)
MCShardParent == ParentIn(MCShardBlock)

\* The block of height 2 confirms nothing, the one of height 3 two shard blocks.
MCConfirms == <<1, 1, 3, 3>>

\* Shard 1 sends to shard 0 from heights 2, 4 and 5, and a fork from height 3.
MCSends == [s \in {0, 1} |-> [h \in 2..5 |-> IF s = 1 /\ h # 3 THEN {0} ELSE {}]]
MCMaxConfirmed == [s \in {0, 1} |-> IF s = 1 THEN 5 ELSE 1]

-----------------------------------------------------------------------------
VARIABLES
  crossing,   \* whether it is the transfer that runs
  bestShardHeight, tasks, lastCrossShard, inserting, storedLast, storedHeight, nextHeight,
  validPool, pendingPool, bestCrossShard, refresh, processed

crossVars == <<bestShardHeight, tasks, lastCrossShard, inserting, storedLast, storedHeight, nextHeight,
               validPool, pendingPool, bestCrossShard, refresh, processed>>

\* A pool keeps one pending block per shard of origin.
Cross == INSTANCE CrossShard WITH
  Shards <- {0, 1}, MaxHeight <- 5, MaxConfirmed <- MCMaxConfirmed, CrossShard <- MCSends,
  Forked <- {<<0, 1, 3>>}, MAX_PENDING_CROSS_SHARD_IN_POOL <- 0

ASSUME DeliveryAssumption == Cross!CrossShardAssumption

DeliveryNext ==
  /\ UNCHANGED crossing
  /\ \/ ~crossing /\ Next /\ UNCHANGED crossVars
     \/ crossing /\ Cross!OrderedNext /\ UNCHANGED vars

\* The sync loop asks again and again for the blocks after the best ones; the
\* tickers and InsertBlockFromPool run for ever.
SyncFairness ==
  /\ \A b \in BeaconBlock : SF_vars(~crossing /\ OnBlockBeaconReceived(b))
  /\ \A b \in ShardBlock : SF_vars(~crossing /\ OnBlockShardReceived(b))
  /\ WF_vars(~crossing /\ InsertBeaconBlockFromPool)
  /\ WF_vars(~crossing /\ InsertShardBlockFromPool)
  /\ WF_vars(~crossing /\ UNCHANGED shardVars /\ Beacon!InsertStep)
  /\ WF_vars(~crossing /\ UNCHANGED beaconVars /\ Shard!ShardInsertStep)
  /\ WF_vars(/\ ~crossing /\ UNCHANGED shardVars /\ Beacon!TickRemoveBlock
             /\ beaconPool' = Beacon!RemovedBlock(beaconPool, beaconBest.height))
  /\ WF_vars(/\ ~crossing /\ UNCHANGED beaconVars /\ Shard!TickRemoveShardBlock
             /\ shardPool' = Shard!RemovedShardBlock(shardPool, shardBest.height))
  /\ WF_vars(~crossing /\ UNCHANGED shardVars /\ Beacon!TickPromotePendingPool)
  /\ WF_vars(~crossing /\ UNCHANGED beaconVars /\ Shard!TickPromotePendingShard)

\* The heights the pool expects are requested again until they arrive, and shard
\* blocks are produced for ever.
CrossFairness ==
  /\ \A x \in Cross!Sent : SF_crossVars(crossing /\ Cross!AddCrossShardBlock(x[1], x[2], x[3]))
  /\ WF_crossVars(crossing /\ tasks # <<>> /\ Cross!RunTask(1))
  /\ WF_crossVars(crossing /\ Cross!RefreshPool(0))
  /\ WF_crossVars(crossing /\ Cross!InsertShardBlock(0, 0))

DeliveryInit == crossing \in BOOLEAN /\ Init /\ Cross!Init

DeliverySpec ==
  /\ DeliveryInit
  /\ [][DeliveryNext]_<<crossing, vars, crossVars>>
  /\ SyncFairness /\ CrossFairness

-----------------------------------------------------------------------------
\* Every confirmed cross-shard block is processed exactly once and in the order
\* of confirmation (getCrossShardData, UpdatePool, the goroutines of
\* InsertBeaconBlock).
IsDelivery == Cross!IsDelivery

\* While no fork reaches a pool, everything that is confirmed is processed in the
\* end.
AllProcessed == Cross!AllProcessed
=============================================================================
