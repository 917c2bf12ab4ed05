------------------------------ MODULE NodeSync ------------------------------
(***************************************************************************)
(* A node outside the committees that follows the beacon chain and one     *)
(* shard from what peers send it: BeaconPool and ShardPool composed.  The  *)
(* shard pool takes the heights of the shard that the beacon best state in *)
(* memory has confirmed, so that the shard chain can only grow behind the  *)
(* beacon chain (blockchain/syncblock.go, InsertBlockFromPool).            *)
(***************************************************************************)
EXTENDS Integers, Sequences, SequencesExt

CONSTANTS
  BeaconBlock, BeaconGenesis, BeaconParent,
  ShardBlock, ShardGenesis, ShardParent,
  Confirms,   \* beacon height -> BestShardHeight after the block of that height
  MaxValidBlock, MaxPendingBlock, CacheSize

VARIABLES
  beaconPool, beaconBest, beaconStored, beaconInsert,
  shardPool, shardBest, shardStored, shardInsert, shardLocked

beaconVars == <<beaconPool, beaconBest, beaconStored, beaconInsert>>
shardVars == <<shardPool, shardBest, shardStored, shardInsert, shardLocked>>
vars == <<beaconVars, shardVars>>

\* GetBestHeightOfShard of the beacon best state in memory.
GetBestHeightOfShard == Confirms[beaconBest.height]

Beacon == INSTANCE BeaconPool WITH
  Block <- BeaconBlock, Genesis <- BeaconGenesis, Parent <- BeaconParent,
  Signed <- BeaconBlock

Shard == INSTANCE ShardPool WITH
  Block <- ShardBlock, Genesis <- ShardGenesis, Parent <- ShardParent,
  Signed <- ShardBlock, MaxKnown <- Confirms[Len(Confirms)],
  shardKnown <- GetBestHeightOfShard

\* The chains have no forks, and a beacon block never confirms less than the one
\* before it.  Confirms goes as far as the chains do.
ASSUME ChainsAssumption ==
  /\ Beacon!BlockAssumption /\ Shard!BlockAssumption /\ Beacon!SizesAssumption
  /\ \A chain \in {BeaconBlock, ShardBlock} : \A a, b \in chain : a.height = b.height => a = b
  /\ Confirms \in Seq(Nat) /\ Confirms # <<>>
  /\ \A i, j \in DOMAIN Confirms : i <= j => Confirms[i] <= Confirms[j]
  /\ \A b \in BeaconBlock : b.height <= Len(Confirms)
  /\ \A b \in ShardBlock : b.height <= Confirms[Len(Confirms)]

Init ==
  /\ Beacon!BeaconInit
  /\ shardPool = Shard!EmptyShardPool
  /\ shardBest = ShardGenesis
  /\ shardStored = ShardGenesis
  /\ shardInsert = "idle"
  /\ shardLocked = FALSE

-----------------------------------------------------------------------------
OnBlockBeaconReceived(b) == UNCHANGED shardVars /\ Beacon!OnBlockBeaconReceived(b)
OnBlockShardReceived(b) == UNCHANGED beaconVars /\ Shard!OnBlockShardReceived(b)

\* InsertBeaconBlockFromPool: an error ends the loop, so the first valid block
\* is the one that has to succeed.
InsertBeaconBlockFromPool ==
  /\ beaconPool.validPool # <<>>
  /\ UNCHANGED shardVars
  /\ Beacon!UpdateBestState(Head(beaconPool.validPool))

\* InsertShardBlockFromPool, likewise.
InsertShardBlockFromPool ==
  /\ shardPool.validPool # <<>>
  /\ UNCHANGED beaconVars
  /\ Shard!UpdateBestShardState(Head(shardPool.validPool))

InsertStep ==
  \/ UNCHANGED shardVars /\ Beacon!InsertStep
  \/ UNCHANGED beaconVars /\ Shard!ShardInsertStep

\* The tickers of both pools.
TickRemove ==
  \/ UNCHANGED shardVars /\ Beacon!TickRemoveBlock
  \/ UNCHANGED shardVars /\ Beacon!TickCleanOldBlock
  \/ UNCHANGED beaconVars /\ Shard!TickRemoveShardBlock

TickPromote ==
  \/ UNCHANGED shardVars /\ Beacon!TickPromotePendingPool
  \/ UNCHANGED beaconVars /\ Shard!TickPromotePendingShard

Next ==
  \/ \E b \in BeaconBlock : OnBlockBeaconReceived(b)
  \/ \E b \in ShardBlock : OnBlockShardReceived(b)
  \/ InsertBeaconBlockFromPool
  \/ InsertShardBlockFromPool
  \/ InsertStep
  \/ TickRemove
  \/ TickPromote

Spec == Init /\ [][Next]_vars

-----------------------------------------------------------------------------
BestHeight == [c \in {"beacon", "shard"} |-> IF c = "beacon" THEN beaconBest.height ELSE shardBest.height]

HeldAbove(pool, best) ==
  {b.height : b \in {c \in Range(pool.validPool) \union pool.pendingPool : c.height > best.height}}

HeldHeights ==
  [c \in {"beacon", "shard"} |-> IF c = "beacon" THEN HeldAbove(beaconPool, beaconBest)
                                                ELSE HeldAbove(shardPool, shardBest)]

Abstract == INSTANCE ChainSync WITH
  BeaconTop <- Len(Confirms), ShardTop <- Confirms[Len(Confirms)], Room <- MaxPendingBlock,
  height <- BestHeight, held <- HeldHeights

\* The pools, their tickers and the insertion from them implement ChainSync: no
\* interleaving of the threads loses a block that was taken, inserts one without
\* its certificate, or leaves one that has it.
ImplementsChainSync == Abstract!Spec
=============================================================================
