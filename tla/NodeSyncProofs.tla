--------------------------- MODULE NodeSyncProofs ---------------------------
(***************************************************************************)
(* Proof of the safety half of the refinement of ChainSync by NodeSync,    *)
(* for all chains without forks and all sizes of the pools.  What the      *)
(* steps of each pool do is proved with the pools; here both are brought   *)
(* together, and their steps are mapped to those of ChainSync.             *)
(***************************************************************************)
EXTENDS NodeSync, SequenceTheorems, TLAPS

\* The pools of NodeSync, with what is proved about them.
BP == INSTANCE BlockPoolProofs WITH
  Block <- BeaconBlock, Genesis <- BeaconGenesis, Parent <- BeaconParent,
  Signed <- BeaconBlock, MaxKnown <- Confirms[Len(Confirms)],
  shardKnown <- GetBestHeightOfShard

SP == INSTANCE BlockPoolProofs WITH
  Block <- ShardBlock, Genesis <- ShardGenesis, Parent <- ShardParent,
  Signed <- ShardBlock, MaxKnown <- Confirms[Len(Confirms)],
  shardKnown <- GetBestHeightOfShard

\* Both pools are sound and the chains have not overtaken them.
NodeInv == BP!PoolInv /\ BP!FollowsPool /\ SP!ShardPoolInv /\ SP!ShardFollowsPool

\* What the theorems about the pools assume of the constants.
LEMMA PoolConstants ==
  /\ BP!BlockAssumption /\ BP!SignedAssumption /\ BP!SizesAssumption /\ BP!Unforked
  /\ SP!BlockAssumption /\ SP!SignedAssumption /\ SP!SizesAssumption /\ SP!Unforked
<1>1. BP!BlockAssumption /\ SP!BlockAssumption /\ BP!SizesAssumption /\ SP!SizesAssumption
  BY ChainsAssumption
     DEF BP!BlockAssumption, SP!BlockAssumption, Beacon!BlockAssumption, Shard!BlockAssumption,
                          Beacon!SizesAssumption, BP!SizesAssumption, SP!SizesAssumption
<1>2. BP!SignedAssumption /\ SP!SignedAssumption
  BY DEF BP!SignedAssumption, SP!SignedAssumption
<1>3. BP!Unforked /\ SP!Unforked
  BY ChainsAssumption DEF BP!Unforked, SP!Unforked, Beacon!BlockAssumption, Shard!BlockAssumption
<1> QED BY <1>1, <1>2, <1>3

-----------------------------------------------------------------------------
\* The actions of NodeSync are those that the theorems about the pools speak of:
\* two instances of one module have the same definitions.

\* The cache of the beacon pool.
LEMMA SameBeaconCache ==
  ASSUME NEW c, NEW b, NEW n
  PROVE  /\ Beacon!IsCached(c, b) <=> BP!IsCached(c, b)
         /\ Beacon!CacheGet(c, b) = BP!CacheGet(c, b)
         /\ Beacon!CacheAdd(c, b, n) = BP!CacheAdd(c, b, n)
BY DEF Beacon!IsCached, BP!IsCached, Beacon!CacheAdd, BP!CacheAdd, Beacon!CacheGet, BP!CacheGet,
       Beacon!Touched, BP!Touched, Beacon!WithoutKey, BP!WithoutKey, Beacon!Range, BP!Range,
       Beacon!RemoveAt, BP!RemoveAt

\* promotePendingPool of the beacon pool.
LEMMA SameBeaconPromotion ==
  ASSUME NEW p
  PROVE  Beacon!PromotePending(p) = BP!PromotePending(p)
BY DEF Beacon!PromotePending, BP!PromotePending, Beacon!PromotedTo, BP!PromotedTo, Beacon!Promotable,
       BP!Promotable, Beacon!HeightsOf, BP!HeightsOf, Beacon!At, BP!At, Beacon!HasNext, BP!HasNext,
       Beacon!HasOtherNext, BP!HasOtherNext, Beacon!IsCached, BP!IsCached, Beacon!CacheAdd, BP!CacheAdd,
       Beacon!CacheGet, BP!CacheGet, Beacon!Touched, BP!Touched, Beacon!WithoutKey, BP!WithoutKey,
       Beacon!Range, BP!Range, Beacon!RemoveAt, BP!RemoveAt

\* removeBlock of the beacon pool.
LEMMA SameBeaconRemoval ==
  ASSUME NEW p, NEW height
  PROVE  Beacon!RemovedBlock(p, height) = BP!RemovedBlock(p, height)
BY DEF Beacon!RemovedBlock, BP!RemovedBlock, Beacon!LatestOf, BP!LatestOf, Beacon!Min, BP!Min,
       Beacon!Last, BP!Last

\* A beacon block that is received.
LEMMA SameBeaconReception ==
  ASSUME NEW b
  PROVE  Beacon!OnBlockBeaconReceived(b) <=> BP!OnBlockBeaconReceived(b)
<1>1. \A p : Beacon!InsertNew(p, b) = BP!InsertNew(p, b)
  BY DEF Beacon!InsertNew, BP!InsertNew, Beacon!HasNext, BP!HasNext, Beacon!HasOtherNext,
         BP!HasOtherNext, Beacon!IsCached, BP!IsCached, Beacon!CacheAdd, BP!CacheAdd, Beacon!CacheGet,
         BP!CacheGet, Beacon!Touched, BP!Touched, Beacon!WithoutKey, BP!WithoutKey, Beacon!Range,
         BP!Range, Beacon!RemoveAt, BP!RemoveAt
<1>2. ASSUME NEW p PROVE Beacon!IsRefused(p, b) <=> BP!IsRefused(p, b)
  BY DEF Beacon!IsRefused, BP!IsRefused, Beacon!HeightsOf, BP!HeightsOf, Beacon!Cardinality, BP!Cardinality
<1>3. \A p : Beacon!IsOld(p, b) <=> BP!IsOld(p, b)
  BY DEF Beacon!IsOld, BP!IsOld
<1>4. Beacon!AcceptBeaconBlock(b) <=> BP!AcceptBeaconBlock(b)
  BY <1>1, <1>2, <1>3, SameBeaconCache, SameBeaconPromotion
     DEF Beacon!AcceptBeaconBlock, BP!AcceptBeaconBlock, Beacon!beaconChainVars, BP!beaconChainVars
<1>5. Beacon!RejectBeaconBlock(b) <=> BP!RejectBeaconBlock(b)
  BY <1>2, <1>3, SameBeaconCache
     DEF Beacon!RejectBeaconBlock, BP!RejectBeaconBlock, Beacon!beaconChainVars, BP!beaconChainVars
<1> QED BY <1>4, <1>5 DEF Beacon!OnBlockBeaconReceived, BP!OnBlockBeaconReceived

\* The other actions of the beacon pool.
LEMMA SameBeaconActions ==
  /\ Beacon!BeaconInit <=> BP!BeaconInit
  /\ Beacon!InsertStep <=> BP!InsertStep
  /\ Beacon!TickRemoveBlock <=> BP!TickRemoveBlock
  /\ Beacon!TickCleanOldBlock <=> BP!TickCleanOldBlock
  /\ Beacon!TickPromotePendingPool <=> BP!TickPromotePendingPool
  /\ \A b : Beacon!UpdateBestState(b) <=> BP!UpdateBestState(b)
<1>1. Beacon!BeaconInit <=> BP!BeaconInit
  BY DEF Beacon!BeaconInit, BP!BeaconInit, Beacon!EmptyPool, BP!EmptyPool
<1>2. Beacon!InsertStep <=> BP!InsertStep
  BY SameBeaconRemoval
     DEF Beacon!InsertStep, BP!InsertStep, Beacon!StoreBestState, BP!StoreBestState,
         Beacon!SetBeaconStateTest, BP!SetBeaconStateTest, Beacon!SetBeaconStateWrite, BP!SetBeaconStateWrite,
         Beacon!InsertRemoveBlock, BP!InsertRemoveBlock
<1>3. Beacon!TickRemoveBlock <=> BP!TickRemoveBlock
  BY SameBeaconRemoval
     DEF Beacon!TickRemoveBlock, BP!TickRemoveBlock, Beacon!beaconChainVars, BP!beaconChainVars
<1>4. Beacon!TickCleanOldBlock <=> BP!TickCleanOldBlock
  BY DEF Beacon!TickCleanOldBlock, BP!TickCleanOldBlock, Beacon!CleanedOldBlock, BP!CleanedOldBlock,
         Beacon!beaconChainVars, BP!beaconChainVars
<1>5. Beacon!TickPromotePendingPool <=> BP!TickPromotePendingPool
  BY SameBeaconPromotion
     DEF Beacon!TickPromotePendingPool, BP!TickPromotePendingPool, Beacon!beaconChainVars, BP!beaconChainVars
<1>6. \A b : Beacon!UpdateBestState(b) <=> BP!UpdateBestState(b)
  BY DEF Beacon!UpdateBestState, BP!UpdateBestState
<1> QED BY <1>1, <1>2, <1>3, <1>4, <1>5, <1>6

\* The cache of the shard pool.
LEMMA SameShardCache ==
  ASSUME NEW c, NEW b, NEW n
  PROVE  /\ Shard!IsCached(c, b) <=> SP!IsCached(c, b)
         /\ Shard!CacheGet(c, b) = SP!CacheGet(c, b)
         /\ Shard!CacheAdd(c, b, n) = SP!CacheAdd(c, b, n)
BY DEF Shard!IsCached, SP!IsCached, Shard!CacheAdd, SP!CacheAdd, Shard!CacheGet, SP!CacheGet,
       Shard!Touched, SP!Touched, Shard!WithoutKey, SP!WithoutKey, Shard!Range, SP!Range,
       Shard!RemoveAt, SP!RemoveAt

\* Where a received shard block goes.
LEMMA SameShardPlace ==
  ASSUME NEW p, NEW b
  PROVE  /\ Shard!IsNext(p, b) <=> SP!IsNext(p, b)
         /\ \A v : Shard!Continues(v, b) <=> SP!Continues(v, b)
         /\ Shard!PushOutLast(p, b) = SP!PushOutLast(p, b)
         /\ Shard!FindsConflicted(p, b) <=> SP!FindsConflicted(p, b)
<1>1. \A v : Shard!Last(v) = SP!Last(v) /\ Shard!Front(v) = SP!Front(v)
  BY DEF Shard!Last, SP!Last, Shard!Front, SP!Front
<1>2. Shard!IsNext(p, b) <=> SP!IsNext(p, b)
  BY DEF Shard!IsNext, SP!IsNext
<1>3. \A v : Shard!Continues(v, b) <=> SP!Continues(v, b)
  BY <1>1 DEF Shard!Continues, SP!Continues
<1>4. Shard!PushOutLast(p, b) = SP!PushOutLast(p, b)
  BY <1>1, SameShardCache
     DEF Shard!PushOutLast, SP!PushOutLast, Shard!LatestShardStateOf, SP!LatestShardStateOf
<1>5. Shard!FindsConflicted(p, b) <=> SP!FindsConflicted(p, b)
  BY <1>2, <1>3 DEF Shard!FindsConflicted, SP!FindsConflicted
<1> QED BY <1>2, <1>3, <1>4, <1>5

\* promotePendingPool of the shard pool.
LEMMA SameShardPromotion ==
  ASSUME NEW p
  PROVE  /\ Shard!PromotePendingShard(p) = SP!PromotePendingShard(p)
         /\ Shard!PromotionFindsConflicted(p) = SP!PromotionFindsConflicted(p)
<1>1. Shard!TakePending(p) = SP!TakePending(p)
  BY DEF Shard!TakePending, SP!TakePending, Shard!ShardPromotedTo, SP!ShardPromotedTo,
         Shard!ShardPromotable, SP!ShardPromotable, Shard!HeightsOf, SP!HeightsOf, Shard!At, SP!At,
         Shard!Continues, SP!Continues, Shard!Last, SP!Last, Shard!IsCached, SP!IsCached, Shard!Range,
         SP!Range
<1>2. \A q : Shard!StopsAt(q) = SP!StopsAt(q)
  BY DEF Shard!StopsAt, SP!StopsAt
<1>3. Shard!PromotePendingShard(p) = SP!PromotePendingShard(p)
  BY <1>1, <1>2
     DEF Shard!PromotePendingShard, SP!PromotePendingShard, Shard!StopsAt, SP!StopsAt, Shard!PushOutLast,
         SP!PushOutLast, Shard!LatestShardStateOf, SP!LatestShardStateOf, Shard!IsNext, SP!IsNext,
         Shard!Continues, SP!Continues, Shard!Last, SP!Last, Shard!Front, SP!Front, Shard!IsCached,
         SP!IsCached, Shard!CacheAdd, SP!CacheAdd, Shard!CacheGet, SP!CacheGet, Shard!Touched,
         SP!Touched, Shard!WithoutKey, SP!WithoutKey, Shard!Range, SP!Range, Shard!RemoveAt, SP!RemoveAt
<1>4. Shard!PromotionFindsConflicted(p) = SP!PromotionFindsConflicted(p)
  BY <1>1, <1>2
     DEF Shard!PromotionFindsConflicted, SP!PromotionFindsConflicted, Shard!StopsAt, SP!StopsAt,
         Shard!FindsConflicted, SP!FindsConflicted, Shard!IsNext, SP!IsNext, Shard!Continues,
         SP!Continues, Shard!Last, SP!Last, Shard!IsCached, SP!IsCached, Shard!Range, SP!Range
<1> QED BY <1>3, <1>4

\* removeBlock of the shard pool.
LEMMA SameShardRemoval ==
  ASSUME NEW p, NEW height
  PROVE  Shard!RemovedShardBlock(p, height) = SP!RemovedShardBlock(p, height)
BY DEF Shard!RemovedShardBlock, SP!RemovedShardBlock, Shard!LatestShardStateOf, SP!LatestShardStateOf,
       Shard!Min, SP!Min, Shard!Last, SP!Last, Shard!CacheAddAll, SP!CacheAddAll, Shard!IsCached,
       SP!IsCached, Shard!CacheAdd, SP!CacheAdd, Shard!CacheGet, SP!CacheGet, Shard!Touched, SP!Touched,
       Shard!WithoutKey, SP!WithoutKey, Shard!Range, SP!Range, Shard!RemoveAt, SP!RemoveAt

\* A shard block that is received.
LEMMA SameShardReception ==
  ASSUME NEW b
  PROVE  Shard!OnBlockShardReceived(b) <=> SP!OnBlockShardReceived(b)
<1>1. \A p : Shard!InsertNewShardBlock(p, b) = SP!InsertNewShardBlock(p, b)
  BY DEF Shard!InsertNewShardBlock, SP!InsertNewShardBlock, Shard!IsNext, SP!IsNext, Shard!Continues,
         SP!Continues, Shard!PushOutLast, SP!PushOutLast, Shard!LatestShardStateOf,
         SP!LatestShardStateOf, Shard!Last, SP!Last, Shard!Front, SP!Front, Shard!IsCached, SP!IsCached,
         Shard!CacheAdd, SP!CacheAdd, Shard!CacheGet, SP!CacheGet, Shard!Touched, SP!Touched,
         Shard!WithoutKey, SP!WithoutKey, Shard!Range, SP!Range, Shard!RemoveAt, SP!RemoveAt
<1>2. ASSUME NEW p PROVE Shard!IsRefusedShardBlock(p, b) <=> SP!IsRefusedShardBlock(p, b)
  BY DEF Shard!IsRefusedShardBlock, SP!IsRefusedShardBlock, Shard!HeightsOf, SP!HeightsOf,
         Shard!Cardinality, SP!Cardinality
<1>3. \A p : Shard!IsOldShardBlock(p, b) <=> SP!IsOldShardBlock(p, b)
  BY DEF Shard!IsOldShardBlock, SP!IsOldShardBlock
<1>4. Shard!AcceptShardBlock(b) <=> SP!AcceptShardBlock(b)
  BY <1>1, <1>2, <1>3, SameShardCache, SameShardPlace, SameShardPromotion
     DEF Shard!AcceptShardBlock, SP!AcceptShardBlock, Shard!shardChainVars, SP!shardChainVars
<1>5. Shard!RejectShardBlock(b) <=> SP!RejectShardBlock(b)
  BY <1>2, <1>3, SameShardCache
     DEF Shard!RejectShardBlock, SP!RejectShardBlock, Shard!shardChainVars, SP!shardChainVars
<1> QED BY <1>4, <1>5 DEF Shard!OnBlockShardReceived, SP!OnBlockShardReceived

\* The other actions of the shard pool.
LEMMA SameShardActions ==
  /\ Shard!EmptyShardPool = SP!EmptyShardPool
  /\ Shard!ShardInsertStep <=> SP!ShardInsertStep
  /\ Shard!TickRemoveShardBlock <=> SP!TickRemoveShardBlock
  /\ Shard!TickPromotePendingShard <=> SP!TickPromotePendingShard
  /\ \A b : Shard!UpdateBestShardState(b) <=> SP!UpdateBestShardState(b)
<1>1. Shard!EmptyShardPool = SP!EmptyShardPool
  BY DEF Shard!EmptyShardPool, SP!EmptyShardPool
<1>2. Shard!ShardInsertStep <=> SP!ShardInsertStep
  BY SameShardRemoval
     DEF Shard!ShardInsertStep, SP!ShardInsertStep, Shard!SetShardState, SP!SetShardState,
         Shard!ProcessStoreShardBlock, SP!ProcessStoreShardBlock,
         Shard!InsertRemoveShardBlock, SP!InsertRemoveShardBlock
<1>3. Shard!TickRemoveShardBlock <=> SP!TickRemoveShardBlock
  BY SameShardRemoval
     DEF Shard!TickRemoveShardBlock, SP!TickRemoveShardBlock, Shard!shardChainVars, SP!shardChainVars
<1>4. Shard!TickPromotePendingShard <=> SP!TickPromotePendingShard
  BY SameShardPromotion
     DEF Shard!TickPromotePendingShard, SP!TickPromotePendingShard, Shard!shardChainVars, SP!shardChainVars
<1>5. \A b : Shard!UpdateBestShardState(b) <=> SP!UpdateBestShardState(b)
  BY DEF Shard!UpdateBestShardState, SP!UpdateBestShardState
<1> QED BY <1>1, <1>2, <1>3, <1>4, <1>5

-----------------------------------------------------------------------------
\* What is held, by heights.

\* The heights that ChainSync speaks of are those that the pools lead by.
LEMMA SameHeights ==
  /\ BestHeight["beacon"] = beaconBest.height /\ BestHeight["shard"] = shardBest.height
  /\ HeldHeights["beacon"] = BP!BeaconHeld /\ HeldHeights["shard"] = SP!ShardHeld
<1>1. HeldAbove(beaconPool, beaconBest) = BP!BeaconHeld
  BY DEF HeldAbove, BP!BeaconHeld, BP!HeldIn, Range, BP!Range
<1>2. HeldAbove(shardPool, shardBest) = SP!ShardHeld
  BY DEF HeldAbove, SP!ShardHeld, SP!HeldIn, Range, SP!Range
<1> QED BY <1>1, <1>2 DEF BestHeight, HeldHeights

\* BestHeight and HeldHeights are functions of the chain.
LEMMA HeightsByChain ==
  /\ BestHeight = [c \in {"beacon", "shard"} |-> BestHeight[c]]
  /\ HeldHeights = [c \in {"beacon", "shard"} |-> HeldHeights[c]]
  /\ BestHeight' = [c \in {"beacon", "shard"} |-> BestHeight'[c]]
  /\ HeldHeights' = [c \in {"beacon", "shard"} |-> HeldHeights'[c]]
BY DEF BestHeight, HeldHeights

\* The same in the next state.
LEMMA SameNextHeights ==
  /\ BestHeight'["beacon"] = beaconBest'.height /\ BestHeight'["shard"] = shardBest'.height
  /\ HeldHeights'["beacon"] = BP!BeaconHeld' /\ HeldHeights'["shard"] = SP!ShardHeld'
<1>1. HeldAbove(beaconPool, beaconBest)' = BP!BeaconHeld'
  BY DEF HeldAbove, BP!BeaconHeld, BP!HeldIn, Range, BP!Range
<1>2. HeldAbove(shardPool, shardBest)' = SP!ShardHeld'
  BY DEF HeldAbove, SP!ShardHeld, SP!HeldIn, Range, SP!Range
<1> QED BY <1>1, <1>2 DEF BestHeight, HeldHeights

\* The types of the heights, and how far the chains go.
LEMMA BestHeights ==
  ASSUME NodeInv
  PROVE  /\ beaconBest.height \in 1..Len(Confirms)
         /\ shardBest.height \in Nat
         /\ GetBestHeightOfShard \in Nat
         /\ Len(Confirms) \in Nat /\ Confirms[Len(Confirms)] \in Nat
         /\ GetBestHeightOfShard <= Confirms[Len(Confirms)]
<1>1. /\ \A b \in BeaconBlock : b.height \in Nat /\ b.height > 1
      /\ \A b \in ShardBlock : b.height \in Nat /\ b.height > 1
      /\ BeaconGenesis.height = 1 /\ ShardGenesis.height = 1
  BY PoolConstants DEF BP!BlockAssumption, SP!BlockAssumption
<1>2. Len(Confirms) \in Nat \ {0} /\ DOMAIN Confirms = 1..Len(Confirms)
  BY ChainsAssumption
<1>3. beaconBest \in BeaconBlock \union {BeaconGenesis} /\ shardBest \in ShardBlock \union {ShardGenesis}
  BY DEF NodeInv, BP!PoolInv, SP!ShardPoolInv
<1>4. beaconBest.height \in 1..Len(Confirms)
  <2>1. CASE beaconBest \in BeaconBlock
    BY <1>1, <1>2, <2>1, ChainsAssumption
  <2>2. CASE beaconBest = BeaconGenesis
    BY <1>1, <1>2, <2>2
  <2> QED BY <1>3, <2>1, <2>2
<1>5. shardBest.height \in Nat
  BY <1>1, <1>3
<1>6. Len(Confirms) \in 1..Len(Confirms)
  BY <1>2
<1>7. \A i \in 1..Len(Confirms) : Confirms[i] \in Nat
  BY ChainsAssumption, ElementOfSeq
<1>8. \A i \in 1..Len(Confirms) : Confirms[i] <= Confirms[Len(Confirms)]
  BY <1>2, <1>6, ChainsAssumption
<1> QED BY <1>2, <1>4, <1>5, <1>6, <1>7, <1>8 DEF GetBestHeightOfShard

-----------------------------------------------------------------------------
\* Steps of ChainSync, told by what becomes of the heights of one chain.

Chains == {"beacon", "shard"}

\* The heights of chain c and those held for it stay as they are.
Rests(c) == BestHeight'[c] = BestHeight[c] /\ HeldHeights'[c] = HeldHeights[c]

\* Both chains rest.
LEMMA RestIsStutter ==
  ASSUME Rests("beacon"), Rests("shard")
  PROVE  UNCHANGED Abstract!chainVars
<1>1. \A c \in Chains : BestHeight'[c] = BestHeight[c] /\ HeldHeights'[c] = HeldHeights[c]
  BY DEF Rests, Chains
<1>2. BestHeight' = BestHeight /\ HeldHeights' = HeldHeights
  BY <1>1, HeightsByChain DEF Chains
<1> QED BY <1>2 DEF Abstract!chainVars

\* The heights held for one chain grow by one that is above its best block.
LEMMA TakenIsReceived ==
  ASSUME NEW c \in Chains, NEW h \in 2..Abstract!Top(c), h > BestHeight[c],
         BestHeight'[c] = BestHeight[c], HeldHeights'[c] = HeldHeights[c] \union {h},
         \A d \in Chains \ {c} : Rests(d)
  PROVE  Abstract!Next
<1>1. BestHeight' = BestHeight
  <2>1. \A d \in Chains : BestHeight'[d] = BestHeight[d]
    BY DEF Rests
  <2> QED BY <2>1, HeightsByChain DEF Chains
<1>2. HeldHeights' = [HeldHeights EXCEPT ![c] = HeldHeights[c] \union {h}]
  <2>1. \A d \in Chains : HeldHeights'[d] = IF d = c THEN HeldHeights[c] \union {h} ELSE HeldHeights[d]
    BY DEF Rests
  <2> QED BY <2>1, HeightsByChain DEF Chains
<1>3. Abstract!Receive(c, h)
  BY <1>1, <1>2 DEF Abstract!Receive
<1> QED BY <1>3 DEF Abstract!Next, Abstract!Chain, Chains

\* One chain grows by the next height, which was held and has its certificate.
LEMMA GrownIsInserted ==
  ASSUME NEW c \in Chains, Abstract!Certified(c),
         BestHeight'[c] = BestHeight[c] + 1, HeldHeights'[c] = HeldHeights[c] \ {BestHeight[c] + 1},
         \A d \in Chains \ {c} : Rests(d)
  PROVE  Abstract!Next
<1>1. BestHeight' = [BestHeight EXCEPT ![c] = BestHeight[c] + 1]
  <2>1. \A d \in Chains : BestHeight'[d] = IF d = c THEN BestHeight[c] + 1 ELSE BestHeight[d]
    BY DEF Rests
  <2> QED BY <2>1, HeightsByChain DEF Chains
<1>2. HeldHeights' = [HeldHeights EXCEPT ![c] = HeldHeights[c] \ {BestHeight[c] + 1}]
  <2>1. \A d \in Chains : HeldHeights'[d] = IF d = c THEN HeldHeights[c] \ {BestHeight[c] + 1} ELSE HeldHeights[d]
    BY DEF Rests
  <2> QED BY <2>1, HeightsByChain DEF Chains
<1>3. Abstract!Insert(c)
  BY <1>1, <1>2 DEF Abstract!Insert
<1> QED BY <1>3 DEF Abstract!Next, Abstract!Chain, Chains

-----------------------------------------------------------------------------
\* What a step of one pool does to the other.

\* The beacon chain grows, or stays as it is: the shard pool learns that it has
\* confirmed more.
LEMMA BeaconStepKeepsShard ==
  ASSUME NodeInv, BP!PoolInv', UNCHANGED shardVars, beaconBest'.height >= beaconBest.height
  PROVE  SP!ShardPoolInv' /\ SP!ShardFollowsPool' /\ Rests("shard")
<1>1. /\ beaconBest.height \in 1..Len(Confirms) /\ Len(Confirms) \in Nat
      /\ GetBestHeightOfShard \in Nat /\ Confirms[Len(Confirms)] \in Nat
  BY BestHeights
<1>2. beaconBest'.height \in 1..Len(Confirms)
  <2>1. /\ \A b \in BeaconBlock : b.height \in Nat /\ b.height > 1
        /\ BeaconGenesis.height = 1
    BY PoolConstants DEF BP!BlockAssumption
  <2>2. beaconBest' \in BeaconBlock \union {BeaconGenesis}
    BY DEF BP!PoolInv
  <2>3. \A b \in BeaconBlock : b.height <= Len(Confirms)
    BY ChainsAssumption
  <2> QED BY <1>1, <2>1, <2>2, <2>3
<1>3. /\ GetBestHeightOfShard' \in Nat /\ GetBestHeightOfShard <= GetBestHeightOfShard'
      /\ GetBestHeightOfShard' <= Confirms[Len(Confirms)]
  <2>1. DOMAIN Confirms = 1..Len(Confirms) /\ Len(Confirms) \in 1..Len(Confirms)
    BY <1>1, ChainsAssumption
  <2>2. \A i, j \in 1..Len(Confirms) : i <= j => Confirms[i] <= Confirms[j]
    BY <2>1, ChainsAssumption
  <2>3. Confirms[beaconBest'.height] \in Nat
    BY <1>2, ChainsAssumption, ElementOfSeq
  <2>4. beaconBest'.height <= Len(Confirms)
    BY <1>1, <1>2
  <2> QED BY <1>1, <1>2, <2>1, <2>2, <2>3, <2>4 DEF GetBestHeightOfShard
<1>4. UNCHANGED <<shardPool, shardBest, shardStored, shardInsert, shardLocked>>
  BY DEF shardVars
<1>5. [SP!ShardNext]_(SP!shardVars)
  <2>1. CASE GetBestHeightOfShard' = GetBestHeightOfShard
    BY <1>4, <2>1 DEF SP!shardVars
  <2>2. CASE GetBestHeightOfShard' # GetBestHeightOfShard
    <3>1. GetBestHeightOfShard' \in (GetBestHeightOfShard + 1)..Confirms[Len(Confirms)]
      BY <1>1, <1>3, <2>2
    <3>2. SP!ConfirmShardHeight
      BY <1>4, <3>1 DEF SP!ConfirmShardHeight
    <3> QED BY <3>2 DEF SP!ShardNext, SP!ShardPoolStep
  <2> QED BY <2>1, <2>2
<1>6. SP!ShardPoolInv'
  BY <1>5, PoolConstants, SP!NextShardPoolInv DEF NodeInv
<1>7. SP!ShardFollowsPool' /\ SP!ShardHeld' = SP!ShardHeld
  BY <1>4 DEF NodeInv, SP!ShardFollowsPool, SP!ShardHeld
<1>8. Rests("shard")
  BY <1>4, <1>7, SameHeights, SameNextHeights DEF Rests
<1> QED BY <1>6, <1>7, <1>8

\* A step of the shard pool leaves the beacon chain and its pool alone.
LEMMA ShardStepKeepsBeacon ==
  ASSUME NodeInv, UNCHANGED beaconVars
  PROVE  /\ BP!PoolInv' /\ BP!FollowsPool' /\ Rests("beacon")
         /\ GetBestHeightOfShard' = GetBestHeightOfShard
<1>1. UNCHANGED <<beaconPool, beaconBest, beaconStored, beaconInsert>>
  BY DEF beaconVars
<1>2. BP!PoolInv' /\ BP!FollowsPool' /\ BP!BeaconHeld' = BP!BeaconHeld
  BY <1>1 DEF NodeInv, BP!PoolInv, BP!FollowsPool, BP!BeaconHeld
<1>3. Rests("beacon")
  BY <1>1, <1>2, SameHeights, SameNextHeights DEF Rests
<1> QED BY <1>1, <1>2, <1>3 DEF GetBestHeightOfShard

-----------------------------------------------------------------------------
\* The steps of NodeSync.

\* What a step is shown to do.
Implements == NodeInv' /\ [Abstract!Next]_(Abstract!chainVars)

\* A beacon block from a peer is a block received, or is not taken.
LEMMA BeaconReceptionImplements ==
  ASSUME NodeInv, NEW b \in BeaconBlock, OnBlockBeaconReceived(b)
  PROVE  Implements
<1>1. BP!OnBlockBeaconReceived(b) /\ UNCHANGED shardVars
  BY SameBeaconReception DEF OnBlockBeaconReceived
<1>2. /\ BP!FollowsPool' /\ beaconBest' = beaconBest /\ b.height > beaconBest.height
      /\ BP!BeaconHeld' = BP!BeaconHeld \/ BP!BeaconHeld' = BP!BeaconHeld \union {b.height}
  BY <1>1, PoolConstants, BP!ReceivedIsHeld DEF NodeInv
<1>3. BP!PoolInv'
  BY <1>1, PoolConstants, BP!NextPoolInv DEF NodeInv, BP!BeaconNext
<1>4. SP!ShardPoolInv' /\ SP!ShardFollowsPool' /\ Rests("shard")
  BY <1>1, <1>2, <1>3, BestHeights, BeaconStepKeepsShard
<1>5. b.height \in 2..Abstract!Top("beacon")
  <2>1. b.height \in Nat /\ b.height > 1
    BY PoolConstants DEF BP!BlockAssumption
  <2>2. b.height <= Len(Confirms) /\ Len(Confirms) \in Nat
    BY ChainsAssumption
  <2> QED BY <2>1, <2>2 DEF Abstract!Top
<1>6. CASE BP!BeaconHeld' = BP!BeaconHeld
  <2>1. Rests("beacon")
    BY <1>2, <1>6, SameHeights, SameNextHeights DEF Rests
  <2> QED BY <1>2, <1>3, <1>4, <2>1, RestIsStutter DEF Implements, NodeInv
<1>7. CASE BP!BeaconHeld' = BP!BeaconHeld \union {b.height}
  <2>1. /\ b.height > BestHeight["beacon"] /\ BestHeight'["beacon"] = BestHeight["beacon"]
        /\ HeldHeights'["beacon"] = HeldHeights["beacon"] \union {b.height}
    BY <1>2, <1>7, SameHeights, SameNextHeights
  <2>2. Chains \ {"beacon"} = {"shard"} /\ "beacon" \in Chains
    BY DEF Chains
  <2>3. Abstract!Next
    BY <1>4, <1>5, <2>1, <2>2, TakenIsReceived
  <2> QED BY <1>2, <1>3, <1>4, <2>3 DEF Implements, NodeInv
<1> QED BY <1>2, <1>6, <1>7

\* A shard block from a peer, likewise.
LEMMA ShardReceptionImplements ==
  ASSUME NodeInv, NEW b \in ShardBlock, OnBlockShardReceived(b)
  PROVE  Implements
<1>1. SP!OnBlockShardReceived(b) /\ UNCHANGED beaconVars
  BY SameShardReception DEF OnBlockShardReceived
<1>2. /\ SP!ShardFollowsPool' /\ shardBest' = shardBest
      /\ \/ SP!ShardHeld' = SP!ShardHeld
         \/ b.height > shardBest.height /\ SP!ShardHeld' = SP!ShardHeld \union {b.height}
  BY <1>1, PoolConstants, SP!ReceivedShardIsHeld DEF NodeInv
<1>3. SP!ShardPoolInv'
  BY <1>1, PoolConstants, SP!NextShardPoolInv DEF NodeInv, SP!ShardNext, SP!ShardPoolStep
<1>4. BP!PoolInv' /\ BP!FollowsPool' /\ Rests("beacon")
  BY <1>1, ShardStepKeepsBeacon
<1>5. b.height \in 2..Abstract!Top("shard")
  <2>1. b.height \in Nat /\ b.height > 1
    BY PoolConstants DEF SP!BlockAssumption
  <2>2. b.height <= Confirms[Len(Confirms)] /\ Confirms[Len(Confirms)] \in Nat
    BY ChainsAssumption, BestHeights
  <2> QED BY <2>1, <2>2 DEF Abstract!Top
<1>6. CASE SP!ShardHeld' = SP!ShardHeld
  <2>1. Rests("shard")
    BY <1>2, <1>6, SameHeights, SameNextHeights DEF Rests
  <2> QED BY <1>2, <1>3, <1>4, <2>1, RestIsStutter DEF Implements, NodeInv
<1>7. CASE b.height > shardBest.height /\ SP!ShardHeld' = SP!ShardHeld \union {b.height}
  <2>1. /\ b.height > BestHeight["shard"] /\ BestHeight'["shard"] = BestHeight["shard"]
        /\ HeldHeights'["shard"] = HeldHeights["shard"] \union {b.height}
    BY <1>2, <1>7, SameHeights, SameNextHeights
  <2>2. Chains \ {"shard"} = {"beacon"} /\ "shard" \in Chains
    BY DEF Chains
  <2>3. Abstract!Next
    BY <1>4, <1>5, <2>1, <2>2, TakenIsReceived
  <2> QED BY <1>2, <1>3, <1>4, <2>3 DEF Implements, NodeInv
<1> QED BY <1>2, <1>6, <1>7

\* A beacon block inserted from the pool has its certificate.
LEMMA BeaconInsertionImplements ==
  ASSUME NodeInv, InsertBeaconBlockFromPool
  PROVE  Implements
<1> DEFINE b == Head(beaconPool.validPool)
<1>1. beaconPool.validPool # <<>> /\ BP!UpdateBestState(b) /\ UNCHANGED shardVars
  BY SameBeaconActions DEF InsertBeaconBlockFromPool
<1>2. /\ BP!FollowsPool' /\ b \in BeaconBlock
      /\ beaconBest'.height = beaconBest.height + 1
      /\ {beaconBest.height + 1, beaconBest.height + 2} \subseteq BP!BeaconHeld
      /\ BP!BeaconHeld' = BP!BeaconHeld \ {beaconBest.height + 1}
  BY <1>1, PoolConstants, BP!HeadIsInserted DEF NodeInv
<1> HIDE DEF b
<1>3. BP!PoolInv'
  BY <1>1, <1>2, PoolConstants, BP!NextPoolInv DEF NodeInv, BP!BeaconNext
<1>4. SP!ShardPoolInv' /\ SP!ShardFollowsPool' /\ Rests("shard")
  BY <1>1, <1>2, <1>3, BestHeights, BeaconStepKeepsShard
<1>5. Abstract!Certified("beacon")
  BY <1>2, SameHeights DEF Abstract!Certified
<1>6. /\ BestHeight'["beacon"] = BestHeight["beacon"] + 1
      /\ HeldHeights'["beacon"] = HeldHeights["beacon"] \ {BestHeight["beacon"] + 1}
  BY <1>2, SameHeights, SameNextHeights
<1>7. Chains \ {"beacon"} = {"shard"} /\ "beacon" \in Chains
  BY DEF Chains
<1>8. Abstract!Next
  BY <1>4, <1>5, <1>6, <1>7, GrownIsInserted
<1> QED BY <1>2, <1>3, <1>4, <1>8 DEF Implements, NodeInv

\* A shard block inserted from the pool is confirmed by the beacon chain.
LEMMA ShardInsertionImplements ==
  ASSUME NodeInv, InsertShardBlockFromPool
  PROVE  Implements
<1> DEFINE b == Head(shardPool.validPool)
<1>1. shardPool.validPool # <<>> /\ SP!UpdateBestShardState(b) /\ UNCHANGED beaconVars
  <2>1. GetBestHeightOfShard' = GetBestHeightOfShard
    BY DEF InsertShardBlockFromPool, beaconVars, GetBestHeightOfShard
  <2> QED BY <2>1, SameShardActions DEF InsertShardBlockFromPool
<1>2. /\ SP!ShardFollowsPool' /\ b \in ShardBlock
      /\ shardBest'.height = shardBest.height + 1
      /\ shardBest.height + 1 \in SP!ShardHeld
      /\ shardBest.height + 1 <= GetBestHeightOfShard
      /\ SP!ShardHeld' = SP!ShardHeld \ {shardBest.height + 1}
  BY <1>1, PoolConstants, SP!ShardHeadIsInserted DEF NodeInv
<1> HIDE DEF b
<1>3. SP!ShardPoolInv'
  BY <1>1, <1>2, PoolConstants, SP!NextShardPoolInv DEF NodeInv, SP!ShardNext
<1>4. BP!PoolInv' /\ BP!FollowsPool' /\ Rests("beacon")
  BY <1>1, ShardStepKeepsBeacon
<1>5. Abstract!Certified("shard")
  BY <1>2, SameHeights DEF Abstract!Certified, GetBestHeightOfShard
<1>6. /\ BestHeight'["shard"] = BestHeight["shard"] + 1
      /\ HeldHeights'["shard"] = HeldHeights["shard"] \ {BestHeight["shard"] + 1}
  BY <1>2, SameHeights, SameNextHeights
<1>7. Chains \ {"shard"} = {"beacon"} /\ "shard" \in Chains
  BY DEF Chains
<1>8. Abstract!Next
  BY <1>4, <1>5, <1>6, <1>7, GrownIsInserted
<1> QED BY <1>2, <1>3, <1>4, <1>8 DEF Implements, NodeInv

\* The tickers and what follows an insertion change nothing that ChainSync sees.
LEMMA BeaconStepImplements ==
  ASSUME NodeInv, UNCHANGED shardVars,
         \/ Beacon!InsertStep
         \/ Beacon!TickRemoveBlock
         \/ Beacon!TickCleanOldBlock
         \/ Beacon!TickPromotePendingPool
  PROVE  Implements
<1>1. BP!InsertStep \/ BP!TickRemoveBlock \/ BP!TickCleanOldBlock \/ BP!TickPromotePendingPool
  BY SameBeaconActions
<1>2. BP!FollowsPool' /\ beaconBest' = beaconBest /\ BP!BeaconHeld' = BP!BeaconHeld
  <2>1. CASE BP!InsertStep
    BY <2>1, PoolConstants, BP!InsertStepKeepsHeld DEF NodeInv
  <2>2. CASE BP!TickRemoveBlock \/ BP!TickCleanOldBlock \/ BP!TickPromotePendingPool
    BY <2>2, PoolConstants, BP!TickerKeepsHeld DEF NodeInv
  <2> QED BY <1>1, <2>1, <2>2
<1>3. BP!PoolInv'
  BY <1>1, PoolConstants, BP!NextPoolInv DEF NodeInv, BP!BeaconNext
<1>4. SP!ShardPoolInv' /\ SP!ShardFollowsPool' /\ Rests("shard")
  BY <1>2, <1>3, BestHeights, BeaconStepKeepsShard
<1>5. Rests("beacon")
  BY <1>2, SameHeights, SameNextHeights DEF Rests
<1> QED BY <1>2, <1>3, <1>4, <1>5, RestIsStutter DEF Implements, NodeInv

\* The ticker of the shard pool and what follows the insertion of a shard block, likewise.
LEMMA ShardStepImplements ==
  ASSUME NodeInv, UNCHANGED beaconVars,
         \/ Shard!ShardInsertStep
         \/ Shard!TickRemoveShardBlock
         \/ Shard!TickPromotePendingShard
  PROVE  Implements
<1>1. SP!TickRemoveShardBlock \/ SP!TickPromotePendingShard \/ SP!ShardInsertStep
  BY SameShardActions
<1>2. SP!ShardFollowsPool' /\ shardBest' = shardBest /\ SP!ShardHeld' = SP!ShardHeld
  BY <1>1, PoolConstants, SP!ShardStepKeepsHeld DEF NodeInv
<1>3. SP!ShardPoolInv'
  BY <1>1, PoolConstants, SP!NextShardPoolInv DEF NodeInv, SP!ShardNext, SP!ShardPoolStep
<1>4. BP!PoolInv' /\ BP!FollowsPool' /\ Rests("beacon")
  BY ShardStepKeepsBeacon
<1>5. Rests("shard")
  BY <1>2, SameHeights, SameNextHeights DEF Rests
<1> QED BY <1>2, <1>3, <1>4, <1>5, RestIsStutter DEF Implements, NodeInv

\* Nothing happens.
LEMMA StutterImplements ==
  ASSUME NodeInv, UNCHANGED vars
  PROVE  Implements
<1>1. UNCHANGED beaconVars /\ UNCHANGED shardVars
  BY DEF vars
<1>2. BP!PoolInv' /\ BP!FollowsPool' /\ Rests("beacon")
  BY <1>1, ShardStepKeepsBeacon
<1>3. beaconBest'.height >= beaconBest.height
  BY <1>1, BestHeights DEF beaconVars
<1>4. SP!ShardPoolInv' /\ SP!ShardFollowsPool' /\ Rests("shard")
  BY <1>1, <1>2, <1>3, BeaconStepKeepsShard
<1> QED BY <1>2, <1>4, RestIsStutter DEF Implements, NodeInv

\* Every step of NodeSync keeps the invariant and is one of ChainSync or none.
LEMMA NextImplements == NodeInv /\ [Next]_vars => Implements
<1> SUFFICES ASSUME NodeInv, [Next]_vars PROVE Implements
  OBVIOUS
<1>1. ASSUME NEW b \in BeaconBlock, OnBlockBeaconReceived(b) PROVE Implements
  BY <1>1, BeaconReceptionImplements
<1>2. ASSUME NEW b \in ShardBlock, OnBlockShardReceived(b) PROVE Implements
  BY <1>2, ShardReceptionImplements
<1>3. CASE InsertBeaconBlockFromPool
  BY <1>3, BeaconInsertionImplements
<1>4. CASE InsertShardBlockFromPool
  BY <1>4, ShardInsertionImplements
<1>5. CASE InsertStep \/ TickRemove \/ TickPromote
  BY <1>5, BeaconStepImplements, ShardStepImplements DEF InsertStep, TickRemove, TickPromote
<1>6. CASE UNCHANGED vars
  BY <1>6, StutterImplements
<1> QED BY <1>1, <1>2, <1>3, <1>4, <1>5, <1>6 DEF Next

\* At first the pools are empty and the chains have their genesis blocks.
LEMMA InitImplements == Init => NodeInv /\ Abstract!Init
<1> SUFFICES ASSUME Init PROVE NodeInv /\ Abstract!Init
  OBVIOUS
<1>1. /\ BP!BeaconInit
      /\ shardPool = SP!EmptyShardPool /\ shardBest = ShardGenesis /\ shardStored = ShardGenesis
      /\ shardInsert = "idle" /\ shardLocked = FALSE
  BY SameBeaconActions, SameShardActions DEF Init
<1>2. BeaconGenesis.height = 1 /\ ShardGenesis.height = 1
  BY PoolConstants DEF BP!BlockAssumption, SP!BlockAssumption
<1>3. BP!PoolInv
  BY <1>1, PoolConstants, BP!InitPoolInv
<1>4. SP!ShardPoolInv
  <2>1. GetBestHeightOfShard \in Nat
    <3>1. 1 \in 1..Len(Confirms)
      BY ChainsAssumption
    <3> QED BY <1>1, <1>2, <3>1, ChainsAssumption, ElementOfSeq DEF BP!BeaconInit, GetBestHeightOfShard
  <2>2. SP!ShardSound([SP!EmptyShardPool EXCEPT !.latestValidHeight = 1], 1, GetBestHeightOfShard)
    BY <2>1, PoolConstants, SP!EmptyShardPoolSound
  <2>3. shardPool = [SP!EmptyShardPool EXCEPT !.latestValidHeight = 1]
    BY <1>1 DEF SP!EmptyShardPool
  <2> QED BY <1>1, <1>2, <2>1, <2>2, <2>3 DEF SP!ShardPoolInv
<1>5. BP!FollowsPool /\ SP!ShardFollowsPool
  BY <1>1, <1>2
     DEF BP!BeaconInit, BP!EmptyPool, SP!EmptyShardPool, BP!FollowsPool, SP!ShardFollowsPool,
         BP!Leads, SP!Leads, BP!Aligned, SP!Aligned
<1>6. BP!BeaconHeld = {} /\ SP!ShardHeld = {}
  BY <1>1 DEF BP!BeaconInit, BP!EmptyPool, SP!EmptyShardPool, BP!BeaconHeld, SP!ShardHeld,
              BP!HeldIn, SP!HeldIn, BP!Range, SP!Range
<1>7. Abstract!Init
  <2>1. \A c \in Chains : BestHeight[c] = 1 /\ HeldHeights[c] = {}
    BY <1>1, <1>2, <1>6, SameHeights DEF BP!BeaconInit, Chains
  <2> QED BY <2>1, HeightsByChain DEF Abstract!Init, Abstract!Chain, Chains
<1> QED BY <1>3, <1>4, <1>5, <1>7 DEF NodeInv

\* The pools, their tickers and the insertion from them implement the safety half
\* of ChainSync: whatever the order of the threads, the heights that are held
\* above the best block grow only by a block that is received and shrink only by
\* the next one when it is inserted; a beacon block is inserted only when its
\* successor is held, a shard block only when the beacon chain has confirmed it
\* (AddBeaconBlock, AddShardBlock, removeBlock, promotePendingPool,
\* InsertBeaconBlockFromPool, InsertShardBlockFromPool).
THEOREM HeldBlocksAreInserted == Spec => Abstract!Safety
<1>1. Spec => []NodeInv
  BY InitImplements, NextImplements, PTL DEF Spec, Implements
<1> QED BY <1>1, InitImplements, NextImplements, PTL DEF Spec, Implements, Abstract!Safety
=============================================================================
