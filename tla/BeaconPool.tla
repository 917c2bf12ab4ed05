----------------------------- MODULE BeaconPool -----------------------------
(***************************************************************************)
(* The pool of beacon blocks of a node (mempool/beacon_pool.go) and the    *)
(* threads that share it: blocks received from peers, the ticker that      *)
(* cleans and promotes every 500 ms, and InsertBeaconBlock                 *)
(* (blockchain/beaconprocess.go), which runs under chainLock and calls     *)
(* SetBeaconState without the lock of the pool.                            *)
(***************************************************************************)
EXTENDS BlockTree, LruCache, FiniteSets, FiniteSetsExt, Sequences, SequencesExt

VARIABLES
  beaconPool,  \* the fields of the Go struct
  beaconBest,        \* the best block of the beacon best state in memory
  beaconStored,      \* the best block of the beacon best state on disk
  beaconInsert       \* progress of InsertBeaconBlock

beaconVars == <<beaconPool, beaconBest, beaconStored, beaconInsert>>
beaconChainVars == <<beaconBest, beaconStored, beaconInsert>>

-----------------------------------------------------------------------------

\* updateLatestBeaconState, for the valid blocks v.
LatestOf(v) == IF v # <<>> THEN Last(v).height ELSE beaconBest.height

\* Mutant: the block of the next height need not be a child.
HasNextAny(pending, b) == b.height + 1 \in HeightsOf(pending)

\* Condition 3 of insertNewBeaconBlockToPool.
HasNext(pending, b) ==
  \E c \in pending : c.height = b.height + 1 /\ Parent[c] = b

\* The next block is there and does not continue b.
HasOtherNext(pending, b) ==
  \E c \in pending : c.height = b.height + 1 /\ Parent[c] # b

\* The loop of promotePendingPool takes the block of height h, when it has
\* taken the ones from latest + 1 up to it.
Promotable(p, h) ==
  /\ \E b \in p.pendingPool : /\ b.height = h
                              /\ ~IsCached(p.cache, b)
                              /\ HasNext(p.pendingPool, b)
  /\ Len(p.validPool) + h - p.latestValidHeight <= MaxValidBlock

\* The height at which the loop of promotePendingPool ends.
PromotedTo(p) ==
  CHOOSE e \in {p.latestValidHeight} \union HeightsOf(p.pendingPool) :
    /\ e >= p.latestValidHeight
    /\ \A h \in (p.latestValidHeight + 1)..e : Promotable(p, h)
    /\ ~Promotable(p, e + 1)

\* promotePendingPool: the pending blocks that follow become valid, up to the
\* first that is missing, is not certified by its successor, finds no room or is
\* in the cache.  The block the loop stops at is remembered in the cache, and
\* stays in the pending pool, when its successor has another parent.
PromotePending(p) ==
  LET e == PromotedTo(p)
      n == e - p.latestValidHeight
      valid == p.validPool \o [i \in 1..n |-> At(p.pendingPool, p.latestValidHeight + i)]
      last == At(p.pendingPool, e + 1)
      stops == e + 1 \in HeightsOf(p.pendingPool)
      refused == /\ stops
                 /\ ~IsCached(p.cache, last)
                 /\ Len(valid) < MaxValidBlock
                 /\ HasOtherNext(p.pendingPool, last)
  IN [p EXCEPT !.validPool = valid,
               !.pendingPool = {b \in @ : b.height \notin (p.latestValidHeight + 1)..e},
               !.latestValidHeight = e,
               !.cache = CASE refused -> CacheAdd(@, last, CacheSize)
                           [] stops /\ ~refused -> CacheGet(@, last)
                           [] OTHER -> @]

\* The early returns of validateBeaconBlock for a received block that is neither
\* cached nor old.  The check of both sizes that follows them in the code cannot
\* fail once the pending pool is known to have room.
IsRefused(p, b) ==
  \/ b.height \in HeightsOf(p.pendingPool)
  \/ Cardinality(p.pendingPool) >= MaxPendingBlock

IsOld(p, b) == b.height <= p.latestValidHeight

\* insertNewBeaconBlockToPool, for a received block.
InsertNew(p, b) ==
  LET isNext == b.height = p.latestValidHeight + 1 /\ Len(p.validPool) < MaxValidBlock
  IN CASE isNext /\ HasNext(p.pendingPool, b) ->
            [p EXCEPT !.validPool = Append(@, b), !.latestValidHeight = b.height]
       [] isNext /\ HasOtherNext(p.pendingPool, b) ->
            [p EXCEPT !.cache = CacheAdd(@, b, CacheSize)]
       [] OTHER ->
            [p EXCEPT !.pendingPool = @ \union {b}]

\* AddBeaconBlock returns an error.  A block that is more than two below the
\* latest height is remembered as conflicting.
RejectBeaconBlock(b) ==
  LET p == beaconPool
      cached == IsCached(p.cache, b)
  IN /\ cached \/ IsOld(p, b) \/ IsRefused(p, b)
     /\ beaconPool' =
          [p EXCEPT !.cache = CacheGet(@, b),
                    !.conflictedPool =
                      IF ~cached /\ IsOld(p, b) /\ p.latestValidHeight - b.height > 2
                        THEN @ \union {b} ELSE @]
     /\ UNCHANGED beaconChainVars

\* AddBeaconBlock takes the block and promotes what has become valid.
AcceptBeaconBlock(b) ==
  /\ ~IsCached(beaconPool.cache, b)
  /\ ~IsOld(beaconPool, b)
  /\ ~IsRefused(beaconPool, b)
  /\ beaconPool' = PromotePending(InsertNew(beaconPool, b))
  /\ UNCHANGED beaconChainVars

\* OnBlockBeaconReceived: blocks that are not above the best one are ignored.
OnBlockBeaconReceived(b) ==
  /\ beaconBest.height < b.height
  /\ AcceptBeaconBlock(b) \/ RejectBeaconBlock(b)

-----------------------------------------------------------------------------

\* removeBlock: the first blocks, up to the first one above height, go.
RemovedBlock(p, height) ==
  LET v == p.validPool
      above == {i \in DOMAIN v : v[i].height > height}
      left == IF above = {} THEN <<>> ELSE SubSeq(v, Min(above), Len(v))
  IN [p EXCEPT !.validPool = left, !.latestValidHeight = LatestOf(left)]

\* Mutant: the pending block after the best one goes too.
CleanedOldBlockOneMore(p, height) == [p EXCEPT !.pendingPool = {b \in @ : b.height > height + 1}]

\* CleanOldBlock.  latestBlockHeight-2 wraps at height 1 and is then above the
\* height of every conflicting block.
CleanedOldBlock(p, height) ==
  [p EXCEPT !.pendingPool = {b \in @ : b.height > height},
            !.conflictedPool = {b \in @ : height >= 2 /\ b.height >= height - 2}]

\* The ticker calls RemoveBlock, CleanOldBlock and PromotePendingPool in turn.
\* It reads the best height before each call waits for the lock: the height a
\* call works with is any that the best state had until now.
TickRemoveBlock ==
  /\ \E height \in 1..beaconBest.height : beaconPool' = RemovedBlock(beaconPool, height)
  /\ UNCHANGED beaconChainVars

TickCleanOldBlock ==
  /\ \E height \in 1..beaconBest.height : beaconPool' = CleanedOldBlock(beaconPool, height)
  /\ UNCHANGED beaconChainVars

TickPromotePendingPool ==
  /\ beaconPool' = PromotePending(beaconPool)
  /\ UNCHANGED beaconChainVars

-----------------------------------------------------------------------------
\* InsertBeaconBlock, by a consensus round, by a validator that receives the
\* next block, or from the valid pool: the best state in memory takes block b.
UpdateBestState(b) ==
  /\ beaconInsert = "idle"
  /\ b \in Signed
  /\ Parent[b] = beaconBest
  /\ beaconBest' = b
  /\ beaconInsert' = "updated"
  /\ UNCHANGED <<beaconPool, beaconStored>>

StoreBestState ==
  /\ beaconInsert = "updated"
  /\ beaconStored' = beaconBest
  /\ beaconInsert' = "stored"
  /\ UNCHANGED <<beaconPool, beaconBest>>

\* A failed check or write returns early and leaves the best state in memory.
InsertAborts ==
  /\ beaconInsert \in {"updated", "stored"}
  /\ beaconInsert' = "idle"
  /\ UNCHANGED <<beaconPool, beaconBest, beaconStored>>

\* SetBeaconState tests and sets latestValidHeight without the lock of the pool.
SetBeaconStateTest ==
  /\ beaconInsert = "stored"
  /\ beaconInsert' = IF beaconPool.latestValidHeight < beaconBest.height THEN "behind" ELSE "set"
  /\ UNCHANGED <<beaconPool, beaconBest, beaconStored>>

SetBeaconStateWrite ==
  /\ beaconInsert = "behind"
  /\ beaconPool' = [beaconPool EXCEPT !.latestValidHeight = beaconBest.height]
  /\ beaconInsert' = "set"
  /\ UNCHANGED <<beaconBest, beaconStored>>

\* The call of RemoveBlock that ends InsertBeaconBlock.
InsertRemoveBlock ==
  /\ beaconInsert = "set"
  /\ beaconPool' = RemovedBlock(beaconPool, beaconBest.height)
  /\ beaconInsert' = "idle"
  /\ UNCHANGED <<beaconBest, beaconStored>>

EmptyPool ==
  [validPool |-> <<>>, pendingPool |-> {}, conflictedPool |-> {},
   cache |-> <<>>, latestValidHeight |-> 1]

\* The node is restarted: InitBeaconPool.
BeaconRestart ==
  /\ beaconPool' = [EmptyPool EXCEPT !.latestValidHeight = beaconStored.height]
  /\ beaconBest' = beaconStored
  /\ beaconInsert' = "idle"
  /\ UNCHANGED beaconStored

BeaconInit ==
  /\ beaconPool = EmptyPool
  /\ beaconBest = Genesis
  /\ beaconStored = Genesis
  /\ beaconInsert = "idle"

InsertStep ==
  \/ StoreBestState
  \/ SetBeaconStateTest
  \/ SetBeaconStateWrite
  \/ InsertRemoveBlock

BeaconNext ==
  \/ \E b \in Block : OnBlockBeaconReceived(b)
  \/ \E b \in Block : UpdateBestState(b)
  \/ InsertStep
  \/ InsertAborts
  \/ TickRemoveBlock
  \/ TickCleanOldBlock
  \/ TickPromotePendingPool
  \/ BeaconRestart

BeaconSpec == BeaconInit /\ [][BeaconNext]_beaconVars

-----------------------------------------------------------------------------
\* The type of the state.
BeaconTypeOK ==
  /\ beaconPool \in [validPool : Seq(Block), pendingPool : SUBSET Block,
                     conflictedPool : SUBSET Block, cache : Seq(Block),
                     latestValidHeight : Nat]
  /\ beaconBest \in Block \union {Genesis}
  /\ beaconStored \in Block \union {Genesis}
  /\ beaconInsert \in {"idle", "updated", "stored", "behind", "set"}

\* The third condition of insertNewBeaconBlockToPool survives everything that
\* happens later: as long as the chain has not reached the block that certified
\* the last valid one, that block waits in the pending pool.  So the valid pool
\* can always be continued without asking a peer, and two forks that alternate
\* cannot leave a valid block nobody built upon.
TipIsCertified ==
  LET p == beaconPool
  IN p.validPool # <<>> =>
       LET tip == Last(p.validPool)
       IN tip.height + 1 > beaconBest.height =>
            \E c \in p.pendingPool : c.height = tip.height + 1 /\ Parent[c] = tip

\* latestValidHeight never runs ahead of the blocks: each height above the best
\* state up to it has a block in the valid pool, although InsertBeaconBlock sets
\* it without the lock, with a height that may be stale, and the ticker works
\* with stale heights.  A height that is skipped is never taken again.
NoHeightIsSkipped ==
  \A h \in (beaconBest.height + 1)..beaconPool.latestValidHeight :
    h \in HeightsOf(Range(beaconPool.validPool))

\* One pending block per height, and both pools within their sizes, whatever is
\* received, refused, promoted and put back.
PoolsAreBounded ==
  LET p == beaconPool
  IN /\ Len(p.validPool) <= MaxValidBlock
     /\ Cardinality(p.pendingPool) <= MaxPendingBlock
     /\ \A a, b \in p.pendingPool : a.height = b.height => a = b

\* beacon_pool.go:27: "valid, ready to insert into blockchain": the blocks above
\* the best one can be inserted one after the other.
ValidPoolIsReady ==
  LET v == beaconPool.validPool
  IN \A i \in 1..(Len(v) - 1) : v[i].height > beaconBest.height => Parent[v[i + 1]] = v[i]

\* What the node may count on at every moment.
BeaconPoolIsSound == BeaconTypeOK /\ TipIsCertified /\ NoHeightIsSkipped /\ PoolsAreBounded
=============================================================================
