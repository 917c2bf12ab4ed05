------------------------------ MODULE ShardPool ------------------------------
(***************************************************************************)
(* The pool of shard blocks of one shard (mempool/shard_pool.go) and the   *)
(* threads that share it: blocks received from peers, the ticker, the      *)
(* beacon chain that confirms heights of the shard, and InsertShardBlock   *)
(* (blockchain/shardprocess.go).  A block becomes valid when the beacon    *)
(* knows its height and it continues the last valid block; a block that    *)
(* continues another one pushes the last valid block out.                  *)
(***************************************************************************)
EXTENDS BlockTree, LruCache, FiniteSets, FiniteSetsExt, Sequences, SequencesExt

CONSTANTS
  MaxKnown  \* bound: greatest height the beacon chain confirms

VARIABLES
  shardPool,    \* the fields of the Go struct
  shardKnown,   \* BestShardHeight of this shard in the beacon best state
  shardBest,    \* the best block of the shard best state in memory
  shardStored,  \* the best block of the shard best state on disk
  shardInsert,  \* progress of InsertShardBlock
  shardLocked   \* a thread waits for the lock of the pool that it holds itself

shardVars == <<shardPool, shardKnown, shardBest, shardStored, shardInsert, shardLocked>>
shardChainVars == <<shardKnown, shardBest, shardStored, shardInsert>>

-----------------------------------------------------------------------------

\* updateLatestShardState, for the valid blocks v.
LatestShardStateOf(v) == IF v # <<>> THEN Last(v).height ELSE shardBest.height

\* Mutant: the previous hash is not compared.
ContinuesAny(v, b) == TRUE

\* Condition 3 of insertNewShardBlockToPoolV2.
Continues(v, b) == v = <<>> \/ Parent[b] = Last(v)

\* b is known to the beacon, of the next height, and finds room: the conditions
\* of insertNewShardBlockToPoolV2 before it compares hashes.
IsNext(p, b) ==
  /\ b.height <= shardKnown
  /\ b.height = p.latestValidHeight + 1
  /\ Len(p.validPool) < MaxValidBlock

\* The last valid block gives way to a block that does not continue it.
PushOutLast(p, b) ==
  LET v == Front(p.validPool)
  IN [p EXCEPT !.pendingPool = @ \union {b},
               !.validPool = v,
               !.latestValidHeight = LatestShardStateOf(v),
               !.cache = CacheAdd(@, Last(p.validPool), CacheSize)]

\* insertNewShardBlockToPoolV2, for a received block.  A next block that finds
\* the valid pool full is dropped.
InsertNewShardBlock(p, b) ==
  CASE IsNext(p, b) /\ Continues(p.validPool, b) ->
         [p EXCEPT !.validPool = Append(@, b), !.latestValidHeight = b.height]
    [] IsNext(p, b) /\ ~Continues(p.validPool, b) ->
         PushOutLast(p, b)
    [] b.height > shardKnown \/ b.height # p.latestValidHeight + 1 ->
         [p EXCEPT !.pendingPool = @ \union {b}]
    [] OTHER -> p

\* The block that b names is among the conflicting ones: AddShardBlock is called
\* for it while the lock is held.
FindsConflicted(p, b) ==
  /\ IsNext(p, b)
  /\ ~Continues(p.validPool, b)
  /\ Parent[b] \in p.conflictedPool

\* The pending block of height h, after which the loop of promotePendingPool has
\* taken the ones from latest + 1 up to it, continues the block before it.
ShardPromotable(p, h) ==
  \E b \in p.pendingPool :
    /\ b.height = h
    /\ h <= shardKnown
    /\ ~IsCached(p.cache, b)
    /\ Len(p.validPool) + h - p.latestValidHeight <= MaxValidBlock
    /\ IF h = p.latestValidHeight + 1
         THEN Continues(p.validPool, b)
         ELSE Parent[b] \in p.pendingPool

\* The height at which the loop of promotePendingPool ends.
ShardPromotedTo(p) ==
  CHOOSE e \in {p.latestValidHeight} \union HeightsOf(p.pendingPool) :
    /\ e >= p.latestValidHeight
    /\ \A h \in (p.latestValidHeight + 1)..e : ShardPromotable(p, h)
    /\ ~ShardPromotable(p, e + 1)

\* The blocks that the loop of promotePendingPool takes.
TakePending(p) ==
  LET e == ShardPromotedTo(p)
  IN [p EXCEPT !.validPool = @ \o [i \in 1..(e - p.latestValidHeight) |->
                                     At(p.pendingPool, p.latestValidHeight + i)],
               !.pendingPool = {b \in @ : b.height \notin (p.latestValidHeight + 1)..e},
               !.latestValidHeight = e]

\* The pending block the loop stops at, if there is one.
StopsAt(p) == {b \in p.pendingPool : b.height = p.latestValidHeight + 1}

\* promotePendingPool.  The block it stops at pushes out the last valid block
\* when only the hashes do not match.
PromotePendingShard(p) ==
  LET q == TakePending(p)
  IN IF StopsAt(q) = {} THEN q
     ELSE LET b == CHOOSE x \in StopsAt(q) : TRUE
          IN IF IsNext(q, b) /\ ~IsCached(q.cache, b) /\ ~Continues(q.validPool, b)
               THEN PushOutLast(q, b)
               ELSE [q EXCEPT !.cache = CacheGet(@, b)]

\* promotePendingPool calls AddShardBlock while it holds the lock.
PromotionFindsConflicted(p) ==
  LET q == TakePending(p)
  IN \E b \in StopsAt(q) : ~IsCached(q.cache, b) /\ FindsConflicted(q, b)

-----------------------------------------------------------------------------
IsOldShardBlock(p, b) == b.height <= p.latestValidHeight

\* ValidateShardBlock, for a received block that is neither cached nor old.
IsRefusedShardBlock(p, b) ==
  \/ b.height \in HeightsOf(p.pendingPool)
  \/ Cardinality(p.pendingPool) >= MaxPendingBlock

\* AddShardBlock returns an error.
RejectShardBlock(b) ==
  LET p == shardPool
      cached == IsCached(p.cache, b)
  IN /\ cached \/ IsOldShardBlock(p, b) \/ IsRefusedShardBlock(p, b)
     /\ shardPool' =
          [p EXCEPT !.cache = CacheGet(@, b),
                    !.conflictedPool =
                      IF ~cached /\ IsOldShardBlock(p, b) /\ p.latestValidHeight - b.height > 2
                        THEN @ \union {b} ELSE @]
     /\ UNCHANGED <<shardChainVars, shardLocked>>

\* AddShardBlock takes the block and promotes pending ones, unless it calls
\* itself.
AcceptShardBlock(b) ==
  LET p == InsertNewShardBlock(shardPool, b)
  IN /\ ~IsCached(shardPool.cache, b)
     /\ ~IsOldShardBlock(shardPool, b)
     /\ ~IsRefusedShardBlock(shardPool, b)
     /\ IF FindsConflicted(shardPool, b) THEN shardPool' = p /\ shardLocked' = TRUE
        ELSE /\ shardPool' = PromotePendingShard(p)
             /\ shardLocked' = PromotionFindsConflicted(p)
     /\ UNCHANGED shardChainVars

\* OnBlockShardReceived: blocks below the best one are ignored.
OnBlockShardReceived(b) ==
  /\ ~shardLocked
  /\ shardBest.height <= b.height
  /\ AcceptShardBlock(b) \/ RejectShardBlock(b)

\* removeBlock: the first blocks, up to the first one above height, go to the
\* cache.
RemovedShardBlock(p, height) ==
  LET v == p.validPool
      above == {i \in DOMAIN v : v[i].height > height}
      n == IF above = {} THEN Len(v) ELSE Min(above) - 1
      left == SubSeq(v, n + 1, Len(v))
  IN [p EXCEPT !.validPool = left,
               !.latestValidHeight = LatestShardStateOf(left),
               !.cache = CacheAddAll(@, SubSeq(v, 1, n), CacheSize)]

\* The ticker reads the best height before the call waits for the lock.
TickRemoveShardBlock ==
  /\ ~shardLocked
  /\ \E height \in 1..shardBest.height : shardPool' = RemovedShardBlock(shardPool, height)
  /\ UNCHANGED <<shardChainVars, shardLocked>>

TickPromotePendingShard ==
  /\ ~shardLocked
  /\ shardPool' = PromotePendingShard(shardPool)
  /\ shardLocked' = PromotionFindsConflicted(shardPool)
  /\ UNCHANGED shardChainVars

-----------------------------------------------------------------------------
\* A beacon block confirms shard blocks up to a greater height.
ConfirmShardHeight ==
  /\ \E height \in (shardKnown + 1)..MaxKnown : shardKnown' = height
  /\ UNCHANGED <<shardPool, shardBest, shardStored, shardInsert, shardLocked>>

\* InsertShardBlock, by a consensus round, by a validator that receives the next
\* block, or from the valid pool: the best state in memory takes block b.
UpdateBestShardState(b) ==
  /\ shardInsert = "idle"
  /\ b \in Signed
  /\ Parent[b] = shardBest
  /\ shardBest' = b
  /\ shardInsert' = "updated"
  /\ UNCHANGED <<shardPool, shardKnown, shardStored, shardLocked>>

\* SetShardState, under the lock of the pool, before anything is stored.
SetShardState ==
  /\ shardInsert = "updated"
  /\ ~shardLocked
  /\ shardPool' = [shardPool EXCEPT !.latestValidHeight =
                     IF @ < shardBest.height THEN shardBest.height ELSE @]
  /\ shardInsert' = "set"
  /\ UNCHANGED <<shardKnown, shardBest, shardStored, shardLocked>>

ProcessStoreShardBlock ==
  /\ shardInsert = "set"
  /\ shardStored' = shardBest
  /\ shardInsert' = "stored"
  /\ UNCHANGED <<shardPool, shardKnown, shardBest, shardLocked>>

\* A failed check or write returns early and leaves the best state in memory.
InsertShardAborts ==
  /\ shardInsert \in {"updated", "set"}
  /\ shardInsert' = "idle"
  /\ UNCHANGED <<shardPool, shardKnown, shardBest, shardStored, shardLocked>>

InsertRemoveShardBlock ==
  /\ shardInsert = "stored"
  /\ ~shardLocked
  /\ shardPool' = RemovedShardBlock(shardPool, shardBest.height)
  /\ shardInsert' = "idle"
  /\ UNCHANGED <<shardKnown, shardBest, shardStored, shardLocked>>

EmptyShardPool ==
  [validPool |-> <<>>, pendingPool |-> {}, conflictedPool |-> {},
   cache |-> <<>>, latestValidHeight |-> 1]

\* The node is restarted: InitShardPool.
ShardRestart ==
  /\ shardPool' = [EmptyShardPool EXCEPT !.latestValidHeight = shardStored.height]
  /\ shardBest' = shardStored
  /\ shardInsert' = "idle"
  /\ shardLocked' = FALSE
  /\ UNCHANGED <<shardKnown, shardStored>>

ShardInit ==
  /\ shardPool = EmptyShardPool
  /\ shardKnown = 1
  /\ shardBest = Genesis
  /\ shardStored = Genesis
  /\ shardInsert = "idle"
  /\ shardLocked = FALSE

ShardInsertStep ==
  \/ SetShardState
  \/ ProcessStoreShardBlock
  \/ InsertRemoveShardBlock

ShardPoolStep ==
  \/ \E b \in Block : OnBlockShardReceived(b)
  \/ TickRemoveShardBlock
  \/ TickPromotePendingShard
  \/ ConfirmShardHeight

ShardNext ==
  \/ ShardPoolStep
  \/ \E b \in Block : UpdateBestShardState(b)
  \/ ShardInsertStep
  \/ InsertShardAborts
  \/ ShardRestart

ShardSpec == ShardInit /\ [][ShardNext]_shardVars

-----------------------------------------------------------------------------
\* The type of the state.
ShardTypeOK ==
  /\ shardPool \in [validPool : Seq(Block), pendingPool : SUBSET Block,
                    conflictedPool : SUBSET Block, cache : Seq(Block),
                    latestValidHeight : Nat]
  /\ shardKnown \in Nat
  /\ shardBest \in Block \union {Genesis}
  /\ shardStored \in Block \union {Genesis}
  /\ shardInsert \in {"idle", "updated", "set", "stored"}
  /\ shardLocked \in BOOLEAN

\* The valid pool is one branch of the block tree, whichever blocks were pushed
\* out, promoted, removed and received again, from two forks at a time.
ValidPoolIsOneBranch ==
  LET v == shardPool.validPool
  IN \A i \in 1..(Len(v) - 1) : Parent[v[i + 1]] = v[i]

\* Whatever was pushed out and put back, each height above the best state up to
\* latestValidHeight has a valid block: a height that is skipped is refused as
\* old when a peer sends its block again.
NoShardHeightIsSkipped ==
  \A h \in (shardBest.height + 1)..shardPool.latestValidHeight :
    h \in HeightsOf(Range(shardPool.validPool))

\* No block becomes valid before the beacon chain knows its height.
ValidIsConfirmed == \A b \in Range(shardPool.validPool) : b.height <= shardKnown

\* One pending block per height and both pools within their sizes, although a
\* block that pushes another one out is put into the pending pool unchecked.
ShardPoolsAreBounded ==
  LET p == shardPool
  IN /\ Len(p.validPool) <= MaxValidBlock
     /\ Cardinality(p.pendingPool) <= MaxPendingBlock
     /\ \A a, b \in p.pendingPool : a.height = b.height => a = b

\* What the node may count on at every moment.
ShardPoolIsSound == ShardTypeOK /\ ValidPoolIsOneBranch /\ NoShardHeightIsSkipped /\ ValidIsConfirmed /\ ShardPoolsAreBounded

\* shard_pool.go:194: "Find conflicted block with recent delete latest block in
\* pool if possbile then try to add conflicted block into pool": the try comes to
\* an end.
ConflictedBlockIsTried == ~shardLocked
=============================================================================
