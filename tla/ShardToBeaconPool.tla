-------------------------- MODULE ShardToBeaconPool --------------------------
(***************************************************************************)
(* The pool of shard-to-beacon blocks of a beacon validator                *)
(* (mempool/shard_to_beacon_pool_v2.go), with the two things that drive    *)
(* it: blocks received from shard committees, in any order, repeated, or   *)
(* lost (blockchain/messages.go, OnShardToBeaconBlockReceived), and beacon *)
(* blocks that the node inserts (blockchain/beaconprocess.go,              *)
(* InsertBeaconBlock), which tell the pool how far each shard has been     *)
(* confirmed.                                                              *)
(*                                                                         *)
(* pool[s] is the Go slice of shard s as a set: every operation leaves the *)
(* slice sorted by height, so its first and last elements are the ones of  *)
(* least and greatest height, and dropping a prefix is a filter.           *)
(***************************************************************************)
EXTENDS Integers, FiniteSets, FiniteSetsExt

CONSTANTS
  Shards,      \* shard identifiers
  Hashes,      \* the block hashes that can occur at one height (forks)
  MaxHeight,   \* bound: greatest height of a shard block
  MAX_VALID_SHARD_TO_BEACON_BLK_IN_POOL,
  MAX_INVALID_SHARD_TO_BEACON_BLK_IN_POOL,
  MaxGet       \* blocks that GetValidPendingBlock returns at most (50)

ASSUME HeightAssumption == MaxHeight \in Nat /\ MaxHeight > 1
ASSUME CapacityAssumption ==
  /\ MAX_VALID_SHARD_TO_BEACON_BLK_IN_POOL \in Nat \ {0}
  /\ MAX_INVALID_SHARD_TO_BEACON_BLK_IN_POOL \in Nat \ {0}
  /\ MaxGet \in Nat \ {0}

VARIABLES
  pool,               \* shard -> blocks waiting for a beacon block
  latestValidHeight,  \* shard -> end of the gapless run; 0: no map entry yet
  requested,          \* shard -> heights asked for by the latest Add
  best,               \* BestShardHeight of the beacon best state in memory
  stored,             \* BestShardHeight of the beacon best state on disk
  applied,            \* the heights SetShardState was last called with
  insert              \* progress of InsertBeaconBlock

poolVars == <<pool, latestValidHeight, requested>>
chainVars == <<best, stored, applied, insert>>
vars == <<poolVars, chainVars>>

\* The genesis block of a shard has height 1 and is never sent to the beacon.
Heights == 2..MaxHeight
Block == [height : Heights, hash : Hashes]

HeightsOf(blks) == {b.height : b \in blks}

\* A height 0 in Go's map stands for "no entry"; the pool reads it as 1.
AtLeastGenesis(h) == IF h = 0 THEN 1 ELSE h

-----------------------------------------------------------------------------

\* The end of the run of consecutive heights of H that starts at m.
RunEnd(H, m) == CHOOSE e \in H : e >= m /\ (m..e) \subseteq H /\ e + 1 \notin H

\* Mutant: the loop does not stop at a gap.
UpdatedHeightAcrossGaps(blks, latest) ==
  IF blks = {} THEN latest ELSE Max(HeightsOf(blks))

\* updateLatestShardState, for one shard whose slice is blks.  The loop starts
\* from the first block even when that one lies below the height it starts with.
UpdatedHeight(blks, latest) ==
  IF blks = {} THEN latest
  ELSE LET first == Min(HeightsOf(blks))
       IN IF first > AtLeastGenesis(latest) + 1
            THEN AtLeastGenesis(latest)
            ELSE RunEnd(HeightsOf(blks), first)

\* removePendingBlock, for one shard.
RemoveUpTo(blks, height) == {b \in blks : b.height > height}

\* GetValidPendingBlock, for one shard: the heights handed to the producer.
\* A limit of 0 is no limit.
GetValidPendingHeights(s, limit) ==
  LET H == HeightsOf(pool[s])
      Index(h) == Cardinality({k \in H : k < h})
  IN {h \in H : /\ h <= latestValidHeight[s]
                /\ Index(h) < MaxGet
                /\ limit # 0 => h <= limit}

-----------------------------------------------------------------------------
\* The number of valid and of invalid blocks as AddShardToBeaconBlock counts
\* them.  The subtraction of two uint64 wraps, and the conversion to int makes
\* it negative, when the first block lies above latestValidHeight.
NumValid(s, latest) ==
  LET first == Min(HeightsOf(pool[s]))
  IN IF latest >= first THEN latest - first ELSE 0

NumInvalid(s, latest) == Cardinality(pool[s]) - NumValid(s, latest)

ExceedsValid(s, latest) ==
  /\ pool[s] # {}
  /\ NumValid(s, latest) > MAX_VALID_SHARD_TO_BEACON_BLK_IN_POOL

ExceedsInvalid(s, latest) ==
  /\ pool[s] # {}
  /\ NumInvalid(s, latest) > MAX_INVALID_SHARD_TO_BEACON_BLK_IN_POOL

\* The slice without its last element.
WithoutLast(blks) == {b \in blks : b.height # Max(HeightsOf(blks))}

\* The early returns of AddShardToBeaconBlock.
IsOld(b, latest) == b.height <= latest
IsDuplicate(s, b) == b.height \in HeightsOf(pool[s])

\* Mutant: a pool full of invalid blocks takes no better one.
IsRejectedWhenFull(s, b, latest) ==
  \/ IsOld(b, latest)
  \/ IsDuplicate(s, b)
  \/ ExceedsValid(s, latest)
  \/ ExceedsInvalid(s, latest)

IsRejected(s, b, latest) ==
  \/ IsOld(b, latest)
  \/ IsDuplicate(s, b)
  \/ ExceedsValid(s, latest)
  \/ ExceedsInvalid(s, latest) /\ Max(HeightsOf(pool[s])) <= b.height

\* The range of heights that a successful Add returns: from..to.
RequestRange(blks, latest) ==
  LET first == Min(HeightsOf(blks))
      offset == IF first - latest > MAX_VALID_SHARD_TO_BEACON_BLK_IN_POOL
                  THEN MAX_VALID_SHARD_TO_BEACON_BLK_IN_POOL
                  ELSE first - latest
  IN IF first > latest THEN (latest + 1)..(latest + offset) ELSE {}

\* AddShardToBeaconBlock returns an error; only the map entry may be new.
RejectBlock(s, b) ==
  LET latest == AtLeastGenesis(latestValidHeight[s])
  IN /\ IsRejected(s, b, latest)
     /\ latestValidHeight' = [latestValidHeight EXCEPT ![s] = latest]
     /\ requested' = [requested EXCEPT ![s] = {}]
     /\ UNCHANGED <<pool, chainVars>>

\* AddShardToBeaconBlock accepts the block, in exchange for the highest one
\* when there are too many invalid blocks, and then updates every shard.
AcceptBlock(s, b) ==
  LET latest == AtLeastGenesis(latestValidHeight[s])
      kept == IF ExceedsInvalid(s, latest) THEN WithoutLast(pool[s]) ELSE pool[s]
      heights == [latestValidHeight EXCEPT ![s] = latest]
  IN /\ ~IsRejected(s, b, latest)
     /\ pool' = [pool EXCEPT ![s] = kept \union {b}]
     /\ latestValidHeight' = [t \in Shards |-> UpdatedHeight(pool'[t], heights[t])]
     /\ requested' = [requested EXCEPT ![s] =
                        RequestRange(pool'[s], latestValidHeight'[s])]
     /\ UNCHANGED chainVars

AddShardToBeaconBlock(s, b) == AcceptBlock(s, b) \/ RejectBlock(s, b)

\* Mutant: the run is not looked for again.
SetShardStateNoUpdate(state, p, latest) ==
  LET known == {t \in Shards : state[t] # 0}
  IN /\ pool' = [t \in Shards |-> IF t \in known THEN RemoveUpTo(p[t], state[t]) ELSE p[t]]
     /\ latestValidHeight' = [t \in Shards |-> IF t \in known THEN state[t] ELSE latest[t]]
     /\ applied' = state

\* SetShardState(state): set the confirmed heights, drop the confirmed blocks,
\* and find the end of the gapless run again.  Shards without a map entry
\* (height 0) are left alone.  p is the pool the call finds.
SetShardState(state, p, latest) ==
  LET known == {t \in Shards : state[t] # 0}
      heights == [t \in Shards |-> IF t \in known THEN state[t] ELSE latest[t]]
      left == [t \in Shards |-> IF t \in known THEN RemoveUpTo(p[t], state[t]) ELSE p[t]]
  IN /\ pool' = left
     /\ latestValidHeight' = [t \in Shards |-> UpdatedHeight(left[t], heights[t])]
     /\ applied' = state

-----------------------------------------------------------------------------
\* InsertBeaconBlock: the best state in memory takes the shard states of a
\* beacon block.  Shard states follow each other, so heights only grow.
UpdateBestState(state) ==
  /\ insert = "idle"
  /\ \A s \in Shards : state[s] >= best[s]
  /\ best' = state
  /\ insert' = "updated"
  /\ UNCHANGED <<poolVars, stored, applied>>

\* InsertBeaconBlock: StoreBeaconBestState.
StoreBestState ==
  /\ insert = "updated"
  /\ stored' = best
  /\ insert' = "stored"
  /\ UNCHANGED <<poolVars, best, applied>>

\* InsertBeaconBlock: a failed check or database write returns early, after the
\* best state in memory was changed and before the pool hears of it.
InsertAborts ==
  /\ insert # "idle"
  /\ insert' = "idle"
  /\ UNCHANGED <<poolVars, best, stored, applied>>

\* InsertBeaconBlock: the call of SetShardState with a copy of the best heights.
InsertSetShardState ==
  /\ insert = "stored"
  /\ SetShardState(best, pool, latestValidHeight)
  /\ insert' = "idle"
  /\ UNCHANGED <<requested, best, stored>>

\* The node is restarted: the pool is empty and InitShardToBeaconPool sets it
\* from the best state found on disk.
Restart ==
  /\ SetShardState(stored, [s \in Shards |-> {}], [s \in Shards |-> 0])
  /\ best' = stored
  /\ insert' = "idle"
  /\ requested' = [s \in Shards |-> {}]
  /\ UNCHANGED stored

-----------------------------------------------------------------------------
\* A beacon block built from what this pool hands to the producer
\* (beaconproducer.go, GetShardState).
InsertOwnBlock ==
  LET ready(s) == GetValidPendingHeights(s, 0)
  IN /\ \E s \in Shards : ready(s) # {}
     /\ UpdateBestState([s \in Shards |-> IF ready(s) = {} THEN best[s] ELSE Max(ready(s))])

Init ==
  /\ pool = [s \in Shards |-> {}]
  /\ latestValidHeight = [s \in Shards |-> 0]
  /\ requested = [s \in Shards |-> {}]
  /\ best = [s \in Shards |-> 0]
  /\ stored = [s \in Shards |-> 0]
  /\ applied = [s \in Shards |-> 0]
  /\ insert = "idle"

Next ==
  \/ \E s \in Shards, b \in Block : AddShardToBeaconBlock(s, b)
  \/ \E state \in [Shards -> {0} \union Heights] : UpdateBestState(state)
  \/ StoreBestState
  \/ InsertAborts
  \/ InsertSetShardState
  \/ Restart

Spec == Init /\ [][Next]_vars

\* Shard blocks of every height keep arriving, because the sync loop asks peers
\* for them again every few seconds; the beacon chain keeps growing, and the turn
\* to propose comes round to every validator (BeaconProposerIdx).
Fairness ==
  /\ \A s \in Shards, h \in Heights :
       SF_vars(\E x \in Hashes : AcceptBlock(s, [height |-> h, hash |-> x]))
  /\ SF_vars(InsertOwnBlock)
  /\ WF_vars(StoreBestState)
  /\ WF_vars(InsertSetShardState)

LiveSpec == Spec /\ Fairness

-----------------------------------------------------------------------------
\* The type of the state.
TypeOK ==
  /\ pool \in [Shards -> SUBSET Block]
  /\ latestValidHeight \in [Shards -> 0..MaxHeight]
  /\ requested \in [Shards -> SUBSET Nat]
  /\ best \in [Shards -> {0} \union Heights]
  /\ stored \in [Shards -> {0} \union Heights]
  /\ applied \in [Shards -> {0} \union Heights]
  /\ insert \in {"idle", "updated", "stored"}

\* A fork cannot put two blocks of one height into the pool: whatever is handed
\* to the beacon producer names each height of a shard once.
OneBlockPerHeight ==
  \A s \in Shards : \A a, b \in pool[s] : a.height = b.height => a = b

\* latestValidHeight is honest: the blocks up to it are exactly the heights that
\* follow the confirmed height the pool was last told of, with no gap.  Hence
\* GetValidPendingBlock hands the beacon producer a gapless run, whatever the
\* order in which blocks, beacon inserts, failed inserts and restarts came.
ValidRun ==
  \A s \in Shards :
    LET base == AtLeastGenesis(applied[s])
        top == AtLeastGenesis(latestValidHeight[s])
    IN /\ base <= top
       /\ \A h \in Heights : h <= top => (h \in HeightsOf(pool[s]) <=> h > base)

\* No block that continues the run is left out of it: a block that closes a gap,
\* or a confirmed height that reaches a gap, moves latestValidHeight past it.
RunIsMaximal ==
  \A s \in Shards :
    AtLeastGenesis(latestValidHeight[s]) + 1 \notin HeightsOf(pool[s])

\* The capacity checks bound the slice of a shard, although a block that closes
\* a gap turns any number of invalid blocks into valid ones, and although the
\* count of valid blocks is one short.
PoolBounded ==
  \A s \in Shards :
    Cardinality(pool[s]) <= MAX_VALID_SHARD_TO_BEACON_BLK_IN_POOL
                            + MAX_INVALID_SHARD_TO_BEACON_BLK_IN_POOL + 1

\* SetShardState first moves latestValidHeight back to the confirmed height; the
\* blocks in the pool carry it forward again, so that no step but a restart
\* takes a height back that ready messages have announced to the proposer.
LatestNeverRecedes ==
  [][Restart \/ \A s \in Shards : latestValidHeight'[s] >= latestValidHeight[s]]_vars

\* An accepted block makes the node ask for blocks exactly when the pool has
\* none for the producer, and then from the first height that is missing.
RequestsWhatIsMissing ==
  [][\A s \in Shards, b \in Block :
       AcceptBlock(s, b) =>
         /\ requested'[s] = {} <=> GetValidPendingHeights(s, 0)' # {}
         /\ requested'[s] # {} => Min(requested'[s]) = latestValidHeight'[s] + 1]_vars

\* Once nothing fails any more, and the pool has heard of every insert
\* again, each block of each shard is confirmed: neither a full pool, nor the
\* eviction of blocks, nor an order of arrival keeps one out for ever.
AllConfirmed ==
  /\ <>[][~Restart /\ ~InsertAborts]_vars
  /\ <>[](insert = "idle" => applied = best)
  => \A s \in Shards : <>[](best[s] = MaxHeight)

=============================================================================
