----------------------------- MODULE CrossShard -----------------------------
(***************************************************************************)
(* Cross-shard blocks on their way from shard to shard, as one node sees   *)
(* them.  A beacon block names the shard blocks that send something to     *)
(* another shard; a goroutine of InsertBeaconBlock                         *)
(* (blockchain/beaconprocess.go) links their heights in the database; the  *)
(* pool of the destination (mempool/cross_shard_pool_v2.go) makes received *)
(* cross-shard blocks valid along these links; the producer of a shard     *)
(* block (blockchain/shardproducer.go, getCrossShardData) takes the valid  *)
(* ones, and the inserted block (blockchain/shardprocess.go) moves         *)
(* BestCrossShard.                                                         *)
(***************************************************************************)
EXTENDS Integers, FiniteSets, FiniteSetsExt, Sequences, SequencesExt

CONSTANTS
  Shards,
  MaxHeight,   \* bound: greatest height of a shard block
  MaxConfirmed,\* bound: shard -> greatest height the beacon chain confirms
  CrossShard,  \* shard -> height -> the shards its block sends something to
  Forked,      \* blocks of forks, <<to, from, height>>, not in CrossShard
  MAX_PENDING_CROSS_SHARD_IN_POOL

Heights == 2..MaxHeight

\* What the constants are; a module that instantiates this one assumes it.
CrossShardAssumption ==
  /\ MaxHeight \in Nat /\ MaxHeight > 1
  /\ MaxConfirmed \in [Shards -> 1..MaxHeight]
  /\ CrossShard \in [Shards -> [Heights -> SUBSET Shards]]
  /\ Forked \subseteq Shards \X Shards \X Heights
  /\ MAX_PENDING_CROSS_SHARD_IN_POOL \in Nat

VARIABLES
  bestShardHeight,  \* shard -> height up to which the beacon chain has it
  tasks,            \* goroutines of InsertBeaconBlock still to run, oldest first
  lastCrossShard,   \* LastCrossShardState: from -> to -> height
  inserting,        \* InsertBeaconBlock has yet to store the best state
  storedLast,       \* LastCrossShardState on disk
  storedHeight,     \* bestShardHeight on disk
  nextHeight,       \* database: from -> to -> height -> next height; 0: none
  validPool,        \* to -> from -> heights, a Go slice
  pendingPool,      \* to -> from -> heights, a sorted Go slice
  bestCrossShard,   \* BestCrossShard of the shard best state: to -> from
  refresh,          \* shards whose InsertShardBlock goroutine has yet to run
  processed         \* to -> from -> heights processed so far (history)

storedVars == <<storedLast, storedHeight>>
beaconVars == <<bestShardHeight, tasks, lastCrossShard, inserting, storedVars, nextHeight>>
poolVars == <<validPool, pendingPool>>
shardVars == <<bestCrossShard, refresh, processed>>
vars == <<beaconVars, poolVars, shardVars>>

PerPair(x) == [s \in Shards |-> [t \in Shards |-> x]]

\* The heights of a shard whose blocks send something to shard to.
SentHeights(from, to) == {h \in Heights : to # from /\ to \in CrossShard[from][h]}

\* The heights of a set up to top, in ascending order.
Ascending(hs, top) ==
  LET upTo[h \in 0..MaxHeight] ==
        IF h = 0 THEN <<>> ELSE IF h \in hs THEN Append(upTo[h - 1], h) ELSE upTo[h - 1]
  IN upTo[top]

-----------------------------------------------------------------------------
(* The pool of shard to.                                                   *)

\* removeBlockByHeight for one slice: heights up to height go from its front.
DropFirst(hs, height) ==
  LET above == {i \in DOMAIN hs : hs[i] > height}
  IN IF above = {} THEN <<>> ELSE SubSeq(hs, Min(above), Len(hs))

\* The loop of updatePool over the pending heights of one shard.
WalkStep(next, w, h) ==
  LET wait == next[w.start]
  IN CASE w.stopped -> w
       [] ~w.stopped /\ wait > h -> [w EXCEPT !.removeIndex = @ + 1, !.index = @ + 1]
       [] ~w.stopped /\ wait = h -> [w EXCEPT !.index = @ + 1, !.start = wait]
       [] OTHER -> [w EXCEPT !.stopped = TRUE]

WalkPending(next, start, pending) ==
  LET walked[i \in 0..Len(pending)] ==
        IF i = 0 THEN [start |-> start, index |-> 0, removeIndex |-> 0, stopped |-> FALSE]
                 ELSE WalkStep(next, walked[i - 1], pending[i])
  IN walked[Len(pending)]

\* updatePool for one shard of origin: what the chain has processed goes, then
\* the slice pending[removeIndex:index] becomes valid.
UpdatedPair(next, height, valid, pending) ==
  LET v == DropFirst(valid, height)
      p == DropFirst(pending, height)
      w == WalkPending(next, IF v = <<>> THEN height ELSE Last(v), p)
  IN [valid |-> v \o SubSeq(p, w.removeIndex + 1, w.index),
      pending |-> SubSeq(p, w.index + 1, Len(p))]

\* updatePool of shard to, for the next heights and the pending slices given.
UpdatePool(to, next, pending) ==
  LET pair == [f \in Shards |->
                 UpdatedPair(next[f][to], bestCrossShard[to][f], validPool[to][f], pending[f])]
  IN /\ validPool' = [validPool EXCEPT ![to] = [f \in Shards |-> pair[f].valid]]
     /\ pendingPool' = [pendingPool EXCEPT ![to] = [f \in Shards |-> pair[f].pending]]

IsOld(to, from, h) == h <= bestCrossShard[to][from]
IsDuplicate(to, from, h) == h \in Range(validPool[to][from]) \union Range(pendingPool[to][from])

ExceedsPending(pending) == Len(pending) > MAX_PENDING_CROSS_SHARD_IN_POOL

\* AddCrossShardBlock takes a block of height h, in exchange for the highest
\* pending one when there are too many, sorts, and updates the pool.
AddCrossShardBlock(to, from, h) ==
  LET pending == pendingPool[to][from]
      kept == IF ExceedsPending(pending) THEN Front(pending) ELSE pending
  IN /\ ~IsOld(to, from, h)
     /\ ~IsDuplicate(to, from, h)
     /\ ExceedsPending(pending) => Last(pending) > h
     /\ UNCHANGED <<beaconVars, shardVars>>
     /\ UpdatePool(to, nextHeight,
          [pendingPool[to] EXCEPT ![from] = Ascending(Range(kept) \union {h}, MaxHeight)])

-----------------------------------------------------------------------------
(* The beacon chain.                                                       *)

\* InsertBeaconBlock with shard states of shard from up to height hi: it starts
\* a goroutine and goes on without waiting for it.
InsertBeaconBlock(from, hi) ==
  /\ ~inserting
  /\ hi > bestShardHeight[from] /\ hi <= MaxConfirmed[from]
  /\ bestShardHeight' = [bestShardHeight EXCEPT ![from] = hi]
  /\ tasks' = Append(tasks, [from |-> from, lo |-> bestShardHeight[from] + 1, hi |-> hi])
  /\ inserting' = TRUE
  /\ UNCHANGED <<lastCrossShard, storedVars, nextHeight, poolVars, shardVars>>

\* InsertBeaconBlock: StoreBeaconBestState, with what goroutines have done.
StoreBeaconBestState ==
  /\ inserting
  /\ inserting' = FALSE
  /\ storedLast' = lastCrossShard
  /\ storedHeight' = bestShardHeight
  /\ UNCHANGED <<bestShardHeight, tasks, lastCrossShard, nextHeight, poolVars, shardVars>>

\* StoreCrossShardNextHeight, twice for each height sent, in ascending order:
\* from the last height to this one, and from this one to none.
Linked(next, last, hs) ==
  LET above(h) == {x \in hs : x > h}
  IN [next |-> [h \in DOMAIN next |->
                  IF h \in hs THEN IF above(h) = {} THEN 0 ELSE Min(above(h))
                  ELSE IF h = last /\ hs # {} THEN Min(hs)
                  ELSE next[h]],
      last |-> IF hs = {} THEN last ELSE Max(hs)]

\* The goroutine: link the heights, then update the pool of shard from.
RunTask(i) ==
  LET t == tasks[i]
      linked == [to \in Shards |->
                   Linked(nextHeight[t.from][to], lastCrossShard[t.from][to],
                          SentHeights(t.from, to) \cap (t.lo .. t.hi))]
      next == [nextHeight EXCEPT ![t.from] = [to \in Shards |-> linked[to].next]]
  IN /\ UNCHANGED <<bestShardHeight, inserting, storedVars, shardVars>>
     /\ tasks' = RemoveAt(tasks, i)
     /\ nextHeight' = next
     /\ lastCrossShard' = [lastCrossShard EXCEPT ![t.from] =
                             [to \in Shards |-> linked[to].last]]
     /\ UpdatePool(t.from, next, pendingPool[t.from])

-----------------------------------------------------------------------------
(* The chain of shard to.                                                  *)

\* Mutant: the producer takes the valid pool as it is.
CrossShardDataStale(next, start, hs) == Ascending(hs, MaxHeight)

\* getCrossShardData for one shard of origin: of the valid blocks, in ascending
\* order, the ones that follow the next heights; a stale one stops the loop.
CrossShardData(next, start, hs) ==
  LET taken[h \in 0..MaxHeight] ==
        IF h = 0 THEN <<>>
        ELSE LET before == taken[h - 1]
                 at == IF before = <<>> THEN start ELSE Last(before)
             IN IF h \in hs /\ next[at] = h THEN Append(before, h) ELSE before
  IN IF \E h \in hs : h <= start THEN <<>> ELSE taken[MaxHeight]

\* GetValidBlock: the valid heights up to the limit; 0 is no limit.
GetValidBlock(to, from, limit) ==
  {h \in Range(validPool[to][from]) : limit = 0 \/ h <= limit}

\* A block of shard to is produced from this pool, with the limit its committee
\* agreed on, and inserted: Update moves BestCrossShard and a goroutine will
\* refresh the pool.
InsertShardBlock(to, limit) ==
  LET data == [f \in Shards |->
                 CrossShardData(nextHeight[f][to], bestCrossShard[to][f],
                                GetValidBlock(to, f, limit))]
  IN /\ UNCHANGED <<beaconVars, poolVars>>
     /\ refresh' = refresh \union {to}
     /\ bestCrossShard' = [bestCrossShard EXCEPT ![to] =
          [f \in Shards |-> IF data[f] = <<>> THEN @[f] ELSE Last(data[f])]]
     /\ processed' = [processed EXCEPT ![to] = [f \in Shards |-> @[f] \o data[f]]]

\* Mutant: the goroutine only removes what was processed.
RefreshPoolOnlyRemoves(to) ==
  /\ to \in refresh
  /\ refresh' = refresh \ {to}
  /\ validPool' = [validPool EXCEPT ![to] =
       [f \in Shards |-> DropFirst(@[f], bestCrossShard[to][f])]]
  /\ UNCHANGED <<beaconVars, pendingPool, bestCrossShard, processed>>

\* The goroutine of InsertShardBlock: RemoveBlockByHeight, then UpdatePool.
RefreshPool(to) ==
  /\ to \in refresh
  /\ refresh' = refresh \ {to}
  /\ UNCHANGED <<beaconVars, bestCrossShard, processed>>
  /\ UpdatePool(to, nextHeight, pendingPool[to])

\* The node is restarted: goroutines and pools are lost, the beacon best state
\* is the one on disk.
Restart ==
  /\ tasks' = <<>>
  /\ inserting' = FALSE
  /\ lastCrossShard' = storedLast
  /\ bestShardHeight' = storedHeight
  /\ validPool' = PerPair(<<>>)
  /\ pendingPool' = PerPair(<<>>)
  /\ refresh' = {}
  /\ UNCHANGED <<storedVars, nextHeight, bestCrossShard, processed>>

-----------------------------------------------------------------------------
Init ==
  /\ bestShardHeight = [s \in Shards |-> 1]
  /\ tasks = <<>>
  /\ lastCrossShard = PerPair(0)
  /\ inserting = FALSE
  /\ storedLast = PerPair(0)
  /\ storedHeight = [s \in Shards |-> 1]
  /\ nextHeight = PerPair([h \in 0..MaxHeight |-> 0])
  /\ validPool = PerPair(<<>>)
  /\ pendingPool = PerPair(<<>>)
  /\ bestCrossShard = PerPair(0)
  /\ refresh = {}
  /\ processed = PerPair(<<>>)

\* The cross-shard blocks of the chains.
Sent == {x \in Shards \X Shards \X Heights : x[1] # x[2] /\ x[1] \in CrossShard[x[2]][x[3]]}

ReceiveSent == \E x \in Sent : AddCrossShardBlock(x[1], x[2], x[3])
ReceiveForked == \E x \in Forked : AddCrossShardBlock(x[1], x[2], x[3])

ShardStep ==
  \/ \E to \in Shards, limit \in {0} \union Heights : InsertShardBlock(to, limit)
  \/ \E to \in Shards : RefreshPool(to)

BeaconStep ==
  \/ \E from \in Shards, hi \in Heights : InsertBeaconBlock(from, hi)
  \/ StoreBeaconBestState

\* Goroutines run in any order.
Next ==
  \/ BeaconStep
  \/ ShardStep
  \/ \E i \in DOMAIN tasks : RunTask(i)
  \/ ReceiveSent
  \/ ReceiveForked
  \/ Restart

Spec == Init /\ [][Next]_vars

\* No restart, and goroutines run in the order in which they were started.
OrderedNext ==
  \/ BeaconStep
  \/ ShardStep
  \/ tasks # <<>> /\ RunTask(1)
  \/ ReceiveSent
  \/ ReceiveForked

OrderedSpec == Init /\ [][OrderedNext]_vars

\* No restart, but goroutines run in any order.
UnorderedSpec == Init /\ [][OrderedNext \/ \E i \in DOMAIN tasks : RunTask(i)]_vars

-----------------------------------------------------------------------------
\* No height of a shard is processed twice, whatever the order of goroutines,
\* restarts and forks: what a destination has processed only ascends.
CrossShardProcessedOnce ==
  \A to, from \in Shards :
    LET done == processed[to][from]
    IN \A i \in 1..(Len(done) - 1) : done[i] < done[i + 1]

\* The heights from which shard to gets something, up to what was confirmed.
Confirmed(from, to) == Ascending(SentHeights(from, to), bestShardHeight[from])

\* With goroutines in order, each pair of shards is a reliable ordered channel.
Delivery ==
  INSTANCE CrossShardDelivery WITH
    confirmed <- [to \in Shards |-> [from \in Shards |-> Confirmed(from, to)]]

\* Every confirmed cross-shard block is processed exactly once and in the order
\* of confirmation, although pools receive blocks in any order, twice, or from
\* forks, evict blocks, and are updated by the goroutines of both chains.
IsDelivery == Delivery!Spec

\* A block of a fork is in a pool.
ForkIsPooled ==
  \E x \in Forked :
    x[3] \in Range(validPool[x[1]][x[2]]) \union Range(pendingPool[x[1]][x[2]])

\* While no fork reaches a pool, everything that is confirmed is processed in the
\* end, in whatever order blocks and confirmations come, and although the pool
\* that receives them is not the one that a beacon block updates.
AllProcessed ==
  []~ForkIsPooled =>
    \A p \in {<<x[1], x[2]>> : x \in Sent} : [](<>(processed[p[1]][p[2]] = Confirmed(p[2], p[1])))

\* The heights reached from height 0 along the links of the database.
Follows(from, to) ==
  LET next == nextHeight[from][to]
      path[n \in 1..MaxHeight] ==
        IF n = 1 THEN next[0] ELSE IF path[n - 1] = 0 THEN 0 ELSE next[path[n - 1]]
  IN SelectSeq(path, LAMBDA h : h # 0)

\* beaconprocess.go:173: "beacon process shard_to_beacon in order so cross shard
\* next height also will be saved in order": once no goroutine is left to run,
\* the links visit the confirmed heights in order.
NextHeightsAreInOrder ==
  tasks = <<>> => \A from, to \in Shards : Follows(from, to) = Confirmed(from, to)
=============================================================================
