----------------------------- MODULE ChainStore -----------------------------
(***************************************************************************)
(* What a node that follows the beacon chain and one shard writes to its   *)
(* database when it inserts a block, one key at a time, and what it makes  *)
(* of it when it starts again after a crash (blockchain.go, lvdb/beacon.go,*)
(* lvdb/shard.go).  The chains are given: a block is its height.  Beacon   *)
(* and shard blocks are inserted under different locks, so their writes    *)
(* interleave; nothing groups the writes of one insertion.                 *)
(***************************************************************************)
EXTENDS Integers, SequencesExt, FiniteSets

CONSTANTS
    LastBeacon,   \* bound: height of the beacon chain; genesis is 1
    LastShard,    \* bound: height of the shard chain
    BeaconOf,     \* [1 .. LastShard -> 1 .. LastBeacon]: Header.BeaconHeight
    Startups,     \* values of the option FastStartup
    MaxCrashes    \* bound

VARIABLES
    disk,      \* keys with a value, see the puts below
    diskBest,  \* the best states: [chain -> height], 0 when there is none
    memory,    \* BestState: [chain -> height]
    writing,   \* [chain -> Seq(put)]: what insertions still have to write
    node,      \* "down", "beacon" or "shard" while it starts, "up"; "broken" when Init returns an error
    crashes,
    damage     \* history: what crashes have cut in two

storeVars == <<disk, diskBest, memory, writing, node, crashes, damage>>

Chains == {"beacon", "shard"}

\* A put is the name of a table and a height: "key" is bea-b-{hash} or
\* s{shard}b-{hash}, "block" b-{hash}, "height" and "hash" the two directions
\* of the index, "best" the best state.
Put(table, c, h) == <<table, c, h>>
Has(table, c, h) == Put(table, c, h) \in disk

\* Beacon blocks.
StoreAcceptedShardToBeacon(h) == <<Put("accepted", "beacon", h)>>
StoreCommitteeByEpoch(h) == <<Put("committee", "beacon", h)>>
StoreBeaconBestState(h) == <<Put("best", "beacon", h)>>
StoreBeaconBlock(h) == <<Put("key", "beacon", h), Put("block", "beacon", h)>>

StoreBeaconBlockIndex(h) == <<Put("height", "beacon", h), Put("hash", "beacon", h)>>

\* InsertBeaconBlock.
BeaconPuts(h) ==
    StoreAcceptedShardToBeacon(h) \o StoreCommitteeByEpoch(h) \o StoreBeaconBestState(h)
        \o StoreBeaconBlock(h) \o StoreBeaconBlockIndex(h)

\* initBeaconState.
GenesisPuts ==
    StoreBeaconBestState(1) \o StoreBeaconBlock(1) \o StoreCommitteeByEpoch(1) \o StoreBeaconBlockIndex(1)

\* Shard blocks.
StoreShardBlock(h) == <<Put("key", "shard", h), Put("block", "shard", h)>>
StoreShardBlockIndex(h) == <<Put("height", "shard", h), Put("hash", "shard", h)>>
StoreShardBestState(h) == <<Put("best", "shard", h)>>
StoreIncomingCrossShard(h) == <<Put("cross", "shard", h)>>

\* ProcessStoreShardBlock: what the transactions change, their places and the
\* incoming cross-shard blocks come last.
ShardPuts(h) ==
    StoreShardBlock(h) \o StoreShardBlockIndex(h) \o StoreShardBestState(h)
        \o <<Put("coins", "shard", h), Put("tx", "shard", h)>> \o StoreIncomingCrossShard(h)

-----------------------------------------------------------------------------
\* Reading.
HasBlock(c, h) == Has("block", c, h)

\* Mutant: a block counts as stored once its committees are.
HasCommittee(h) == Has("committee", "beacon", h)

HasBeaconBlock(h) == HasBlock("beacon", h)
GetBeaconBlockHashByIndex(h) == Has("hash", "beacon", h)
GetBeaconBlockByHeight(h) == GetBeaconBlockHashByIndex(h) /\ HasBlock("beacon", h)
FetchBeaconBlockFromHeight(from, to) == \A h \in from .. to : GetBeaconBlockByHeight(h)

-----------------------------------------------------------------------------
\* InsertBeaconBlock of a block that the node did not make itself.
InsertBeaconBlock(h) ==
    /\ node = "up" /\ writing.beacon = <<>>
    /\ ~HasBeaconBlock(h)
    /\ HasBlock("beacon", h - 1)
    /\ memory.beacon = h - 1
    /\ memory' = [memory EXCEPT !.beacon = h]
    /\ writing' = [writing EXCEPT !.beacon = BeaconPuts(h)]
    /\ UNCHANGED <<disk, diskBest, node, crashes, damage>>

InsertShardBlock(h) ==
    /\ node = "up" /\ writing.shard = <<>>
    /\ ~HasBlock("shard", h)
    /\ HasBlock("shard", h - 1)
    /\ memory.shard = h - 1
    /\ FetchBeaconBlockFromHeight(BeaconOf[h - 1] + 1, BeaconOf[h])
    /\ memory' = [memory EXCEPT !.shard = h]
    /\ writing' = [writing EXCEPT !.shard = ShardPuts(h)]
    /\ UNCHANGED <<disk, diskBest, node, crashes, damage>>

\* StoreBeaconBlock and StoreShardBlock refuse a block whose key is there, and
\* the insertion ends: the best state in memory has moved on by then.
StopsAt(put) == put[1] = "key" /\ put \in disk

Write(c) ==
    LET put == Head(writing[c])
    IN  /\ writing[c] # <<>>
        /\ \/ /\ StopsAt(put)
              /\ writing' = [writing EXCEPT ![c] = <<>>]
              /\ UNCHANGED <<disk, diskBest>>
           \/ /\ ~StopsAt(put)
              /\ disk' = disk \cup {put}
              /\ diskBest' = IF put[1] = "best" THEN [diskBest EXCEPT ![c] = memory[c]] ELSE diskBest
              /\ writing' = [writing EXCEPT ![c] = Tail(@)]
        /\ UNCHANGED <<memory, node, crashes, damage>>

-----------------------------------------------------------------------------
FetchBeaconBestState == diskBest.beacon
FetchShardBestState == diskBest.shard

\* initChainState reads the best states; a chain without one gets its genesis
\* block.  Without FastStartup, NewServer deletes the serial numbers and the
\* commitments, and nothing builds them again.
Start(fast) ==
    /\ node = "down"
    /\ disk' = IF fast THEN disk ELSE {p \in disk : p[1] # "coins"}
    /\ node' = "beacon"
    /\ memory' = [memory EXCEPT !.beacon = IF FetchBeaconBestState = 0 THEN 1 ELSE FetchBeaconBestState]
    /\ writing' = [writing EXCEPT !.beacon = IF FetchBeaconBestState = 0 THEN GenesisPuts ELSE <<>>]
    /\ UNCHANGED <<diskBest, crashes, damage>>

initShardState ==
    /\ node = "beacon" /\ writing.beacon = <<>>
    /\ \/ /\ FetchShardBestState # 0
          /\ memory' = [memory EXCEPT !.shard = FetchShardBestState]
          /\ node' = "shard"
          /\ UNCHANGED writing
       \/ /\ FetchShardBestState = 0 /\ ~GetBeaconBlockByHeight(1)
          /\ node' = "broken"
          /\ UNCHANGED <<memory, writing>>
       \/ /\ FetchShardBestState = 0 /\ GetBeaconBlockByHeight(1)
          /\ memory' = [memory EXCEPT !.shard = 1]
          /\ writing' = [writing EXCEPT !.shard = ShardPuts(1)]
          /\ node' = "shard"
    /\ UNCHANGED <<disk, diskBest, crashes, damage>>

FinishStart ==
    /\ node = "shard" /\ writing.shard = <<>>
    /\ node' = "up"
    /\ UNCHANGED <<disk, diskBest, memory, writing, crashes, damage>>

\* What is left of an insertion cannot be made up for when a part that tells
\* it was there is written and another is not.
Cuts(c) ==
    /\ writing[c] # <<>>
    /\ IF c = "beacon" THEN Put("best", c, memory[c]) \in disk ELSE Put("key", c, memory[c]) \in disk

Crash ==
    /\ node \notin {"down", "broken"} /\ crashes < MaxCrashes
    /\ node' = "down"
    /\ crashes' = crashes + 1
    /\ damage' = damage \cup {c \in Chains : Cuts(c)}
    /\ memory' = [c \in Chains |-> 0]
    /\ writing' = [c \in Chains |-> <<>>]
    /\ UNCHANGED <<disk, diskBest>>

-----------------------------------------------------------------------------
StoreInit ==
    /\ disk = {}
    /\ diskBest = [c \in Chains |-> 0]
    /\ memory = [c \in Chains |-> 0]
    /\ writing = [c \in Chains |-> <<>>]
    /\ node = "down"
    /\ crashes = 0
    /\ damage = {}

Insert ==
    \/ \E h \in 2 .. LastBeacon : InsertBeaconBlock(h)
    \/ \E h \in 2 .. LastShard : InsertShardBlock(h)

StoreNext ==
    \/ \E fast \in Startups : Start(fast)
    \/ initShardState
    \/ FinishStart
    \/ \E c \in Chains : Write(c)
    \/ Insert
    \/ Crash

-----------------------------------------------------------------------------
\* A node that crashes goes on to the end of both chains when it is started
\* again, unless a crash has cut an insertion in two.
StoreRecovers == <>(damage # {} \/ (diskBest.beacon = LastBeacon /\ diskBest.shard = LastShard))
=============================================================================
