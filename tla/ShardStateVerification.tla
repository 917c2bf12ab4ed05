----------------------- MODULE ShardStateVerification -----------------------
(***************************************************************************)
(* How a beacon validator checks the shard states of a proposed beacon     *)
(* block against its own shard-to-beacon pool before it signs              *)
(* (blockchain/beaconprocess.go, VerifyPreProcessingBeaconBlock with       *)
(* isCommittee), composed with the pool of ShardToBeaconPool, where the    *)
(* block that the committee signs is one of those inserted.                *)
(*                                                                         *)
(* A proposed block is the shard states it names for each shard; the shard *)
(* blocks carry no instructions, so that the comparison of the instruction *)
(* hash says nothing about them, and their aggregated signatures verify.   *)
(***************************************************************************)
EXTENDS ShardToBeaconPool, Sequences, SequencesExt

CONSTANTS
  MaxStates   \* bound: shard states of one shard in one beacon block

ASSUME MaxStatesAssumption == MaxStates \in Nat

ShardStates == UNION {[1..n -> Block] : n \in 0..MaxStates}
ProposedBlock == [Shards -> ShardStates]

-----------------------------------------------------------------------------
\* Mutant: only the lowest block is compared.
MatchesFirst(mine, states) ==
  /\ Len(mine) >= Len(states)
  /\ Len(states) > 0 => mine[1] = states[1]

\* The comparison of the states of one shard with the blocks of the pool.
MatchesPool(mine, states) ==
  /\ Len(mine) >= Len(states)
  /\ \A i \in DOMAIN states : mine[i] = states[i]

\* GetValidPendingBlock(nil) for one shard: the blocks of the heights it hands
\* out, each at its place in the slice.
ValidPendingBlocks(s) ==
  LET blks == {b \in pool[s] : b.height \in GetValidPendingHeights(s, 0)}
  IN [i \in 1..Cardinality(blks) |->
        CHOOSE b \in blks : Cardinality({a \in blks : a.height < b.height}) = i - 1]

\* Consecutive heights, as the loop over i < len - 2 checks them.
FormatIsRight(states) ==
  \A i \in 1..(Len(states) - 2) : states[i + 1].height - states[i].height = 1

\* VerifyPreProcessingBeaconBlock: the committee part runs over the shards for
\* which the pool returned a block.
VerifyPreSign(block) ==
  \A s \in Shards :
    /\ FormatIsRight(block[s])
    /\ ValidPendingBlocks(s) # <<>> => MatchesPool(ValidPendingBlocks(s), block[s])

\* BestStateBeacon.Update: the last state of each shard is its best height.
BestAfter(block) ==
  [s \in Shards |-> IF block[s] = <<>> THEN best[s] ELSE Last(block[s]).height]

\* The validator signs the block, and so do enough others: it is inserted, as
\* one of the blocks that UpdateBestState of the pool's module allows for.
InsertSignedBlock(block) == UpdateBestState(BestAfter(block)) /\ VerifyPreSign(block)

-----------------------------------------------------------------------------
\* Whatever a proposer sends, a validator whose pool has a block for a shard
\* signs only states that continue that shard after the height last confirmed to
\* the pool, without a gap, and with the blocks it holds itself.  The comparison
\* is by position, so this rests on the pool's run being gapless.
SignedStatesContinueRun ==
  [][insert = "idle" /\ insert' = "updated" =>
       \A block \in ProposedBlock :
         InsertSignedBlock(block) =>
           \A s \in Shards : ValidPendingBlocks(s) # <<>> =>
             \A i \in DOMAIN block[s] :
               /\ block[s][i].height = AtLeastGenesis(applied[s]) + i
               /\ block[s][i] \in pool[s]]_vars
=============================================================================
