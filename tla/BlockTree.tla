------------------------------ MODULE BlockTree ------------------------------
(***************************************************************************)
(* The blocks of one chain, forks included, as the block pools see them: a *)
(* block is a height and a hash, and PrevBlockHash is given by Parent; and *)
(* the sizes of the pools.                                                 *)
(***************************************************************************)
EXTENDS Integers

CONSTANTS
  Block,    \* blocks, [height, hash]
  Genesis,  \* the genesis block, of height 1
  Parent,   \* block -> the block its PrevBlockHash names
  Signed,   \* the blocks that pass the checks of an insertion
  MaxValidBlock, MaxPendingBlock, CacheSize

ASSUME BlockAssumption ==
  /\ \A b \in Block : b.height \in Nat /\ b.height > 1
  /\ Genesis.height = 1
  /\ Parent \in [Block -> Block \union {Genesis}]
  /\ \A b \in Block : Parent[b].height = b.height - 1
ASSUME SignedAssumption == Signed \subseteq Block
ASSUME SizesAssumption == {MaxValidBlock, MaxPendingBlock, CacheSize} \subseteq Nat

HeightsOf(blks) == {b.height : b \in blks}

\* A Go map from heights to blocks is a set with one block per height.
At(blks, h) == CHOOSE b \in blks : b.height = h
=============================================================================
