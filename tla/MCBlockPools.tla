---------------------------- MODULE MCBlockPools ----------------------------
(***************************************************************************)
(* BeaconPool and ShardPool over the block trees that TLC uses: a main     *)
(* branch "a" and a fork "b" at some heights.  One of the two pools runs,  *)
(* the other rests.                                                        *)
(***************************************************************************)
EXTENDS BeaconPool, ShardPool

CONSTANTS
  Top,     \* bound: greatest height of a block
  ForkAt   \* heights that have a second block

MCGenesis == [height |-> 1, hash |-> "a"]
MCBlock == [height : 2..Top, hash : {"a"}] \union [height : ForkAt, hash : {"b"}]

\* Each block of the fork continues the fork where it can.
MCParent ==
  [b \in MCBlock |->
     LET onFork == [height |-> b.height - 1, hash |-> "b"]
     IN IF b.hash = "b" /\ onFork \in MCBlock
          THEN onFork
          ELSE [height |-> b.height - 1, hash |-> "a"]]

PoolsInit == BeaconInit /\ ShardInit

BeaconAlone == PoolsInit /\ [][BeaconNext /\ UNCHANGED shardVars]_<<beaconVars, shardVars>>
ShardAlone == PoolsInit /\ [][ShardNext /\ UNCHANGED beaconVars]_<<beaconVars, shardVars>>
=============================================================================
