----------------------------- MODULE ChainSync -----------------------------
(***************************************************************************)
(* What the two pools of blocks and the threads that insert from them      *)
(* promise to the sync loop of a node, as long as the chains do not fork:  *)
(* a block above the best one is held once it is received, unless the pool *)
(* is full, until it is inserted; a beacon block is inserted when its      *)
(* successor is held too, a shard block when the beacon chain has          *)
(* confirmed it.  Blocks are their heights.  NodeSync implements this.     *)
(***************************************************************************)
EXTENDS Naturals, FiniteSets

CONSTANTS
  BeaconTop, ShardTop,  \* the greatest heights of the two chains
  Confirms,             \* beacon height -> BestShardHeight after the block of that height
  Room                  \* the blocks a pool holds for certain

ASSUME ChainSyncAssumption == BeaconTop \in Nat /\ ShardTop \in Nat /\ Room \in Nat

VARIABLES
  height,  \* of the best block of each chain
  held     \* the heights above it in the pools of each chain

Chain == {"beacon", "shard"}
Top(c) == IF c = "beacon" THEN BeaconTop ELSE ShardTop

chainVars == <<height, held>>

\* Whether the next block of the chain may be inserted from the pool.
Certified(c) ==
  /\ height[c] + 1 \in held[c]
  /\ IF c = "beacon" THEN height[c] + 2 \in held[c] ELSE height[c] + 1 <= Confirms[height["beacon"]]

Receive(c, h) ==
  /\ h > height[c]
  /\ \/ held' = [held EXCEPT ![c] = @ \cup {h}]
     \/ Cardinality(held[c]) >= Room /\ UNCHANGED held
  /\ UNCHANGED height

Insert(c) ==
  /\ Certified(c)
  /\ height' = [height EXCEPT ![c] = @ + 1]
  /\ held' = [held EXCEPT ![c] = @ \ {height[c] + 1}]

Init == height = [c \in Chain |-> 1] /\ held = [c \in Chain |-> {}]

Next == \E c \in Chain : Insert(c) \/ \E h \in 2..Top(c) : Receive(c, h)

\* Nothing that is held is lost before it is inserted, and nothing is inserted
\* without its certificate.
Safety == Init /\ [][Next]_chainVars

Spec == Safety /\ \A c \in Chain : WF_chainVars(Insert(c))
=============================================================================
