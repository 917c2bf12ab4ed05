------------------------------ MODULE MCParts ------------------------------
(***************************************************************************)
(* Parts of a node that share no state, side by side: a behaviour runs one *)
(* of them while the others rest.  The pools of beacon and of shard blocks *)
(* see a chain with a main branch "a" and a fork "b"; shard 1 sends to     *)
(* shard 0 from some heights, with goroutines in any order and restarts;   *)
(* the wallet, the texts of keys, the proofs of payments and the fee       *)
(* estimator serve the clients of the node.                                *)
(***************************************************************************)
EXTENDS Wallet, Encodings, Proofs, FeeEstimator, MCBlockPools

CONSTANTS
  CrossTop, \* bound: greatest height of a shard that sends to another
  SendsAt,  \* heights of shard 1 that send something to shard 0
  ForksAt,  \* heights of shard 1 at which a fork does
  MAX_PENDING_CROSS_SHARD_IN_POOL

-----------------------------------------------------------------------------
\* Values of the constants.
MCCrossShard == [s \in {0, 1} |-> [h \in 2..CrossTop |-> IF s = 1 /\ h \in SendsAt THEN {0} ELSE {}]]
MCForked == {<<0, 1, h>> : h \in ForksAt}
MCMaxConfirmed == [s \in {0, 1} |-> IF s = 1 THEN CrossTop ELSE 1]

MCCoins == [i \in 0 .. 9 |-> 2 ^ i]
MCFeeRate == [t \in FeeTxs |-> <<3, 1, 2, 2>>[t]]

MCValues ==
    [kind : {"bytes"}, value : UNION {[1 .. n -> {0, 1, 3}] : n \in 0 .. 4}]
    \cup [kind : {"checked"}, value : UNION {[1 .. n -> {0, 2, 3}] : n \in 0 .. 3}]
    \cup [kind : {"key"}, type : KeyTypes, value :
              {NewChildKey(NewMasterKey(<<s>>), i) : s \in 0 .. 3, i \in 0 .. 3} \cup
              {NewMasterKey(<<s>>) : s \in 0 .. 3}]
    \cup [kind : {"seed"}, value : [1 .. 4 -> 0 .. 3] \cup [1 .. 8 -> {0, 3}]]

Seeds == {<<1, 2>>, <<3, 1>>}
Salts == {0, 5}

MCJobs ==
         [kind : {"schnorr"}, sk : 1 .. 4, as : 1 .. 4, r : {0, 3}, seed : Seeds, salt : 0 .. Q - 2]
    \cup [kind : {"multisig"}, sks : {<<1, 2, 3>>, <<4, 4, 2>>, <<5, 1, 7>>}, seed : Seeds, salt : 0 .. Q - 2]
    \cup [kind : {"coin"}, coin : [Randomness : {0, 7}, Value : {0, 3}], rk : 1 .. 4, k : 1 .. 3, seed : Seeds]
    \cup [kind : {"sn"}, sk : 1 .. 3, input : 0 .. 4, seed : Seeds, salt : 0 .. Q - 2]
    \cup [kind : {"ring"}, rand : {1, 2}, zero : 0 .. CMRingSize - 1, seed : Seeds, salt : Salts]
    \cup [kind : {"range"}, values : {<<0>>, <<15>>, <<5, 10>>, <<0, 15>>}, seed : Seeds, salt : Salts]
    \cup [kind : {"payment"}, sk : {1}, to : {1},
          wallet : {<<>>, <<1>>, <<2>>, <<4>>, <<5>>, <<1, 2>>, <<1, 1, 2>>, <<2, 2, 3>>, <<3, 1, 2, 1>>, <<1, 1, 1, 1, 1>>},
          payees : {<<>>, <<1>>, <<2>>, <<3>>, <<4>>, <<1, 2>>, <<1, 1, 2>>, <<1, 1, 1, 1>>, <<7, 7>>, <<7, 7, 7>>},
          foreign : {0, 1}, fee : {0, 1}, hasPrivacy : BOOLEAN, seed : {<<3, 1>>}, salt : {5}]
    \cup [kind : {"defragment"}, sk : {1},
          wallet : {<<>>, <<1>>, <<2>>, <<1, 2>>, <<1, 1, 2>>, <<4, 1>>, <<3, 1, 1>>, <<1, 1, 1, 1, 1>>},
          maxVal : 0 .. 3, foreign : {0, 1}, fee : {0, 1, 2}, hasPrivacy : BOOLEAN, seed : {<<3, 1>>}, salt : {5}]
    \cup [kind : {"serialClaim", "committedClaim"}, sk : {1, 2}, input : {1}, o : Scalar, t : {1}, t2 : Scalar]
    \cup [kind : {"ringClaim"}, cms : [{0, 1} -> 0 .. 2], l : {0, 1, 2, Q - 1}, b : 0 .. 2, d : Scalar]

-----------------------------------------------------------------------------
VARIABLES
  part,   \* the part that runs
  bestShardHeight, tasks, lastCrossShard, inserting, storedLast, storedHeight, nextHeight,
  validPool, pendingPool, bestCrossShard, refresh, processed

crossVars == <<bestShardHeight, tasks, lastCrossShard, inserting, storedLast, storedHeight, nextHeight,
               validPool, pendingPool, bestCrossShard, refresh, processed>>

Cross == INSTANCE CrossShard WITH
  Shards <- {0, 1}, MaxHeight <- CrossTop, MaxConfirmed <- MCMaxConfirmed,
  CrossShard <- MCCrossShard, Forked <- MCForked

ASSUME TransferAssumption == Cross!CrossShardAssumption

Parts == {"beacon", "shard", "cross", "wallet", "text", "proof", "fee"}

\* The part that runs starts in any of its initial states, the others rest in one.
PartsInit ==
  /\ part \in Parts
  /\ part # "proof" => job = CHOOSE j \in Jobs : TRUE
  /\ part # "text" => item = CHOOSE v \in Values : TRUE
  /\ part # "wallet" => seeds = 0
  /\ Init /\ EncodingInit /\ WalletInit /\ FeeInit
  /\ BeaconInit /\ ShardInit /\ Cross!Init

Rest(p, v) == part # p => UNCHANGED v

PartsNext ==
  /\ UNCHANGED part
  /\ \/ part = "beacon" /\ BeaconNext
     \/ part = "shard" /\ ShardNext
     \/ part = "cross" /\ Cross!Next
     \/ part = "wallet" /\ WalletNext
     \/ part = "text" /\ EncodingNext
     \/ part = "proof" /\ Next
     \/ part = "fee" /\ FeeNext
  /\ Rest("beacon", beaconVars) /\ Rest("shard", shardVars) /\ Rest("cross", crossVars)
  /\ Rest("wallet", walletVars) /\ Rest("text", encodingVars) /\ Rest("proof", vars)
  /\ Rest("fee", feeVars)

PartsSpec ==
  PartsInit /\ [][PartsNext]_<<part, beaconVars, shardVars, crossVars, walletVars, encodingVars, vars, feeVars>>

-----------------------------------------------------------------------------
\* No height of a shard is processed twice, whatever the order of goroutines,
\* restarts and forks (mempool/cross_shard_pool_v2.go, shardproducer.go).
CrossShardProcessedOnce == Cross!CrossShardProcessedOnce
=============================================================================
