---------------------------- MODULE MCCrossShard ----------------------------
(***************************************************************************)
(* Instances of CrossShard for TLC: shard 1 sends to shard 0 from some of  *)
(* its heights, shard 0 to shard 1 from others.                            *)
(***************************************************************************)
EXTENDS CrossShard

CONSTANTS
  SendsAt,   \* heights of shard 1 that send something to shard 0
  ForksAt,   \* heights of shard 1 at which a fork does
  BackAt     \* heights of shard 0 that send something to shard 1

MCForked == {<<0, 1, h>> : h \in ForksAt}

MCMaxConfirmed == [s \in {0, 1} |-> IF s = 1 THEN MaxHeight ELSE Max({1} \union BackAt)]

MCCrossShard ==
  [s \in {0, 1} |->
     [h \in Heights |-> IF s = 1 THEN IF h \in SendsAt THEN {0} ELSE {}
                        ELSE IF h \in BackAt THEN {1} ELSE {}]]
=============================================================================
