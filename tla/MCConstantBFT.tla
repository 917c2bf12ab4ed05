--------------------------- MODULE MCConstantBFT ---------------------------
(***************************************************************************)
(* Validators, side by side: what a committee signs (ConstantBFT), and who *)
(* is in a committee (Committees), for two shards and a beacon with        *)
(* committees of one and two keys that may stake.                          *)
(***************************************************************************)
EXTENDS ConstantBFT, Committees

CONSTANTS
  MoreAt,  \* the validators that may start more than one round
  Starts,  \* how many rounds they may start
  a1, b1, c1, k1, k2   \* keys

MCMaxStarts == [v \in Validator |-> IF v \in MoreAt THEN Starts ELSE 1]

MCBeaconGenesis == <<c1>>
MCShardGenesis == (0 :> <<a1>>) @@ (1 :> <<b1>>)
MCHome == (k1 :> 1) @@ (k2 :> 0)
MCRandomShard == (k1 :> 0) @@ (k2 :> 0)
MCKind == (k1 :> {"shard"}) @@ (k2 :> {"shard", "beacon"})
MCPayTo == [h \in 1 .. MaxBeaconHeight |-> h % 2]
MCMaxShardHeight == (0 :> 2) @@ (1 :> 1)

-----------------------------------------------------------------------------
VARIABLE signs   \* whether it is the consensus on a height that runs

ValidatorsNext ==
  /\ UNCHANGED signs
  /\ \/ signs /\ Next /\ UNCHANGED committeeVars
     \/ ~signs /\ CommitteesNext /\ UNCHANGED vars

ValidatorsInit == signs \in BOOLEAN /\ Init /\ CommitteesInit

ValidatorsSpec == ValidatorsInit /\ [][ValidatorsNext]_<<signs, vars, committeeVars>>
=============================================================================
