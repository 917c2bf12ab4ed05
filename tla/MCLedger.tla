------------------------------ MODULE MCLedger ------------------------------
(***************************************************************************)
(* What the blocks of a chain do to the store, side by side: coins and     *)
(* tokens of two shards, and the tokens of the bridge.  A behaviour runs   *)
(* one of the two.                                                         *)
(***************************************************************************)
EXTENDS Ledger, Bridge

MCShards == {0, 1}
MCAddresses == {0, 1, 5}
MCProducer == 0 :> 5 @@ 1 :> 1
MCMaxHeight == 0 :> 3 @@ 1 :> 2

Menu == [pay |-> 0, return |-> 0, issue |-> 0, transfer |-> 0, issuePrivate |-> 0, transferPrivate |-> 0,
         confuse |-> FALSE, names |-> TokenNames]
MCMenus == {Menu, [Menu EXCEPT !.pay = 3, !.return = 1],
            [Menu EXCEPT !.issue = 1, !.transfer = 2],
            [Menu EXCEPT !.issue = 2],
            [Menu EXCEPT !.pay = 1, !.issue = 1, !.confuse = TRUE],
            [Menu EXCEPT !.issuePrivate = 2, !.transferPrivate = 1]}

\* Two issues and a burn of token "t" and one issue of token "u".
MCTokenOf == [r \in Requests |-> IF r \in {"i1", "i2", "b1"} THEN "t" ELSE "u"]
MCAmountOf == [r \in Requests |-> IF r = "i1" THEN 2 ELSE 1]

-----------------------------------------------------------------------------
VARIABLE bridged   \* whether it is the bridge that runs

LedgerNext ==
  /\ UNCHANGED bridged
  /\ \/ ~bridged /\ Next /\ UNCHANGED bridgeVars
     \/ bridged /\ BridgeNext /\ UNCHANGED vars

LedgerInit ==
  /\ bridged \in BOOLEAN
  /\ bridged => menu = Menu
  /\ Init /\ BridgeInit

LedgerSpec == LedgerInit /\ [][LedgerNext]_<<bridged, vars, bridgeVars>>
=============================================================================
