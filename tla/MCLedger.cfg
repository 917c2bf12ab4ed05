\* Two shards, four kinds of blocks; three issues and a burn of the bridge.  The
\* bounded chains end.
CONSTANTS
  Shards <- MCShards
  MaxShardNumber = 4
  Addresses <- MCAddresses
  Producer <- MCProducer
  TokenNames = {"T", "U"}
  Amount = 2
  Menus <- MCMenus
  MaxHeight <- MCMaxHeight
  MaxTxs = 2
  Issues = {"i1", "i2", "i3"}
  Burns = {"b1"}
  TokenOf <- MCTokenOf
  AmountOf <- MCAmountOf
  MaxBlockTxs = 2
  MaxFaults = 1
SPECIFICATION LedgerSpec
INVARIANTS
  CoinsArrive
  TokenValueIsConserved
  HonestBlocksAreStored
  MintsAreBacked
  AmountsAreExact
  OnlyTwinIssuesAreRefused
CHECK_DEADLOCK FALSE
