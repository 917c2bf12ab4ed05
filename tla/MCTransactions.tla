--------------------------- MODULE MCTransactions ---------------------------
(***************************************************************************)
(* Two systems side by side, of which a behaviour runs one: the pool and   *)
(* the blocks of transactions (Transactions), where t1 issues a token, t2  *)
(* spends it and stakes, and t3 spends a coin of each; and what the blocks *)
(* of two chains leave on disk when the node crashes (ChainStore).         *)
(***************************************************************************)
EXTENDS Transactions, TLC

CONSTANTS t1, t2, t3, c1, c2, c3, key, token

MCIns == (t1 :> {c1}) @@ (t2 :> {c2}) @@ (t3 :> {c1, c2})
MCOuts == (t1 :> {c3}) @@ (t2 :> {}) @@ (t3 :> {})
MCTokenIns == (t1 :> {}) @@ (t2 :> {<<t1, 1>>}) @@ (t3 :> {})
MCInits == (t1 :> {token}) @@ (t2 :> {}) @@ (t3 :> {})
MCStakes == (t1 :> {}) @@ (t2 :> {key}) @@ (t3 :> {key})

\* What a behaviour may do how often: clients and expiry, block production and
\* a crash, and blocks produced and verified at the same time.
Steps(create, expire, crash, produce, verify, certify) ==
    [create |-> create, expire |-> expire, crash |-> crash, produce |-> produce,
     verify |-> verify, certify |-> certify, role |-> 1]
MCBudgets == {Steps(2, 1, 0, 0, 0, 1), Steps(0, 0, 1, 1, 0, 2), Steps(0, 0, 1, 0, 1, 2),
              Steps(0, 0, 0, 1, 1, 1), Steps(0, 1, 0, 1, 0, 1)}

MCBeaconOf == <<1, 2, 3>>

-----------------------------------------------------------------------------
VARIABLES
  stores,   \* whether it is the chain store that runs
  storeDisk, diskBest, memory, writing, node, crashes, damage

storeVars == <<storeDisk, diskBest, memory, writing, node, crashes, damage>>

ChainDB == INSTANCE ChainStore WITH
  LastBeacon <- 3, LastShard <- 3, BeaconOf <- MCBeaconOf, Startups <- {TRUE}, MaxCrashes <- 2,
  disk <- storeDisk

MCNext ==
  /\ UNCHANGED stores
  /\ \/ ~stores /\ Next /\ UNCHANGED storeVars
     \/ stores /\ ChainDB!StoreNext /\ UNCHANGED vars

\* A node that is down is started again, goroutines run on, and the blocks of
\* both chains keep coming from the pools.
StoreFairness ==
  /\ WF_storeVars(stores /\ ChainDB!Start(TRUE))
  /\ WF_storeVars(stores /\ (ChainDB!initShardState \/ ChainDB!FinishStart))
  /\ \A c \in {"beacon", "shard"} : WF_storeVars(stores /\ ChainDB!Write(c))
  /\ WF_storeVars(stores /\ \E h \in 2 .. 3 : ChainDB!InsertBeaconBlock(h))
  /\ WF_storeVars(stores /\ \E h \in 2 .. 3 : ChainDB!InsertShardBlock(h))

MCInit ==
  /\ stores \in BOOLEAN
  /\ stores => budget = Steps(2, 1, 0, 0, 0, 1)
  /\ Init /\ ChainDB!StoreInit

\* The fair actions of Transactions are disabled while it rests.
MCSpec ==
  /\ MCInit
  /\ [][MCNext]_<<stores, vars, storeVars>>
  /\ Fairness /\ StoreFairness

-----------------------------------------------------------------------------
\* A node that crashes goes on to the end of both chains when it is started
\* again, unless a crash has cut an insertion in two.
StoreRecovers == stores => ChainDB!StoreRecovers
=============================================================================
