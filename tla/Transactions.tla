---------------------------- MODULE Transactions ----------------------------
(***************************************************************************)
(* A transaction's way through a node of a shard's committee: a client     *)
(* builds it, the pool accepts it, the block generator hears of it, a block*)
(* is put together or verified in TempTxPool, a certified block is stored  *)
(* step by step, and the pool and the generator are told to forget its     *)
(* transactions.                                                           *)
(*                                                                         *)
(* These run at the same time: the handlers of the RPC server and of       *)
(* network messages, the goroutines that pass transactions on, block       *)
(* production, which takes no lock, and verification and insertion, which  *)
(* both hold the lock of the shard's best state.  A crash loses everything *)
(* but the databases.                                                      *)
(*                                                                         *)
(* The chain is what the committee has certified: every block of it can be *)
(* spent after those before it.  The blocks that reach the node for its    *)
(* signature are arbitrary.                                                *)
(***************************************************************************)
EXTENDS TxPool, Sequences, FiniteSetsExt

CONSTANTS
    GenesisCoins,        \* native coins of the genesis block
    Validators,          \* keys in the lists of the beacon
    PersistMempool,      \* config.PersistMempool
    IsLoadFromMempool,   \* config.IsLoadFromMempool
    MaxHeight,           \* bounds of the model: blocks,
    Budgets              \* and how often a behaviour may take which step

VARIABLES
    chain,       \* Seq(SUBSET Tx): the certified blocks
    height,      \* ShardHeight of the best state in memory
    stage,       \* how far InsertShardBlock has got with block number height
    disk,        \* the chain's database
    tp,          \* the node's TxPool
    mempoolDB,   \* the transactions in the pool's database
    role,        \* RoleInCommittees is the shard's
    temp,        \* TempTxPool
    pending,     \* PendingTxs of the block generator
    sending,     \* goroutines that are to send on CPendingTxs
    forgetting,  \* goroutines started by InsertShardBlock and the producer
    producer,    \* getPendingTransactionV2
    verifier,    \* VerifyPreSignShardBlock
    approved,    \* the block that the node has last produced or signed
    expired,     \* transactions that MonitorPool has dropped
    cut,         \* blocks whose store was cut short after the best state
    budget

vars == <<chain, height, stage, disk, tp, mempoolDB, role, temp, pending, sending, forgetting,
          producer, verifier, approved, expired, cut, budget>>

chainVars == <<chain, height, stage, disk, cut>>
poolVars == <<tp, mempoolDB, role, expired>>
genVars == <<pending, sending, forgetting>>
blockVars == <<temp, producer, verifier, approved>>

Off == [on |-> FALSE, todo |-> {}, txs |-> <<>>, remove |-> {}, clean |-> TRUE]
Disk == [blocks |-> {}, best |-> 0, utxo |-> {}, tokenTxs |-> {}, serials |-> {},
         commitments |-> GenesisCoins, index |-> {}, validators |-> Validators]

Spend(what) == budget[what] > 0 /\ budget' = [budget EXCEPT ![what] = @ - 1]

\* What the blocks of the chain spend and make.
SpentBy(h) == UNION {Ins[t] : t \in chain[h]}
SpentUpTo(h) == UNION {SpentBy(i) : i \in 1 .. h}
TxsUpTo(h) == UNION {chain[i] : i \in 1 .. h}
MadeUpTo(h) == GenesisCoins \cup UNION {Outs[t] : t \in TxsUpTo(h)}

\* The pool's database.
AddTransactionToDatabaseMP(t) == IF PersistMempool THEN mempoolDB \cup {t} ELSE mempoolDB
RemoveTransactionFromDatabaseMP(t) == mempoolDB \ {t}

-----------------------------------------------------------------------------
\* Clients and the pool.

\* buildRawTransaction: the coins are unspent on disk and not reserved; they
\* are noted for the transaction, and reserved when the pool accepts it.
CreateRawTransaction(t) ==
    /\ t \notin tp.serials \cup tp.txCoins \cup expired \cup mempoolDB \cup TxsUpTo(Len(chain))
    /\ \A c \in Ins[t] : /\ c \in disk.commitments \ disk.serials
                         /\ ValidateCoinHashH(tp, c)
    /\ Spend("create")
    /\ tp' = PrePoolTxCoinHashH(tp, t)
    /\ UNCHANGED <<chainVars, mempoolDB, role, expired, genVars, blockVars>>

\* MaybeAcceptTransaction, from the RPC server or the network.
MaybeAcceptTransaction(t) ==
    /\ role
    /\ Cardinality(tp.pool) < MaxTx
    /\ ValidateTransaction(tp, disk, t)
    /\ tp' = maybeAcceptTransaction(tp, disk, t)
    /\ mempoolDB' = AddTransactionToDatabaseMP(t)
    /\ sending' = sending \cup {t}
    /\ UNCHANGED <<chainVars, role, expired, pending, forgetting, blockVars, budget>>

\* The transactions that have outlived TxLifeTime.
ExpirePool(ts) ==
    /\ ts # {} /\ ts \subseteq tp.pool
    /\ Spend("expire")
    /\ tp' = MonitorPool(tp, ts)
    /\ expired' = expired \cup ts
    /\ UNCHANGED <<chainVars, mempoolDB, role, genVars, blockVars>>

\* Start: the role that the consensus engine announces.
SetRole ==
    /\ Spend("role")
    /\ role' = ~role
    /\ UNCHANGED <<chainVars, tp, mempoolDB, expired, genVars, blockVars>>

-----------------------------------------------------------------------------
\* The block generator and the goroutines.

AddTransactionV2(t) ==
    /\ t \in sending
    /\ sending' = sending \ {t}
    /\ pending' = pending \cup {t}
    /\ UNCHANGED <<chainVars, poolVars, forgetting, blockVars, budget>>

\* First the candidates and tokens of an inserted block, then a goroutine for
\* each of its transactions.
ForgetLists(h) ==
    /\ <<"lists", h>> \in forgetting
    /\ \E p \in RemoveCandidateList(tp, UNION {Stakes[t] : t \in chain[h]}) :
          tp' \in RemoveTokenIDList(p, UNION {Inits[t] : t \in chain[h]})
    /\ forgetting' = (forgetting \ {<<"lists", h>>}) \cup {<<"pool", t>> : t \in chain[h]}
    /\ UNCHANGED <<chainVars, mempoolDB, role, expired, pending, sending, blockVars, budget>>

\* RemoveTx, for a transaction of a block ("pool": CRemovedTxs follows) or
\* one that the producer could not use ("drop").
ForgetTx(why, t) ==
    /\ <<why, t>> \in forgetting
    /\ tp' = RemoveTx(tp, t)
    /\ mempoolDB' = IF t \in tp.pool THEN RemoveTransactionFromDatabaseMP(t) ELSE mempoolDB
    /\ forgetting' = (forgetting \ {<<why, t>>})
                     \cup IF why = "pool" THEN {<<"generator", t>>} ELSE {}
    /\ UNCHANGED <<chainVars, role, expired, pending, sending, blockVars, budget>>

RemoveTransactionV2(t) ==
    /\ <<"generator", t>> \in forgetting
    /\ pending' = pending \ {t}
    /\ forgetting' = forgetting \ {<<"generator", t>>}
    /\ UNCHANGED <<chainVars, poolVars, sending, blockVars, budget>>

-----------------------------------------------------------------------------
\* TempTxPool is shared: who empties it takes the other's transactions away.

Disturbed(process) == [process EXCEPT !.clean = FALSE]

\* getPendingTransactionV2 empties the pool and takes what is pending.
StartProducing ==
    /\ ~producer.on
    /\ Spend("produce")
    /\ producer' = [Off EXCEPT !.on = TRUE, !.todo = pending, !.clean = stage = "idle" /\ ~verifier.on]
    /\ temp' = EmptyPool
    /\ verifier' = IF verifier.on THEN Disturbed(verifier) ELSE verifier
    /\ UNCHANGED <<chainVars, poolVars, genVars, approved>>

\* MaybeAcceptTransactionForBlockProducing, in the order of a map's walk.
ProduceTx(t) ==
    /\ producer.on /\ t \in producer.todo
    /\ temp' = maybeAcceptTransaction(temp, disk, t)
    /\ producer' = IF ValidateTransaction(temp, disk, t)
                   THEN [producer EXCEPT !.todo = @ \ {t}, !.txs = Append(@, t)]
                   ELSE [producer EXCEPT !.todo = @ \ {t}, !.remove = @ \cup {t}]
    /\ UNCHANGED <<chainVars, poolVars, genVars, verifier, approved, budget>>

\* The block is full, its time is over or no transaction is left.  Its header
\* names the best block of now.
FinishProducing ==
    /\ producer.on
    /\ producer.todo = {} \/ producer.txs # <<>>
    /\ approved' = [at |-> height, txs |-> producer.txs, clean |-> producer.clean]
    /\ forgetting' = forgetting \cup {<<"drop", t>> : t \in producer.remove}
    /\ producer' = Off
    /\ temp' = EmptyPool
    /\ verifier' = IF verifier.on THEN Disturbed(verifier) ELSE verifier
    /\ UNCHANGED <<chainVars, poolVars, pending, sending, budget>>

\* VerifyTransactionFromNewBlock and ValidateTxList: every transaction by
\* itself first, then one after the other with those before it.
StartVerifying(txs) ==
    /\ ~verifier.on /\ stage = "idle"
    /\ Spend("verify")
    /\ \A i \in DOMAIN txs : ValidateTxIndependProperties(disk, txs[i])
    /\ verifier' = [Off EXCEPT !.on = TRUE, !.txs = txs, !.clean = ~producer.on]
    /\ temp' = EmptyPool
    /\ producer' = IF producer.on THEN Disturbed(producer) ELSE producer
    /\ UNCHANGED <<chainVars, poolVars, genVars, approved>>

\* Mutant: the transactions of a block are not compared with each other.
NotCompared(t) == TRUE

\* What ValidateTxList asks of a transaction and those before it.
Compatible(t) ==
    /\ t \notin temp.pool
    /\ ValidateTxWithCurrentMempool(temp, t)
    /\ NoDuplicate(temp, t)

\* Mutant: the early return keeps the lock of the best state.
VerifyTxKeepsLock ==
    LET n == Cardinality(verifier.todo) + 1
    IN  /\ verifier.on /\ n \in DOMAIN verifier.txs
        /\ Compatible(verifier.txs[n])
        /\ temp' = addTx(temp, verifier.txs[n])
        /\ verifier' = [verifier EXCEPT !.todo = @ \cup {n}]
        /\ UNCHANGED <<chainVars, poolVars, genVars, producer, approved, budget>>

\* One transaction of ValidateTxList; an error ends the verification, and
\* what is deferred empties the pool.
VerifyTx ==
    LET n == Cardinality(verifier.todo) + 1
        t == verifier.txs[n]
    IN  /\ verifier.on /\ n \in DOMAIN verifier.txs
        /\ IF Compatible(t)
           THEN /\ temp' = addTx(temp, t)
                /\ verifier' = [verifier EXCEPT !.todo = @ \cup {n}]
                /\ producer' = producer
           ELSE /\ temp' = EmptyPool
                /\ verifier' = Off
                /\ producer' = IF producer.on THEN Disturbed(producer) ELSE producer
        /\ UNCHANGED <<chainVars, poolVars, genVars, approved, budget>>

FinishVerifying ==
    /\ verifier.on /\ Cardinality(verifier.todo) = Len(verifier.txs)
    /\ approved' = [at |-> height, txs |-> verifier.txs, clean |-> verifier.clean]
    /\ verifier' = Off
    /\ temp' = EmptyPool
    /\ producer' = IF producer.on THEN Disturbed(producer) ELSE producer
    /\ UNCHANGED <<chainVars, poolVars, genVars, budget>>

-----------------------------------------------------------------------------
\* The chain.

\* The transactions can be spent, in this order, after block number h.
Spendable(txs, h) ==
    /\ \A i \in DOMAIN txs :
          /\ txs[i] \in Sane \cap Proved
          /\ Ins[txs[i]] \subseteq MadeUpTo(h) \ SpentUpTo(h)
          /\ \A v \in TokenIns[txs[i]] : v[1] \in TxsUpTo(h)
          /\ \A u \in TxsUpTo(h) : ~SpendsSameToken(txs[i], u)
    /\ \A i, j \in DOMAIN txs : i # j => /\ Ins[txs[i]] \cap Ins[txs[j]] = {}
                                         /\ ~SpendsSameToken(txs[i], txs[j])

\* The committee certifies a block.
Certify(txs) ==
    /\ Len(chain) < MaxHeight
    /\ Spend("certify")
    /\ Spendable(txs, Len(chain))
    /\ chain' = Append(chain, {txs[i] : i \in DOMAIN txs})
    /\ UNCHANGED <<height, stage, disk, cut, poolVars, genVars, blockVars>>

\* InsertShardBlock, up to the best state in memory and the goroutines.
InsertShardBlock ==
    /\ stage = "idle" /\ ~verifier.on
    /\ height < Len(chain)
    /\ height + 1 \notin disk.blocks
    /\ height' = height + 1
    /\ stage' = "updated"
    /\ forgetting' = forgetting \cup {<<"lists", height + 1>>}
    /\ producer' = IF producer.on THEN Disturbed(producer) ELSE producer
    /\ UNCHANGED <<chain, disk, cut, poolVars, pending, sending, temp, verifier, approved, budget>>

\* A step of ProcessStoreShardBlock.
Store(from, to, stored) ==
    /\ stage = from
    /\ stage' = to
    /\ disk' = stored
    /\ UNCHANGED <<chain, height, poolVars, genVars, blockVars, budget>>

StoreShardBlock == Store("updated", "block", [disk EXCEPT !.blocks = @ \cup {height}]) /\ UNCHANGED cut

StoreShardBestState == Store("block", "best", [disk EXCEPT !.best = height]) /\ UNCHANGED cut

\* The token transactions of the block, in the order of a map's walk: one
\* whose output to be spent is not on disk, or is spent, ends the insertion.
TokenTxs(h) == {t \in chain[h] : TokenIns[t] # {} \/ Inits[t] # {}}
StoreTokens ==
    LET good == {t \in TokenTxs(height) : TokenIns[t] \subseteq disk.utxo}
        with(ts) == [disk EXCEPT
            !.utxo = (@ \ UNION {TokenIns[t] : t \in ts}) \cup {<<t, 1>> : t \in ts},
            !.tokenTxs = @ \cup ts]
    IN  /\ stage = "best"
        /\ \/ /\ good = TokenTxs(height)
              /\ Store("best", "tokens", with(good)) /\ UNCHANGED cut
           \/ /\ good # TokenTxs(height)
              /\ \E ts \in SUBSET good : Store("best", "idle", with(ts))
              /\ cut' = cut \cup {height}

\* Mutant: no serial numbers are stored.
SerialsOfNone(h) == {}

\* fetchTxViewPointFromBlock: the serial numbers of a block's view.
SerialsOf(h) == UNION {ListNullifiers(t) : t \in chain[h]}

StoreSerialNumbers ==
    stage = "tokens" /\ Store("tokens", "serials", [disk EXCEPT !.serials = @ \cup SerialsOf(height)]) /\ UNCHANGED cut

StoreCommitments ==
    stage = "serials" /\ Store("serials", "commitments",
          [disk EXCEPT !.commitments = @ \cup UNION {Outs[t] : t \in chain[height]}]) /\ UNCHANGED cut

StoreTransactionIndex ==
    stage = "commitments" /\ Store("commitments", "idle", [disk EXCEPT !.index = @ \cup chain[height]]) /\ UNCHANGED cut

\* A crash, and the restart: initShardState reads the best state on disk, and
\* LoadOrResetDatabaseMP the pool's database.
Crash ==
    /\ Spend("crash")
    /\ height' = disk.best
    /\ stage' = "idle"
    /\ cut' = IF stage \in {"best", "tokens", "serials", "commitments"} THEN cut \cup {height} ELSE cut
    /\ \E loaded \in IF IsLoadFromMempool THEN LoadDatabaseMP(disk, mempoolDB) ELSE {{}} :
          /\ tp' = [EmptyTxPool EXCEPT !.pool = loaded, !.serials = loaded,
                                       !.candidates = {t \in loaded : Stakes[t] # {}},
                                       !.tokens = {t \in loaded : Inits[t] # {}}]
          /\ mempoolDB' \in IF budget["expire"] > 0 THEN SUBSET loaded ELSE {loaded}
    /\ role' = FALSE
    /\ expired' = {} /\ pending' = {} /\ sending' = {} /\ forgetting' = {}
    /\ temp' = EmptyTxPool /\ producer' = Off /\ verifier' = Off
    /\ UNCHANGED <<chain, disk, approved>>

-----------------------------------------------------------------------------
Init ==
    /\ chain = <<>> /\ height = 0 /\ stage = "idle" /\ disk = Disk
    /\ tp = EmptyTxPool /\ mempoolDB = {} /\ role = FALSE /\ temp = EmptyTxPool
    /\ pending = {} /\ sending = {} /\ forgetting = {}
    /\ producer = Off /\ verifier = Off /\ approved = [at |-> 0, txs |-> <<>>, clean |-> TRUE]
    /\ expired = {} /\ cut = {}
    /\ budget \in Budgets

\* Blocks of at most two transactions.
Blocks == {<<>>} \cup {<<t>> : t \in Tx} \cup {<<t, u>> : t, u \in Tx}

Storing == \/ InsertShardBlock \/ StoreShardBlock \/ StoreShardBestState \/ StoreTokens
           \/ StoreSerialNumbers \/ StoreCommitments \/ StoreTransactionIndex

Next ==
    \/ \E t \in Tx : \/ CreateRawTransaction(t) \/ MaybeAcceptTransaction(t)
                     \/ AddTransactionV2(t) \/ RemoveTransactionV2(t) \/ ProduceTx(t)
                     \/ \E why \in {"pool", "drop"} : ForgetTx(why, t)
    \/ \E ts \in SUBSET Tx : ExpirePool(ts)
    \/ \E h \in 1 .. MaxHeight : ForgetLists(h)
    \/ \E txs \in Blocks : StartVerifying(txs) \/ Certify(txs)
    \/ SetRole
    \/ StartProducing \/ FinishProducing \/ VerifyTx \/ FinishVerifying
    \/ Storing
    \/ Crash

Spec == Init /\ [][Next]_vars

\* An insertion and a verification that have begun go on.
Fairness == WF_vars(Storing) /\ WF_vars(VerifyTx \/ FinishVerifying)

-----------------------------------------------------------------------------
\* Properties.

\* Blocks whose store was cut short by a crash, or by a token output that an
\* earlier one of them did not leave on disk.
Lost == UNION {SpentBy(h) : h \in cut}

\* The node never produces or signs a block that spends a native coin twice,
\* or one that the chain under it has spent: although pool, generator and
\* TempTxPool forget transactions at different times, the checks with the
\* database and with TempTxPool together see every conflict.  It needs that
\* no other block is put together, verified or inserted meanwhile, and that
\* the store of no earlier block was cut short.
ApprovedSpendsOnce ==
    approved.clean =>
        /\ \A i \in DOMAIN approved.txs :
              Ins[approved.txs[i]] \cap (SpentUpTo(approved.at) \ Lost) = {}
        /\ \A i, j \in DOMAIN approved.txs :
              i # j => Ins[approved.txs[i]] \cap Ins[approved.txs[j]] = {}

\* What the best state on disk stands for is on disk: between insertions the
\* serial numbers are those of the blocks up to it, but for blocks whose
\* store was cut short; and of blocks after it nothing is on disk.
DiskMatchesBestState ==
    /\ disk.serials \subseteq SpentUpTo(disk.best)
    /\ stage = "idle" => /\ height = disk.best
                         /\ SpentUpTo(disk.best) \ Lost \subseteq disk.serials
                         /\ TxsUpTo(disk.best) \ UNION {chain[h] : h \in cut} \subseteq disk.index

\* The coins that the RPC server leaves alone are those of the transactions
\* it has built that are in the pool, whatever the order in which clients,
\* goroutines and the monitor add and remove them; besides, the coins of
\* expired transactions stay reserved.
CoinsOf(ts) == UNION {Ins[t] : t \in ts}
ReservationsAreExact ==
    /\ CoinsOf(tp.pool \cap tp.txCoins) \subseteq tp.coins
    /\ tp.coins \subseteq CoinsOf(tp.pool \cap tp.txCoins) \cup CoinsOf(expired)

\* A certified block is inserted, after any crash; but a node that crashed
\* after StoreShardBlock and before StoreShardBestState finds the block on
\* disk and refuses it for ever.
Stuck == height + 1 \in disk.blocks /\ stage = "idle"
CertifiedIsInserted ==
    \A h \in 1 .. MaxHeight : Len(chain) >= h ~> disk.best >= h \/ Stuck
=============================================================================
