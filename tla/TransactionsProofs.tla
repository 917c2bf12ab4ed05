------------------------ MODULE TransactionsProofs ------------------------
(***************************************************************************)
(* Proofs about the pool of transactions, for every set of transactions    *)
(* and coins, every chain and every bound: no coin is spent by two pooled  *)
(* transactions, and the coins that are reserved are exactly those of the  *)
(* pooled transactions that the node has built; the databases match the    *)
(* best state on disk but for blocks whose store was cut short; and no     *)
(* block is produced or signed that spends a coin twice.                   *)
(***************************************************************************)
EXTENDS Transactions, FiniteSetTheorems, TLAPS

Coins == CoinsOf(Tx)

\* The type of the pool and of what it is loaded from.
PoolTypeOK ==
    /\ tp \in [pool : SUBSET Tx, serials : SUBSET Tx, txCoins : SUBSET Tx, coins : SUBSET Coins,
               candidates : SUBSET Tx, tokens : SUBSET Tx]
    /\ mempoolDB \in SUBSET Tx
    /\ expired \in SUBSET Tx

\* No two of the transactions spend the same coin.
Disjoint(ts) == \A t, u \in ts : t # u => Ins[t] \cap Ins[u] = {}

\* poolSerialNumbers holds the serial numbers of every pooled transaction, and
\* of no two transactions that spend the same coin: RemoveTx and MonitorPool
\* forget serial numbers late or with their transactions, never before.
PoolSpendsOnce == tp.pool \subseteq tp.serials /\ Disjoint(tp.serials)

PoolInv == PoolTypeOK /\ PoolSpendsOnce /\ ReservationsAreExact

-----------------------------------------------------------------------------
LEMMA InitPoolInv == Init => PoolInv
  BY DEF Init, PoolInv, PoolTypeOK, PoolSpendsOnce, ReservationsAreExact, EmptyTxPool, Disjoint, CoinsOf

\* PrePoolTxCoinHashH announces a transaction that is not in the pool.
LEMMA CreateKeepsPoolInv ==
  ASSUME PoolInv, NEW t \in Tx, CreateRawTransaction(t)
  PROVE  PoolInv'
<1> USE DEF PoolInv, PoolTypeOK
<1>1. /\ tp' = [tp EXCEPT !.txCoins = @ \cup {t}]
      /\ t \notin tp.serials
      /\ UNCHANGED <<mempoolDB, expired>>
  BY DEF CreateRawTransaction, PrePoolTxCoinHashH
<1>2. PoolTypeOK'
  BY <1>1
<1>3. PoolSpendsOnce'
  BY <1>1 DEF PoolSpendsOnce
<1>4. tp'.pool \cap tp'.txCoins = tp.pool \cap tp.txCoins /\ tp'.coins = tp.coins
  BY <1>1 DEF PoolSpendsOnce
<1>5. ReservationsAreExact'
  BY <1>1, <1>4 DEF ReservationsAreExact, CoinsOf
<1> QED BY <1>2, <1>3, <1>5

\* What addTx does to a pool that has no transaction in conflict.
LEMMA AddKeepsPoolInv ==
  ASSUME PoolInv, NEW t \in Tx, MaybeAcceptTransaction(t)
  PROVE  PoolInv'
<1> USE DEF PoolInv, PoolTypeOK
<1>1. /\ tp' = addTx(tp, t)
      /\ \A u \in tp.serials : Ins[u] \cap Ins[t] = {}
      /\ mempoolDB' \in SUBSET Tx
      /\ UNCHANGED expired
  BY DEF MaybeAcceptTransaction, maybeAcceptTransaction, ValidateTransaction, ValidateTxWithCurrentMempool,
         SpendsPooledCoin, ListNullifiers, AddTransactionToDatabaseMP, poolVars
<1>2. /\ tp'.pool = tp.pool \cup {t}
      /\ tp'.serials = tp.serials \cup {t}
      /\ tp'.txCoins = tp.txCoins
      /\ tp'.coins = IF t \in tp.txCoins THEN tp.coins \cup Ins[t] ELSE tp.coins
  BY <1>1 DEF addTx, AddTxCoinHashH
<1>a. Ins[t] \subseteq Coins
  BY DEF Coins, CoinsOf
<1>b. /\ tp'.candidates = tp.candidates \cup {u \in {t} : Stakes[u] # {}}
      /\ tp'.tokens = tp.tokens \cup {u \in {t} : Inits[u] # {}}
      /\ tp' = [pool |-> tp'.pool, serials |-> tp'.serials, txCoins |-> tp'.txCoins, coins |-> tp'.coins,
               candidates |-> tp'.candidates, tokens |-> tp'.tokens]
  BY <1>1 DEF addTx, AddTxCoinHashH
<1>3. PoolTypeOK'
  BY <1>1, <1>2, <1>a, <1>b
<1>4. PoolSpendsOnce'
  BY <1>1, <1>2 DEF PoolSpendsOnce, Disjoint
<1>5. ReservationsAreExact'
  BY <1>1, <1>2 DEF ReservationsAreExact, CoinsOf
<1> QED BY <1>3, <1>4, <1>5

\* MonitorPool lets the reserved coins of what expires stay reserved.
LEMMA ExpireKeepsPoolInv ==
  ASSUME PoolInv, NEW ts \in SUBSET Tx, ExpirePool(ts)
  PROVE  PoolInv'
<1> USE DEF PoolInv, PoolTypeOK
<1>1. tp' = MonitorPool(tp, ts) /\ expired' = expired \cup ts /\ UNCHANGED mempoolDB
  BY DEF ExpirePool
<1>2. /\ tp'.pool = tp.pool \ ts /\ tp'.serials = tp.serials \ ts
      /\ tp'.txCoins = tp.txCoins \ ts /\ tp'.coins = tp.coins
  BY <1>1 DEF MonitorPool
<1>3. PoolTypeOK'
  BY <1>1 DEF MonitorPool
<1>4. PoolSpendsOnce'
  BY <1>2 DEF PoolSpendsOnce, Disjoint
<1>5. ReservationsAreExact'
  BY <1>1, <1>2 DEF ReservationsAreExact, CoinsOf
<1> QED BY <1>3, <1>4, <1>5

\* RemoveTx gives back the coins of one transaction; those of the others are
\* not among them.
LEMMA ForgetKeepsPoolInv ==
  ASSUME PoolInv, NEW why, NEW t \in Tx, ForgetTx(why, t)
  PROVE  PoolInv'
<1> USE DEF PoolInv, PoolTypeOK
<1>1. tp' = RemoveTx(tp, t) /\ mempoolDB' \in SUBSET Tx /\ UNCHANGED expired
  BY DEF ForgetTx, RemoveTransactionFromDatabaseMP
<1>2. CASE t \notin tp.pool
  <2>1. tp' = tp
    BY <1>1, <1>2 DEF RemoveTx
  <2> QED BY <1>1, <2>1 DEF PoolSpendsOnce, ReservationsAreExact
<1>3. CASE t \in tp.pool
  <2>1. /\ tp'.pool = tp.pool \ {t} /\ tp'.serials = tp.serials
        /\ tp'.txCoins = tp.txCoins \ {t}
        /\ tp'.coins = IF t \in tp.txCoins THEN tp.coins \ Ins[t] ELSE tp.coins
    BY <1>1, <1>3 DEF RemoveTx, RemoveTxCoinHashH
  <2>2. PoolTypeOK'
    BY <1>1, <1>3 DEF RemoveTx, RemoveTxCoinHashH
  <2>3. PoolSpendsOnce'
    BY <2>1 DEF PoolSpendsOnce
  <2>4. \A u \in tp.pool : u # t => Ins[u] \cap Ins[t] = {}
    BY <1>3 DEF PoolSpendsOnce, Disjoint
  <2>5. ReservationsAreExact'
    BY <1>1, <2>1, <2>4 DEF ReservationsAreExact, CoinsOf
  <2> QED BY <2>2, <2>3, <2>5
<1> QED BY <1>2, <1>3

\* RemoveCandidateList and RemoveTokenIDList touch their own maps only.
LEMMA ForgetListsKeepsPoolInv ==
  ASSUME PoolInv, NEW h, ForgetLists(h)
  PROVE  PoolInv'
<1> USE DEF PoolInv, PoolTypeOK
<1> DEFINE keys == UNION {Stakes[t] : t \in chain[h]}
           ids == UNION {Inits[t] : t \in chain[h]}
<1>a. PICK p \in RemoveCandidateList(tp, keys) : tp' \in RemoveTokenIDList(p, ids)
  BY DEF ForgetLists
<1>b. PICK c \in WithoutOneEach(tp.candidates, Stakes, keys) : p = [tp EXCEPT !.candidates = c]
  BY <1>a DEF RemoveCandidateList
<1>c. PICK i \in WithoutOneEach(p.tokens, Inits, ids) : tp' = [p EXCEPT !.tokens = i]
  BY <1>a DEF RemoveTokenIDList
<1>d. c \subseteq tp.candidates /\ i \subseteq tp.tokens
  <2>1. c \subseteq tp.candidates
    BY <1>b DEF WithoutOneEach
  <2>2. i \subseteq p.tokens
    BY <1>c DEF WithoutOneEach
  <2> QED BY <2>1, <2>2, <1>b
<1>1. c \subseteq tp.candidates /\ i \subseteq tp.tokens /\ tp' = [[tp EXCEPT !.candidates = c] EXCEPT !.tokens = i]
  BY <1>b, <1>c, <1>d
<1>2. UNCHANGED <<mempoolDB, expired>>
  BY DEF ForgetLists
<1>3. PoolTypeOK'
  BY <1>1, <1>2
<1>4. /\ tp'.pool = tp.pool /\ tp'.serials = tp.serials
      /\ tp'.txCoins = tp.txCoins /\ tp'.coins = tp.coins
  BY <1>1
<1> QED BY <1>2, <1>3, <1>4 DEF PoolSpendsOnce, ReservationsAreExact

\* LoadDatabaseMP takes only transactions without conflicts, and reserves no
\* coins.
LEMMA CrashKeepsPoolInv ==
  ASSUME PoolInv, Crash
  PROVE  PoolInv'
<1> USE DEF PoolInv, PoolTypeOK
<1>1. PICK loaded \in (IF IsLoadFromMempool THEN LoadDatabaseMP(disk, mempoolDB) ELSE {{}}) :
        /\ tp' = [EmptyTxPool EXCEPT !.pool = loaded, !.serials = loaded,
                                     !.candidates = {t \in loaded : Stakes[t] # {}},
                                     !.tokens = {t \in loaded : Inits[t] # {}}]
        /\ mempoolDB' \in IF budget["expire"] > 0 THEN SUBSET loaded ELSE {loaded}
  BY DEF Crash
<1>2. loaded \in SUBSET Tx /\ Disjoint(loaded)
  BY <1>1 DEF LoadDatabaseMP, Disjoint
<1>3. mempoolDB' \in SUBSET Tx /\ expired' = {}
  BY <1>1, <1>2 DEF Crash
<1>4. /\ tp'.pool = loaded /\ tp'.serials = loaded /\ tp'.txCoins = {} /\ tp'.coins = {}
  BY <1>1 DEF EmptyTxPool
<1>5. PoolTypeOK'
  BY <1>1, <1>2, <1>3 DEF EmptyTxPool
<1>6. PoolSpendsOnce' /\ ReservationsAreExact'
  BY <1>2, <1>3, <1>4 DEF PoolSpendsOnce, ReservationsAreExact, CoinsOf
<1> QED BY <1>5, <1>6

\* Every other step leaves the pool alone.
LEMMA PoolUntouched ==
  ASSUME PoolInv, UNCHANGED <<tp, mempoolDB, expired>>
  PROVE  PoolInv'
  BY DEF PoolInv, PoolTypeOK, PoolSpendsOnce, ReservationsAreExact

LEMMA NextPoolInv ==
  ASSUME PoolInv, [Next]_vars
  PROVE  PoolInv'
<1> USE DEF poolVars
<1>1. ASSUME NEW t \in Tx, \/ AddTransactionV2(t) \/ RemoveTransactionV2(t) \/ ProduceTx(t)
      PROVE  PoolInv'
  BY <1>1, PoolUntouched DEF AddTransactionV2, RemoveTransactionV2, ProduceTx
<1>2. ASSUME NEW txs \in Blocks, StartVerifying(txs) \/ Certify(txs)
      PROVE  PoolInv'
  BY <1>2, PoolUntouched DEF StartVerifying, Certify
<1>3. CASE SetRole \/ StartProducing \/ FinishProducing \/ VerifyTx \/ FinishVerifying
  BY <1>3, PoolUntouched DEF SetRole, StartProducing, FinishProducing, VerifyTx, FinishVerifying
<1>4. CASE Storing
  <2>1. UNCHANGED poolVars
    BY <1>4 DEF Storing, InsertShardBlock, StoreShardBlock, StoreShardBestState, StoreTokens,
                StoreSerialNumbers, StoreCommitments, StoreTransactionIndex, Store
  <2> QED BY <2>1, PoolUntouched
<1>5. CASE UNCHANGED vars
  BY <1>5, PoolUntouched DEF vars
<1> QED
  BY <1>1, <1>2, <1>3, <1>4, <1>5, CreateKeepsPoolInv, AddKeepsPoolInv, ExpireKeepsPoolInv,
     ForgetKeepsPoolInv, ForgetListsKeepsPoolInv, CrashKeepsPoolInv DEF Next

-----------------------------------------------------------------------------
\* No two transactions of the pool spend the same coin, whatever is created,
\* accepted, expires, is removed or reloaded (mempool.go, removeTx, MonitorPool).
THEOREM PooledCoinsAreSpentOnce == Spec => [](PoolSpendsOnce /\ Disjoint(tp.pool))
<1>1. PoolInv => PoolSpendsOnce /\ Disjoint(tp.pool)
  BY DEF PoolInv, PoolSpendsOnce, Disjoint
<1> QED BY <1>1, InitPoolInv, NextPoolInv, PTL DEF Spec

\* The RPC server leaves alone exactly the coins of the transactions it has
\* built that are in the pool, and of some that have expired.
THEOREM CoinsAreReservedExactly == Spec => []ReservationsAreExact
<1>1. PoolInv => ReservationsAreExact
  BY DEF PoolInv
<1> QED BY <1>1, InitPoolInv, NextPoolInv, PTL DEF Spec

-----------------------------------------------------------------------------
\* The chain and its database.

ChainTypeOK ==
    /\ chain \in Seq(SUBSET Tx)
    /\ disk \in [blocks : SUBSET Nat, best : 0 .. Len(chain), utxo : SUBSET (Tx \X {1}), tokenTxs : SUBSET Tx,
                 serials : SUBSET Coins, commitments : SUBSET (GenesisCoins \cup UNION {Outs[t] : t \in Tx}),
                 index : SUBSET Tx, validators : {Validators}]
    /\ stage \in {"idle", "updated", "block", "best", "tokens", "serials", "commitments"}
    /\ height \in 0 .. Len(chain)
    /\ cut \subseteq 1 .. disk.best

\* Until StoreShardBestState the best state on disk is that of the block
\* before; from then on it is the best state in memory.
BestStateFollows ==
    /\ height = IF stage \in {"updated", "block"} THEN disk.best + 1 ELSE disk.best
    /\ stage # "idle" => height \in 1 .. Len(chain)

\* Of the blocks up to the best state on disk everything is stored, but for
\* those cut short and what InsertShardBlock has not come to in the last one.
Remaining(stages) == IF stage \in stages THEN cut \cup {height} ELSE cut
Stored ==
    /\ disk.serials \subseteq SpentUpTo(disk.best)
    /\ \A h \in (1 .. disk.best) \ Remaining({"best", "tokens"}) : SpentBy(h) \subseteq disk.serials
    /\ \A h \in (1 .. disk.best) \ Remaining({"best", "tokens", "serials", "commitments"}) :
          chain[h] \subseteq disk.index

DiskInv == ChainTypeOK /\ BestStateFollows /\ Stored

\* The blocks that are put together and verified.
BlocksTypeOK ==
    /\ temp \in [pool : SUBSET Tx, serials : SUBSET Tx, txCoins : SUBSET Tx, coins : SUBSET Coins,
                 candidates : SUBSET Tx, tokens : SUBSET Tx]
    /\ pending \subseteq Tx /\ sending \subseteq Tx
    /\ producer \in [on : BOOLEAN, todo : SUBSET Tx, txs : Seq(Tx), remove : SUBSET Tx, clean : BOOLEAN]
    /\ verifier \in [on : BOOLEAN, todo : SUBSET Nat, txs : Seq(Tx), remove : SUBSET Tx, clean : BOOLEAN]

\* The first n transactions spend no coin twice, nor one that is spent on disk.
SpendsOnce(txs, n) ==
    /\ \A i \in 1 .. n : Ins[txs[i]] \cap disk.serials = {}
    /\ \A i, j \in 1 .. n : i # j => Ins[txs[i]] \cap Ins[txs[j]] = {}
InTemp(txs, n) == \A i \in 1 .. n : txs[i] \in temp.serials

\* While a block is put together undisturbed, nothing is inserted or verified
\* and TempTxPool has its transactions.
ProducerInv ==
    producer.on /\ producer.clean =>
        /\ stage = "idle" /\ ~verifier.on
        /\ InTemp(producer.txs, Len(producer.txs))
        /\ SpendsOnce(producer.txs, Len(producer.txs))

\* While a block is verified nothing is inserted; and unless it is disturbed
\* TempTxPool has the n transactions that have been compared.
Compared(n) ==
    /\ verifier.todo = 1 .. n
    /\ verifier.clean => /\ ~producer.on
                         /\ InTemp(verifier.txs, n)
                         /\ SpendsOnce(verifier.txs, n)
VerifierInv ==
    verifier.on =>
        /\ stage = "idle"
        /\ \A i \in DOMAIN verifier.txs : Ins[verifier.txs[i]] \cap disk.serials = {}
        /\ \E n \in 0 .. Len(verifier.txs) : Compared(n)

BlocksInv == BlocksTypeOK /\ ProducerInv /\ VerifierInv

-----------------------------------------------------------------------------
\* The chain is only ever appended to.
LEMMA Appended ==
  ASSUME ChainTypeOK, NEW b \in SUBSET Tx, chain' = Append(chain, b)
  PROVE  /\ chain' \in Seq(SUBSET Tx) /\ Len(chain') = Len(chain) + 1
         /\ \A h \in 1 .. Len(chain) : chain'[h] = chain[h] /\ SpentBy(h)' = SpentBy(h)
         /\ \A n \in 0 .. Len(chain) : SpentUpTo(n)' = SpentUpTo(n)
<1>1. chain \in Seq(SUBSET Tx)
  BY DEF ChainTypeOK
<1>2. /\ chain' \in Seq(SUBSET Tx) /\ Len(chain') = Len(chain) + 1
      /\ \A h \in 1 .. Len(chain) : chain'[h] = chain[h]
  BY <1>1
<1>3. \A h \in 1 .. Len(chain) : SpentBy(h)' = SpentBy(h)
  BY <1>2 DEF SpentBy
<1>4. ASSUME NEW n \in 0 .. Len(chain) PROVE SpentUpTo(n)' = SpentUpTo(n)
  BY <1>1, <1>3 DEF SpentUpTo
<1> QED BY <1>2, <1>3, <1>4

LEMMA InitDiskInv == Init => DiskInv
<1> SUFFICES ASSUME Init PROVE DiskInv
  OBVIOUS
<1> USE DEF Init, Disk
<1>1. ChainTypeOK
  BY DEF ChainTypeOK
<1>2. BestStateFollows
  BY DEF BestStateFollows
<1>3. Stored
  BY DEF Stored
<1> QED BY <1>1, <1>2, <1>3 DEF DiskInv

LEMMA CertifyKeepsDiskInv ==
  ASSUME DiskInv, NEW txs \in Blocks, Certify(txs)
  PROVE  DiskInv'
<1> DEFINE b == {txs[i] : i \in DOMAIN txs}
<1>1. b \in SUBSET Tx /\ chain' = Append(chain, b) /\ UNCHANGED <<height, stage, disk, cut>>
  <2>1. \A i \in DOMAIN txs : txs[i] \in Tx
    BY DEF Blocks
  <2> QED BY <2>1 DEF Certify
<1>2. /\ chain' \in Seq(SUBSET Tx) /\ Len(chain') = Len(chain) + 1
      /\ \A h \in 1 .. Len(chain) : chain'[h] = chain[h] /\ SpentBy(h)' = SpentBy(h)
      /\ \A n \in 0 .. Len(chain) : SpentUpTo(n)' = SpentUpTo(n)
  BY <1>1, Appended DEF DiskInv
<1>a. Len(chain) \in Nat
  BY DEF DiskInv, ChainTypeOK
<1>3. ChainTypeOK'
  BY <1>1, <1>2, <1>a DEF DiskInv, ChainTypeOK
<1>4. BestStateFollows'
  BY <1>1, <1>2, <1>a DEF DiskInv, BestStateFollows
<1>5. disk.best \in 0 .. Len(chain)
  BY DEF DiskInv, ChainTypeOK
<1>6. Stored'
  BY <1>1, <1>2, <1>5, <1>a DEF DiskInv, Stored, Remaining
<1> QED BY <1>3, <1>4, <1>6 DEF DiskInv

LEMMA InsertKeepsDiskInv ==
  ASSUME DiskInv, InsertShardBlock
  PROVE  DiskInv'
<1> USE DEF DiskInv
<1>1. /\ stage = "idle" /\ stage' = "updated" /\ height < Len(chain) /\ height' = height + 1
      /\ UNCHANGED <<chain, disk, cut>>
  BY DEF InsertShardBlock
<1>2. ChainTypeOK'
  BY <1>1 DEF ChainTypeOK
<1>3. BestStateFollows'
  BY <1>1 DEF BestStateFollows, ChainTypeOK
<1>4. Stored'
  BY <1>1 DEF Stored, Remaining, SpentUpTo, SpentBy
<1> QED BY <1>2, <1>3, <1>4

\* The first two steps: with the second one the block counts, and nothing of
\* it is stored.
LEMMA StoreBlockKeepsDiskInv ==
  ASSUME DiskInv, StoreShardBlock \/ StoreShardBestState
  PROVE  DiskInv'
<1> USE DEF DiskInv
<1>1. CASE StoreShardBlock
  <2>1. /\ stage = "updated" /\ stage' = "block" /\ disk' = [disk EXCEPT !.blocks = @ \cup {height}]
        /\ UNCHANGED <<chain, height, cut>>
    BY <1>1 DEF StoreShardBlock, Store
  <2>2. ChainTypeOK'
    BY <2>1 DEF ChainTypeOK
  <2>3. disk'.best = disk.best /\ disk'.serials = disk.serials /\ disk'.index = disk.index
    BY <2>1 DEF ChainTypeOK
  <2>4. BestStateFollows' /\ Stored'
    BY <2>1, <2>3 DEF BestStateFollows, Stored, Remaining, SpentUpTo, SpentBy
  <2> QED BY <2>2, <2>4
<1>2. CASE StoreShardBestState
  <2>1. /\ stage = "block" /\ stage' = "best" /\ disk' = [disk EXCEPT !.best = height]
        /\ UNCHANGED <<chain, height, cut>>
    BY <1>2 DEF StoreShardBestState, Store
  <2>2. /\ height = disk.best + 1 /\ height \in 1 .. Len(chain) /\ disk.best \in Nat
        /\ Len(chain) \in Nat
    BY <2>1 DEF BestStateFollows, ChainTypeOK
  <2>3. disk'.best = height /\ disk'.serials = disk.serials /\ disk'.index = disk.index
    BY <2>1 DEF ChainTypeOK
  <2>4. ChainTypeOK'
    <3>1. cut \subseteq 1 .. height
      BY <2>2 DEF ChainTypeOK
    <3>2. height \in 0 .. Len(chain)
      BY DEF ChainTypeOK
    <3>3. disk' \in [blocks : SUBSET Nat, best : 0 .. Len(chain), utxo : SUBSET (Tx \X {1}), tokenTxs : SUBSET Tx,
                    serials : SUBSET Coins, commitments : SUBSET (GenesisCoins \cup UNION {Outs[t] : t \in Tx}),
                    index : SUBSET Tx, validators : {Validators}]
      BY <2>1, <3>2 DEF ChainTypeOK
    <3> QED BY <2>1, <2>3, <3>1, <3>2, <3>3 DEF ChainTypeOK
  <2>5. BestStateFollows'
    BY <2>1, <2>2, <2>3 DEF BestStateFollows
  <2>6. SpentUpTo(disk.best) \subseteq SpentUpTo(height)
    BY <2>2 DEF SpentUpTo
  <2>7. UNCHANGED SpentUpTo(height) /\ \A h : UNCHANGED SpentBy(h)
    BY <2>1 DEF SpentUpTo, SpentBy
  <2>8. Stored'
    <3>1. disk'.serials \subseteq SpentUpTo(disk.best)'
      BY <2>1, <2>3, <2>6 DEF Stored, SpentUpTo, SpentBy
    <3>2. ASSUME NEW h \in (1 .. height) \ (cut \cup {height})
          PROVE  SpentBy(h)' \subseteq disk'.serials /\ chain'[h] \subseteq disk'.index
      <4>1. h \in (1 .. disk.best) \ cut
        BY <2>2
      <4> QED BY <4>1, <2>1, <2>3, <2>7 DEF Stored, Remaining
    <3> QED BY <3>1, <3>2, <2>1, <2>3 DEF Stored, Remaining
  <2> QED BY <2>4, <2>5, <2>8
<1> QED BY <1>1, <1>2

\* The token transactions: the others of a block are stored after them, or
\* never.
LEMMA TokensKeepDiskInv ==
  ASSUME DiskInv, StoreTokens
  PROVE  DiskInv'
<1> USE DEF DiskInv
<1> DEFINE with(ts) == [disk EXCEPT
               !.utxo = (@ \ UNION {TokenIns[t] : t \in ts}) \cup {<<t, 1>> : t \in ts},
               !.tokenTxs = @ \cup ts]
<1>1. /\ stage = "best" /\ UNCHANGED <<chain, height>>
      /\ \/ stage' = "tokens" /\ UNCHANGED cut
         \/ stage' = "idle" /\ cut' = cut \cup {height}
      /\ \E ts \in SUBSET chain[height] : disk' = with(ts)
  <2>1. TokenTxs(height) \subseteq chain[height]
    BY DEF TokenTxs
  <2> QED BY <2>1 DEF StoreTokens, Store
<1>2. /\ height = disk.best /\ height \in 1 .. Len(chain) /\ chain[height] \subseteq Tx
  BY <1>1 DEF BestStateFollows, ChainTypeOK
<1>3. PICK ts \in SUBSET Tx : disk' = with(ts)
  BY <1>1, <1>2
<1>4. /\ disk'.best = disk.best /\ disk'.serials = disk.serials /\ disk'.index = disk.index
  BY <1>3 DEF ChainTypeOK
<1>5. ChainTypeOK'
  <2>1. disk'.utxo \in SUBSET (Tx \X {1}) /\ disk'.tokenTxs \in SUBSET Tx
    BY <1>3 DEF ChainTypeOK
  <2>2. disk' = [disk EXCEPT !.utxo = disk'.utxo, !.tokenTxs = disk'.tokenTxs]
    BY <1>3 DEF ChainTypeOK
  <2>3. disk' \in [blocks : SUBSET Nat, best : 0 .. Len(chain), utxo : SUBSET (Tx \X {1}), tokenTxs : SUBSET Tx,
                  serials : SUBSET Coins, commitments : SUBSET (GenesisCoins \cup UNION {Outs[t] : t \in Tx}),
                  index : SUBSET Tx, validators : {Validators}]
    BY <2>1, <2>2 DEF ChainTypeOK
  <2>4. cut' \subseteq 1 .. disk.best
    BY <1>1, <1>2 DEF ChainTypeOK
  <2> QED BY <1>1, <1>4, <2>3, <2>4 DEF ChainTypeOK
<1>6. BestStateFollows'
  BY <1>1, <1>2, <1>4 DEF BestStateFollows
<1>7. Stored'
  BY <1>1, <1>2, <1>4 DEF Stored, Remaining, SpentUpTo, SpentBy
<1> QED BY <1>5, <1>6, <1>7

\* Serial numbers, commitments and index of the block that was the last to
\* count.
LEMMA StoreViewKeepsDiskInv ==
  ASSUME DiskInv, StoreSerialNumbers \/ StoreCommitments \/ StoreTransactionIndex
  PROVE  DiskInv'
<1> USE DEF DiskInv
<1>1. /\ UNCHANGED <<chain, height, cut>>
      /\ stage \in {"tokens", "serials", "commitments"}
      /\ height = disk.best /\ height \in 1 .. Len(chain) /\ chain[height] \subseteq Tx
  BY DEF StoreSerialNumbers, StoreCommitments, StoreTransactionIndex, Store, BestStateFollows, ChainTypeOK
<1>2. CASE StoreSerialNumbers
  <2>1. /\ stage = "tokens" /\ stage' = "serials"
        /\ disk' = [disk EXCEPT !.serials = @ \cup SpentBy(height)]
    BY <1>2 DEF StoreSerialNumbers, Store, SerialsOf, ListNullifiers, SpentBy
  <2>2. SpentBy(height) \subseteq Coins
    BY <1>1 DEF SpentBy, Coins, CoinsOf
  <2>3. ChainTypeOK'
    BY <1>1, <2>1, <2>2 DEF ChainTypeOK
  <2>4. /\ disk'.best = disk.best /\ disk'.index = disk.index
        /\ disk'.serials = disk.serials \cup SpentBy(height)
    BY <2>1 DEF ChainTypeOK
  <2>5. SpentBy(height) \subseteq SpentUpTo(disk.best)
    BY <1>1 DEF SpentUpTo
  <2>6. BestStateFollows' /\ Stored'
    BY <1>1, <2>1, <2>4, <2>5 DEF BestStateFollows, Stored, Remaining, SpentUpTo, SpentBy
  <2> QED BY <2>3, <2>6
<1>3. CASE StoreCommitments
  <2> DEFINE made == UNION {Outs[t] : t \in chain[height]}
  <2>1. /\ stage = "serials" /\ stage' = "commitments"
        /\ disk' = [disk EXCEPT !.commitments = @ \cup made]
    BY <1>3 DEF StoreCommitments, Store
  <2>2. made \subseteq UNION {Outs[t] : t \in Tx}
    BY <1>1
  <2>3. ChainTypeOK'
    BY <1>1, <2>1, <2>2 DEF ChainTypeOK
  <2>4. disk'.best = disk.best /\ disk'.index = disk.index /\ disk'.serials = disk.serials
    BY <2>1 DEF ChainTypeOK
  <2>5. BestStateFollows' /\ Stored'
    BY <1>1, <2>1, <2>4 DEF BestStateFollows, Stored, Remaining, SpentUpTo, SpentBy
  <2> QED BY <2>3, <2>5
<1>4. CASE StoreTransactionIndex
  <2>1. /\ stage = "commitments" /\ stage' = "idle"
        /\ disk' = [disk EXCEPT !.index = @ \cup chain[height]]
    BY <1>4 DEF StoreTransactionIndex, Store
  <2>2. ChainTypeOK'
    BY <1>1, <2>1 DEF ChainTypeOK
  <2>3. /\ disk'.best = disk.best /\ disk'.index = disk.index \cup chain[height]
        /\ disk'.serials = disk.serials
    BY <2>1 DEF ChainTypeOK
  <2>4. BestStateFollows' /\ Stored'
    BY <1>1, <2>1, <2>3 DEF BestStateFollows, Stored, Remaining, SpentUpTo, SpentBy
  <2> QED BY <2>2, <2>4
<1> QED BY <1>2, <1>3, <1>4

\* A crash forgets the best state in memory; the block whose store it cuts
\* short is the one of the best state on disk.
LEMMA CrashKeepsDiskInv ==
  ASSUME DiskInv, Crash
  PROVE  DiskInv'
<1> USE DEF DiskInv
<1>1. /\ UNCHANGED <<chain, disk>> /\ height' = disk.best /\ stage' = "idle"
      /\ cut' = Remaining({"best", "tokens", "serials", "commitments"})
  BY DEF Crash, Remaining
<1>2. stage \in {"best", "tokens", "serials", "commitments"} => height = disk.best /\ height \in 1 .. disk.best
  BY DEF BestStateFollows, ChainTypeOK
<1>3. ChainTypeOK'
  BY <1>1, <1>2 DEF ChainTypeOK, Remaining
<1>4. BestStateFollows' /\ Stored'
  BY <1>1 DEF BestStateFollows, Stored, Remaining, SpentUpTo, SpentBy
<1> QED BY <1>3, <1>4

LEMMA NextDiskInv ==
  ASSUME DiskInv, [Next]_vars
  PROVE  DiskInv'
<1>1. ASSUME UNCHANGED chainVars PROVE DiskInv'
  BY <1>1 DEF chainVars, DiskInv, ChainTypeOK, BestStateFollows, Stored, Remaining, SpentUpTo, SpentBy
<1>2. ASSUME NEW t \in Tx,
             \/ CreateRawTransaction(t) \/ MaybeAcceptTransaction(t)
             \/ AddTransactionV2(t) \/ RemoveTransactionV2(t) \/ ProduceTx(t)
             \/ \E why \in {"pool", "drop"} : ForgetTx(why, t)
      PROVE  DiskInv'
  BY <1>1, <1>2 DEF CreateRawTransaction, MaybeAcceptTransaction, AddTransactionV2, RemoveTransactionV2,
                    ProduceTx, ForgetTx
<1>3. ASSUME \/ \E ts \in SUBSET Tx : ExpirePool(ts)
             \/ \E h \in 1 .. MaxHeight : ForgetLists(h)
             \/ \E txs \in Blocks : StartVerifying(txs)
             \/ SetRole \/ StartProducing \/ FinishProducing \/ VerifyTx \/ FinishVerifying
             \/ UNCHANGED vars
      PROVE  DiskInv'
  BY <1>1, <1>3 DEF ExpirePool, ForgetLists, StartVerifying, SetRole, StartProducing, FinishProducing,
                    VerifyTx, FinishVerifying, vars, chainVars
<1> QED
  BY <1>2, <1>3, CertifyKeepsDiskInv, InsertKeepsDiskInv, StoreBlockKeepsDiskInv, TokensKeepDiskInv,
     StoreViewKeepsDiskInv, CrashKeepsDiskInv DEF Next, Storing

\* Whenever no insertion runs, the databases are those of the best state on
\* disk, but for the blocks whose store a crash or a missing token output cut
\* short; and no serial number of a later block is on disk
\* (ProcessStoreShardBlock, initShardState).
THEOREM DiskIsThatOfItsBestState == Spec => []DiskMatchesBestState
<1>1. DiskInv => DiskMatchesBestState
  <2> SUFFICES ASSUME DiskInv PROVE DiskMatchesBestState
    OBVIOUS
  <2>1. disk.serials \subseteq SpentUpTo(disk.best)
    BY DEF DiskInv, Stored
  <2>2. ASSUME stage = "idle"
        PROVE  /\ height = disk.best
               /\ SpentUpTo(disk.best) \ Lost \subseteq disk.serials
               /\ TxsUpTo(disk.best) \ UNION {chain[h] : h \in cut} \subseteq disk.index
    BY <2>2 DEF DiskInv, BestStateFollows, Stored, Remaining, SpentUpTo, TxsUpTo, Lost
  <2> QED BY <2>1, <2>2 DEF DiskMatchesBestState
<1> QED BY <1>1, InitDiskInv, NextDiskInv, PTL DEF Spec

-----------------------------------------------------------------------------
\* What is known of a block stays known: the chain under it stays, and more
\* blocks may be cut short.
LEMMA ChainGrows ==
  ASSUME DiskInv, [Next]_vars
  PROVE  /\ Len(chain) <= Len(chain') /\ Len(chain) \in Nat /\ Len(chain') \in Nat
         /\ \A n \in 0 .. Len(chain) : SpentUpTo(n)' = SpentUpTo(n)
         /\ Lost \subseteq Lost'
<1>a. DiskInv'
  BY NextDiskInv
<1>b. Len(chain) \in Nat /\ Len(chain') \in Nat
  BY <1>a DEF DiskInv, ChainTypeOK
<1>1. ASSUME UNCHANGED chain, cut \subseteq cut'
      PROVE  Lost \subseteq Lost' /\ Len(chain') = Len(chain) /\ \A n : SpentUpTo(n)' = SpentUpTo(n)
  BY <1>1 DEF Lost, SpentUpTo, SpentBy
<1>2. ASSUME NEW txs \in Blocks, Certify(txs)
      PROVE  /\ Len(chain) <= Len(chain') /\ Lost \subseteq Lost'
             /\ \A n \in 0 .. Len(chain) : SpentUpTo(n)' = SpentUpTo(n)
  <2> DEFINE b == {txs[i] : i \in DOMAIN txs}
  <2>1. b \in SUBSET Tx /\ chain' = Append(chain, b) /\ UNCHANGED cut
    <3>1. \A i \in DOMAIN txs : txs[i] \in Tx
      BY DEF Blocks
    <3> QED BY <1>2, <3>1 DEF Certify
  <2>2. /\ Len(chain') = Len(chain) + 1
        /\ \A h \in 1 .. Len(chain) : SpentBy(h)' = SpentBy(h)
        /\ \A n \in 0 .. Len(chain) : SpentUpTo(n)' = SpentUpTo(n)
    BY <2>1, Appended DEF DiskInv
  <2>3. cut \subseteq 1 .. Len(chain)
    BY DEF DiskInv, ChainTypeOK
  <2> QED BY <1>b, <2>1, <2>2, <2>3 DEF Lost
<1>3. ASSUME Storing \/ Crash PROVE UNCHANGED chain /\ cut \subseteq cut'
  BY <1>3 DEF Storing, InsertShardBlock, StoreShardBlock, StoreShardBestState, StoreTokens, StoreSerialNumbers,
              StoreCommitments, StoreTransactionIndex, Store, Crash
<1>4. ASSUME NEW t \in Tx,
             \/ CreateRawTransaction(t) \/ MaybeAcceptTransaction(t)
             \/ AddTransactionV2(t) \/ RemoveTransactionV2(t) \/ ProduceTx(t)
             \/ \E why \in {"pool", "drop"} : ForgetTx(why, t)
      PROVE  UNCHANGED <<chain, cut>>
  BY <1>4 DEF CreateRawTransaction, MaybeAcceptTransaction, AddTransactionV2, RemoveTransactionV2,
              ProduceTx, ForgetTx, chainVars
<1>5. ASSUME \/ \E ts \in SUBSET Tx : ExpirePool(ts)
             \/ \E h \in 1 .. MaxHeight : ForgetLists(h)
             \/ \E txs \in Blocks : StartVerifying(txs)
             \/ SetRole \/ StartProducing \/ FinishProducing \/ VerifyTx \/ FinishVerifying
             \/ UNCHANGED vars
      PROVE  UNCHANGED <<chain, cut>>
  BY <1>5 DEF ExpirePool, ForgetLists, StartVerifying, SetRole, StartProducing, FinishProducing,
              VerifyTx, FinishVerifying, vars, chainVars
<1> QED BY <1>b, <1>1, <1>2, <1>3, <1>4, <1>5 DEF Next, Storing

ApprovedInv == approved \in [at : 0 .. Len(chain), txs : Seq(Tx), clean : BOOLEAN] /\ ApprovedSpendsOnce

LEMMA ApprovedStays ==
  ASSUME DiskInv, ApprovedInv, [Next]_vars, UNCHANGED approved
  PROVE  ApprovedInv'
<1>1. /\ Len(chain) <= Len(chain') /\ Len(chain) \in Nat /\ Len(chain') \in Nat
      /\ SpentUpTo(approved.at)' = SpentUpTo(approved.at)
      /\ Lost \subseteq Lost'
  BY ChainGrows DEF ApprovedInv
<1>2. (approved \in [at : 0 .. Len(chain), txs : Seq(Tx), clean : BOOLEAN])'
  BY <1>1 DEF ApprovedInv
<1>3. ApprovedSpendsOnce'
  BY <1>1 DEF ApprovedInv, ApprovedSpendsOnce
<1> QED BY <1>2, <1>3 DEF ApprovedInv

\* A block of transactions that are unspent on disk is approved upon a best
\* state that the disk matches.
LEMMA ApprovingKeeps ==
  ASSUME DiskInv, NEW txs \in Seq(Tx), NEW clean \in BOOLEAN,
         clean => stage = "idle" /\ SpendsOnce(txs, Len(txs)),
         approved' = [at |-> height, txs |-> txs, clean |-> clean], UNCHANGED <<chain, cut, height>>
  PROVE  ApprovedInv'
<1>1. (approved \in [at : 0 .. Len(chain), txs : Seq(Tx), clean : BOOLEAN])'
  BY DEF DiskInv, ChainTypeOK
<1>2. UNCHANGED SpentUpTo(height) /\ Lost' = Lost
  BY DEF SpentUpTo, SpentBy, Lost
<1>3. ASSUME clean PROVE SpentUpTo(height) \ Lost \subseteq disk.serials
  BY <1>3 DEF DiskInv, BestStateFollows, Stored, Remaining, SpentUpTo, Lost
<1>4. ApprovedSpendsOnce'
  <2>1. approved'.at = height /\ approved'.txs = txs /\ approved'.clean = clean
    OBVIOUS
  <2>2. DOMAIN txs = 1 .. Len(txs)
    OBVIOUS
  <2>3. ASSUME clean, NEW i \in DOMAIN txs PROVE Ins[txs[i]] \cap (SpentUpTo(height) \ Lost) = {}
    BY <1>3, <2>2, <2>3 DEF SpendsOnce
  <2>4. ASSUME clean, NEW i \in DOMAIN txs, NEW j \in DOMAIN txs, i # j PROVE Ins[txs[i]] \cap Ins[txs[j]] = {}
    BY <2>2, <2>4 DEF SpendsOnce
  <2>5. SpentUpTo(approved.at)' = SpentUpTo(height)
    BY <2>1 DEF SpentUpTo, SpentBy
  <2> QED BY <1>2, <2>1, <2>3, <2>4, <2>5 DEF ApprovedSpendsOnce
<1> QED BY <1>1, <1>4 DEF ApprovedInv

-----------------------------------------------------------------------------
\* TempTxPool while blocks are put together and verified.

LEMMA EmptyTemp == EmptyPool \in [pool : SUBSET Tx, serials : SUBSET Tx, txCoins : SUBSET Tx,
                                  coins : SUBSET Coins, candidates : SUBSET Tx, tokens : SUBSET Tx]
  BY DEF EmptyPool, EmptyTxPool

\* What enters TempTxPool has its serial numbers there.
LEMMA AddToTemp ==
  ASSUME BlocksTypeOK, NEW t \in Tx
  PROVE  /\ addTx(temp, t) \in [pool : SUBSET Tx, serials : SUBSET Tx, txCoins : SUBSET Tx,
                                 coins : SUBSET Coins, candidates : SUBSET Tx, tokens : SUBSET Tx]
         /\ addTx(temp, t).serials = temp.serials \cup {t}
<1> USE DEF BlocksTypeOK
<1>1. Ins[t] \subseteq Coins
  BY DEF Coins, CoinsOf
<1> QED BY <1>1 DEF addTx, AddTxCoinHashH

\* A transaction that conflicts with nothing makes a longer list that spends
\* every coin once.
LEMMA AppendSpendsOnce ==
  ASSUME NEW txs \in Seq(Tx), NEW t \in Tx, SpendsOnce(txs, Len(txs)), InTemp(txs, Len(txs)),
         Ins[t] \cap disk.serials = {}, \A u \in temp.serials : Ins[u] \cap Ins[t] = {}
  PROVE  SpendsOnce(Append(txs, t), Len(Append(txs, t)))
<1> DEFINE more == Append(txs, t)
<1>1. /\ Len(more) = Len(txs) + 1 /\ more[Len(txs) + 1] = t /\ Len(txs) \in Nat
      /\ \A i \in 1 .. Len(txs) : more[i] = txs[i]
  OBVIOUS
<1> HIDE DEF more
<1>2. ASSUME NEW i \in 1 .. Len(more) PROVE Ins[more[i]] \cap disk.serials = {}
  BY <1>1 DEF SpendsOnce
<1>3. ASSUME NEW i \in 1 .. Len(more), NEW j \in 1 .. Len(more), i # j
      PROVE  Ins[more[i]] \cap Ins[more[j]] = {}
  <2>1. CASE i \in 1 .. Len(txs) /\ j \in 1 .. Len(txs)
    BY <1>1, <1>3, <2>1 DEF SpendsOnce
  <2>2. CASE i = Len(txs) + 1
    BY <1>1, <1>3, <2>2 DEF InTemp
  <2>3. CASE j = Len(txs) + 1
    BY <1>1, <1>3, <2>3 DEF InTemp
  <2> QED BY <1>1, <2>1, <2>2, <2>3
<1>4. SpendsOnce(more, Len(more))
  BY <1>2, <1>3 DEF SpendsOnce
<1> QED BY <1>4 DEF more

\* The same for one of the transactions of a block that is verified.
LEMMA ComparedSpendsOnce ==
  ASSUME NEW txs \in Seq(Tx), NEW n \in 0 .. Len(txs) - 1, SpendsOnce(txs, n), InTemp(txs, n),
         Ins[txs[n + 1]] \cap disk.serials = {}, \A u \in temp.serials : Ins[u] \cap Ins[txs[n + 1]] = {}
  PROVE  SpendsOnce(txs, n + 1)
<1>2. ASSUME NEW i \in 1 .. n + 1 PROVE Ins[txs[i]] \cap disk.serials = {}
  BY DEF SpendsOnce
<1>3. ASSUME NEW i \in 1 .. n + 1, NEW j \in 1 .. n + 1, i # j
      PROVE  Ins[txs[i]] \cap Ins[txs[j]] = {}
  <2>1. CASE i \in 1 .. n /\ j \in 1 .. n
    BY <1>3, <2>1 DEF SpendsOnce
  <2>2. CASE i = n + 1
    BY <1>3, <2>2 DEF InTemp
  <2>3. CASE j = n + 1
    BY <1>3, <2>3 DEF InTemp
  <2> QED BY <2>1, <2>2, <2>3
<1> QED BY <1>2, <1>3 DEF SpendsOnce

LEMMA InitBlocksInv == Init => BlocksInv /\ ApprovedInv
<1> SUFFICES ASSUME Init PROVE BlocksInv /\ ApprovedInv
  OBVIOUS
<1> USE DEF Init, Off
<1>1. BlocksTypeOK
  BY EmptyTemp DEF BlocksTypeOK, EmptyPool
<1>2. ProducerInv /\ VerifierInv
  BY DEF ProducerInv, VerifierInv
<1>3. ApprovedInv
  BY DEF ApprovedInv, ApprovedSpendsOnce
<1> QED BY <1>1, <1>2, <1>3 DEF BlocksInv

\* Block production and verification rest.
LEMMA BlocksUntouched ==
  ASSUME BlocksInv, UNCHANGED <<temp, producer, verifier, stage, disk>>, pending' \subseteq Tx, sending' \subseteq Tx
  PROVE  BlocksInv'
<1>1. BlocksTypeOK'
  BY DEF BlocksInv, BlocksTypeOK
<1>2. ProducerInv'
  BY DEF BlocksInv, ProducerInv, InTemp, SpendsOnce
<1>3. \A n : Compared(n)' = Compared(n)
  BY DEF Compared, InTemp, SpendsOnce
<1>4. VerifierInv'
  BY <1>3 DEF BlocksInv, VerifierInv
<1> QED BY <1>1, <1>2, <1>4 DEF BlocksInv

LEMMA StartProducingKeeps ==
  ASSUME BlocksInv, StartProducing
  PROVE  BlocksInv'
<1> USE DEF BlocksInv
<1>1. /\ producer' = [Off EXCEPT !.on = TRUE, !.todo = pending, !.clean = stage = "idle" /\ ~verifier.on]
      /\ temp' = EmptyPool
      /\ verifier' = IF verifier.on THEN [verifier EXCEPT !.clean = FALSE] ELSE verifier
      /\ UNCHANGED <<stage, disk, pending, sending>>
  BY DEF StartProducing, Disturbed, chainVars, genVars
<1> DEFINE free == stage = "idle" /\ ~verifier.on
<1>b. /\ producer' = [on |-> TRUE, todo |-> pending, txs |-> <<>>, remove |-> {}, clean |-> free]
      /\ free \in BOOLEAN
  BY <1>1 DEF Off
<1>c. free => stage = "idle" /\ ~verifier.on
  OBVIOUS
<1> HIDE DEF free
<1>2. BlocksTypeOK'
  <2>1. verifier' \in [on : BOOLEAN, todo : SUBSET Nat, txs : Seq(Tx), remove : SUBSET Tx, clean : BOOLEAN]
    BY <1>1 DEF BlocksTypeOK
  <2>2. producer' \in [on : BOOLEAN, todo : SUBSET Tx, txs : Seq(Tx), remove : SUBSET Tx, clean : BOOLEAN]
    BY <1>b DEF BlocksTypeOK
  <2> QED BY <1>1, <2>1, <2>2, EmptyTemp DEF BlocksTypeOK
<1>3. /\ verifier'.on = verifier.on /\ verifier'.todo = verifier.todo /\ verifier'.txs = verifier.txs
      /\ verifier.on => ~verifier'.clean
  BY <1>1 DEF BlocksTypeOK
<1>4. ProducerInv'
  <2>1. producer'.txs = <<>> /\ Len(producer'.txs) = 0 /\ producer'.clean = free
    BY <1>b
  <2> QED BY <1>1, <1>3, <1>c, <2>1 DEF ProducerInv, InTemp, SpendsOnce
<1>5. ASSUME verifier.on, NEW n, Compared(n) PROVE Compared(n)'
  BY <1>3, <1>5 DEF Compared
<1>6. VerifierInv'
  BY <1>1, <1>3, <1>5 DEF VerifierInv
<1> QED BY <1>2, <1>4, <1>6

LEMMA ProduceKeeps ==
  ASSUME BlocksInv, NEW t \in Tx, ProduceTx(t)
  PROVE  BlocksInv'
<1> USE DEF BlocksInv
<1>1. producer.on /\ UNCHANGED <<stage, disk, verifier, pending, sending>>
  BY DEF ProduceTx, chainVars, genVars
<1>2. CASE ValidateTransaction(temp, disk, t)
  <2>1. /\ temp' = addTx(temp, t)
        /\ producer' = [producer EXCEPT !.todo = @ \ {t}, !.txs = Append(@, t)]
    BY <1>2 DEF ProduceTx, maybeAcceptTransaction
  <2>2. /\ Ins[t] \cap disk.serials = {}
        /\ \A u \in temp.serials : Ins[u] \cap Ins[t] = {}
    BY <1>2 DEF ValidateTransaction, ValidateTxWithCurrentMempool, SpendsPooledCoin, ListNullifiers,
                ValidateTxIndependProperties, ValidateTxWithBlockChain, ValidateConstDoubleSpendWithBlockchain
  <2>3. temp'.serials = temp.serials \cup {t}
    BY <2>1, AddToTemp
  <2>4. /\ producer'.txs = Append(producer.txs, t) /\ producer.txs \in Seq(Tx)
        /\ producer'.on = producer.on /\ producer'.clean = producer.clean
    BY <2>1 DEF BlocksTypeOK
  <2>5. BlocksTypeOK'
    <3>1. producer' \in [on : BOOLEAN, todo : SUBSET Tx, txs : Seq(Tx), remove : SUBSET Tx, clean : BOOLEAN]
      <4>1. Append(producer.txs, t) \in Seq(Tx)
        BY DEF BlocksTypeOK
      <4>2. producer \in [on : BOOLEAN, todo : SUBSET Tx, txs : Seq(Tx), remove : SUBSET Tx, clean : BOOLEAN]
        BY DEF BlocksTypeOK
      <4> HIDE DEF BlocksInv
      <4> QED BY <2>1, <4>1, <4>2
    <3>2. (temp \in [pool : SUBSET Tx, serials : SUBSET Tx, txCoins : SUBSET Tx, coins : SUBSET Coins,
                    candidates : SUBSET Tx, tokens : SUBSET Tx])'
      BY <2>1, AddToTemp
    <3> QED BY <1>1, <3>1, <3>2 DEF BlocksTypeOK
  <2>6. ASSUME producer.clean
        PROVE  /\ SpendsOnce(producer.txs, Len(producer.txs))'
               /\ InTemp(producer.txs, Len(producer.txs))'
    <3>1. SpendsOnce(producer.txs, Len(producer.txs)) /\ InTemp(producer.txs, Len(producer.txs))
      BY <1>1, <2>6 DEF ProducerInv
    <3>2. SpendsOnce(producer'.txs, Len(producer'.txs))
      BY <2>2, <2>4, <3>1, AppendSpendsOnce
    <3>3. SpendsOnce(producer.txs, Len(producer.txs))'
      BY <1>1, <3>2 DEF SpendsOnce
    <3>4. InTemp(producer.txs, Len(producer.txs))'
      BY <2>3, <2>4, <3>1 DEF InTemp
    <3> QED BY <3>3, <3>4
  <2>7. ProducerInv'
    BY <1>1, <2>4, <2>6 DEF ProducerInv
  <2>8. ASSUME NEW n, Compared(n) PROVE Compared(n)'
    BY <1>1, <2>8 DEF Compared
  <2>9. VerifierInv'
    BY <1>1, <2>8 DEF VerifierInv
  <2> QED BY <2>5, <2>7, <2>9
<1>3. CASE ~ValidateTransaction(temp, disk, t)
  <2>1. /\ temp' = temp
        /\ producer' = [producer EXCEPT !.todo = @ \ {t}, !.remove = @ \cup {t}]
    BY <1>3 DEF ProduceTx, maybeAcceptTransaction
  <2>2. /\ producer'.txs = producer.txs /\ producer'.on = producer.on /\ producer'.clean = producer.clean
    BY <2>1 DEF BlocksTypeOK
  <2>3. BlocksTypeOK'
    BY <1>1, <2>1 DEF BlocksTypeOK
  <2>4. ProducerInv'
    BY <1>1, <2>1, <2>2 DEF ProducerInv, InTemp, SpendsOnce
  <2>5. ASSUME NEW n, Compared(n) PROVE Compared(n)'
    BY <1>1, <2>5 DEF Compared
  <2>6. VerifierInv'
    BY <1>1, <2>5 DEF VerifierInv
  <2> QED BY <2>3, <2>4, <2>6
<1> QED BY <1>2, <1>3

LEMMA FinishProducingKeeps ==
  ASSUME DiskInv, BlocksInv, FinishProducing
  PROVE  BlocksInv' /\ ApprovedInv'
<1> USE DEF BlocksInv
<1>1. /\ producer.on /\ producer' = Off /\ temp' = EmptyPool
      /\ verifier' = IF verifier.on THEN [verifier EXCEPT !.clean = FALSE] ELSE verifier
      /\ approved' = [at |-> height, txs |-> producer.txs, clean |-> producer.clean]
      /\ UNCHANGED <<chain, height, stage, disk, cut, pending, sending>>
  BY DEF FinishProducing, Disturbed, chainVars
<1>2. BlocksTypeOK'
  <2>1. verifier' \in [on : BOOLEAN, todo : SUBSET Nat, txs : Seq(Tx), remove : SUBSET Tx, clean : BOOLEAN]
    BY <1>1 DEF BlocksTypeOK
  <2>2. Off \in [on : BOOLEAN, todo : SUBSET Tx, txs : Seq(Tx), remove : SUBSET Tx, clean : BOOLEAN]
    BY DEF Off
  <2> QED BY <1>1, <2>1, <2>2, EmptyTemp DEF BlocksTypeOK
<1>3. ProducerInv'
  BY <1>1 DEF ProducerInv, Off
<1>4. /\ verifier'.on = verifier.on /\ verifier'.todo = verifier.todo /\ verifier'.txs = verifier.txs
      /\ verifier.on => ~verifier'.clean
  BY <1>1 DEF BlocksTypeOK
<1>5. ASSUME verifier.on, NEW n, Compared(n) PROVE Compared(n)'
  BY <1>4, <1>5 DEF Compared
<1>6. VerifierInv'
  BY <1>1, <1>4, <1>5 DEF VerifierInv
<1>7. ApprovedInv'
  <2>1. producer.txs \in Seq(Tx) /\ producer.clean \in BOOLEAN
    BY DEF BlocksTypeOK
  <2>2. producer.clean => stage = "idle" /\ SpendsOnce(producer.txs, Len(producer.txs))
    BY <1>1 DEF ProducerInv
  <2> QED BY <1>1, <2>1, <2>2, ApprovingKeeps
<1> QED BY <1>2, <1>3, <1>6, <1>7

LEMMA StartVerifyingKeeps ==
  ASSUME BlocksInv, NEW txs \in Blocks, StartVerifying(txs)
  PROVE  BlocksInv'
<1> USE DEF BlocksInv
<1>1. /\ stage = "idle" /\ temp' = EmptyPool
      /\ verifier' = [Off EXCEPT !.on = TRUE, !.txs = txs, !.clean = ~producer.on]
      /\ producer' = IF producer.on THEN [producer EXCEPT !.clean = FALSE] ELSE producer
      /\ \A i \in DOMAIN txs : Ins[txs[i]] \cap disk.serials = {}
      /\ UNCHANGED <<stage, disk, pending, sending>>
  BY DEF StartVerifying, Disturbed, chainVars, genVars, ListNullifiers,
         ValidateTxIndependProperties, ValidateTxWithBlockChain, ValidateConstDoubleSpendWithBlockchain
<1>2. txs \in Seq(Tx)
  <2>1. \/ txs = <<>>
        \/ \E t \in Tx : txs = <<t>>
        \/ \E t, u \in Tx : txs = <<t, u>>
    BY DEF Blocks
  <2>2. ASSUME NEW t \in Tx, txs = <<t>> PROVE txs \in Seq(Tx)
    BY <2>2
  <2>3. ASSUME NEW t \in Tx, NEW u \in Tx, txs = <<t, u>> PROVE txs \in Seq(Tx)
    BY <2>3
  <2>4. <<>> \in Seq(Tx)
    OBVIOUS
  <2> QED BY <2>1, <2>2, <2>3, <2>4
<1> DEFINE alone == ~producer.on
<1>3. /\ verifier' = [on |-> TRUE, todo |-> {}, txs |-> txs, remove |-> {}, clean |-> alone]
      /\ alone \in BOOLEAN
  BY <1>1 DEF Off
<1>4. alone => ~producer.on
  OBVIOUS
<1> HIDE DEF alone
<1>5. producer' \in [on : BOOLEAN, todo : SUBSET Tx, txs : Seq(Tx), remove : SUBSET Tx, clean : BOOLEAN]
      /\ producer'.on = producer.on /\ (producer.on => ~producer'.clean)
  BY <1>1 DEF BlocksTypeOK
<1>6. BlocksTypeOK'
  <2>1. verifier' \in [on : BOOLEAN, todo : SUBSET Nat, txs : Seq(Tx), remove : SUBSET Tx, clean : BOOLEAN]
    BY <1>2, <1>3
  <2> QED BY <1>1, <1>5, <2>1, EmptyTemp DEF BlocksTypeOK
<1>7. ProducerInv'
  BY <1>5 DEF ProducerInv
<1>8. verifier'.todo = {} /\ verifier'.txs = txs /\ verifier'.clean = alone
  BY <1>3
<1>9. Compared(0)'
  BY <1>4, <1>5, <1>8 DEF Compared, InTemp, SpendsOnce
<1>10. VerifierInv'
  BY <1>1, <1>2, <1>8, <1>9 DEF VerifierInv
<1> QED BY <1>6, <1>7, <1>10

\* The transaction that follows those compared is compared with them, or the
\* verification ends.
LEMMA VerifyKeeps ==
  ASSUME BlocksInv, VerifyTx
  PROVE  BlocksInv'
<1> USE DEF BlocksInv
<1> DEFINE k == Cardinality(verifier.todo) + 1
           t == verifier.txs[k]
<1>1. verifier.on /\ k \in DOMAIN verifier.txs /\ UNCHANGED <<stage, disk, pending, sending>>
  BY DEF VerifyTx, chainVars, genVars
<1>2. PICK n \in 0 .. Len(verifier.txs) : Compared(n)
  BY <1>1 DEF VerifierInv
<1>3. k = n + 1 /\ verifier.txs \in Seq(Tx) /\ n \in Nat /\ n \in 0 .. Len(verifier.txs) - 1
      /\ t = verifier.txs[n + 1] /\ t \in Tx
  <2>1. Cardinality(1 .. n) = n
    BY FS_Interval
  <2> QED BY <1>1, <1>2, <2>1 DEF Compared, BlocksTypeOK
<1>4. stage = "idle" /\ \A i \in DOMAIN verifier.txs : Ins[verifier.txs[i]] \cap disk.serials = {}
  BY <1>1 DEF VerifierInv
<1>5. ~(producer.on /\ producer.clean)
  BY <1>1 DEF ProducerInv
<1>6. CASE Compatible(t)
  <2>1. /\ temp' = addTx(temp, t) /\ producer' = producer
        /\ verifier' = [verifier EXCEPT !.todo = @ \cup {k}]
    BY <1>6 DEF VerifyTx
  <2>2. temp'.serials = temp.serials \cup {t}
    BY <1>3, <2>1, AddToTemp
  <2>3. verifier' \in [on : BOOLEAN, todo : SUBSET Nat, txs : Seq(Tx), remove : SUBSET Tx, clean : BOOLEAN]
    <3>1. verifier' = [verifier EXCEPT !.todo = verifier.todo \cup {n + 1}]
      BY <1>3, <2>1
    <3> HIDE DEF k, t
    <3> QED BY <1>3, <3>1 DEF BlocksTypeOK
  <2>4. BlocksTypeOK'
    BY <1>1, <1>3, <2>1, <2>3, AddToTemp DEF BlocksTypeOK
  <2>5. ProducerInv'
    BY <1>5, <2>1 DEF ProducerInv
  <2>6. /\ verifier'.txs = verifier.txs /\ verifier'.clean = verifier.clean
        /\ verifier'.todo = verifier.todo \cup {n + 1}
    BY <1>3, <2>1 DEF BlocksTypeOK
  <2>7. verifier'.todo = 1 .. n + 1
    BY <1>2, <1>3, <2>6 DEF Compared
  <2>8. ASSUME verifier.clean PROVE SpendsOnce(verifier.txs, n + 1)
    <3>1. \A u \in temp.serials : Ins[u] \cap Ins[t] = {}
      BY <1>6 DEF Compatible, ValidateTxWithCurrentMempool, SpendsPooledCoin, ListNullifiers
    <3>2. SpendsOnce(verifier.txs, n) /\ InTemp(verifier.txs, n)
      BY <1>2, <2>8 DEF Compared
    <3>3. Ins[verifier.txs[n + 1]] \cap disk.serials = {}
      BY <1>1, <1>3, <1>4
    <3> QED BY <1>3, <3>1, <3>2, <3>3, ComparedSpendsOnce
  <2>9. Compared(n + 1)'
    <3>1. ASSUME verifier.clean
          PROVE  ~producer.on /\ InTemp(verifier.txs, n + 1)' /\ SpendsOnce(verifier.txs, n + 1)'
      <4>1. ~producer.on /\ InTemp(verifier.txs, n)
        BY <1>2, <3>1 DEF Compared
      <4>2. InTemp(verifier.txs, n + 1)'
        BY <1>3, <2>2, <2>6, <4>1 DEF InTemp
      <4>3. SpendsOnce(verifier.txs, n + 1)'
        BY <1>1, <2>6, <2>8, <3>1 DEF SpendsOnce
      <4> QED BY <4>1, <4>2, <4>3
    <3> QED BY <2>1, <2>6, <2>7, <3>1 DEF Compared
  <2>10. VerifierInv'
    BY <1>1, <1>3, <1>4, <2>6, <2>9 DEF VerifierInv
  <2> QED BY <2>4, <2>5, <2>10
<1>7. CASE ~Compatible(t)
  <2>1. /\ temp' = EmptyPool /\ verifier' = Off
        /\ producer' = IF producer.on THEN [producer EXCEPT !.clean = FALSE] ELSE producer
    BY <1>7 DEF VerifyTx, Disturbed
  <2>2. Off \in [on : BOOLEAN, todo : SUBSET Nat, txs : Seq(Tx), remove : SUBSET Tx, clean : BOOLEAN]
    BY DEF Off
  <2>3. producer' \in [on : BOOLEAN, todo : SUBSET Tx, txs : Seq(Tx), remove : SUBSET Tx, clean : BOOLEAN]
        /\ (producer'.on => ~producer'.clean)
    BY <2>1 DEF BlocksTypeOK
  <2>4. BlocksTypeOK'
    BY <1>1, <2>1, <2>2, <2>3, EmptyTemp DEF BlocksTypeOK
  <2> QED BY <2>1, <2>3, <2>4 DEF ProducerInv, VerifierInv, Off
<1> QED BY <1>6, <1>7

LEMMA FinishVerifyingKeeps ==
  ASSUME DiskInv, BlocksInv, FinishVerifying
  PROVE  BlocksInv' /\ ApprovedInv'
<1> USE DEF BlocksInv
<1>1. /\ verifier.on /\ Cardinality(verifier.todo) = Len(verifier.txs)
      /\ verifier' = Off /\ temp' = EmptyPool
      /\ producer' = IF producer.on THEN [producer EXCEPT !.clean = FALSE] ELSE producer
      /\ approved' = [at |-> height, txs |-> verifier.txs, clean |-> verifier.clean]
      /\ UNCHANGED <<chain, height, stage, disk, cut, pending, sending>>
  BY DEF FinishVerifying, Disturbed, chainVars, genVars
<1>2. Off \in [on : BOOLEAN, todo : SUBSET Nat, txs : Seq(Tx), remove : SUBSET Tx, clean : BOOLEAN]
  BY DEF Off
<1>3. producer' \in [on : BOOLEAN, todo : SUBSET Tx, txs : Seq(Tx), remove : SUBSET Tx, clean : BOOLEAN]
      /\ (producer'.on => ~producer'.clean)
  BY <1>1 DEF BlocksTypeOK
<1>4. BlocksTypeOK'
  BY <1>1, <1>2, <1>3, EmptyTemp DEF BlocksTypeOK
<1>5. ProducerInv' /\ VerifierInv'
  BY <1>1, <1>3 DEF ProducerInv, VerifierInv, Off
<1>6. ApprovedInv'
  <2>1. verifier.txs \in Seq(Tx) /\ verifier.clean \in BOOLEAN
    BY DEF BlocksTypeOK
  <2>2. PICK n \in 0 .. Len(verifier.txs) : Compared(n)
    BY <1>1 DEF VerifierInv
  <2>3. n = Len(verifier.txs)
    <3>1. n \in Nat /\ Cardinality(1 .. n) = n
      BY <2>1, FS_Interval
    <3> QED BY <1>1, <2>2, <3>1 DEF Compared
  <2>4. verifier.clean => stage = "idle" /\ SpendsOnce(verifier.txs, Len(verifier.txs))
    BY <1>1, <2>2, <2>3 DEF VerifierInv, Compared
  <2> QED BY <1>1, <2>1, <2>4, ApprovingKeeps
<1> QED BY <1>4, <1>5, <1>6

\* An insertion disturbs a block that is put together; the steps of its store
\* find none that is undisturbed, and none that is verified.
LEMMA StoringKeepsBlocks ==
  ASSUME BlocksInv, Storing
  PROVE  BlocksInv' /\ UNCHANGED approved
<1> USE DEF BlocksInv
<1>1. CASE InsertShardBlock
  <2>1. /\ ~verifier.on
        /\ producer' = IF producer.on THEN [producer EXCEPT !.clean = FALSE] ELSE producer
        /\ UNCHANGED <<disk, temp, verifier, pending, sending, approved>>
    BY <1>1 DEF InsertShardBlock, Disturbed
  <2>2. producer' \in [on : BOOLEAN, todo : SUBSET Tx, txs : Seq(Tx), remove : SUBSET Tx, clean : BOOLEAN]
        /\ (producer'.on => ~producer'.clean)
    BY <2>1 DEF BlocksTypeOK
  <2>3. BlocksTypeOK'
    BY <2>1, <2>2 DEF BlocksTypeOK
  <2> QED BY <2>1, <2>2, <2>3 DEF ProducerInv, VerifierInv
<1>2. CASE StoreShardBlock \/ StoreShardBestState \/ StoreTokens \/ StoreSerialNumbers \/ StoreCommitments
           \/ StoreTransactionIndex
  <2>1. stage # "idle" /\ UNCHANGED <<temp, producer, verifier, pending, sending, approved>>
    BY <1>2 DEF StoreShardBlock, StoreShardBestState, StoreTokens, StoreSerialNumbers, StoreCommitments,
                StoreTransactionIndex, Store, genVars, blockVars
  <2>2. BlocksTypeOK'
    BY <2>1 DEF BlocksTypeOK
  <2>3. ProducerInv' /\ VerifierInv'
    BY <2>1 DEF ProducerInv, VerifierInv
  <2> QED BY <2>1, <2>2, <2>3
<1> QED BY <1>1, <1>2 DEF Storing

LEMMA CrashKeepsBlocks ==
  ASSUME BlocksInv, Crash
  PROVE  BlocksInv' /\ UNCHANGED approved
<1>1. /\ temp' = EmptyTxPool /\ producer' = Off /\ verifier' = Off /\ pending' = {} /\ sending' = {}
      /\ UNCHANGED approved
  BY DEF Crash
<1>2. Off \in [on : BOOLEAN, todo : SUBSET Tx, txs : Seq(Tx), remove : SUBSET Tx, clean : BOOLEAN]
  BY DEF Off
<1>3. Off \in [on : BOOLEAN, todo : SUBSET Nat, txs : Seq(Tx), remove : SUBSET Tx, clean : BOOLEAN]
  BY DEF Off
<1>4. BlocksTypeOK'
  BY <1>1, <1>2, <1>3, EmptyTemp DEF BlocksTypeOK, EmptyPool
<1> QED BY <1>1, <1>4 DEF BlocksInv, ProducerInv, VerifierInv, Off

LEMMA NextBlocksInv ==
  ASSUME DiskInv, BlocksInv, ApprovedInv, [Next]_vars
  PROVE  BlocksInv' /\ ApprovedInv'
<1>a. UNCHANGED approved => ApprovedInv'
  BY ApprovedStays
<1>b. pending \subseteq Tx /\ sending \subseteq Tx
  BY DEF BlocksInv, BlocksTypeOK
<1> USE DEF chainVars, genVars, blockVars
<1>1. ASSUME NEW t \in Tx,
             \/ CreateRawTransaction(t) \/ MaybeAcceptTransaction(t)
             \/ AddTransactionV2(t) \/ RemoveTransactionV2(t)
             \/ \E why \in {"pool", "drop"} : ForgetTx(why, t)
      PROVE  BlocksInv' /\ ApprovedInv'
  <2>1. /\ UNCHANGED <<temp, producer, verifier, approved, stage, disk>>
        /\ pending' \subseteq Tx /\ sending' \subseteq Tx
    BY <1>1, <1>b DEF CreateRawTransaction, MaybeAcceptTransaction, AddTransactionV2, RemoveTransactionV2, ForgetTx
  <2> QED BY <2>1, <1>a, BlocksUntouched
<1>2. ASSUME NEW t \in Tx, ProduceTx(t) PROVE BlocksInv' /\ ApprovedInv'
  BY <1>2, <1>a, ProduceKeeps DEF ProduceTx
<1>3. ASSUME \/ \E ts \in SUBSET Tx : ExpirePool(ts)
             \/ \E h \in 1 .. MaxHeight : ForgetLists(h)
             \/ \E txs \in Blocks : Certify(txs)
             \/ SetRole \/ UNCHANGED vars
      PROVE  BlocksInv' /\ ApprovedInv'
  <2>1. UNCHANGED <<temp, producer, verifier, approved, stage, disk, pending, sending>>
    BY <1>3 DEF ExpirePool, ForgetLists, Certify, SetRole, vars
  <2> QED BY <2>1, <1>a, <1>b, BlocksUntouched
<1>4. ASSUME NEW txs \in Blocks, StartVerifying(txs) PROVE BlocksInv' /\ ApprovedInv'
  BY <1>4, <1>a, StartVerifyingKeeps DEF StartVerifying
<1>5. CASE StartProducing
  BY <1>5, <1>a, StartProducingKeeps DEF StartProducing
<1>6. CASE VerifyTx
  BY <1>6, <1>a, VerifyKeeps DEF VerifyTx
<1>7. CASE FinishProducing \/ FinishVerifying
  BY <1>7, FinishProducingKeeps, FinishVerifyingKeeps
<1>8. CASE Storing \/ Crash
  BY <1>8, <1>a, StoringKeepsBlocks, CrashKeepsBlocks
<1> QED BY <1>1, <1>2, <1>3, <1>4, <1>5, <1>6, <1>7, <1>8 DEF Next

\* A block that the node produces or signs undisturbed spends no native coin
\* twice, and none that the chain under it has spent, unless the store of the
\* block that spent it was cut short (MaybeAcceptTransactionForBlockProducing,
\* ValidateTxList, HasSerialNumber).
THEOREM ApprovedBlocksSpendOnce == Spec => []ApprovedSpendsOnce
<1>1. ApprovedInv => ApprovedSpendsOnce
  BY DEF ApprovedInv
<1> QED BY <1>1, InitDiskInv, NextDiskInv, InitBlocksInv, NextBlocksInv, PTL DEF Spec
=============================================================================
