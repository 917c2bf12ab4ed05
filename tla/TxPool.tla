------------------------------- MODULE TxPool -------------------------------
(***************************************************************************)
(* The maps of a transaction pool (mempool.TxPool) and the checks a        *)
(* transaction passes before it enters one.  A node has two: the pool of   *)
(* the transactions that wait for a block, and TempTxPool, in which a block*)
(* is put together or verified.                                            *)
(*                                                                         *)
(* A map whose value follows from the transaction that is its key is the   *)
(* set of its keys.  Coins are native coins, known by their serial numbers *)
(* once they are spent and by their commitments before, and outputs of     *)
(* custom tokens, known by the transaction that made them.                 *)
(***************************************************************************)
EXTENDS Naturals, FiniteSets

CONSTANTS
    Tx,          \* transactions
    Ins,         \* [Tx -> the native coins it spends]
    Outs,        \* [Tx -> the native coins it makes]
    TokenIns,    \* [Tx -> the token outputs it spends, as <<transaction, index>>]
    Inits,       \* [Tx -> the custom token it issues, a set of at most one]
    Stakes,      \* [Tx -> the key it stakes, a set of at most one]
    Sane,        \* the transactions whose data passes the sanity checks
    Proved,      \* those whose signature and payment proof verify
    MaxTx        \* config.MaxTx, the transactions a pool may hold

ASSUME TxAssumption == /\ Sane \subseteq Tx /\ Proved \subseteq Tx /\ MaxTx \in Nat
                       /\ DOMAIN Ins = Tx /\ DOMAIN Outs = Tx /\ DOMAIN TokenIns = Tx
                       /\ DOMAIN Inits = Tx /\ DOMAIN Stakes = Tx

-----------------------------------------------------------------------------
\* The pool.

\* Init, and what EmptyPool leaves.
EmptyTxPool == [pool |-> {},         \* pool
                serials |-> {},      \* poolSerialNumbers
                txCoins |-> {},      \* txCoinHashHPool
                coins |-> {},        \* coinHashHPool, the coins themselves
                candidates |-> {},   \* CandidatePool
                tokens |-> {}]       \* TokenIDPool

\* EmptyPool, whatever is in the pool.
EmptyPool == EmptyTxPool

\* AddTxCoinHashH: coins become reserved only for a transaction that was
\* announced by PrePoolTxCoinHashH.
AddTxCoinHashH(p, t) ==
    IF t \in p.txCoins THEN [p EXCEPT !.coins = @ \cup Ins[t]] ELSE p

\* addTx, except for the copy in the database of the pool.
addTx(p, t) ==
    AddTxCoinHashH([p EXCEPT !.pool = @ \cup {t}, !.serials = @ \cup {t},
                             !.candidates = @ \cup {u \in {t} : Stakes[u] # {}},
                             !.tokens = @ \cup {u \in {t} : Inits[u] # {}}], t)

\* RemoveTxCoinHashH.
RemoveTxCoinHashH(p, t) ==
    IF t \in p.txCoins THEN [p EXCEPT !.coins = @ \ Ins[t], !.txCoins = @ \ {t}] ELSE p

\* Mutant: the coins stay reserved.
RemoveTxKeepsCoins(p, t) ==
    IF t \in p.pool THEN [p EXCEPT !.pool = @ \ {t}, !.txCoins = @ \ {t}] ELSE p

\* RemoveTx and removeTx: nothing happens for a transaction that is not in
\* the pool; serial numbers, candidate and token of one that is are kept.
RemoveTx(p, t) ==
    IF t \in p.pool THEN RemoveTxCoinHashH([p EXCEPT !.pool = @ \ {t}], t) ELSE p

\* PrePoolTxCoinHashH.
PrePoolTxCoinHashH(p, t) == [p EXCEPT !.txCoins = @ \cup {t}]

\* ValidateCoinHashH.
ValidateCoinHashH(p, c) == c \notin p.coins

\* For every value one entry of the map, whichever its walk meets first.
WithoutOneEach(entries, of, values) ==
    LET found == {v \in values : \E t \in entries : v \in of[t]}
    IN  {entries \ {f[v] : v \in found} :
            f \in {g \in [found -> entries] : \A v \in found : v \in of[g[v]]}}

\* RemoveCandidateList.
RemoveCandidateList(p, keys) ==
    {[p EXCEPT !.candidates = c] : c \in WithoutOneEach(p.candidates, Stakes, keys)}

\* RemoveTokenIDList.
RemoveTokenIDList(p, ids) ==
    {[p EXCEPT !.tokens = c] : c \in WithoutOneEach(p.tokens, Inits, ids)}

\* MonitorPool, for the transactions that have outlived TxLifeTime: the
\* reserved coins stay reserved.
MonitorPool(p, ts) ==
    [p EXCEPT !.pool = @ \ ts, !.serials = @ \ ts, !.txCoins = @ \ ts,
              !.candidates = @ \ ts, !.tokens = @ \ ts]

-----------------------------------------------------------------------------
\* Checks with the pool.

ListNullifiers(t) == Ins[t]

\* validateDoubleSpendTxWithCurrentMempool: the serial numbers of every
\* transaction that poolSerialNumbers still has.
SpendsPooledCoin(p, t) == \E u \in p.serials : ListNullifiers(u) \cap ListNullifiers(t) # {}

\* validateDoubleSpendCustomTokenOnTx, for two transactions.
SpendsSameToken(t, u) == TokenIns[t] \cap TokenIns[u] # {}

\* ValidateTxWithCurrentMempool of a normal and of a custom token
\* transaction: tokens are compared with those of the pool itself.
ValidateTxWithCurrentMempool(p, t) ==
    /\ ~SpendsPooledCoin(p, t)
    /\ \A u \in p.pool : ~SpendsSameToken(t, u)

\* No transaction that issues the token, and none that stakes the key.
NoDuplicate(p, t) ==
    /\ \A u \in p.tokens : Inits[u] \cap Inits[t] = {}
    /\ \A u \in p.candidates : Stakes[u] \cap Stakes[t] = {}

-----------------------------------------------------------------------------
\* Checks with the chain: d holds what the database has of it.

\* ValidateSanityData.
ValidateSanityData(t) == t \in Sane

\* CheckCMExistence: the commitments of the coins exist.
CheckCMExistence(d, t) == Ins[t] \subseteq d.commitments

\* getListUTXOFromTxCustomToken: the transactions that made the tokens exist.
getListUTXO(d, t) == \A v \in TokenIns[t] : v[1] \in d.index

\* ValidateTxByItself.
ValidateTxByItself(d, t) == t \in Proved /\ CheckCMExistence(d, t) /\ getListUTXO(d, t)

\* ValidateConstDoubleSpendWithBlockchain, with HasSerialNumber.
ValidateConstDoubleSpendWithBlockchain(d, t) == ListNullifiers(t) \cap d.serials = {}

\* validateDoubleSpendCustomTokenWithBlockchain: no stored transaction of the
\* token spends the same output.
ValidateTokenDoubleSpendWithBlockchain(d, t) == \A u \in d.tokenTxs : ~SpendsSameToken(t, u)

\* ValidateTxWithBlockChain of a staking transaction: the key is in no list
\* of validators or candidates.
ValidateStake(d, t) == Stakes[t] \cap d.validators = {}

\* ValidateTxWithBlockChain.
ValidateTxWithBlockChain(d, t) ==
    /\ ValidateStake(d, t)
    /\ ValidateConstDoubleSpendWithBlockchain(d, t)
    /\ ValidateTokenDoubleSpendWithBlockchain(d, t)

\* validateTxIndependProperties; the transactions of the model have a type,
\* a version, a size and a fee that pass, and none is a salary.
ValidateTxIndependProperties(d, t) ==
    ValidateSanityData(t) /\ ValidateTxByItself(d, t) /\ ValidateTxWithBlockChain(d, t)

\* ValidateTransaction, for a transaction that is to enter a pool.
ValidateTransaction(p, d, t) ==
    /\ t \notin p.pool
    /\ ValidateTxWithCurrentMempool(p, t)
    /\ ValidateTxIndependProperties(d, t)
    /\ NoDuplicate(p, t)

\* A pool that refuses the transaction is left alone.
maybeAcceptTransaction(p, d, t) == IF ValidateTransaction(p, d, t) THEN addTx(p, t) ELSE p

\* LoadDatabaseMP takes the stored transactions in the order of their hashes;
\* here in any order, those that fail are dropped.
LoadDatabaseMP(d, stored) ==
    LET kept == {ts \in SUBSET stored :
                    /\ \A t \in ts : ValidateTransaction(EmptyTxPool, d, t)
                    /\ \A t, u \in ts : t # u => /\ Ins[t] \cap Ins[u] = {} /\ ~SpendsSameToken(t, u)
                                                 /\ Stakes[t] \cap Stakes[u] = {}
                                                 /\ Inits[t] \cap Inits[u] = {}}
    IN  {ts \in kept : \A t \in stored \ ts : ts \cup {t} \notin kept}
=============================================================================
