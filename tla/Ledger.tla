------------------------------- MODULE Ledger -------------------------------
(***************************************************************************)
(* What shard blocks do to the databases: coins, custom tokens (with       *)
(* unspent outputs in the open) and private tokens (commitments of their   *)
(* own), paid inside a shard or across shards.                             *)
(*                                                                         *)
(* A block of a shard carries transactions; what they send to another      *)
(* shard is cut out of them, committed to by a tree over all shards whose  *)
(* root is in the header, and carried by a cross-shard block.  The         *)
(* receiving shard checks it against the root, copies the coins into its   *)
(* own block as cross transactions, and makes transactions of its own for  *)
(* the custom tokens.                                                      *)
(*                                                                         *)
(* A hash is the record of what is hashed.  A client's transaction differs *)
(* from every other (its randomness); a transaction that a producer makes  *)
(* for custom tokens from another shard differs from the next only in the  *)
(* second it was made in and in what it pays.                              *)
(***************************************************************************)
EXTENDS Integers, FiniteSets, SequencesExt, FiniteSetsExt

CONSTANTS
    Shards,          \* the active shards, a set of numbers from 0
    MaxShardNumber,  \* MAX_SHARD_NUMBER, the leaves of the tree
    Addresses,       \* payment addresses, told apart by their last byte
    Producer,        \* where the producer of a shard is paid
    TokenNames,      \* names for tokens, each used once
    Amount,          \* what is issued of a custom token
    Menus,           \* bounds: how many transactions of which type,
    MaxHeight,       \* blocks of a shard,
    MaxTxs           \* transactions of clients in a block

VARIABLES
    menu,     \* what is left of the menu
    chain,    \* [Shards -> Seq(Block)]
    draft,    \* [Shards -> Seq(Tx)]: what the producer has taken for the next block
    best,     \* BestCrossShard: [Shards -> [Shards -> height]]
    db,       \* [Shards -> tables of a node of the shard]
    refused   \* a validator has refused a block of an honest producer

vars == <<menu, chain, draft, best, db, refused>>

Constant == <<"constant">>
None == [token |-> Constant, type |-> "none", amount |-> 0, ins |-> <<>>, outs |-> <<>>]

ShardOf(a) == a % MaxShardNumber
To(outs, s) == SelectSeq(outs, LAMBDA o : ShardOf(o.to) = s)
Own(s) == {a \in Addresses : ShardOf(a) = s}
Others(s) == Shards \ {s}
Ascending(S) == SetToSortSeq(S, LAMBDA a, b : a < b)

EmptyDB == [commitments |-> <<>>,  \* <<token, coin>> in the order of their indices
            outcoins |-> {}, serials |-> {}, snds |-> {},
            utxo |-> {},           \* outputs of custom tokens
            tokens |-> {}, tokenTxs |-> {}, privTokens |-> {}, privCross |-> {},
            txs |-> {}, incoming |-> {},
            stopped |-> {}]        \* blocks whose storing was given up half way

-----------------------------------------------------------------------------
\* What a block sends to a shard.

\* The outputs of one token are put together, tokens in the order of their IDs.
Grouped(txs, kind, s) ==
    LET of == {i \in DOMAIN txs : txs[i].kind = kind /\ To(txs[i].data.outs, s) # <<>>}
        with(t) == {i \in of : txs[i].data.token = t}
        tokens == SetToSeq({txs[i].data.token : i \in of})
        cloneForCrossShard(t) ==
            [token |-> t, type |-> "cross", amount |-> txs[Min(with(t))].data.amount, ins |-> <<>>,
             outs |-> FlattenSeq([i \in DOMAIN txs |-> IF i \in with(t) THEN To(txs[i].data.outs, s) ELSE <<>>])]
    IN  [k \in DOMAIN tokens |-> cloneForCrossShard(tokens[k])]

getCrossShardData(txs, s) ==
    [coins |-> FlattenSeq([i \in DOMAIN txs |-> To(txs[i].outs, s)]),
     tokens |-> Grouped(txs, "custom", s),
     privacy |-> Grouped(txs, "privacy", s)]

NothingToCross(data) == data.coins = <<>> /\ data.tokens = <<>> /\ data.privacy = <<>>

\* The ID of a custom token is not part of the hash of its data, its name is.
calHashTxTokenData(data) == <<data.token[2], data.amount, data.outs>>
Leaf(data) ==
    <<"leaf", data.coins, [i \in DOMAIN data.tokens |-> calHashTxTokenData(data.tokens[i])], data.privacy>>

\* A returned stake never crosses shards and is left out here.
getCrossShardDataHash(txs) ==
    [i \in 1 .. MaxShardNumber |-> Leaf(getCrossShardData(SelectSeq(txs, LAMBDA t : t.kind # "return"), i - 1))]

CreateCrossShardByteArray(txs, s) ==
    {d \in 0 .. MaxShardNumber - 1 : ~NothingToCross(getCrossShardData(txs, d))} \ {s}

-----------------------------------------------------------------------------
\* The tree, as an array: the leaves, their parents, ..., the root.

ZeroHash == <<"zero">>
hashMerkleBranches(left, right) == <<"node", left, right>>

NextPowerOfTwo(n) == 2 ^ Min({e \in 0 .. n : 2 ^ e >= n})

\* BuildMerkleTreeOfHashes: leaves that are missing are zero.
BuildMerkleTreeOfHashes(hashes, length) ==
    LET leaves == NextPowerOfTwo(length)
        tree[i \in 0 .. 2 * leaves - 2] ==
            IF i < leaves THEN IF i < Len(hashes) THEN hashes[i + 1] ELSE ZeroHash
            ELSE hashMerkleBranches(tree[2 * (i - leaves)], tree[2 * (i - leaves) + 1])
    IN  tree

\* BuildMerkleTreeStore: a parent without a right child has the left one twice.
BuildMerkleTreeStore(hashes) ==
    LET leaves == NextPowerOfTwo(Len(hashes))
        tree[i \in 0 .. 2 * leaves - 2] ==
            IF i < leaves THEN IF i < Len(hashes) THEN hashes[i + 1] ELSE <<"nil">>
            ELSE LET l == tree[2 * (i - leaves)]
                     r == tree[2 * (i - leaves) + 1]
                 IN  CASE l = <<"nil">> -> l
                       [] l # <<"nil">> /\ r = <<"nil">> -> hashMerkleBranches(l, l)
                       [] OTHER -> hashMerkleBranches(l, r)
    IN  tree

Root(tree) == tree[Cardinality(DOMAIN tree) - 1]

CreateShardTxRoot(txs) == BuildMerkleTreeOfHashes(getCrossShardDataHash(txs), MaxShardNumber)

\* Level by level: cursor is where the level starts, i the place in it.
GetMerklePathForCrossShard(tree, s) ==
    LET size == Cardinality(DOMAIN tree)
        walk[n \in 0 .. size] ==
            IF n = 0 THEN [cursor |-> 0, last |-> 0, i |-> s, path |-> <<>>]
            ELSE LET w == walk[n - 1]
                 IN  IF w.cursor >= size - 2 THEN w
                     ELSE [cursor |-> w.cursor + IF n = 1 THEN NextPowerOfTwo(MaxShardNumber)
                                                 ELSE (w.cursor - w.last) \div 2,
                           last |-> IF n = 1 THEN 0 ELSE w.cursor,
                           i |-> w.i \div 2,
                           path |-> Append(w.path, tree[w.cursor + IF w.i % 2 = 0 THEN w.i + 1 ELSE w.i - 1])]
    IN  walk[size].path

VerifyMerkleRootFromMerklePath(leaf, path, root, s) ==
    LET up(node, sibling) ==
            [hash |-> IF node.i % 2 = 0 THEN hashMerkleBranches(node.hash, sibling)
                      ELSE hashMerkleBranches(sibling, node.hash),
             i |-> node.i \div 2]
    IN  FoldLeft(up, [hash |-> leaf, i |-> s], path).hash = root

CreateCrossShardBlock(block, s) ==
    [header |-> block.header, to |-> s,
     path |-> GetMerklePathForCrossShard(CreateShardTxRoot(block.txs), s),
     data |-> getCrossShardData(block.txs, s)]

\* The signature is taken to be right: the header is the one of the chain.
VerifyCrossShardBlock(cross) ==
    VerifyMerkleRootFromMerklePath(Leaf(cross.data), cross.path, cross.header.shardTxRoot, cross.to)

-----------------------------------------------------------------------------
\* What clients build.

Hash(s) == <<"tx", s, Len(chain[s]) + 1, Len(draft[s]) + 1>>
Coins(hash, tos) == [i \in DOMAIN tos |-> [id |-> hash \o <<i>>, to |-> tos[i]]]

\* What the transactions of the draft spend, in TempTxPool.
DraftIns(s) == UNION {draft[s][i].ins : i \in DOMAIN draft[s]}
\* Mutant: the transactions of one block are not compared.
NoDraftTokenIns(s) == {}

DraftTokenIns(s) == UNION {Range(draft[s][i].data.ins) : i \in DOMAIN draft[s]}

DecryptOutputCoinByKey(d, token, c) == <<token, c>> \notin d.serials
GetListOutputCoinsByKeyset(d, token, a) ==
    {c \in {o[2] : o \in {p \in d.outcoins : p[1] = token}} : c.to = a /\ DecryptOutputCoinByKey(d, token, c)}

GetUnspentTxCustomTokenVout(d, token, a) ==
    {u \in d.utxo : u.token = token /\ u.to = a /\ ~u.spent}

\* GetTransactionByHash has to find the transactions whose outputs are spent,
\* and no transaction recorded for the token may have spent them.
SpendsAvailable(d, token, ins) ==
    /\ \A i \in DOMAIN ins : ins[i].tx \in d.txs
    /\ \E t \in d.tokenTxs : t.token = token
    /\ \A t \in d.tokenTxs : t.token = token => Range(t.ins) \cap Range(ins) = {}

Take(what) == menu[what] > 0 /\ menu' = [menu EXCEPT ![what] = @ - 1]

AddToDraft(s, tx) ==
    /\ Len(draft[s]) < MaxTxs /\ Len(chain[s]) < MaxHeight[s]
    /\ draft' = [draft EXCEPT ![s] = Append(@, tx)]
    /\ UNCHANGED <<chain, best, db, refused>>

\* Tx.Init: one coin, to a receiver.
Pay(s, a, to) ==
    \E c \in GetListOutputCoinsByKeyset(db[s], Constant, a) \ DraftIns(s) :
        /\ Take("pay")
        /\ AddToDraft(s, [kind |-> "normal", hash |-> Hash(s), ins |-> {c},
                          outs |-> Coins(Hash(s), <<to>>), data |-> None])

\* buildReturnStakingAmountTx, to a key of the shard.
ReturnStake(s, to) ==
    /\ ShardOf(to) = s
    /\ Take("return")
    /\ AddToDraft(s, [kind |-> "return", hash |-> Hash(s), ins |-> {},
                      outs |-> Coins(Hash(s), <<to>>), data |-> None])

\* TxCustomToken.Init, CustomTokenInit.
IssueToken(s, name, to) ==
    LET token == <<"custom", name, Amount, to, s>>
    IN  /\ name \in menu.names
        /\ token \notin db[s].tokens
        /\ menu.issue > 0
        /\ menu' = [menu EXCEPT !.issue = @ - 1, !.names = @ \ {name}]
        /\ AddToDraft(s, [kind |-> "custom", hash |-> Hash(s), ins |-> {}, outs |-> <<>>,
                          data |-> [token |-> token, type |-> "init", amount |-> Amount, ins |-> <<>>,
                                    outs |-> <<[to |-> to, value |-> Amount]>>]])

Value(us) == MapThenSumSet(LAMBDA u : u.value, us)

\* TxCustomToken.Init, CustomTokenTransfer, and its validation: what is left
\* over goes back to the owner of the first output spent.
TransferToken(s, token, a, to, value) ==
    \E us \in SUBSET GetUnspentTxCustomTokenVout(db[s], token, a) \ {{}} :
        LET ins == [i \in DOMAIN SetToSeq(us) |-> LET u == SetToSeq(us)[i] IN [tx |-> u.tx, index |-> u.index, to |-> u.to]]
            refund == Value(us) - value
        IN  /\ token \in db[s].tokens
            /\ refund >= 0 /\ \A u \in us : Value(us \ {u}) < value
            /\ SpendsAvailable(db[s], token, ins)
            /\ Range(ins) \cap DraftTokenIns(s) = {}
            /\ Take("transfer")
            /\ AddToDraft(s, [kind |-> "custom", hash |-> Hash(s), ins |-> {}, outs |-> <<>>,
                              data |-> [token |-> token, type |-> "transfer", amount |-> 0, ins |-> ins,
                                        outs |-> <<[to |-> to, value |-> value]>>
                                                 \o IF refund > 0 THEN <<[to |-> a, value |-> refund]>> ELSE <<>>]])

\* TxCustomTokenPrivacy.Init, CustomTokenInit.
IssuePrivateToken(s, name, to) ==
    LET token == <<"privacy", name, Amount, to, s>>
    IN  /\ name \in menu.names
        /\ token \notin db[s].privTokens \cup db[s].privCross
        /\ menu.issuePrivate > 0
        /\ menu' = [menu EXCEPT !.issuePrivate = @ - 1, !.names = @ \ {name}]
        /\ AddToDraft(s, [kind |-> "privacy", hash |-> Hash(s), ins |-> {}, outs |-> <<>>,
                          data |-> [token |-> token, type |-> "init", amount |-> Amount, ins |-> <<>>,
                                    outs |-> Coins(Hash(s) \o <<"p">>, <<to>>)]])

\* TxCustomTokenPrivacy.Init, CustomTokenTransfer.
TransferPrivateToken(s, token, a, to) ==
    \E c \in GetListOutputCoinsByKeyset(db[s], token, a) :
        /\ token \in db[s].privTokens \cup db[s].privCross
        /\ c \notin DraftTokenIns(s)
        /\ Take("transferPrivate")
        /\ AddToDraft(s, [kind |-> "privacy", hash |-> Hash(s), ins |-> {}, outs |-> <<>>,
                          data |-> [token |-> token, type |-> "transfer", amount |-> 0, ins |-> <<c>>,
                                    outs |-> Coins(Hash(s) \o <<"p">>, <<to>>)]])

-----------------------------------------------------------------------------
\* The tables.

HasSerialNumber(d, token, c) == <<token, c>> \in d.serials
StoreSerialNumbers(d, token, cs) == [d EXCEPT !.serials = @ \cup {<<token, c>> : c \in cs}]
HasCommitment(d, token, c) == \E i \in DOMAIN d.commitments : d.commitments[i] = <<token, c>>
StoreCommitments(d, token, cs) == [d EXCEPT !.commitments = @ \o [i \in DOMAIN cs |-> <<token, cs[i]>>]]
StoreOutputCoins(d, token, cs) == [d EXCEPT !.outcoins = @ \cup {<<token, cs[i]>> : i \in DOMAIN cs}]
HasSNDerivator(d, token, c) == <<token, c.id>> \in d.snds
StoreSNDerivators(d, token, cs) == [d EXCEPT !.snds = @ \cup {<<token, c.id>> : c \in cs}]
StoreCustomToken(d, token) == [d EXCEPT !.tokens = @ \cup {token}]
StorePrivacyCustomToken(d, token) == [d EXCEPT !.privTokens = @ \cup {token}]
StorePrivacyCustomTokenCrossShard(d, token) == [d EXCEPT !.privCross = @ \cup {token}]
StoreTransactionIndex(d, hashes) == [d EXCEPT !.txs = @ \cup hashes]
StoreCustomTokenTx(d, h, i, tx) ==
    [d EXCEPT !.tokenTxs = @ \cup {[token |-> tx.data.token, height |-> h, index |-> i, tx |-> tx.hash, ins |-> tx.data.ins]}]

-----------------------------------------------------------------------------
\* Storing a block.

\* What is new of inputs and outputs.
processFetchTxViewPoint(d, token, ins, outs) ==
    [token |-> token,
     serials |-> {c \in ins : ~HasSerialNumber(d, token, c)},
     coins |-> SelectSeq(outs, LAMBDA c : ~HasCommitment(d, token, c)),
     snds |-> {c \in Range(outs) : ~HasSNDerivator(d, token, c)}]

processFetchCrossOutputViewPoint(d, token, outs) == processFetchTxViewPoint(d, token, {}, outs)

\* The view of the constants: serial number derivators are added to the map
\* they are read from and never reach it.
fetchTxViewPointFromBlock(d, txs) ==
    [processFetchTxViewPoint(d, Constant, UNION {txs[i].ins : i \in DOMAIN txs},
                             FlattenSeq([i \in DOMAIN txs |-> txs[i].outs])) EXCEPT !.snds = {}]
subView(d, data) == processFetchTxViewPoint(d, data.token, Range(data.ins), data.outs)

StoreSerialNumbersFromTxViewPoint(d, view) == StoreSerialNumbers(d, view.token, view.serials)

\* Mutant: the keys of other shards too.
StoreCommitmentsOfAllShards(d, view, s) ==
    StoreOutputCoins(StoreCommitments(d, view.token, view.coins), view.token, view.coins)

\* The public keys in order, those of the shard only.
StoreCommitmentsFromTxViewPoint(d, view, s) ==
    LET keys == Ascending(Own(s))
        stored == FlattenSeq([k \in DOMAIN keys |-> SelectSeq(view.coins, LAMBDA c : c.to = keys[k])])
    IN  StoreOutputCoins(StoreCommitments(d, view.token, stored), view.token, stored)

\* For the public keys that have a commitment in the view, of any shard.
StoreSNDerivatorsFromTxViewPoint(d, view) ==
    StoreSNDerivators(d, view.token, {c \in view.snds : \E i \in DOMAIN view.coins : view.coins[i].to = c.to})

StoreView(d, view, s) ==
    StoreSNDerivatorsFromTxViewPoint(
        StoreCommitmentsFromTxViewPoint(StoreSerialNumbersFromTxViewPoint(d, view), view, s), view)

Utxo(token, tx, i, out) == [token |-> token, tx |-> tx, index |-> i, to |-> out.to, value |-> out.value, spent |-> FALSE]

\* The inputs are marked as spent one by one, then the outputs of the shard
\* are added one by one; an error leaves what has been written.
StoreCustomTokenPaymentAddresstHistory(d, s, tx) ==
    LET data == tx.data
        unspent(u, in) == u.token = data.token /\ u.tx = in.tx /\ u.index = in.index /\ u.to = in.to /\ ~u.spent
        spend(acc, in) ==
            IF ~acc.ok \/ ~\E u \in acc.db.utxo : unspent(u, in) THEN [acc EXCEPT !.ok = FALSE]
            ELSE [acc EXCEPT !.db.utxo = {IF unspent(u, in) THEN [u EXCEPT !.spent = TRUE] ELSE u : u \in @}]
        exists(utxo, i) == \E u \in utxo : u.token = data.token /\ u.tx = tx.hash /\ u.index = i /\ u.to = data.outs[i].to
        add(acc, i) ==
            IF ~acc.ok \/ ShardOf(data.outs[i].to) # s THEN acc
            ELSE IF exists(acc.db.utxo, i) THEN [acc EXCEPT !.ok = FALSE]
            ELSE [acc EXCEPT !.db.utxo = @ \cup {Utxo(data.token, tx.hash, i, data.outs[i])}]
    IN  FoldLeft(add, FoldLeft(spend, [db |-> d, ok |-> TRUE], data.ins), [i \in DOMAIN data.outs |-> i])

\* One custom token transaction; the token is registered when it is issued,
\* or when it first comes from another shard.
StoreToken(acc, s, h, i, tx) ==
    LET registered == IF tx.data.type \in {"init", "cross"} THEN StoreCustomToken(acc.db, tx.data.token) ELSE acc.db
        history == StoreCustomTokenPaymentAddresstHistory(registered, s, tx)
    IN  IF ~acc.ok THEN acc
        ELSE IF ~history.ok THEN history
        ELSE [history EXCEPT !.db = StoreCustomTokenTx(@, h, i, tx)]

StorePrivateToken(acc, s, tx, view) ==
    IF ~acc.ok THEN acc
    ELSE [acc EXCEPT !.db = StoreView(IF tx.data.type = "init" THEN StorePrivacyCustomToken(@, tx.data.token) ELSE @, view, s)]

OfKind(block, kind) == {i \in DOMAIN block.txs : block.txs[i].kind = kind}

\* The transactions are kept in Go maps: those of custom tokens are stored in
\* the order tokens, those of private tokens in the order privates.
CreateAndSaveTxViewPointFromBlock(d, s, block, tokens, privates) ==
    LET txs == block.txs
        afterTokens == FoldLeft(LAMBDA acc, i : StoreToken(acc, s, block.header.height, i, txs[i]),
                                [db |-> d, ok |-> TRUE], tokens)
        afterPrivates == FoldLeft(LAMBDA acc, i : StorePrivateToken(acc, s, txs[i], subView(d, txs[i].data)), afterTokens, privates)
    IN  IF ~afterPrivates.ok THEN afterPrivates
        ELSE [afterPrivates EXCEPT !.db = StoreView(@, fetchTxViewPointFromBlock(d, txs), s)]

\* The private tokens of cross transactions: a view is kept under the place of
\* its token in its cross transaction, so that the last cross transaction wins,
\* and it holds the address of the loop's variable, so that all views of a cross
\* transaction end up with the ID of its last token.
SubViews(d, crossTxs) ==
    LET longest == Max({0} \cup {Len(crossTxs[i].privacy) : i \in DOMAIN crossTxs})
        view(k) == LET ct == crossTxs[Max({i \in DOMAIN crossTxs : Len(crossTxs[i].privacy) >= k})]
                   IN  [processFetchCrossOutputViewPoint(d, ct.privacy[k].token, ct.privacy[k].outs)
                           EXCEPT !.token = ct.privacy[Len(ct.privacy)].token]
    IN  [k \in 1 .. longest |-> view(k)]

\* CrossTransactions is a Go map from shards, visited in the order shards.
CreateAndSaveCrossTransactionCoinViewPointFromBlock(d, s, block, shards) ==
    LET crossTxs == FlattenSeq([i \in DOMAIN shards |-> block.cross[shards[i]]])
        constants == [processFetchCrossOutputViewPoint(d, Constant, FlattenSeq([i \in DOMAIN crossTxs |-> crossTxs[i].coins]))
                         EXCEPT !.snds = {}]
        register(e, token) == IF token \in e.privTokens THEN e ELSE StorePrivacyCustomTokenCrossShard(e, token)
    IN  StoreView(FoldLeft(LAMBDA e, view : StoreView(register(e, view.token), view, s), d, SubViews(d, crossTxs)),
                  constants, s)

StoreIncomingCrossShard(d, block) ==
    [d EXCEPT !.incoming = @ \cup UNION {{<<f, block.cross[f][i].height>> : i \in DOMAIN block.cross[f]} : f \in DOMAIN block.cross}]

ProcessStoreShardBlock(d, s, block, tokens, privates, shards) ==
    LET own == CreateAndSaveTxViewPointFromBlock(d, s, block, tokens, privates)
        indexed == StoreTransactionIndex(own.db, {block.txs[i].hash : i \in DOMAIN block.txs})
    IN  IF ~own.ok THEN [own.db EXCEPT !.stopped = @ \cup {block.header.height}]
        ELSE StoreIncomingCrossShard(CreateAndSaveCrossTransactionCoinViewPointFromBlock(indexed, s, block, shards), block)

-----------------------------------------------------------------------------
\* Producing, verifying and inserting a block.

\* The heights of shard f whose headers name shard s, from the last one that
\* s has taken on; the pool of s hands out the first few of them.
NextHeights(f, s) ==
    Ascending({h \in DOMAIN chain[f] : h > best[s][f] /\ s \in chain[f][h].header.crossShards})

CrossBlocks(f, s, n) ==
    [i \in 1 .. n |-> CreateCrossShardBlock(chain[f][NextHeights(f, s)[i]], s)]

\* The data of another cross-shard block under the header of one in the pool.
Confused(blocks, f) ==
    {[blocks EXCEPT ![i].data = CreateCrossShardBlock(chain[f][h], d).data, ![i].path = CreateCrossShardBlock(chain[f][h], d).path] :
        i \in DOMAIN blocks, h \in DOMAIN chain[f], d \in Shards}

\* getCrossShardData of the block generator stops at the first block that is
\* not what its header says.
Verified(blocks) ==
    SubSeq(blocks, 1, Min({Len(blocks)} \cup {i - 1 : i \in {j \in DOMAIN blocks : ~VerifyCrossShardBlock(blocks[j])}}))

CrossTransactions(blocks) ==
    [i \in DOMAIN blocks |-> [height |-> blocks[i].header.height, coins |-> blocks[i].data.coins, privacy |-> blocks[i].data.privacy]]

\* Mutant: only the first block of each sender.
TokenDataOfFirst(pool) ==
    LET from == Ascending({f \in DOMAIN pool : pool[f] # <<>>})
    IN  FlattenSeq([i \in DOMAIN from |-> pool[from[i]][1].data.tokens])

\* The token data of cross-shard blocks, sender by sender, height by height.
TokenDataOf(pool) ==
    LET from == Ascending(DOMAIN pool)
    IN  FlattenSeq(FlattenSeq([i \in DOMAIN from |-> [j \in DOMAIN pool[from[i]] |-> pool[from[i]][j].data.tokens]]))

createCustomTokenTxForCrossShard(pool, s) ==
    LET data == TokenDataOf(pool)
    IN  [i \in DOMAIN data |-> [kind |-> "custom", hash |-> <<"cross", s, Len(chain[s]) + 1, data[i]>>,
                                ins |-> {}, outs |-> <<>>, data |-> data[i]]]

\* addBlockReward: the last transaction.
BlockReward(s, n) ==
    LET hash == <<"tx", s, Len(chain[s]) + 1, n + 1>>
    IN  [kind |-> "reward", hash |-> hash, ins |-> {}, outs |-> Coins(hash, <<Producer[s]>>), data |-> None]

CreateMerkleCrossTransaction(cross) ==
    LET from == Ascending(DOMAIN cross)
        hashes == FlattenSeq([i \in DOMAIN from |->
                      [j \in DOMAIN cross[from[i]] |-> <<"cross", from[i], cross[from[i]][j].height, cross[from[i]][j].coins, cross[from[i]][j].privacy>>]])
    IN  IF hashes = <<>> THEN ZeroHash ELSE Root(BuildMerkleTreeOfHashes(hashes, Len(hashes)))

TxHashes(txs) == [i \in DOMAIN txs |-> txs[i].hash]

NewBlockShard(s, pool) ==
    LET known == draft[s] \o createCustomTokenTxForCrossShard(pool, s)
        txs == Append(known, BlockReward(s, Len(known)))
        cross == [f \in DOMAIN pool |-> CrossTransactions(pool[f])]
    IN  [txs |-> txs, cross |-> cross,
         header |-> [height |-> Len(chain[s]) + 1,
                     txRoot |-> Root(BuildMerkleTreeStore(TxHashes(txs))),
                     shardTxRoot |-> Root(CreateShardTxRoot(txs)),
                     crossRoot |-> CreateMerkleCrossTransaction(cross),
                     crossShards |-> CreateCrossShardByteArray(txs, s)]]

\* VerifyBlockReward: one reward, at the end, for the producer.
VerifyBlockReward(s, txs) ==
    /\ OfKind([txs |-> txs], "reward") = {Len(txs)}
    /\ [i \in DOMAIN txs[Len(txs)].outs |-> txs[Len(txs)].outs[i].to] = <<Producer[s]>>

\* VerifyCrossShardCustomToken: the same token data, by its hashes.
VerifyCrossShardCustomToken(pool, txs) ==
    LET fromTxs == SelectSeq(txs, LAMBDA t : t.kind = "custom" /\ t.data.type = "cross")
        data == TokenDataOf(pool)
    IN  [i \in DOMAIN fromTxs |-> calHashTxTokenData(fromTxs[i].data)] = [i \in DOMAIN data |-> calHashTxTokenData(data[i])]

\* VerifyPreProcessingShardBlock before signing; pool is the validator's.
VerifyPreProcessingShardBlock(s, block, pool) ==
    /\ block.header.height = Len(chain[s]) + 1
    /\ block.header.txRoot = Root(BuildMerkleTreeStore(TxHashes(block.txs)))
    /\ block.header.shardTxRoot = Root(CreateShardTxRoot(block.txs))
    /\ block.header.crossRoot = CreateMerkleCrossTransaction(block.cross)
    /\ \A f \in DOMAIN block.cross :
          /\ Len(block.cross[f]) <= Len(pool[f])
          /\ \A i \in DOMAIN block.cross[f] :
                /\ VerifyCrossShardBlock(pool[f][i])
                /\ block.cross[f][i] = CrossTransactions(pool[f])[i]
    /\ VerifyCrossShardCustomToken([f \in DOMAIN pool |-> SubSeq(pool[f], 1, Len(block.cross[f]))], block.txs)
    /\ VerifyBlockReward(s, block.txs)

InsertShardBlock(s, block) ==
    /\ chain' = [chain EXCEPT ![s] = Append(@, block)]
    /\ best' = [best EXCEPT ![s] = [f \in Shards |-> IF f # s /\ block.cross[f] # <<>> THEN Last(block.cross[f]).height ELSE @[f]]]
    /\ draft' = [draft EXCEPT ![s] = <<>>]
    /\ \E tokens \in SetToSeqs(OfKind(block, "custom")), privates \in SetToSeqs(OfKind(block, "privacy")), shards \in SetToSeqs(Others(s)) :
          db' = [db EXCEPT ![s] = ProcessStoreShardBlock(@, s, block, tokens, privates, shards)]
    /\ UNCHANGED <<menu, refused>>

\* A round of the shard's committee: the producer's pool may hold something
\* else under a header than what belongs there.
ProduceBlock(s) ==
    \E n \in [Others(s) -> 0 .. Max(Range(MaxHeight))] :
        /\ Len(chain[s]) < MaxHeight[s] /\ ~refused
        /\ \A f \in Others(s) : n[f] <= Len(NextHeights(f, s))
        /\ \E f \in Others(s), other \in {FALSE} \cup (IF menu.confuse THEN {TRUE} ELSE {}) :
              \E blocks \in IF other THEN Confused(CrossBlocks(f, s, n[f]), f) ELSE {CrossBlocks(f, s, n[f])} :
                 LET pool == [g \in Others(s) |-> IF g = f THEN blocks ELSE CrossBlocks(g, s, n[g])]
                     block == NewBlockShard(s, [g \in Others(s) |-> Verified(pool[g])])
                 IN  IF VerifyPreProcessingShardBlock(s, block, [g \in Others(s) |-> CrossBlocks(g, s, n[g])])
                     THEN InsertShardBlock(s, block)
                     ELSE refused' = TRUE /\ UNCHANGED <<menu, chain, draft, best, db>>

Init ==
    /\ menu \in Menus
    /\ chain = [s \in Shards |-> <<>>]
    /\ draft = [s \in Shards |-> <<>>]
    /\ best = [s \in Shards |-> [f \in Shards |-> 0]]
    /\ db = [s \in Shards |-> EmptyDB]
    /\ refused = FALSE

Next ==
    \E s \in Shards :
        \/ ProduceBlock(s)
        \/ \E a \in Own(s), to \in Addresses : Pay(s, a, to)
        \/ \E to \in Addresses : ReturnStake(s, to)
        \/ \E name \in TokenNames, to \in Addresses : IssueToken(s, name, to)
        \/ \E token \in db[s].tokens, a \in Own(s), to \in Addresses, value \in 1 .. Amount : TransferToken(s, token, a, to, value)
        \/ \E name \in TokenNames, to \in Addresses : IssuePrivateToken(s, name, to)
        \/ \E token \in db[s].privTokens \cup db[s].privCross, a \in Own(s), to \in Addresses : TransferPrivateToken(s, token, a, to)

Spec == Init /\ [][Next]_vars

-----------------------------------------------------------------------------

\* What the blocks say that a shard owns: outputs of its own blocks, and of
\* the blocks of other shards as far as it has taken them on.
SentTo(s, f, outs(_)) ==
    UNION {UNION {Range(To(outs(chain[f][h].txs[i]), s)) : i \in DOMAIN chain[f][h].txs} :
              h \in {k \in DOMAIN chain[f] : f = s \/ k <= best[s][f]}}
ConstantsOf(s) == UNION {SentTo(s, f, LAMBDA tx : tx.outs) : f \in Shards}
SpentIn(s) == UNION {UNION {chain[s][h].txs[i].ins : i \in DOMAIN chain[s][h].txs} : h \in DOMAIN chain[s]}

CoinsIn(d, token) == SelectSeq(d.commitments, LAMBDA e : e[1] = token)

\* A coin of the native currency is stored in the shard of its owner once, in
\* the block that makes it or in the block that takes it on from the shard
\* where it was made, and in no other shard (CreateAndSaveTxViewPointFromBlock,
\* CreateAndSaveCrossTransactionCoinViewPointFromBlock); the spent ones are
\* those that the blocks spend.
CoinsArrive ==
    \A s \in Shards : db[s].stopped = {} =>
        LET stored == CoinsIn(db[s], Constant)
        IN  /\ Range(stored) = {<<Constant, c>> : c \in ConstantsOf(s)}
            /\ IsInjective(stored)
            /\ {c \in ConstantsOf(s) : <<Constant, c>> \in db[s].serials} = SpentIn(s)

\* No amount of a custom token is lost, made or spent twice: what is unspent
\* in the shards and what is on its way between them is what was issued
\* (StoreCustomTokenPaymentAddresstHistory, createCustomTokenTxForCrossShard).
Issued == UNION {{chain[s][h].txs[i].data.token : i \in {j \in DOMAIN chain[s][h].txs : chain[s][h].txs[j].data.type = "init" /\ chain[s][h].txs[j].kind = "custom"}} :
                     <<s, h>> \in {p \in Shards \X (1 .. Max(Range(MaxHeight))) : p[2] \in DOMAIN chain[p[1]]}}
UnspentIn(s, token) == MapThenSumSet(LAMBDA u : u.value, {u \in db[s].utxo : u.token = token /\ ~u.spent})
OnTheWay(f, s, token) ==
    LET values(h) == MapThenSumSet(LAMBDA i : LET outs == To(chain[f][h].txs[i].data.outs, s)
                                              IN  MapThenSumSet(LAMBDA j : outs[j].value, DOMAIN outs),
                                   {i \in OfKind(chain[f][h], "custom") : chain[f][h].txs[i].data.token = token})
    IN  MapThenSumSet(values, {h \in DOMAIN chain[f] : h > best[s][f]})
TokenValueIsConserved ==
    (\A s \in Shards : db[s].stopped = {}) =>
        \A token \in Issued :
            MapThenSumSet(LAMBDA s : UnspentIn(s, token), Shards)
              + MapThenSumSet(LAMBDA p : OnTheWay(p[1], p[2], token), {p \in Shards \X Shards : p[1] # p[2]}) = Amount

\* A block that an honest producer puts together is signed by validators with
\* the same cross-shard blocks (the roots, the cross transactions, those made
\* for custom tokens and the reward all pass, shardprocess.go:330-500), and is
\* stored to its end unless two of its transactions have the same hash
\* (blockchain.go:835-838 "UTXO already exist"): no other block spends what is
\* not there, in whatever order Go's maps hand its transactions out.
HonestBlocksAreStored ==
    /\ ~refused
    /\ \A s \in Shards : \A h \in db[s].stopped : ~IsInjective(TxHashes(chain[s][h].txs))
=============================================================================
