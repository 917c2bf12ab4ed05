------------------------------- MODULE Bridge -------------------------------
(***************************************************************************)
(* The bridge for tokens of other chains (bridgeprocess.go, stability.go,  *)
(* metadata/issuing*.go, metadata/contracting*.go, lvdb/bridge.go), on one *)
(* node of one shard.  An issuing request is answered in its own shard     *)
(* block by a transaction of the producer that mints the tokens; issuing   *)
(* and contracting requests become instructions of the shard block and, as *)
(* they are, of the beacon block that confirms it; inserting the beacon    *)
(* block moves the token's amount in the database.                         *)
(***************************************************************************)
EXTENDS Integers, SequencesExt, FiniteSetsExt, Sums

CONSTANTS
    Issues,       \* issuing requests, sent by the centralized website
    Burns,        \* contracting requests
    TokenOf,      \* [request -> token]
    AmountOf,     \* [request -> amount]: DepositedAmount or BurnedAmount
    MaxBlockTxs,  \* bound: requests, and mints, of a shard block
    MaxFaults     \* bound: crashes of the node, and blocks of a faulty producer

VARIABLES
    rawTxs,       \* requests created and encoded, not yet sent
    bridgePool,   \* requests that are in the pool
    shardChain,   \* Seq of shard blocks
    beaconChain,  \* Seq of beacon blocks: their instructions, and whether the node processed them
    toConfirm,    \* number of shard blocks that beacon blocks have taken
    bridgeTokens, \* tokens with a centralizedBridgePrefix key and their amounts: a function
    rejected,      \* history: requests of the blocks of honest producers that were refused
    faults

bridgeVars == <<rawTxs, bridgePool, shardChain, beaconChain, toConfirm, bridgeTokens, rejected, faults>>

Requests == Issues \cup Burns
BridgeTokenIDs == {TokenOf[r] : r \in Requests}
BridgeAmounts == {AmountOf[r] : r \in Requests}

BridgeAssumption ==
    /\ Issues \cap Burns = {}
    /\ TokenOf \in [Requests -> BridgeTokenIDs]
    /\ AmountOf \in [Requests -> Nat \ {0}]
    /\ MaxBlockTxs \in Nat

ASSUME BridgeAssumptionHolds == BridgeAssumption

\* IssuingRequest, read from the parameters of the call.
NewIssuingRequest(r) == [token |-> TokenOf[r], amount |-> AmountOf[r]]

\* ContractingRequest: the amount is the sum of the outputs asked for.
NewContractingRequest(r) == [token |-> TokenOf[r], amount |-> AmountOf[r]]

\* IssuingResponse: the request it names, its token and its amount.  The
\* receiver is compared in the same way as the amount and left out.
Mint(r, t, a) == [req |-> r, token |-> t, amount |-> a]
Mints == {Mint(r, t, a) : r \in Issues, t \in BridgeTokenIDs, a \in BridgeAmounts}

\* Transactions of a block: requests first, responses appended.
ShardBlock(reqs, mints) == [reqs |-> reqs, mints |-> mints]
OnChain == UNION {ToSet(shardChain[i].reqs) : i \in DOMAIN shardChain}

\* The mints of the chain, by block and place.
Minted == UNION {{<<h, i>> : i \in DOMAIN shardChain[h].mints} : h \in DOMAIN shardChain}
MintAt(p) == shardChain[p[1]].mints[p[2]]
MintedOf(t) == {p \in Minted : MintAt(p).token = t}

SumOf(rs) == SumOver(rs, AmountOf)

-----------------------------------------------------------------------------
\* The database.

\* CustomTokenIDExisted: a mint is an init transaction of its token.
CustomTokenIDExisted(t) == MintedOf(t) # {}

\* IsBridgeTokenExisted.
IsBridgeTokenExisted(t) == t \in DOMAIN bridgeTokens

\* Unspent outputs: what was minted and not sent to the burning address.
\* A request may have been answered by no mint.
Holdings(t) ==
    SumOver(MintedOf(t), [p \in Minted |-> MintAt(p).amount])
      - SumOf({r \in OnChain \cap Burns : TokenOf[r] = t})

\* Mutant: an amount that is there is replaced.
CountUpReplaces(amts, t, a) == [x \in DOMAIN amts \cup {t} |-> IF x = t THEN a ELSE amts[x]]

\* CountUpDepositedAmtByTokenID.
CountUpDepositedAmtByTokenID(amts, t, a) ==
    [x \in DOMAIN amts \cup {t} |->
        IF x # t THEN amts[x] ELSE IF t \in DOMAIN amts THEN amts[t] + a ELSE a]

\* DeductAmtByTokenID.
DeductAmtByTokenID(amts, t, a) ==
    IF t \in DOMAIN amts THEN [amts EXCEPT ![t] = IF @ <= a THEN 0 ELSE @ - a] ELSE amts

-----------------------------------------------------------------------------
\* Requests.

\* ValidateTxWithBlockChain of IssuingRequest: refused while a custom token
\* with the ID exists that the beacon chain has not counted.
ValidateIssue(r) ==
    LET t == NewIssuingRequest(r).token IN IsBridgeTokenExisted(t) \/ ~CustomTokenIDExisted(t)

\* ValidateTxWithBlockChain and ValidateSanityData of ContractingRequest;
\* the transaction sends BurnedAmount of the sender's tokens to the burning
\* address and the rest back.
ValidateBurn(r) ==
    LET c == NewContractingRequest(r) IN IsBridgeTokenExisted(c.token) /\ c.amount <= Holdings(c.token)

ValidateRequest(r) ==
    /\ r \notin OnChain
    /\ r \in Issues => ValidateIssue(r)
    /\ r \in Burns => ValidateBurn(r)

\* createRawTxWithMetadata of an issuing request: the transaction is built
\* and handed back to the caller.
CreateIssue(r) ==
    /\ r \in Issues \ rawTxs
    /\ rawTxs' = rawTxs \cup {r}
    /\ UNCHANGED <<bridgePool, shardChain, beaconChain, toConfirm, bridgeTokens, rejected, faults>>

\* handleCreateRawTxWithContractingReq: the sender has the tokens.
CreateBurn(r) ==
    /\ r \in Burns \ rawTxs /\ NewContractingRequest(r).amount <= Holdings(TokenOf[r])
    /\ rawTxs' = rawTxs \cup {r}
    /\ UNCHANGED <<bridgePool, shardChain, beaconChain, toConfirm, bridgeTokens, rejected, faults>>

\* A created transaction comes to the pool once.
Send(r) ==
    /\ r \in rawTxs \ bridgePool /\ ValidateRequest(r)
    /\ bridgePool' = bridgePool \cup {r}
    /\ UNCHANGED <<rawTxs, shardChain, beaconChain, toConfirm, bridgeTokens, rejected, faults>>

\* sendRawTxWithMetadata.
SendIssue(r) == r \in Issues /\ Send(r)

\* handleSendRawCustomTokenTransaction, from handleCreateAndSendContractingRequest.
SendBurn(r) == r \in Burns /\ Send(r)

-----------------------------------------------------------------------------
\* Shard blocks.

\* The burns of one block spend different outputs.
SpendOnce(reqs) ==
    \A t \in BridgeTokenIDs :
        LET burns == {r \in ToSet(reqs) \cap Burns : TokenOf[r] = t}
        IN  burns # {} => SumOf(burns) <= Holdings(t)

\* Mutant: transactions of the pool are not validated again.
PendingAsPooled(reqs) == SpendOnce(reqs)

\* getPendingTransactionV2: each is validated again.
PendingRequests(reqs) == SpendOnce(reqs) /\ \A i \in DOMAIN reqs : ValidateRequest(reqs[i])

\* buildIssuanceTx.
buildIssuanceTx(r) == LET i == NewIssuingRequest(r) IN Mint(r, i.token, i.amount)

\* buildStabilityResponseTxsAtShardOnly: one response to each issuing request.
buildStabilityResponseTxsAtShardOnly(reqs) ==
    LET upTo[i \in 0 .. Len(reqs)] ==
            IF i = 0 THEN <<>>
            ELSE IF reqs[i] \in Issues THEN Append(upTo[i - 1], buildIssuanceTx(reqs[i]))
            ELSE upTo[i - 1]
    IN  upTo[Len(reqs)]

\* Mutant: the amount of the response is not compared.
VerifyAnyAmount(b) ==
    /\ \A i \in DOMAIN b.mints : b.mints[i].req \in ToSet(b.reqs) /\ b.mints[i].token = TokenOf[b.mints[i].req]
    /\ \A i, j \in DOMAIN b.mints : i # j => b.mints[i].req # b.mints[j].req

\* GetTransferData of a mint: it has one output.
GetTransferData(m) == [token |-> m.token, amount |-> m.amount]

\* VerifyMinerCreatedTxBeforeGettingInBlock of IssuingResponse: the request is
\* in the block and asks for this transfer.
VerifyIssuingResponse(b, m) == m.req \in ToSet(b.reqs) /\ GetTransferData(m) = NewIssuingRequest(m.req)

\* verifyMinerCreatedTxBeforeGettingInBlock: each mint has a request of its
\* own in the block (txsUsed).
VerifyMinerCreatedTxs(b) ==
    /\ \A i \in DOMAIN b.mints : VerifyIssuingResponse(b, b.mints[i])
    /\ \A i, j \in DOMAIN b.mints : i # j => b.mints[i].req # b.mints[j].req

\* ValidateTxList: each by itself, and no two init transactions of a token.
ValidateTxList(b) ==
    /\ \A i \in DOMAIN b.reqs : ValidateRequest(b.reqs[i])
    /\ SpendOnce(b.reqs)
    /\ \A i, j \in DOMAIN b.mints : i # j => b.mints[i].token # b.mints[j].token

SignedBlock(b) == VerifyMinerCreatedTxs(b) /\ ValidateTxList(b)

Proposals == UNION {{s \in [1 .. n -> bridgePool] : IsInjective(s)} : n \in 1 .. MaxBlockTxs}

InsertShard(b) ==
    /\ shardChain' = Append(shardChain, b)
    /\ bridgePool' = bridgePool \ ToSet(b.reqs)

\* getTransactionForNewBlock of an honest producer, then the committee.  The
\* requests of a refused block stay in the pool.
ProduceBridgeBlock(reqs) ==
    LET b == ShardBlock(reqs, buildStabilityResponseTxsAtShardOnly(reqs))
    IN  /\ PendingRequests(reqs)
        /\ IF SignedBlock(b)
           THEN InsertShard(b) /\ UNCHANGED rejected
           ELSE rejected' = rejected \cup {reqs} /\ UNCHANGED <<bridgePool, shardChain>>
        /\ UNCHANGED <<rawTxs, beaconChain, toConfirm, bridgeTokens, faults>>

\* A faulty producer adds any responses.
FaultyBlock(reqs, mints) ==
    /\ faults < MaxFaults /\ faults' = faults + 1
    /\ SignedBlock(ShardBlock(reqs, mints))
    /\ InsertShard(ShardBlock(reqs, mints))
    /\ UNCHANGED <<rawTxs, beaconChain, toConfirm, bridgeTokens, rejected>>

\* getPendingTransactionV2: what is not valid any more leaves the pool.
DropPending(r) ==
    /\ r \in bridgePool /\ ~ValidateRequest(r)
    /\ bridgePool' = bridgePool \ {r}
    /\ UNCHANGED <<rawTxs, shardChain, beaconChain, toConfirm, bridgeTokens, rejected, faults>>

-----------------------------------------------------------------------------
\* Beacon blocks.

\* buildStabilityActions with BuildReqActions: an action per request; it
\* carries the request's metadata.
buildStabilityActions(b) == b.reqs

\* buildStabilityInstructions: the actions of the shard blocks, as they are.
buildStabilityInstructions(from, to) ==
    FlattenSeq([i \in 1 .. to - from |-> buildStabilityActions(shardChain[from + i])])

processIssuingReq(r) ==
    LET md == NewIssuingRequest(r) IN CountUpDepositedAmtByTokenID(bridgeTokens, md.token, md.amount)

processContractingReq(r) ==
    LET md == NewContractingRequest(r) IN DeductAmtByTokenID(bridgeTokens, md.token, md.amount)

\* It returns with the first instruction of the bridge.
processBridgeInstructions(insts) ==
    IF insts = <<>> THEN bridgeTokens
    ELSE IF Head(insts) \in Issues THEN processIssuingReq(Head(insts)) ELSE processContractingReq(Head(insts))

\* The beacon block that takes the next shard blocks is inserted; the bridge
\* comes after the block is stored, and a crash in between is never made good.
InsertBeacon(to, crash) ==
    LET insts == buildStabilityInstructions(toConfirm, to)
    IN  /\ to > toConfirm /\ toConfirm' = to
        /\ crash => faults < MaxFaults
        /\ faults' = IF crash THEN faults + 1 ELSE faults
        /\ beaconChain' = Append(beaconChain, [insts |-> insts, processed |-> ~crash])
        /\ bridgeTokens' = IF crash THEN bridgeTokens ELSE processBridgeInstructions(insts)
        /\ UNCHANGED <<rawTxs, bridgePool, shardChain, rejected>>

-----------------------------------------------------------------------------
BridgeInit ==
    /\ rawTxs = {} /\ bridgePool = {} /\ shardChain = <<>> /\ beaconChain = <<>> /\ toConfirm = 0
    /\ bridgeTokens = <<>> /\ rejected = {} /\ faults = 0

BridgeNext ==
    \/ \E r \in Requests : CreateIssue(r) \/ CreateBurn(r) \/ SendIssue(r) \/ SendBurn(r) \/ DropPending(r)
    \/ \E reqs \in Proposals :
          \/ ProduceBridgeBlock(reqs)
          \/ \E n \in 0 .. MaxBlockTxs : \E mints \in [1 .. n -> Mints] : FaultyBlock(reqs, mints)
    \/ \E to \in DOMAIN shardChain, crash \in BOOLEAN : InsertBeacon(to, crash)

BridgeSpec == BridgeInit /\ [][BridgeNext]_bridgeVars

-----------------------------------------------------------------------------
\* What beacon blocks confirmed, and what of it the node did not count: all
\* but the first instruction of a block, and a block it crashed on.
ConfirmedRequests == UNION {ToSet(beaconChain[h].insts) : h \in DOMAIN beaconChain}
Uncounted ==
    UNION {LET b == beaconChain[h]
           IN  {b.insts[i] : i \in {j \in DOMAIN b.insts : j > 1 \/ ~b.processed}}
           : h \in DOMAIN beaconChain}

\* Whatever a producer proposes (issuingresponse.go, stabilityvalidation.go),
\* all tokens of a kind that blocks have minted are backed by issuing
\* requests on the chain: as much as was deposited at most, and no less than
\* what contracting requests have burned.
MintsAreBacked ==
    \A t \in BridgeTokenIDs :
        /\ Holdings(t) >= 0
        /\ Holdings(t) <= SumOf({r \in OnChain \cap Issues : TokenOf[r] = t})
                            - SumOf({r \in OnChain \cap Burns : TokenOf[r] = t})

\* The amount that the database has for a token (lvdb/bridge.go) is what the
\* beacon chain deposited minus what it burned, as long as no instruction of
\* the token came second in a beacon block or met a crash.
AmountsAreExact ==
    \A t \in BridgeTokenIDs :
        LET of(rs) == {r \in rs : TokenOf[r] = t}
        IN  of(Uncounted) = {} =>
              /\ IsBridgeTokenExisted(t) <=> of(ConfirmedRequests \cap Issues) # {}
              /\ IsBridgeTokenExisted(t) =>
                    bridgeTokens[t] = SumOf(of(ConfirmedRequests \cap Issues)) - SumOf(of(ConfirmedRequests \cap Burns))

\* The committee refuses the block of an honest producer for one reason: two
\* issuing requests of a token in one block, whose responses are two init
\* transactions of the token to ValidateTxList.
OnlyTwinIssuesAreRefused ==
    \A reqs \in rejected :
        \E i, j \in DOMAIN reqs : i # j /\ {reqs[i], reqs[j]} \subseteq Issues /\ TokenOf[reqs[i]] = TokenOf[reqs[j]]
=============================================================================
