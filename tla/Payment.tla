------------------------------ MODULE Payment ------------------------------
(***************************************************************************)
(* A payment from the coins of a wallet to a transaction that is valid:    *)
(* coins are chosen for the amount and the fee, the change is computed,    *)
(* each coin to be spent is hidden among other commitments of the chain,   *)
(* the witness and the proof are built and travel as bytes, and the        *)
(* receiver checks their sanity and verifies them.                         *)
(*                                                                         *)
(* uint64 and int64 have MaxExp bits.                                      *)
(***************************************************************************)
EXTENDS RangeProof

CONSTANTS
    GreedyFrom,    \* chooseBestOutCoinsToSpent is greedy above this, 1000
    MaxCoins       \* coins of a side of a payment, 255: a byte has their number

ASSUME PaymentAssumption == GreedyFrom \in Nat /\ MaxCoins \in Nat

Uint(n) == n % 2 ^ MaxExp
ToInt(n) == Uint(n + 2 ^ (MaxExp - 1)) - 2 ^ (MaxExp - 1)
SumOf(coins) == Uint(MapThenSumSet(LAMBDA i : coins[i].Value, DOMAIN coins))

-----------------------------------------------------------------------------
\* knapsack.go and the choice of coins in rpcserver/common.go.

\* The greatest number of coins that fit in the target is left out.
Knapsack(values, target) ==
    LET K[i \in 0 .. Len(values), w \in 0 .. target] ==
            IF i = 0 \/ w = 0 THEN 0
            ELSE IF values[i] <= w /\ 1 + K[i - 1, w - values[i]] > K[i - 1, w]
                 THEN 1 + K[i - 1, w - values[i]]
                 ELSE K[i - 1, w]
        back(s, i) == IF s.left = 0 \/ s.left = K[i - 1, s.w] THEN s
                      ELSE [left |-> s.left - 1, w |-> s.w - values[i], chosen |-> s.chosen \cup {i}]
    IN  FoldLeft(back, [left |-> K[Len(values), target], w |-> target, chosen |-> {}],
                 [k \in DOMAIN values |-> Len(values) + 1 - k]).chosen

ByValue(coins) == SortSeq(coins, LAMBDA c, d : c.Value < d.Value)

\* From the smallest coin on, until they reach the amount.
Greedy(sorted, amount) ==
    {i \in DOMAIN sorted : SumOf(SubSeq(sorted, 1, i - 1)) < amount \/ i = 1}

Those(coins, S) == LET kept == {i \in DOMAIN coins : i \in S}
                   IN  [k \in 1 .. Cardinality(kept) |->
                          coins[CHOOSE i \in kept : Cardinality({j \in kept : j < i}) = k - 1]]

\* Mutant: the coins that the knapsack leaves out are the ones to be spent.
chooseBestOutCoinsSwapped(coins, amount) ==
    LET small == Those(coins, {i \in DOMAIN coins : coins[i].Value <= amount})
        large == ByValue(Those(coins, {i \in DOMAIN coins : coins[i].Value > amount}))
        target == ToInt(SumOf(small) - amount)
        left == Knapsack([i \in DOMAIN small |-> small[i].Value], target)
    IN  IF target > 0 THEN [ok |-> TRUE, chosen |-> Those(small, left),
                            rest |-> Those(small, DOMAIN small \ left) \o large]
        ELSE IF target = 0 THEN [ok |-> TRUE, chosen |-> small, rest |-> large]
        ELSE IF large = <<>> THEN [ok |-> FALSE, chosen |-> <<>>, rest |-> <<>>]
        ELSE [ok |-> TRUE, chosen |-> <<large[1]>>, rest |-> Tail(large) \o small]

chooseBestOutCoinsToSpent(coins, amount) ==
    LET small == Those(coins, {i \in DOMAIN coins : coins[i].Value <= amount})
        large == ByValue(Those(coins, {i \in DOMAIN coins : coins[i].Value > amount}))
        target == ToInt(SumOf(small) - amount)
        sorted == ByValue(coins)
        first == Greedy(sorted, amount)
        left == Knapsack([i \in DOMAIN small |-> small[i].Value], target)
    IN  IF target > GreedyFrom
        THEN [ok |-> TRUE, chosen |-> Those(sorted, first), rest |-> Those(sorted, DOMAIN sorted \ first)]
        ELSE IF target > 0
        THEN [ok |-> TRUE, chosen |-> Those(small, DOMAIN small \ left), rest |-> Those(small, left) \o large]
        ELSE IF target = 0 THEN [ok |-> TRUE, chosen |-> small, rest |-> large]
        ELSE IF large = <<>> THEN [ok |-> FALSE, chosen |-> <<>>, rest |-> <<>>]
        ELSE [ok |-> TRUE, chosen |-> <<large[1]>>, rest |-> Tail(large) \o small]

\* chooseOutsCoinByKeyset: coins for the amount, then more for the fee; that
\* there are not enough for the fee is not noticed here.
WithFee(best, amount, fee) ==
    LET needToPayFee == ToInt(amount + fee - SumOf(best.chosen))
    IN  IF needToPayFee > 0 /\ best.rest # <<>>
        THEN best.chosen \o chooseBestOutCoinsToSpent(best.rest, needToPayFee).chosen
        ELSE best.chosen

\* The amounts of all payees are added up as uint64.
AmountOf(payees) == Uint(MapThenSumSet(LAMBDA i : payees[i].Value, DOMAIN payees))

chooseOutsCoinByKeyset(coins, payees, fee) ==
    LET amount == AmountOf(payees)
    IN  The({IF (coins = <<>> /\ amount > 0) \/ ~best.ok THEN [ok |-> FALSE, coins |-> <<>>]
             ELSE [ok |-> TRUE, coins |-> WithFee(best, amount, fee)] :
             best \in {chooseBestOutCoinsToSpent(coins, amount)}})

-----------------------------------------------------------------------------
\* coin.go

\* GetShardIDFromLastByte of the last byte of a key.
ShardOf(pk) == pk[<<"SK", 0>>] % 2

CommitCoin(coin) ==
    Add(CommitAll([VALUE |-> coin.Value, SND |-> coin.SNDerivator,
                   SHARDID |-> ShardOf(coin.PublicKey), RAND |-> coin.Randomness]), coin.PublicKey)

\* A coin that the owner of sk has received.
OwnCoin(sk, value, snd, rand) ==
    LET coin == [PublicKey |-> GeneratePublicKey(sk), SNDerivator |-> snd, Randomness |-> rand,
                 Value |-> value]
    IN  coin @@ [CoinCommitment |-> CommitCoin(coin), SerialNumber |-> Derive(Ped("SK"), sk, snd)]

\* OutputCoin.Encrypt and Decrypt with the receiving key rk.
EncryptCoin(coin, rk, keyPoint, k) ==
    HybridEncrypt(<<coin.Randomness, coin.Value>>, GenPubKey(rk), keyPoint, k)
DecryptCoin(cipher, rk) ==
    LET msg == HybridDecrypt(cipher, rk) IN  [Randomness |-> msg[1], Value |-> msg[2]]

\* Coin.Bytes and SetBytes: every field has its length before it, so that a
\* point that is the identity, or nil, is read back as nil.
Field(p) == <<Len(Compress(p))>> \o Compress(p)
CoinBytes(c) ==
    Field(c.PublicKey) \o Field(c.CoinCommitment) \o <<c.SNDerivator>> \o Field(c.SerialNumber)
    \o <<c.Randomness, c.Value>>

CoinSetBytes(b) ==
    LET point(at) == IF b[at] = 0 THEN Zero ELSE b[at + 1]
        a2 == 2 + b[1]
        a3 == a2 + 1 + b[a2]
        a4 == a3 + 1
        a5 == a4 + 1 + b[a4]
    IN  [PublicKey |-> point(1), CoinCommitment |-> point(a2), SNDerivator |-> b[a3],
         SerialNumber |-> point(a4), Randomness |-> b[a5], Value |-> b[a5 + 1]]

-----------------------------------------------------------------------------
\* transaction/common.go: RandomCommitmentsProcess.  db holds the commitments
\* of the shard by index; picks are the random numbers.

\* Without a commitment that is not one of the coins the loop has no end.
CanChooseRing(db, coins) ==
    \/ coins = <<>> \/ Cardinality(DOMAIN db) = 1
    \/ \E i \in DOMAIN db : \A j \in DOMAIN coins : db[i] # coins[j].CoinCommitment

IndexOf(db, cm) == CHOOSE i \in DOMAIN db : db[i] = cm

\* Mutant: the coin is put at the start of its ring, the random place noted.
RandomCommitmentsAtStart(db, coins, picks) ==
    LET others == SetToSeq({i \in DOMAIN db : \A j \in DOMAIN coins : db[i] # coins[j].CoinCommitment})
        drawn == [k \in 1 .. Len(coins) * (CMRingSize - 1) |->
                    IF Cardinality(DOMAIN db) = 1 THEN 0
                    ELSE others[((picks[1] + k * picks[2]) % Len(others)) + 1]]
        place(j) == (j - 1) * CMRingSize + ((picks[1] + j) % CMRingSize)
    IN  [indices |-> FoldLeft(LAMBDA s, j : InsertAt(s, (j - 1) * CMRingSize + 1, IndexOf(db, coins[j].CoinCommitment)),
                              drawn, [j \in DOMAIN coins |-> j]),
         mine |-> [j \in DOMAIN coins |-> place(j)]]

RandomCommitmentsProcess(db, coins, picks) ==
    LET others == SetToSeq({i \in DOMAIN db : \A j \in DOMAIN coins : db[i] # coins[j].CoinCommitment})
        drawn == [k \in 1 .. Len(coins) * (CMRingSize - 1) |->
                    IF Cardinality(DOMAIN db) = 1 THEN 0
                    ELSE others[((picks[1] + k * picks[2]) % Len(others)) + 1]]
        place(j) == (j - 1) * CMRingSize + ((picks[1] + j) % CMRingSize)
    IN  [indices |-> FoldLeft(LAMBDA s, j : InsertAt(s, place(j) + 1, IndexOf(db, coins[j].CoinCommitment)),
                              drawn, [j \in DOMAIN coins |-> j]),
         mine |-> [j \in DOMAIN coins |-> place(j)]]

\* The commitments of the ring of coin number j, from 0.
RingOf(db, indices, j) == [i \in 0 .. CMRingSize - 1 |-> db[indices[(j - 1) * CMRingSize + i + 1]]]

-----------------------------------------------------------------------------
\* payment.go: the witness.

\* Without privacy the outputs get their randomness and commitments, and
\* every input a serial number to be proved.
WitnessNoPrivacy(sk, inputs, outputs, seed) ==
    [inputs |-> inputs,
     outputs |-> [i \in DOMAIN outputs |->
        LET coin == [outputs[i] EXCEPT !.Randomness = RandScalar(seed, 40 + i)]
        IN  [coin EXCEPT !.CoinCommitment = CommitCoin(coin)]],
     sn |-> [i \in DOMAIN inputs |-> [output |-> inputs[i].SerialNumber, vKey |-> inputs[1].PublicKey,
                                      input |-> inputs[i].SNDerivator, seed |-> sk]]]

\* The commitments to the parts of the inputs and their randomness.
InputCommitments(sk, inputs, seed) ==
    LET rSK == RandScalar(seed, 41)
        rShard == RandScalar(seed, 42)
        rValue == [i \in DOMAIN inputs |-> RandScalar(seed, 50 + i)]
        rSND == [i \in DOMAIN inputs |-> RandScalar(seed, 60 + i)]
    IN  [rSK |-> rSK, rValue |-> rValue, rSND |-> rSND,
         SK |-> CommitAtIndex(sk, rSK, "SK"),
         ShardID |-> CommitAtIndex(ShardOf(GeneratePublicKey(sk)), rShard, "SHARDID"),
         Value |-> [i \in DOMAIN inputs |-> CommitAtIndex(inputs[i].Value, rValue[i], "VALUE")],
         SND |-> [i \in DOMAIN inputs |-> CommitAtIndex(inputs[i].SNDerivator, rSND[i], "SND")],
         \* randInputIsZero: what is left of the coin's randomness
         rest |-> [i \in DOMAIN inputs |->
                     (inputs[i].Randomness - rSK - rValue[i] - rSND[i] - rShard) % Q]]

CmInputSum(com, i) == Add(Add(Add(com.SK, com.Value[i]), com.SND[i]), com.ShardID)

\* Those of the outputs: the randomness of the values adds up to that of the
\* inputs, which the last output makes sure of.
OutputCommitments(outputs, rInput, seed) ==
    LET last == Len(outputs)
        rValue == [i \in DOMAIN outputs |->
            IF i < last THEN RandScalar(seed, 70 + i)
            ELSE (MapThenSumSet(LAMBDA j : rInput[j], DOMAIN rInput)
                  - MapThenSumSet(LAMBDA j : RandScalar(seed, 70 + j), 1 .. last - 1)) % Q]
        rSND == [i \in DOMAIN outputs |-> RandScalar(seed, 80 + i)]
        rShard == [i \in DOMAIN outputs |-> RandScalar(seed, 90 + i)]
        Value == [i \in DOMAIN outputs |-> CommitAtIndex(outputs[i].Value, rValue[i], "VALUE")]
        SND == [i \in DOMAIN outputs |-> CommitAtIndex(outputs[i].SNDerivator, rSND[i], "SND")]
        ShardID == [i \in DOMAIN outputs |-> CommitAtIndex(ShardOf(outputs[i].PublicKey), rShard[i], "SHARDID")]
    IN  [rValue |-> rValue, Value |-> Value, SND |-> SND, ShardID |-> ShardID,
         coins |-> [i \in DOMAIN outputs |->
             [outputs[i] EXCEPT !.Randomness = (rValue[i] + rSND[i] + rShard[i]) % Q,
                                !.CoinCommitment = Add(Add(Add(Value[i], SND[i]), outputs[i].PublicKey),
                                                       ShardID[i])]]]

-----------------------------------------------------------------------------
\* payment.go: the proof.

\* The parts that the other side of the two kinds of payment has.
NoProof == [oneOfMany |-> <<>>, serial |-> <<>>, serialNoPrivacy |-> <<>>, range |-> <<>>,
            comSK |-> <<>>, comShardID |-> <<>>, comValue |-> <<>>, comSND |-> <<>>,
            outValue |-> <<>>, outSND |-> <<>>, outShardID |-> <<>>, indices |-> <<>>]

ProveNoPrivacy(sk, inputs, outputs, seed, salt) ==
    LET wit == WitnessNoPrivacy(sk, inputs, outputs, seed)
    IN  [NoProof EXCEPT !.serialNoPrivacy = [i \in DOMAIN inputs |-> SNNoPrivacyProve(wit.sn[i], seed, salt)]]
        @@ [inputs |-> inputs, outputs |-> wit.outputs]

ProvePrivacy(sk, inputs, outputs, db, ring, seed, salt) ==
    LET in == InputCommitments(sk, inputs, seed)
        out == OutputCommitments(outputs, in.rValue, seed)
        hidden(i) == LET cms == RingOf(db, ring.indices, i)
                     IN  [j \in DOMAIN cms |-> Sub(cms[j], CmInputSum(in, i))]
    IN  [NoProof EXCEPT
            !.oneOfMany = [i \in DOMAIN inputs |->
                OneOutOfManyProve(hidden(i), in.rest[i], ring.mine[i] % CMRingSize, CMRingSizeExp, seed, salt)],
            !.serial = [i \in DOMAIN inputs |->
                SNPrivacyProve([sn |-> inputs[i].SerialNumber, comSK |-> in.SK, comInput |-> in.SND[i]],
                               [sk |-> sk, rSK |-> in.rSK, input |-> inputs[i].SNDerivator, rInput |-> in.rSND[i]],
                               seed, salt)],
            !.range = <<AggregatedRangeProve([i \in DOMAIN outputs |-> outputs[i].Value], out.rValue, seed, salt)>>,
            !.comSK = <<in.SK>>, !.comShardID = <<in.ShardID>>, !.comValue = in.Value, !.comSND = in.SND,
            !.outValue = out.Value, !.outSND = out.SND, !.outShardID = out.ShardID,
            !.indices = ring.indices]
        @@ [inputs |-> inputs, outputs |-> out.coins]

\* Verify without privacy.  int64 of a value and its absolute value are what
\* the commitment is compared with.
CoinIsCommitted(coin, shard) ==
    Add(CommitAll([VALUE |-> ToInt(coin.Value), SND |-> coin.SNDerivator, SHARDID |-> shard,
                   RAND |-> coin.Randomness]), coin.PublicKey) = coin.CoinCommitment

VerifyNoPrivacy(proof, pubKey, fee, salt) ==
    /\ \A i \in DOMAIN proof.inputs : /\ SNNoPrivacyVerify(proof.serialNoPrivacy[i], salt)
                                      /\ CoinIsCommitted(proof.inputs[i], ShardOf(pubKey))
    /\ \A i \in DOMAIN proof.outputs : CoinIsCommitted(proof.outputs[i], ShardOf(proof.outputs[i].PublicKey))
    /\ SumOf(proof.inputs) = Uint(SumOf(proof.outputs) + fee)

\* The transaction has privacy when it has a proof for an input.
IsPrivacy(proof) == proof.oneOfMany # <<>>

\* Verify with privacy.
VerifyPrivacy(proof, fee, db, salt) ==
    LET com == [SK |-> proof.comSK[1], ShardID |-> proof.comShardID[1], Value |-> proof.comValue, SND |-> proof.comSND]
    IN  /\ \A i \in DOMAIN proof.oneOfMany :
              LET cms == RingOf(db, proof.indices, i)
              IN  /\ \A j \in DOMAIN cms : IsOnCurve(cms[j])
                  /\ IsOnCurve(CmInputSum(com, i))
                  /\ OneOutOfManyVerify([j \in DOMAIN cms |-> Sub(cms[j], CmInputSum(com, i))],
                                        proof.oneOfMany[i], salt)
                  /\ SNPrivacyVerify(proof.serial[i], salt)
        /\ \A i \in DOMAIN proof.outputs :
              Add(Add(Add(proof.outputs[i].PublicKey, proof.outValue[i]), proof.outSND[i]), proof.outShardID[i])
                = proof.outputs[i].CoinCommitment
        /\ AggregatedRangeVerify(proof.range[1], salt)
        /\ Total(proof.comValue) = Add(Total(proof.outValue), ScalarMult(Ped("VALUE"), ToInt(fee)))

-----------------------------------------------------------------------------
\* txprivacy.go

\* Init: the change goes back to the sender, who is paid last.
OverBalance(coins, payees, fee) == ToInt(SumOf(coins) - AmountOf(payees) - fee)

\* Nothing to spend, no fee and no privacy: the transaction has no proof.
HasNoProof(coins, fee, hasPrivacy) == coins = <<>> /\ fee = 0 /\ ~hasPrivacy

Payments(coins, payees, fee, sk) ==
    LET over == OverBalance(coins, payees, fee)
    IN  IF over > 0 THEN Append(payees, [PublicKey |-> GeneratePublicKey(sk), Value |-> over]) ELSE payees

\* The derivators are drawn again until no two are equal and none is stored.
FreshDerivators(known, seed) ==
    FoldLeft(LAMBDA s, i : IF RandScalar(seed, i) \in known \cup Range(s) THEN s ELSE Append(s, RandScalar(seed, i)),
             <<>>, [i \in 1 .. Q |-> i])

OutputsOf(coins, payees, fee, sk, sndOuts) ==
    [i \in DOMAIN Payments(coins, payees, fee, sk) |->
        Payments(coins, payees, fee, sk)[i] @@
        [SNDerivator |-> sndOuts[i], Randomness |-> 0, CoinCommitment |-> Zero, SerialNumber |-> Zero]]

\* What comes of Init, in the order of its checks: a transaction, an error,
\* a loop without end or a panic for want of a first coin.  (Of the outputs
\* only a payee's can be 0, the change is not.)
InitOutcome(coins, payees, fee, hasPrivacy, db) ==
    LET alone == hasPrivacy /\ Cardinality(DOMAIN db) = 1
    IN  IF Len(coins) > MaxCoins \/ Len(payees) >= MaxCoins THEN "unpaid"
        ELSE IF HasNoProof(coins, fee, hasPrivacy) THEN "proved"
        ELSE IF alone /\ coins = <<>> THEN "panic"
        ELSE IF hasPrivacy /\ ~CanChooseRing(db, coins) THEN "endless"
        ELSE IF alone /\ Len(coins) # 1 THEN "unpaid"
        ELSE IF OverBalance(coins, payees, fee) < 0 THEN "unpaid"
        ELSE IF hasPrivacy /\ (\E i \in DOMAIN payees : payees[i].Value = 0) THEN "unpaid"
        ELSE IF ~hasPrivacy /\ coins = <<>> THEN "panic"
        ELSE "proved"

\* With privacy, what the others need not know is removed: of the outputs
\* value and randomness, of the inputs all but the serial number.
Hide(proof) ==
    [proof EXCEPT !.outputs = [i \in DOMAIN @ |-> [@[i] EXCEPT !.Value = 0, !.Randomness = 0, !.SerialNumber = Zero]],
                  !.inputs = [i \in DOMAIN @ |-> [@[i] EXCEPT !.CoinCommitment = Zero, !.Value = 0,
                                                 !.SNDerivator = 0, !.PublicKey = Zero, !.Randomness = 0]]]

\* validateSanityDataOfProof.
validateSanityDataOfProof(proof) ==
    /\ Len(proof.inputs) <= MaxCoins /\ Len(proof.outputs) <= MaxCoins
    /\ IF proof.range # <<>> /\ proof.oneOfMany # <<>> /\ proof.serial # <<>>
       THEN /\ AggregatedRangeSanity(proof.range[1])
            /\ \A i \in DOMAIN proof.oneOfMany : OneOutOfManySanity(proof.oneOfMany[i])
            /\ \A i \in DOMAIN proof.serial : SNPrivacySanity(proof.serial[i])
            /\ \A i \in DOMAIN proof.inputs : IsSafe(proof.inputs[i].SerialNumber)
            /\ \A i \in DOMAIN proof.outputs : /\ IsSafe(proof.outputs[i].PublicKey)
                                               /\ IsSafe(proof.outputs[i].CoinCommitment)
            /\ \A p \in Range(proof.comSK \o proof.comShardID \o proof.comValue \o proof.comSND
                              \o proof.outValue \o proof.outSND \o proof.outShardID) : IsSafe(p)
            /\ Len(proof.indices) = Len(proof.inputs) * CMRingSize
       ELSE /\ \A i \in DOMAIN proof.serialNoPrivacy : SNNoPrivacySanity(proof.serialNoPrivacy[i])
            /\ \A i \in DOMAIN proof.inputs : \A p \in {proof.inputs[i].CoinCommitment, proof.inputs[i].PublicKey,
                                                        proof.inputs[i].SerialNumber} : IsSafe(p)
            /\ \A i \in DOMAIN proof.outputs : \A p \in {proof.outputs[i].CoinCommitment,
                                                         proof.outputs[i].PublicKey} : IsSafe(p)

\* The payment proof as bytes and back, part by part; the parts have the
\* length that their lists have before them.
ThroughBytes(proof) ==
    [proof EXCEPT
        !.oneOfMany = [i \in DOMAIN @ |-> OneOutOfManySetBytes(OneOutOfManyBytes(@[i]))],
        !.serial = [i \in DOMAIN @ |-> SNPrivacySetBytes(SNPrivacyBytes(@[i]))],
        !.serialNoPrivacy = [i \in DOMAIN @ |-> SNNoPrivacySetBytes(SNNoPrivacyBytes(@[i]))],
        !.range = [i \in DOMAIN @ |-> AggregatedRangeSetBytes(AggregatedRangeBytes(@[i]))],
        !.inputs = [i \in DOMAIN @ |-> CoinSetBytes(CoinBytes(@[i]))],
        !.outputs = [i \in DOMAIN @ |-> CoinSetBytes(CoinBytes(@[i]))]]
=============================================================================
