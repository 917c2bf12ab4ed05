------------------------------- MODULE Proofs -------------------------------
(***************************************************************************)
(* A prover and a verifier, for every kind of signature, encryption and    *)
(* proof.  A job says what is to be proved; the prover makes the proof,    *)
(* which travels as bytes, and the verifier checks its sanity and verifies *)
(* it.  The jobs that end in Claim have a first message that was not made  *)
(* by Prove: the verifier's challenges are then tried one by one.          *)
(***************************************************************************)
EXTENDS Payment

CONSTANTS
    Jobs     \* what there is to prove

VARIABLES
    job,      \* the job of this behaviour
    stage,    \* how far it is: start, (chosen,) proved, then the verdict
    made,     \* what the prover has made
    answered  \* the challenges for which a claim has an answer

vars == <<job, stage, made, answered>>

Nothing == <<>>

Init == /\ job \in Jobs
        /\ stage = "start"
        /\ made = Nothing
        /\ answered = {}

Makes(kind, proof) ==
    /\ stage = "start" /\ job.kind = kind
    /\ made' = proof
    /\ stage' = "proved"
    /\ UNCHANGED <<job, answered>>

\* The identity has no bytes: a proof with such a point cannot be read.
Checks(kind, sane, valid) ==
    /\ stage = "proved" /\ job.kind = kind
    /\ stage' = IF ~sane THEN "unreadable" ELSE IF valid THEN "accepted" ELSE "rejected"
    /\ UNCHANGED <<job, made, answered>>

-----------------------------------------------------------------------------
\* Signatures and encryption.

SignSchnorr == Makes("schnorr", Sign(job.sk, job.r, job.seed, job.salt))

\* The signature is checked with a key, which may be another one.
VerifySchnorr ==
    Checks("schnorr", IsSafe(SchnPubKey(job.sk, job.r)), Verify(SchnPubKey(job.as, job.r), made, job.salt))

\* Every member of the committee signs what the members who answered agreed
\* on; the signatures are combined.
SignAll ==
    LET pk == [i \in DOMAIN job.sks |-> GeneratePublicKey(job.sks[i])]
        r == [i \in DOMAIN job.sks |-> RandScalar(job.seed, i)]
        R == [i \in DOMAIN job.sks |-> ScalarMult(Ped("SK"), r[i])]
    IN  Makes("multisig", [sig |-> CombineMultiSig([i \in DOMAIN job.sks |->
                                        SignMultiSig(job.salt, job.sks[i], pk, R, r[i])]),
                           pk |-> pk, R |-> Total(R)])

VerifyCombined ==
    Checks("multisig", IsSafe(made.sig.R),
           VerifyMultiSig(job.salt, made.sig, made.pk, made.pk, made.R))

\* The details of a coin for its receiver.
EncryptDetails ==
    Makes("coin", EncryptCoin(job.coin, job.rk, ScalarMult(Ped("SK"), job.k), RandScalar(job.seed, 1)))

DecryptDetails ==
    Checks("coin", Len(made.SymKeyEncrypted) = 2,
           DecryptCoin(made, job.rk) = [Randomness |-> job.coin.Randomness, Value |-> job.coin.Value])

-----------------------------------------------------------------------------
\* The proofs a payment is made of, each for itself.

ProveSerialNumber ==
    Makes("sn", SNPrivacyProve(
        [sn |-> Derive(Ped("SK"), job.sk, job.input),
         comSK |-> CommitAtIndex(job.sk, RandScalar(job.seed, 11), "SK"),
         comInput |-> CommitAtIndex(job.input, RandScalar(job.seed, 12), "SND")],
        [sk |-> job.sk, rSK |-> RandScalar(job.seed, 11),
         input |-> job.input, rInput |-> RandScalar(job.seed, 12)],
        job.seed, job.salt))

VerifySerialNumber ==
    LET sane == SNPrivacySanity(made)
    IN  Checks("sn", sane, sane /\ SNPrivacyVerify(SNPrivacySetBytes(SNPrivacyBytes(made)), job.salt))

\* One of the commitments, number zero, is a commitment to zero.
RingWith(rand, zero) ==
    [i \in 0 .. CMRingSize - 1 |-> CommitAtIndex(IF i = zero THEN 0 ELSE i + 1, rand, "SK")]

ProveOneOutOfMany ==
    Makes("ring", OneOutOfManyProve(RingWith(job.rand, job.zero), job.rand, job.zero,
                                    CMRingSizeExp, job.seed, job.salt))

VerifyOneOutOfMany ==
    LET sane == OneOutOfManySanity(made)
    IN  Checks("ring", sane,
               sane /\ OneOutOfManyVerify(RingWith(job.rand, job.zero),
                                          OneOutOfManySetBytes(OneOutOfManyBytes(made)), job.salt))

ProveRange ==
    Makes("range", AggregatedRangeProve(job.values, [i \in DOMAIN job.values |-> RandScalar(job.seed, 30 + i)],
                                        job.seed, job.salt))

VerifyRange ==
    LET sane == AggregatedRangeSanity(made)
    IN  Checks("range", sane,
               sane /\ AggregatedRangeVerify(AggregatedRangeSetBytes(AggregatedRangeBytes(made)), job.salt))

-----------------------------------------------------------------------------
\* A payment, from the coins of the wallet on.

OwnCoins == [i \in DOMAIN job.wallet |-> OwnCoin(job.sk, job.wallet[i], i, job.wallet[i] + i)]

\* The commitments in the database: those of the wallet and, unless the job
\* says that there is none, one of somebody else.
Stored ==
    LET others == [i \in 1 .. job.foreign |-> CommitCoin(OwnCoin(job.sk + 1, 1, 1, 1))]
        all == others \o [i \in DOMAIN job.wallet |-> OwnCoins[i].CoinCommitment]
    IN  [i \in 0 .. Len(all) - 1 |-> all[i + 1]]

\* Who is paid how much; the amounts are the job's.
Payees == [i \in DOMAIN job.payees |-> [PublicKey |-> GeneratePublicKey(job.to + i), Value |-> job.payees[i]]]

ChooseCoins ==
    /\ stage = "start" /\ job.kind = "payment"
    /\ \E own \in {OwnCoins} : \E chosen \in {chooseOutsCoinByKeyset(own, Payees, job.fee)} :
          /\ stage' = IF chosen.ok THEN "chosen" ELSE "unpaid"
          /\ made' = chosen.coins
    /\ UNCHANGED <<job, answered>>

\* Defragmentation: all coins up to a value become one, less the fee.
calculateOutputCoinsByMinValue(coins, maxVal) ==
    Those(coins, {i \in DOMAIN coins : coins[i].Value <= maxVal})

ChooseSmallCoins ==
    LET small == calculateOutputCoinsByMinValue(OwnCoins, job.maxVal)
    IN  /\ stage = "start" /\ job.kind = "defragment"
        /\ stage' = IF small # <<>> /\ SumOf(small) >= job.fee THEN "chosen" ELSE "unpaid"
        /\ made' = small
        /\ UNCHANGED <<job, answered>>

\* What is paid to whom, from the coins that were chosen.
Paid(coins) ==
    IF job.kind = "payment" THEN Payees
    ELSE <<[PublicKey |-> GeneratePublicKey(job.sk), Value |-> Uint(SumOf(coins) - job.fee)]>>

ProofOf(coins, outputs, db) ==
    IF job.hasPrivacy
    THEN Hide(ProvePrivacy(job.sk, coins, outputs, db, RandomCommitmentsProcess(db, coins, job.seed),
                           job.seed, job.salt))
    ELSE ProveNoPrivacy(job.sk, coins, outputs, job.seed, job.salt)

\* Tx.Init: the proof, and the signature over the transaction.
InitTx ==
    LET payees == Paid(made)
        outputs == IF HasNoProof(made, job.fee, job.hasPrivacy) THEN <<>>
                   ELSE OutputsOf(made, payees, job.fee, job.sk, FreshDerivators(DOMAIN job.wallet, job.seed))
        rSK == IF job.hasPrivacy THEN InputCommitments(job.sk, made, job.seed).rSK ELSE 0
    IN  /\ stage = "chosen"
        /\ \E db \in {Stored} :
              /\ stage' = InitOutcome(made, payees, job.fee, job.hasPrivacy, db)
              /\ IF stage' # "proved" THEN UNCHANGED made
                 ELSE \E outs \in {outputs} :
                        made' = [proof |-> ProofOf(made, outs, db), coins |-> made, outputs |-> outs,
                                 SigPubKey |-> SchnPubKey(job.sk, rSK),
                                 Sig |-> Sign(job.sk, rSK, job.seed, job.salt)]
        /\ UNCHANGED <<job, answered>>

\* Outputs were hidden, but the transaction does not count as one with privacy:
\* the check of their sanity asks for the randomness they no longer have.
LacksRandomness == job.hasPrivacy /\ made.coins = <<>> /\ made.outputs # <<>>

\* The sanity of the proof that has been read, the signature, the proof.
ReceiveTx ==
    LET sane == validateSanityDataOfProof(made.proof)
        proof == ThroughBytes(made.proof)
        derivators == [i \in DOMAIN made.proof.outputs |-> made.proof.outputs[i].SNDerivator]
        fresh == IsInjective(derivators) /\ Range(derivators) \cap DOMAIN job.wallet = {}
        known == \A i \in DOMAIN proof.inputs : proof.inputs[i].CoinCommitment \in Range(Stored)
    IN  /\ job.kind \in {"payment", "defragment"} /\ stage = "proved"
        /\ IF LacksRandomness THEN stage' = "panic" /\ UNCHANGED <<job, made, answered>>
           ELSE Checks(job.kind, sane /\ fresh,
                   /\ sane
                   /\ Verify(made.SigPubKey, made.Sig, job.salt)
                   /\ IF IsPrivacy(proof) THEN VerifyPrivacy(proof, job.fee, Stored, job.salt)
                      ELSE known /\ VerifyNoPrivacy(proof, made.SigPubKey, job.fee, job.salt))

-----------------------------------------------------------------------------
\* Claims: the first messages, without blinding, are what job says; for a
\* challenge there is one answer that could be right.

Answer(kind, accepts) ==
    \E x \in 1 .. Q - 1 :
        /\ job.kind = kind /\ stage = "start"
        /\ x \notin answered /\ accepts[x]
        /\ Cardinality(answered) < 2
        /\ answered' = answered \cup {x}
        /\ UNCHANGED <<job, stage, made>>

AnswerSerialNoPrivacy ==
    Answer("serialClaim", [x \in 1 .. Q - 1 |->
        AcceptsSNNoPrivacy([output |-> ScalarMult(Ped("SK"), job.o), vKey |-> GeneratePublicKey(job.sk),
                            input |-> job.input, tSeed |-> ScalarMult(Ped("SK"), job.t),
                            tOutput |-> ScalarMult(Ped("SK"), job.t2),
                            zSeed |-> (job.sk * x + job.t) % Q], x)])

AnswerSerial ==
    Answer("committedClaim", [x \in 1 .. Q - 1 |->
        AcceptsSNPrivacy([sn |-> ScalarMult(Ped("SK"), job.o), comSK |-> CommitAtIndex(job.sk, 0, "SK"),
                          comInput |-> CommitAtIndex(job.input, 0, "SND"),
                          tSK |-> CommitAtIndex(job.t, 0, "SK"), tInput |-> CommitAtIndex(0, 0, "SND"),
                          tSN |-> ScalarMult(Ped("SK"), job.t2),
                          zSK |-> (job.sk * x + job.t) % Q, zRSK |-> 0,
                          zInput |-> (job.input * x) % Q, zRInput |-> 0], x)])

\* A ring of two, cms[0] and cms[1]; the bit is claimed to be l.
AnswerRing ==
    Answer("ringClaim", [x \in 1 .. Q - 1 |->
        AcceptsOneOutOfMany([i \in {0, 1} |-> CommitAtIndex(job.cms[i], 0, "SK")],
            [cl |-> <<CommitAtIndex(job.l, 0, "SK")>>, ca |-> <<Zero>>,
             cb |-> <<CommitAtIndex(job.b, 0, "SK")>>, cd |-> <<CommitAtIndex(job.d, 0, "SK")>>,
             f |-> <<(job.l * x) % Q>>, za |-> <<0>>, zb |-> <<0>>, zd |-> 0], x)])

Next == \/ SignSchnorr \/ VerifySchnorr
        \/ SignAll \/ VerifyCombined
        \/ EncryptDetails \/ DecryptDetails
        \/ ProveSerialNumber \/ VerifySerialNumber
        \/ ProveOneOutOfMany \/ VerifyOneOutOfMany
        \/ ProveRange \/ VerifyRange
        \/ ChooseCoins \/ ChooseSmallCoins \/ InitTx \/ ReceiveTx
        \/ AnswerSerialNoPrivacy \/ AnswerSerial \/ AnswerRing

Spec == Init /\ [][Next]_vars

-----------------------------------------------------------------------------
Value(values) == MapThenSumSet(LAMBDA i : values[i], DOMAIN values)
ValuesOf(coins) == Value([i \in DOMAIN coins |-> coins[i].Value])

\* Amounts and fee together are below 2^63, what int64 can hold; a wallet
\* always is.
Fits == job.kind = "payment" => Value(job.payees) + job.fee < 2 ^ (MaxExp - 1)

\* What is proved by Prove, signed by Sign or encrypted by Encrypt is accepted
\* after it has been written to bytes and read back; a signature is accepted
\* under the key it was made with and no other.  Two payments are built and may
\* then be rejected: one of more than int64 holds (the sums of Init wrap,
\* txprivacy.go:165-178), and one with privacy whose coins are all for the fee,
\* as there is no last output to balance their randomness (payment.go:580-583).
ProofsAreComplete ==
    IF job.kind = "schnorr"
    THEN /\ stage = "rejected" => job.sk # job.as
         /\ stage = "accepted" => (job.sk = job.as)
    ELSE stage = "rejected" =>
            job.kind = "payment" /\ (~Fits \/ (job.hasPrivacy /\ made.outputs = <<>>))

\* Whoever can answer two challenges for one first message has told the
\* truth: the serial number is the one of the key and the derivator, and one
\* of the commitments is a commitment to zero.
ProofsAreSound ==
    Cardinality(answered) > 1 =>
        CASE job.kind \in {"serialClaim", "committedClaim"} -> (job.o * (job.sk + job.input)) % Q = 1
          [] job.kind = "ringClaim" -> \E i \in {0, 1} : job.cms[i] = 0

\* An accepted payment spends coins of the wallet, each at most once, and gives
\* the payees what was asked.
PaysAsAsked ==
    /\ IsInjective(made.coins) /\ Range(made.coins) \subseteq Range(OwnCoins)
    /\ job.kind = "payment" /\ (Fits \/ made.coins # <<>>) =>
          \A i \in DOMAIN Payees : /\ made.outputs[i].PublicKey = Payees[i].PublicKey
                                    /\ made.outputs[i].Value = Payees[i].Value
    /\ job.kind = "defragment" =>
          /\ Len(made.outputs) = 1 /\ made.outputs[1].PublicKey = GeneratePublicKey(job.sk)
          /\ \A i \in DOMAIN OwnCoins : OwnCoins[i].Value <= job.maxVal => OwnCoins[i] \in Range(made.coins)

\* Why there may be no transaction: the wallet has too little, the coins or the
\* payees are too many, or a defragmentation leaves nothing to hide.
MayRefuse ==
    \/ Len(made) > MaxCoins
    \/ IF job.kind = "payment" THEN Value(job.wallet) < Value(job.payees) + job.fee \/ Len(job.payees) >= MaxCoins
       ELSE SumOf(made) < job.fee \/ made = <<>> \/ (job.hasPrivacy /\ SumOf(made) = job.fee)

\* With privacy, what an accepted payment spends is exactly what its outputs
\* and the fee amount to; without, where the verifier adds up uint64 unchecked
\* (payment.go:703-756), exactly when the amounts fit int64 and modulo 2^64 in
\* any case: a coin of 5 buys two payments of 7 and a change of 7 when numbers
\* have four bits.  The same for a defragmentation, which leaves one coin in
\* the place of all small ones.  A payment that fits is refused for a reason,
\* looks for a ring without end only if every commitment in the database is
\* being spent (transaction/common.go:77-92), and panics only for want of a
\* coin where the only commitment is somebody's.
PaymentsAreExact ==
    job.kind \in {"payment", "defragment"} =>
        /\ stage = "accepted" =>
              /\ PaysAsAsked
              /\ IF Fits \/ job.hasPrivacy THEN ValuesOf(made.coins) = ValuesOf(made.outputs) + job.fee
                 ELSE SumOf(made.coins) = Uint(SumOf(made.outputs) + job.fee)
        /\ stage = "unpaid" /\ Fits => MayRefuse
        /\ stage = "endless" => /\ job.hasPrivacy /\ job.foreign = 0 /\ Len(made) > 1
                                /\ Range(made) = Range(OwnCoins)
        /\ stage = "panic" /\ Fits => job.hasPrivacy /\ made = <<>> /\ Len(job.wallet) + job.foreign = 1
=============================================================================
