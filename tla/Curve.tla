------------------------------- MODULE Curve -------------------------------
(***************************************************************************)
(* Points of the curve, keys, signatures and encryption.                   *)
(*                                                                         *)
(* The generators are independent, so a point is the function of its       *)
(* exponents, modulo the (prime) order Q of the group.  The hash is some   *)
(* function of what is hashed; salt stands for the rest of the transcript  *)
(* and takes every value, so every challenge occurs.  Randomness is a      *)
(* stream of scalars that a seed determines.                               *)
(***************************************************************************)
EXTENDS Integers, Sequences, FiniteSets, FiniteSetsExt

CONSTANTS
    Q,              \* Curve.Params().N
    VectorLength    \* generators of each of the two vectors of a range proof

ASSUME CurveAssumption == Q \in Nat /\ Q > 2 /\ VectorLength \in Nat

Scalar == 0 .. Q - 1

\* The element of a set that has one.
The(S) == CHOOSE x \in S : TRUE

\* newPedersenParams and newBulletproofParams.
Gen == ({"SK", "VALUE", "SND", "SHARDID", "RAND", "U"} \X {0})
       \cup ({"G", "H"} \X (1 .. VectorLength))

Zero == [g \in Gen |-> 0]
Base(name, i) == [Zero EXCEPT ![<<name, i>>] = 1]
Ped(name) == Base(name, 0)

-----------------------------------------------------------------------------
\* ec.go

\* The point (0, 0) is the identity and is not on the curve; the order of
\* every other point is Q, which is odd.
IsOnCurve(p) == p # Zero
IsSafe(p) == IsOnCurve(p)

Add(p, r) == [g \in Gen |-> (p[g] + r[g]) % Q]

\* factor.Bytes() is the absolute value.
Abs(n) == IF n < 0 THEN -n ELSE n
ScalarMult(p, n) == [g \in Gen |-> (p[g] * Abs(n)) % Q]

\* Inverse fails, and with it Sub, for a point that is not on the curve.
InversePoint(p) == [g \in Gen |-> (-p[g]) % Q]
Sub(p, r) == Add(p, InversePoint(r))

\* Bytes of points and scalars are sequences of them: the identity has none.
Compress(p) == IF IsOnCurve(p) THEN <<p>> ELSE <<>>

ModInverse(n) == CHOOSE m \in Scalar : (n * m) % Q = 1

Derive(p, seed, derivator) == ScalarMult(p, ModInverse(seed + derivator))

PointSum(S, Of(_)) == MapThenFoldSet(Add, Zero, Of, LAMBDA T : CHOOSE t \in T : TRUE, S)
ScalarSum(S, Of(_)) == MapThenSumSet(Of, S) % Q

-----------------------------------------------------------------------------
\* pedersen.go

CommitAtIndex(value, rand, name) == Add(ScalarMult(Ped("RAND"), rand), ScalarMult(Ped(name), value))

CommitAll(openings) ==
    PointSum(DOMAIN openings, LAMBDA name : ScalarMult(Ped(name), openings[name]))

-----------------------------------------------------------------------------
\* The hash and the source of randomness.

RandScalar(seed, i) == (seed[1] * i * i + seed[2] * i + 1) % Q

Exponents(p) == MapThenSumSet(LAMBDA g : p[g], Gen)

\* Never zero: a multiple of Q among the hashes is as unlikely as a collision.
Hash(salt, points) ==
    1 + ((salt + MapThenSumSet(LAMBDA i : i * Exponents(points[i]), DOMAIN points)) % (Q - 1))

-----------------------------------------------------------------------------
\* key.go and elgamal.go

GeneratePublicKey(sk) == ScalarMult(Ped("SK"), sk)
GenPubKey(x) == ScalarMult(Ped("SK"), x)

Encrypt(H, plaintext, k) ==
    [C1 |-> ScalarMult(Ped("SK"), k), C2 |-> Add(plaintext, ScalarMult(H, k))]

\* Bytes and SetBytes of a ciphertext: nothing is written when C1 is the
\* identity, and nothing is read when there is nothing.
CiphertextBytes(c) == IF c.C1 = Zero THEN <<>> ELSE Compress(c.C1) \o Compress(c.C2)
CiphertextSetBytes(bytes) == [C1 |-> bytes[1], C2 |-> bytes[2]]

Decrypt(x, c) == Sub(c.C2, ScalarMult(c.C1, x))

\* hybridencryption.go: the key of AES is the abscissa of a random point,
\* which it shares with its inverse; AES itself returns what it was given
\* under the same key.
Abscissa(p) == {p, InversePoint(p)}

HybridEncrypt(msg, H, keyPoint, k) ==
    [SymKeyEncrypted |-> CiphertextBytes(Encrypt(H, keyPoint, k)),
     MsgEncrypted |-> <<Abscissa(keyPoint), msg>>]

HybridDecrypt(c, x) ==
    LET key == Abscissa(Decrypt(x, CiphertextSetBytes(c.SymKeyEncrypted)))
    IN  IF c.MsgEncrypted[1] = key THEN c.MsgEncrypted[2] ELSE <<>>

-----------------------------------------------------------------------------
\* schnorr.go: no second response without privacy, which is when r is 0.

SchnPubKey(sk, r) == Add(ScalarMult(Ped("SK"), sk), ScalarMult(Ped("RAND"), r))

Sign(sk, r, seed, salt) ==
    LET s1 == RandScalar(seed, 1)
        s2 == IF r # 0 THEN RandScalar(seed, 2) ELSE 0
        E == Hash(salt, <<CommitAtIndex(s1, s2, "SK")>>)
    IN  [E |-> E, Z1 |-> (s1 - sk * E) % Q, Z2 |-> (s2 - r * E) % Q]

Verify(PK, sig, salt) ==
    sig.E = Hash(salt, <<Add(CommitAtIndex(sig.Z1, sig.Z2, "SK"), ScalarMult(PK, sig.E))>>)

-----------------------------------------------------------------------------
\* schnorrmultisig.go: keys are points, in sequences.

Total(points) == PointSum(DOMAIN points, LAMBDA i : points[i])

\* generateCommonParams: C is not hashed but is made of all these bytes.
Weight(salt, aggKey, pk) == Hash(salt, <<Add(aggKey, pk)>>)
Weighted(salt, aggKey, keys) ==
    PointSum(DOMAIN keys, LAMBDA i : ScalarMult(keys[i], Weight(salt, aggKey, keys[i])))

generateCommonParams(salt, commonPK, combinePK, R) ==
    LET agg == Total(commonPK)
        all == Weighted(salt, agg, commonPK)
    IN  [agg |-> agg,
         C |-> Hash(salt, <<all, R>>),
         X |-> IF Len(commonPK) > Len(combinePK) THEN Weighted(salt, agg, combinePK) ELSE all]

SignMultiSig(salt, sk, listPK, listR, r) ==
    LET common == generateCommonParams(salt, listPK, listPK, Total(listR))
    IN  [R |-> ScalarMult(Ped("SK"), r),
         S |-> (Weight(salt, common.agg, GeneratePublicKey(sk)) * common.C * sk + r) % Q]

VerifyMultiSig(salt, sig, commonPK, combinePK, RCombine) ==
    LET common == generateCommonParams(salt, commonPK, combinePK, RCombine)
    IN  ScalarMult(Ped("SK"), sig.S) = Add(ScalarMult(common.X, common.C), sig.R)

CombineMultiSig(sigs) ==
    [R |-> PointSum(DOMAIN sigs, LAMBDA i : sigs[i].R),
     S |-> ScalarSum(DOMAIN sigs, LAMBDA i : sigs[i].S)]
=============================================================================
