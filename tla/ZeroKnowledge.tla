--------------------------- MODULE ZeroKnowledge ---------------------------
(***************************************************************************)
(* The proofs that a payment is made of: that a serial number belongs to a *)
(* key and a derivator (with and without privacy), that one of several     *)
(* commitments is a commitment to zero, and that committed values are in   *)
(* range.                                                                  *)
(*                                                                         *)
(* A verification is split into the challenge, which is a hash of the      *)
(* first messages, and the equations for it (Accepts...): what a verifier  *)
(* learns is about the challenges for which there is an answer.            *)
(***************************************************************************)
EXTENDS Curve, SequencesExt

CONSTANTS
    CMRingSizeExp,   \* the ring has 2 ^ CMRingSizeExp commitments
    MaxExp           \* bits of a value

ASSUME ZeroKnowledgeAssumption == CMRingSizeExp \in Nat \ {0} /\ MaxExp \in Nat \ {0}

CMRingSize == 2 ^ CMRingSizeExp

generateChallenge(salt, points) == Hash(salt, points)

-----------------------------------------------------------------------------
\* snnoprivacy.go: vKey = sk * G and output = (sk + input)^-1 * G.

SNNoPrivacyProve(stmt, seed, salt) ==
    LET e == RandScalar(seed, 1)
        tSeed == ScalarMult(Ped("SK"), e)
        tOutput == ScalarMult(stmt.output, e)
        x == generateChallenge(salt, <<tSeed, tOutput>>)
    IN  [output |-> stmt.output, vKey |-> stmt.vKey, input |-> stmt.input,
         tSeed |-> tSeed, tOutput |-> tOutput, zSeed |-> (stmt.seed * x + e) % Q]

AcceptsSNNoPrivacy(proof, x) ==
    /\ ScalarMult(Ped("SK"), proof.zSeed) = Add(ScalarMult(proof.vKey, x), proof.tSeed)
    /\ ScalarMult(proof.output, proof.zSeed + x * proof.input)
          = Add(ScalarMult(Ped("SK"), x), proof.tOutput)

SNNoPrivacyVerify(proof, salt) ==
    AcceptsSNNoPrivacy(proof, generateChallenge(salt, <<proof.tSeed, proof.tOutput>>))

SNNoPrivacySanity(proof) ==
    \A p \in {proof.output, proof.vKey, proof.tSeed, proof.tOutput} : IsSafe(p)

SNNoPrivacyBytes(proof) ==
    Compress(proof.output) \o Compress(proof.vKey) \o <<proof.input>>
    \o Compress(proof.tSeed) \o Compress(proof.tOutput) \o <<proof.zSeed>>

SNNoPrivacySetBytes(bytes) ==
    [output |-> bytes[1], vKey |-> bytes[2], input |-> bytes[3],
     tSeed |-> bytes[4], tOutput |-> bytes[5], zSeed |-> bytes[6]]

-----------------------------------------------------------------------------
\* snprivacy.go: the same for a key and a derivator that are committed.

SNPrivacyProve(stmt, wit, seed, salt) ==
    LET eSK == RandScalar(seed, 1)
        eSND == RandScalar(seed, 2)
        dSK == RandScalar(seed, 3)
        dSND == RandScalar(seed, 4)
        tSK == CommitAtIndex(eSK, dSK, "SK")
        tInput == CommitAtIndex(eSND, dSND, "SND")
        tSN == ScalarMult(stmt.sn, eSK + eSND)
        x == generateChallenge(salt, <<tSK, tInput, tSN>>)
    IN  [sn |-> stmt.sn, comSK |-> stmt.comSK, comInput |-> stmt.comInput,
         tSK |-> tSK, tInput |-> tInput, tSN |-> tSN,
         zSK |-> (wit.sk * x + eSK) % Q, zRSK |-> (wit.rSK * x + dSK) % Q,
         zInput |-> (wit.input * x + eSND) % Q, zRInput |-> (wit.rInput * x + dSND) % Q]

AcceptsSNPrivacy(proof, x) ==
    /\ CommitAtIndex(proof.zInput, proof.zRInput, "SND")
          = Add(ScalarMult(proof.comInput, x), proof.tInput)
    /\ CommitAtIndex(proof.zSK, proof.zRSK, "SK") = Add(ScalarMult(proof.comSK, x), proof.tSK)
    /\ ScalarMult(proof.sn, proof.zSK + proof.zInput)
          = Add(ScalarMult(Ped("SK"), x), proof.tSN)

SNPrivacyVerify(proof, salt) ==
    AcceptsSNPrivacy(proof, generateChallenge(salt, <<proof.tSK, proof.tInput, proof.tSN>>))

SNPrivacySanity(proof) ==
    \A p \in {proof.sn, proof.comSK, proof.comInput, proof.tSK, proof.tInput, proof.tSN} : IsSafe(p)

SNPrivacyBytes(proof) ==
    Compress(proof.sn) \o Compress(proof.comSK) \o Compress(proof.comInput)
    \o Compress(proof.tSK) \o Compress(proof.tInput) \o Compress(proof.tSN)
    \o <<proof.zSK, proof.zRSK, proof.zInput, proof.zRInput>>

SNPrivacySetBytes(b) ==
    [sn |-> b[1], comSK |-> b[2], comInput |-> b[3], tSK |-> b[4], tInput |-> b[5], tSN |-> b[6],
     zSK |-> b[7], zRSK |-> b[8], zInput |-> b[9], zRInput |-> b[10]]

-----------------------------------------------------------------------------
\* oneoutofmany.go.  The commitments are numbered from 0, bits from 1.

ConvertIntToBinary(n, bits) == [j \in 1 .. bits |-> (n \div 2 ^ (j - 1)) % 2]

\* polynomials.go: the coefficient of x^k is at k + 1.
PolyMul(p, r) ==
    [d \in 1 .. Len(p) + Len(r) - 1 |->
        ScalarSum({i \in DOMAIN p : d + 1 - i \in DOMAIN r}, LAMBDA i : p[i] * r[d + 1 - i])]

\* The polynomial of the commitment whose number has these bits.
RingPoly(iBinary, a, l) ==
    FoldLeft(LAMBDA p, j : PolyMul(p, IF iBinary[j] = 0 THEN <<(-a[j]) % Q, (1 - l[j]) % Q>>
                                                        ELSE <<a[j], l[j]>>),
             <<1>>, [j \in DOMAIN a |-> j])

GetCoefficient(iBinary, k, a, l) ==
    LET p == RingPoly(iBinary, a, l) IN  IF k + 1 > Len(p) THEN 0 ELSE p[k + 1]

OneOutOfManyProve(commitments, rand, indexIsZero, n, seed, salt) ==
    LET l == ConvertIntToBinary(indexIsZero, n)
        rnd(i) == [j \in 1 .. n |-> RandScalar(seed, 5 * j + i)]
        r == rnd(1)
        a == rnd(2)
        s == rnd(3)
        t == rnd(4)
        u == rnd(5)
        cl == [j \in 1 .. n |-> CommitAtIndex(l[j], r[j], "SK")]
        ca == [j \in 1 .. n |-> CommitAtIndex(a[j], s[j], "SK")]
        cb == [j \in 1 .. n |-> CommitAtIndex(l[j] * a[j], t[j], "SK")]
        cd == [k \in 1 .. n |->
                 Add(PointSum(DOMAIN commitments, LAMBDA i : ScalarMult(commitments[i],
                                 GetCoefficient(ConvertIntToBinary(i, n), k - 1, a, l))),
                     CommitAtIndex(0, u[k], "SK"))]
        x == generateChallenge(salt, cl \o ca \o cb \o cd)
        f == [j \in 1 .. n |-> (l[j] * x + a[j]) % Q]
    IN  [cl |-> cl, ca |-> ca, cb |-> cb, cd |-> cd, f |-> f,
         za |-> [j \in 1 .. n |-> (r[j] * x + s[j]) % Q],
         zb |-> [j \in 1 .. n |-> (r[j] * (x - f[j]) + t[j]) % Q],
         zd |-> (rand * x ^ n - MapThenSumSet(LAMBDA k : u[k] * x ^ (k - 1), 1 .. n)) % Q]

\* Mutant: the bits of the index are not checked.
AcceptsAnyBits(commitments, proof, x) ==
    \A j \in DOMAIN proof.cl :
        Add(ScalarMult(proof.cl[j], x), proof.ca[j]) = CommitAtIndex(proof.f[j], proof.za[j], "SK")

\* cl commits to bits.
AcceptsBits(commitments, proof, x) ==
    \A j \in DOMAIN proof.cl :
        /\ Add(ScalarMult(proof.cl[j], x), proof.ca[j]) = CommitAtIndex(proof.f[j], proof.za[j], "SK")
        /\ Add(ScalarMult(proof.cl[j], (x - proof.f[j]) % Q), proof.cb[j])
              = CommitAtIndex(0, proof.zb[j], "SK")

\* The commitment that the bits select is one to zero.
AcceptsSelected(commitments, proof, x) ==
    LET n == Len(proof.cl)
        factor(i) == LET bits == ConvertIntToBinary(i, n)
                     IN  FoldLeft(LAMBDA e, j : (e * (IF bits[j] = 1 THEN proof.f[j] ELSE x - proof.f[j])) % Q,
                                  1, [j \in 1 .. n |-> j])
    IN  Add(PointSum(DOMAIN commitments, LAMBDA i : ScalarMult(commitments[i], factor(i))),
            PointSum(1 .. n, LAMBDA k : ScalarMult(proof.cd[k], Q - (x ^ (k - 1) % Q))))
          = CommitAtIndex(0, proof.zd, "SK")

AcceptsOneOutOfMany(commitments, proof, x) ==
    /\ AcceptsBits(commitments, proof, x)
    /\ AcceptsSelected(commitments, proof, x)

OneOutOfManyVerify(commitments, proof, salt) ==
    AcceptsOneOutOfMany(commitments, proof,
                        generateChallenge(salt, proof.cl \o proof.ca \o proof.cb \o proof.cd))

OneOutOfManySanity(proof) ==
    \A p \in Range(proof.cl \o proof.ca \o proof.cb \o proof.cd) : IsSafe(p)

OneOutOfManyBytes(proof) ==
    FlattenSeq([i \in DOMAIN proof.cl |-> Compress(proof.cl[i])])
    \o FlattenSeq([i \in DOMAIN proof.ca |-> Compress(proof.ca[i])])
    \o FlattenSeq([i \in DOMAIN proof.cb |-> Compress(proof.cb[i])])
    \o FlattenSeq([i \in DOMAIN proof.cd |-> Compress(proof.cd[i])])
    \o proof.f \o proof.za \o proof.zb \o <<proof.zd>>

\* Every part but the last is as long as the index has bits.
OneOutOfManySetBytes(bytes) ==
    LET part(i) == SubSeq(bytes, (i - 1) * CMRingSizeExp + 1, i * CMRingSizeExp)
    IN  [cl |-> part(1), ca |-> part(2), cb |-> part(3), cd |-> part(4),
         f |-> part(5), za |-> part(6), zb |-> part(7), zd |-> bytes[7 * CMRingSizeExp + 1]]
=============================================================================
