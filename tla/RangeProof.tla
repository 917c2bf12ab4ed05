----------------------------- MODULE RangeProof -----------------------------
(***************************************************************************)
(* The aggregated range proof: committed values have at most MaxExp bits.  *)
(* The two vectors of the proof are not sent; an inner product argument    *)
(* that halves them round by round takes their place.                      *)
(***************************************************************************)
EXTENDS ZeroKnowledge

-----------------------------------------------------------------------------
\* aggregaterange_utils.go, vectors as sequences.

\* 1, 2 and the powers of two from 4 on.
pad(num) == IF num \in {1, 2} THEN num ELSE CHOOSE p \in {2 ^ k : k \in 2 .. num + 2} :
                /\ p >= num
                /\ \A k \in 2 .. num + 2 : 2 ^ k >= num => p <= 2 ^ k

vectorAdd(a, b) == [i \in DOMAIN a |-> (a[i] + b[i]) % Q]
vectorAddScalar(v, s) == [i \in DOMAIN v |-> (v[i] + s) % Q]
vectorMulScalar(v, s) == [i \in DOMAIN v |-> (v[i] * s) % Q]
innerProduct(a, b) == ScalarSum(DOMAIN a, LAMBDA i : a[i] * b[i])
hadamardProduct(a, b) == [i \in DOMAIN a |-> (a[i] * b[i]) % Q]
powerVector(base, n) ==
    LET power[i \in 1 .. n] == IF i = 1 THEN 1 ELSE (power[i - 1] * base) % Q IN  power

\* aggregaterangeparams.go
EncodeVectors(a, b, g, h) ==
    PointSum(DOMAIN a, LAMBDA i : Add(ScalarMult(g[i], a[i]), ScalarMult(h[i], b[i])))

AggParam(length) == [G |-> [i \in 1 .. length |-> Base("G", i)],
                     H |-> [i \in 1 .. length |-> Base("H", i)],
                     U |-> Ped("U")]

generateChallengeForAggRange(salt, points) == Hash(salt, points)

-----------------------------------------------------------------------------
\* The inner product argument.

Half(v, k) == LET n == Len(v) \div 2 IN  SubSeq(v, (k - 1) * n + 1, k * n)

\* The generators of the next round.
FoldG(G, x) == LET y == ModInverse(x) IN
    [i \in DOMAIN Half(G, 1) |-> Add(ScalarMult(Half(G, 1)[i], y), ScalarMult(Half(G, 2)[i], x))]
FoldH(H, x) == FoldG(H, ModInverse(x))

FoldP(p, L, R, x) ==
    Add(Add(ScalarMult(L, x * x), p), ScalarMult(R, ModInverse(x * x % Q)))

Rounds(length) == CHOOSE k \in 0 .. length : 2 ^ k = length

\* One round of InnerProductWitness.Prove: L and R, and the two halves folded
\* into one for the challenge x that they are made of.
CrossTerms(s) ==
    [L |-> Add(EncodeVectors(Half(s.a, 1), Half(s.b, 2), Half(s.G, 2), Half(s.H, 1)),
               ScalarMult(Ped("U"), innerProduct(Half(s.a, 1), Half(s.b, 2)))),
     R |-> Add(EncodeVectors(Half(s.a, 2), Half(s.b, 1), Half(s.G, 1), Half(s.H, 2)),
               ScalarMult(Ped("U"), innerProduct(Half(s.a, 2), Half(s.b, 1))))]

Folded(s, m, x) ==
    LET y == ModInverse(x)
    IN  [a |-> vectorAdd(vectorMulScalar(Half(s.a, 1), x), vectorMulScalar(Half(s.a, 2), y)),
         b |-> vectorAdd(vectorMulScalar(Half(s.b, 1), y), vectorMulScalar(Half(s.b, 2), x)),
         G |-> FoldG(s.G, x), H |-> FoldH(s.H, x), p |-> FoldP(s.p, m.L, m.R, x),
         l |-> Append(s.l, m.L), r |-> Append(s.r, m.R)]

ProveRound(s, salt) ==
    The({Folded(s, m, generateChallengeForAggRange(salt, <<s.p, m.L, m.R>>)) : m \in {CrossTerms(s)}})

InnerProductProve(a, b, p, param, salt) ==
    LET start == [a |-> a, b |-> b, G |-> param.G, H |-> param.H, p |-> p, l |-> <<>>, r |-> <<>>]
        end == FoldLeft(LAMBDA s, i : ProveRound(s, salt), start, [i \in 1 .. Rounds(Len(a)) |-> i])
    IN  [l |-> end.l, r |-> end.r, a |-> end.a[1], b |-> end.b[1], p |-> p]

\* One round of InnerProductProof.Verify.
VerifyRound(s, proof, i, salt) ==
    LET x == generateChallengeForAggRange(salt, <<s.p, proof.l[i], proof.r[i]>>)
    IN  [G |-> FoldG(s.G, x), H |-> FoldH(s.H, x), p |-> FoldP(s.p, proof.l[i], proof.r[i], x)]

InnerProductVerify(proof, param, salt) ==
    LET start == [G |-> param.G, H |-> param.H, p |-> proof.p]
        end == FoldLeft(LAMBDA s, i : VerifyRound(s, proof, i, salt), start, [i \in DOMAIN proof.l |-> i])
    IN  end.p = Add(Add(ScalarMult(end.G[1], proof.a), ScalarMult(end.H[1], proof.b)),
                    ScalarMult(param.U, proof.a * proof.b))

-----------------------------------------------------------------------------
\* aggregaterange.go.  Values and their randomness are filled up with zeros.

Padded(v) == [i \in 1 .. pad(Len(v)) |-> IF i <= Len(v) THEN v[i] ELSE 0]

\* The bits of all values, one value after the other.
Bits(values) == [k \in 1 .. MaxExp * Len(values) |->
    ConvertIntToBinary(values[((k - 1) \div MaxExp) + 1], MaxExp)[((k - 1) % MaxExp) + 1]]

\* 2^n times z^2 for the first value, z^3 for the second and so on.
WeightsOf(z, m) == [k \in 1 .. MaxExp * m |->
    (2 ^ ((k - 1) % MaxExp) * z ^ (2 + ((k - 1) \div MaxExp))) % Q]

\* The vectors l(X) and r(X), and the blinding values.
Vectors(values, seed) ==
    LET aL == Bits(values)
        rnd(i) == [k \in DOMAIN aL |-> RandScalar(seed, 2 * k + i)]
    IN  [aL |-> aL, aR |-> vectorAddScalar(aL, Q - 1), sL |-> rnd(7), sR |-> rnd(8),
         alpha |-> RandScalar(seed, 1), rho |-> RandScalar(seed, 2),
         tau1 |-> RandScalar(seed, 3), tau2 |-> RandScalar(seed, 4)]

\* l(X) = l0 + l1 * X and r(X) = r0 + r1 * X, and the commitments to the
\* coefficients of their inner product.
Polynomials(w, y, z) ==
    LET n == Len(w.aL)
        l0 == vectorAddScalar(w.aL, -z)
        l1 == w.sL
        r0 == vectorAdd(hadamardProduct(powerVector(y, n), vectorAddScalar(w.aR, z)),
                        WeightsOf(z, n \div MaxExp))
        r1 == hadamardProduct(powerVector(y, n), w.sR)
    IN  [l0 |-> l0, l1 |-> l1, r0 |-> r0, r1 |-> r1,
         T1 |-> CommitAtIndex((innerProduct(l1, r0) + innerProduct(l0, r1)) % Q, w.tau1, "VALUE"),
         T2 |-> CommitAtIndex(innerProduct(l1, r1), w.tau2, "VALUE")]

\* What is opened at the challenge x: the vectors l and r in an inner product
\* argument, and the blinding values.
Opening(w, rands, z, x, l, r, param, salt) ==
    LET tHat == innerProduct(l, r)
    IN  [tHat |-> tHat,
         tauX |-> (w.tau2 * x * x + w.tau1 * x
                   + MapThenSumSet(LAMBDA j : z ^ (j + 1) * rands[j], DOMAIN rands)) % Q,
         mu |-> (w.rho * x + w.alpha) % Q,
         ip |-> InnerProductProve(l, r,
                    Add(EncodeVectors(l, r, param.G, param.H), ScalarMult(param.U, tHat)), param, salt)]

\* The first message is A and S, which the challenges y and z are made of, the
\* second one T1 and T2, which x is made of.
OpenAt(w, rands, A, S, z, poly, param, salt) ==
    LET x == generateChallengeForAggRange(salt, <<A, S, poly.T1, poly.T2>>)
    IN  [a |-> A, s |-> S, t1 |-> poly.T1, t2 |-> poly.T2]
        @@ Opening(w, rands, z, x, vectorAdd(poly.l0, vectorMulScalar(poly.l1, x)),
                   vectorAdd(poly.r0, vectorMulScalar(poly.r1, x)), param, salt)

CommitPolynomials(w, rands, A, S, param, salt) ==
    LET y == generateChallengeForAggRange(salt, <<A, S>>)
        z == generateChallengeForAggRange(salt + y, <<A, S>>)
    IN  OpenAt(w, rands, A, S, z, Polynomials(w, y, z), param, salt)

CommitVectors(w, rands, param, salt) ==
    CommitPolynomials(w, rands,
        Add(EncodeVectors(w.aL, w.aR, param.G, param.H), ScalarMult(Ped("RAND"), w.alpha)),
        Add(EncodeVectors(w.sL, w.sR, param.G, param.H), ScalarMult(Ped("RAND"), w.rho)), param, salt)

AggregatedRangeProve(value, rand, seed, salt) ==
    LET values == Padded(value)
    IN  [cmsValue |-> [i \in DOMAIN value |-> CommitAtIndex(value[i], rand[i], "VALUE")]]
        @@ CommitVectors(Vectors(values, seed), Padded(rand), AggParam(MaxExp * Len(values)), salt)

deltaYZ(y, z, m) ==
    ((z - z * z) * ScalarSum(1 .. MaxExp * m, LAMBDA i : powerVector(y, MaxExp * m)[i])
     - (2 ^ MaxExp - 1) * ScalarSum(1 .. m, LAMBDA j : z ^ (j + 2))) % Q

AggregatedRangeVerify(proof, salt) ==
    LET m == pad(Len(proof.cmsValue))
        cms == [i \in 1 .. m |-> IF i <= Len(proof.cmsValue) THEN proof.cmsValue[i] ELSE Zero]
        y == generateChallengeForAggRange(salt, <<proof.a, proof.s>>)
        z == generateChallengeForAggRange(salt + y, <<proof.a, proof.s>>)
        x == generateChallengeForAggRange(salt, <<proof.a, proof.s, proof.t1, proof.t2>>)
    IN  /\ CommitAtIndex(proof.tHat, proof.tauX, "VALUE")
              = Add(Add(Add(ScalarMult(Ped("VALUE"), deltaYZ(y, z, m)), ScalarMult(proof.t1, x)),
                        ScalarMult(proof.t2, x * x)),
                    PointSum(1 .. m, LAMBDA i : ScalarMult(cms[i], z ^ (i + 1))))
        /\ InnerProductVerify(proof.ip, AggParam(MaxExp * m), salt)

InnerProductSanity(ip) ==
    /\ Len(ip.l) = Len(ip.r)
    /\ \A p \in Range(ip.l \o ip.r) \cup {ip.p} : IsSafe(p)

AggregatedRangeSanity(proof) ==
    /\ \A p \in Range(proof.cmsValue) \cup {proof.a, proof.s, proof.t1, proof.t2} : IsSafe(p)
    /\ InnerProductSanity(proof.ip)

CompressAll(points) == FlattenSeq([i \in DOMAIN points |-> Compress(points[i])])

InnerProductBytes(ip) ==
    <<Len(ip.l)>> \o CompressAll(ip.l) \o CompressAll(ip.r) \o <<ip.a, ip.b>> \o Compress(ip.p)

InnerProductSetBytes(b) ==
    LET k == b[1]
    IN  [l |-> SubSeq(b, 2, k + 1), r |-> SubSeq(b, k + 2, 2 * k + 1),
         a |-> b[2 * k + 2], b |-> b[2 * k + 3], p |-> b[2 * k + 4]]

AggregatedRangeBytes(proof) ==
    <<Len(proof.cmsValue)>> \o CompressAll(proof.cmsValue)
    \o CompressAll(<<proof.a, proof.s, proof.t1, proof.t2>>) \o <<proof.tauX, proof.tHat, proof.mu>>
    \o InnerProductBytes(proof.ip)

AggregatedRangeSetBytes(b) ==
    LET k == b[1]
    IN  [cmsValue |-> SubSeq(b, 2, k + 1),
         a |-> b[k + 2], s |-> b[k + 3], t1 |-> b[k + 4], t2 |-> b[k + 5],
         tauX |-> b[k + 6], tHat |-> b[k + 7], mu |-> b[k + 8],
         ip |-> InnerProductSetBytes(SubSeq(b, k + 9, Len(b)))]
=============================================================================
