--------------------------- MODULE TransferProofs ---------------------------
(***************************************************************************)
(* Proofs about what comes to a shard from outside.  Cross-shard blocks,   *)
(* for all shards, heights and blocks of forks: no height is processed     *)
(* twice whatever goroutines and restarts do, and while goroutines run in  *)
(* order, each pair of shards is a reliable ordered channel.  Tokens of    *)
(* the bridge, for all requests, amounts and blocks: what is minted is     *)
(* deposited, what the database counts is right while it counts, and the   *)
(* committee refuses an honest block for one reason only.                  *)
(***************************************************************************)
EXTENDS CrossShard, Bridge, Sums, FiniteSetTheorems, SequenceTheorems, TLAPS

-----------------------------------------------------------------------------
\* Sequences of heights.

\* What Ascending is for one more height.
LEMMA AscendingStep ==
  ASSUME NEW hs, MaxHeight \in Nat
  PROVE  /\ Ascending(hs, 0) = <<>>
         /\ \A h \in 1..MaxHeight :
              Ascending(hs, h) = IF h \in hs THEN Append(Ascending(hs, h - 1), h) ELSE Ascending(hs, h - 1)
         /\ \A h \in 0..MaxHeight : Ascending(hs, h) \in Seq(hs)
<1> DEFINE Body(f, h) == IF h = 0 THEN <<>> ELSE IF h \in hs THEN Append(f[h - 1], h) ELSE f[h - 1]
           upTo == CHOOSE f : f = [h \in 0..MaxHeight |-> Body(f, h)]
           step == [h \in 1..MaxHeight |-> [s \in Seq(hs) |-> IF h \in hs THEN Append(s, h) ELSE s]]
           G == {h \in 0..MaxHeight : upTo[h] \in Seq(hs)}
<1>1. \E f : f = [h \in 0..MaxHeight |-> Body(f, h)]
  <2>1. \A h \in 1..MaxHeight : \A s \in Seq(hs) : step[h][s] = IF h \in hs THEN Append(s, h) ELSE s
    OBVIOUS
  <2>2. \A h \in 1..MaxHeight : \A s \in Seq(hs) : step[h][s] \in Seq(hs)
    OBVIOUS
  <2>3. <<>> \in Seq(hs)
    OBVIOUS
  <2> HIDE DEF step
  <2>4. PICK f : Iterates(f, Seq(hs), MaxHeight, <<>>, step)
    BY <2>2, <2>3, RecursionExists, Zenon
  <2>5. ASSUME NEW h \in 0..MaxHeight PROVE f[h] = Body(f, h)
    <3>1. h # 0 => h \in 1..MaxHeight /\ h - 1 \in 0..MaxHeight
      OBVIOUS
    <3> QED BY <2>1, <2>4, <3>1 DEF Iterates
  <2>6. f = [h \in 0..MaxHeight |-> f[h]]
    BY <2>4 DEF Iterates
  <2>7. [h \in 0..MaxHeight |-> f[h]] = [h \in 0..MaxHeight |-> Body(f, h)]
    <3> HIDE DEF Body
    <3> QED BY <2>5
  <2> QED BY <2>6, <2>7, Zenon
<1>2. upTo = [h \in 0..MaxHeight |-> Body(upTo, h)]
  BY <1>1, Zenon
<1>3. \A h : Ascending(hs, h) = upTo[h]
  BY DEF Ascending
<1> HIDE DEF upTo
<1>4. ASSUME NEW h \in 0..MaxHeight PROVE upTo[h] = Body(upTo, h)
  <2> HIDE DEF Body
  <2> QED BY <1>2
<1>5. upTo[0] = <<>>
  BY <1>4
<1>6. ASSUME NEW h \in 1..MaxHeight
      PROVE  upTo[h] = IF h \in hs THEN Append(upTo[h - 1], h) ELSE upTo[h - 1]
  <2>1. h \in 0..MaxHeight /\ h # 0
    OBVIOUS
  <2> QED BY <1>4, <2>1
<1>7. 0 \in G
  <2>1. upTo[0] \in Seq(hs) /\ 0 \in 0..MaxHeight
    BY <1>5, EmptySeq
  <2> QED BY <2>1
<1>8. ASSUME NEW h \in 1..MaxHeight, h - 1 \in G PROVE h \in G
  <2>1. upTo[h - 1] \in Seq(hs) /\ h \in 0..MaxHeight /\ h \in Nat
    BY <1>8
  <2>2. h \in hs => Append(upTo[h - 1], h) \in Seq(hs)
    BY <2>1
  <2>3. upTo[h] \in Seq(hs)
    BY <1>6, <2>1, <2>2
  <2> QED BY <2>1, <2>3
<1>9. 0..MaxHeight \subseteq G
  <2> HIDE DEF G
  <2> QED BY <1>7, <1>8, AllUpTo, Zenon
<1>10. \A h \in 0..MaxHeight : upTo[h] \in Seq(hs)
  BY <1>9
<1> HIDE DEF G, Body
<1> QED BY <1>3, <1>5, <1>6, <1>10

\* A prefix, element by element.
LEMMA PrefixByElements ==
  ASSUME NEW S, NEW s \in Seq(S), NEW t \in Seq(S)
  PROVE  IsPrefix(s, t) <=> Len(s) <= Len(t) /\ \A i \in 1..Len(s) : s[i] = t[i]
<1>1. Len(s) \in Nat /\ Len(t) \in Nat /\ SubSeq(s, 1, Len(s)) = s
  BY LenProperties, SubSeqFull
<1>2. ASSUME Len(s) <= Len(t)
      PROVE  /\ Len(SubSeq(t, 1, Len(s))) = Len(s)
             /\ SubSeq(t, 1, Len(s)) \in Seq(S)
             /\ \A i \in 1..Len(s) : SubSeq(t, 1, Len(s))[i] = t[i]
  <2>1. \A i \in 1..Len(s) : t[i] \in S
    BY <1>1, <1>2, ElementOfSeq
  <2> QED BY <1>1, <1>2, <2>1, SubSeqProperties
<1>3. ASSUME Len(s) <= Len(t), \A i \in 1..Len(s) : s[i] = t[i] PROVE s = SubSeq(t, 1, Len(s))
  BY <1>2, <1>3, SeqEqual
<1> QED BY <1>1, <1>2, <1>3 DEF IsPrefix

\* A prefix of a sequence is a prefix of what it is prolonged to.
LEMMA PrefixOfAppend ==
  ASSUME NEW S, NEW s \in Seq(S), NEW t \in Seq(S), NEW x \in S, IsPrefix(s, t)
  PROVE  IsPrefix(s, Append(t, x))
<1>1. Len(s) \in Nat /\ Len(t) \in Nat
  BY LenProperties
<1>2. Append(t, x) \in Seq(S) /\ Len(Append(t, x)) = Len(t) + 1
      /\ \A i \in 1..Len(t) : Append(t, x)[i] = t[i]
  BY AppendProperties
<1>3. Len(s) <= Len(t) /\ \A i \in 1..Len(s) : s[i] = t[i]
  BY PrefixByElements
<1>4. Len(s) <= Len(Append(t, x)) /\ \A i \in 1..Len(s) : s[i] = Append(t, x)[i]
  BY <1>1, <1>2, <1>3
<1> HIDE DEF IsPrefix
<1> QED BY <1>2, <1>4, PrefixByElements, Zenon

\* What is ascending up to a height is a prefix of what is up to a greater one.
LEMMA AscendingGrows ==
  ASSUME NEW hs, MaxHeight \in Nat, NEW i \in 0..MaxHeight, NEW j \in 0..MaxHeight, i <= j
  PROVE  IsPrefix(Ascending(hs, i), Ascending(hs, j))
<1> DEFINE G == {h \in 0..MaxHeight : h >= i => IsPrefix(Ascending(hs, i), Ascending(hs, h))}
<1>1. \A h \in 0..MaxHeight : Ascending(hs, h) \in Seq(hs)
  BY AscendingStep
<1>2. IsPrefix(Ascending(hs, i), Ascending(hs, i))
  BY <1>1, PrefixByElements, LenProperties
<1>3. 0 \in G
  BY <1>2
<1>4. ASSUME NEW h \in 1..MaxHeight, h - 1 \in G PROVE h \in G
  <2> SUFFICES ASSUME h >= i, h # i PROVE IsPrefix(Ascending(hs, i), Ascending(hs, h))
    BY <1>2
  <2>1. IsPrefix(Ascending(hs, i), Ascending(hs, h - 1)) /\ h - 1 \in 0..MaxHeight
    BY <1>4
  <2>2. CASE h \in hs
    <3>1. Ascending(hs, h) = Append(Ascending(hs, h - 1), h)
      BY <2>2, AscendingStep
    <3> QED BY <1>1, <2>1, <2>2, <3>1, PrefixOfAppend
  <2>3. CASE h \notin hs
    BY <2>1, <2>3, AscendingStep
  <2> QED BY <2>2, <2>3
<1>5. 0..MaxHeight \subseteq G
  <2> HIDE DEF G
  <2> QED BY <1>3, <1>4, AllUpTo, Zenon
<1> QED BY <1>5

\* Heights at which there is nothing add nothing.
LEMMA AscendingRests ==
  ASSUME NEW hs, MaxHeight \in Nat, NEW i \in 0..MaxHeight, NEW j \in 0..MaxHeight, i <= j,
         \A h \in hs : ~(i < h /\ h <= j)
  PROVE  Ascending(hs, j) = Ascending(hs, i)
<1> DEFINE G == {h \in 0..MaxHeight : h >= i /\ h <= j => Ascending(hs, h) = Ascending(hs, i)}
<1>1. 0 \in G
  OBVIOUS
<1>2. ASSUME NEW h \in 1..MaxHeight, h - 1 \in G PROVE h \in G
  <2> SUFFICES ASSUME h >= i, h <= j, h # i PROVE Ascending(hs, h) = Ascending(hs, i)
    OBVIOUS
  <2>1. Ascending(hs, h - 1) = Ascending(hs, i)
    BY <1>2
  <2>2. h \notin hs
    OBVIOUS
  <2> QED BY <2>1, <2>2, AscendingStep
<1>3. 0..MaxHeight \subseteq G
  <2> HIDE DEF G
  <2> QED BY <1>1, <1>2, AllUpTo, Zenon
<1> QED BY <1>3

-----------------------------------------------------------------------------
\* What the producer of a block takes.

\* The height from which the next link is followed.
Tip(s, start) == IF s = <<>> THEN start ELSE Last(s)

\* What is appended is the tip.
LEMMA TipOfAppend ==
  ASSUME NEW S, NEW s \in Seq(S), NEW x \in S, NEW start
  PROVE  Tip(Append(s, x), start) = x
<1>1. Len(s) \in Nat
  BY LenProperties
<1>2. /\ Append(s, x) \in Seq(S) /\ Len(Append(s, x)) = Len(s) + 1
      /\ Append(s, x)[Len(s) + 1] = x
  BY AppendProperties
<1>3. Append(s, x) # <<>>
  BY <1>1, <1>2, EmptySeq
<1> QED BY <1>2, <1>3 DEF Tip, Last

\* What getCrossShardData has taken after each height.
Takes(taken, next, start, hs) ==
  /\ taken \in [0..MaxHeight -> Seq(1..MaxHeight)]
  /\ taken[0] = <<>>
  /\ \A h \in 1..MaxHeight :
       taken[h] = IF h \in hs /\ next[Tip(taken[h - 1], start)] = h THEN Append(taken[h - 1], h)
                  ELSE taken[h - 1]
  /\ CrossShardData(next, start, hs) = IF \E h \in hs : h <= start THEN <<>> ELSE taken[MaxHeight]

\* The loop of getCrossShardData, height by height.
LEMMA CrossShardDataSteps ==
  ASSUME NEW next, NEW start, NEW hs, MaxHeight \in Nat
  PROVE  \E taken : Takes(taken, next, start, hs)
<1> DEFINE Step(h, s) == IF h \in hs /\ next[Tip(s, start)] = h THEN Append(s, h) ELSE s
           Body(f, h) == IF h = 0 THEN <<>>
                         ELSE LET before == f[h - 1]
                                  at == IF before = <<>> THEN start ELSE Last(before)
                              IN IF h \in hs /\ next[at] = h THEN Append(before, h) ELSE before
           taken == CHOOSE f : f = [h \in 0..MaxHeight |-> Body(f, h)]
           T == Seq(1..MaxHeight)
           step == [h \in 1..MaxHeight |-> [s \in T |-> Step(h, s)]]
           G == {h \in 0..MaxHeight : taken[h] \in T}
<1>1. ASSUME NEW h \in 1..MaxHeight, NEW s \in T PROVE Step(h, s) \in T
  <2>1. Append(s, h) \in T
    OBVIOUS
  <2> HIDE DEF T
  <2> QED BY <2>1
<1>2. <<>> \in T
  OBVIOUS
<1> HIDE DEF T
<1>3. \A f : \A h \in 1..MaxHeight : Body(f, h) = Step(h, f[h - 1])
  BY DEF Tip
<1>4. \A f : Body(f, 0) = <<>>
  OBVIOUS
<1> HIDE DEF Step
<1>5. \E f : f = [h \in 0..MaxHeight |-> Body(f, h)]
  <2>1. \A h \in 1..MaxHeight : \A s \in T : step[h][s] = Step(h, s) /\ step[h][s] \in T
    BY <1>1
  <2> HIDE DEF step
  <2>2. PICK f : Iterates(f, T, MaxHeight, <<>>, step)
    BY <1>2, <2>1, RecursionExists, Zenon
  <2>3. ASSUME NEW h \in 0..MaxHeight PROVE f[h] = Body(f, h)
    <3>1. h # 0 => h \in 1..MaxHeight /\ h - 1 \in 0..MaxHeight
      OBVIOUS
    <3> HIDE DEF Body
    <3> QED BY <1>3, <1>4, <2>1, <2>2, <3>1 DEF Iterates
  <2>4. f = [h \in 0..MaxHeight |-> f[h]]
    BY <2>2 DEF Iterates
  <2>5. [h \in 0..MaxHeight |-> f[h]] = [h \in 0..MaxHeight |-> Body(f, h)]
    <3> HIDE DEF Body
    <3> QED BY <2>3
  <2> QED BY <2>4, <2>5, Zenon
<1>6. taken = [h \in 0..MaxHeight |-> Body(taken, h)]
  BY <1>5, Zenon
<1>7. CrossShardData(next, start, hs) = IF \E h \in hs : h <= start THEN <<>> ELSE taken[MaxHeight]
  BY DEF CrossShardData
<1> HIDE DEF taken, Body
<1>8. DOMAIN taken = 0..MaxHeight /\ taken = [h \in DOMAIN taken |-> taken[h]]
  BY <1>6
<1>9. \A h \in 0..MaxHeight : taken[h] = Body(taken, h)
  BY <1>6
<1>10. taken[0] = <<>>
  BY <1>4, <1>9
<1>11. \A h \in 1..MaxHeight : taken[h] = Step(h, taken[h - 1])
  BY <1>3, <1>9
<1>12. 0 \in G
  BY <1>2, <1>10
<1>13. ASSUME NEW h \in 1..MaxHeight, h - 1 \in G PROVE h \in G
  BY <1>1, <1>11, <1>13
<1>14. 0..MaxHeight \subseteq G
  <2> HIDE DEF G
  <2> QED BY <1>12, <1>13, AllUpTo, Zenon
<1>15. taken \in [0..MaxHeight -> T]
  BY <1>8, <1>14
<1>16. Takes(taken, next, start, hs)
  BY <1>7, <1>10, <1>11, <1>15 DEF Takes, Step, T
<1> QED BY <1>16

\* What is taken ascends from where the last block stopped.
LEMMA DataAscends ==
  ASSUME NEW next, NEW start \in Nat, NEW hs, MaxHeight \in Nat,
         NEW d, d = CrossShardData(next, start, hs)
  PROVE  /\ d \in Seq(1..MaxHeight)
         /\ \A i \in 1..(Len(d) - 1) : d[i] < d[i + 1]
         /\ \A i \in 1..Len(d) : start < d[i]
<1>1. CASE \E h \in hs : h <= start
  <2>1. d = <<>>
    BY <1>1, CrossShardDataSteps DEF Takes
  <2> QED BY <2>1
<1>2. CASE ~\E h \in hs : h <= start
  <2>1. PICK taken : Takes(taken, next, start, hs)
    BY CrossShardDataSteps
  <2>2. d = taken[MaxHeight]
    BY <1>2, <2>1 DEF Takes
  <2> DEFINE Good(h) == /\ \A i \in 1..(Len(taken[h]) - 1) : taken[h][i] < taken[h][i + 1]
                        /\ \A i \in 1..Len(taken[h]) : start < taken[h][i] /\ taken[h][i] <= h
             G == {h \in 0..MaxHeight : Good(h)}
  <2>3. 0 \in G
    <3>1. taken[0] = <<>> /\ Len(taken[0]) = 0
      BY <2>1, EmptySeq DEF Takes
    <3> QED BY <3>1
  <2>4. ASSUME NEW h \in 1..MaxHeight, h - 1 \in G PROVE h \in G
    <3> DEFINE s == taken[h - 1]
    <3>1. /\ s \in Seq(1..MaxHeight) /\ Len(s) \in Nat
          /\ \A i \in 1..Len(s) : s[i] \in 1..MaxHeight /\ start < s[i] /\ s[i] <= h - 1
          /\ \A i \in 1..(Len(s) - 1) : s[i] < s[i + 1]
      <4>1. h - 1 \in 0..MaxHeight
        OBVIOUS
      <4> QED BY <2>1, <2>4, <4>1, LenProperties, ElementOfSeq DEF Takes
    <3>2. CASE taken[h] = s
      BY <3>1, <3>2
    <3>3. CASE h \in hs /\ taken[h] = Append(s, h)
      <4>1. start < h
        BY <1>2, <3>3
      <4>2. Len(taken[h]) = Len(s) + 1 /\ taken[h][Len(s) + 1] = h
            /\ \A i \in 1..Len(s) : taken[h][i] = s[i]
        BY <3>1, <3>3, AppendProperties
      <4> HIDE DEF s
      <4>3. ASSUME NEW i \in 1..Len(taken[h]) PROVE start < taken[h][i] /\ taken[h][i] <= h
        <5>1. i = Len(s) + 1 \/ i \in 1..Len(s)
          BY <3>1, <4>2
        <5>2. CASE i = Len(s) + 1
          BY <4>1, <4>2, <5>2
        <5>3. CASE i \in 1..Len(s)
          <6>1. taken[h][i] = s[i] /\ s[i] \in Nat /\ start < s[i] /\ s[i] <= h - 1
            BY <3>1, <4>2, <5>3
          <6> QED BY <6>1
        <5> QED BY <5>1, <5>2, <5>3
      <4>4. ASSUME NEW i \in 1..(Len(taken[h]) - 1) PROVE taken[h][i] < taken[h][i + 1]
        <5>1. i \in 1..Len(s) /\ (i = Len(s) \/ (i \in 1..(Len(s) - 1) /\ i + 1 \in 1..Len(s)))
          BY <3>1, <4>2
        <5>2. CASE i = Len(s)
          <6>1. taken[h][i + 1] = h /\ taken[h][i] = s[i] /\ s[i] \in Nat /\ s[i] <= h - 1
            BY <3>1, <4>2, <5>1, <5>2
          <6> QED BY <6>1
        <5>3. CASE i \in 1..(Len(s) - 1) /\ i + 1 \in 1..Len(s)
          <6>1. taken[h][i] = s[i] /\ taken[h][i + 1] = s[i + 1] /\ s[i] < s[i + 1]
            BY <3>1, <4>2, <5>1, <5>3
          <6> QED BY <6>1
        <5> QED BY <5>1, <5>2, <5>3
      <4> QED BY <4>3, <4>4
    <3> QED BY <2>1, <3>2, <3>3 DEF Takes
  <2>5. 0..MaxHeight \subseteq G
    <3> HIDE DEF G
    <3> QED BY <2>3, <2>4, AllUpTo, Zenon
  <2>6. Good(MaxHeight)
    BY <2>5
  <2>7. d \in Seq(1..MaxHeight)
    BY <2>1, <2>2 DEF Takes
  <2> QED BY <2>2, <2>6, <2>7
<1> QED BY <1>1, <1>2

-----------------------------------------------------------------------------
\* No height is processed twice.

Ascends(s) == \A i \in 1..(Len(s) - 1) : s[i] < s[i + 1]

\* A destination has processed heights in ascending order, and BestCrossShard is
\* the last of them: what it takes next is above that.
OnceInv ==
  /\ bestCrossShard \in [Shards -> [Shards -> 0..MaxHeight]]
  /\ processed \in [Shards -> [Shards -> Seq(1..MaxHeight)]]
  /\ \A to, from \in Shards :
       Ascends(processed[to][from]) /\ bestCrossShard[to][from] = Tip(processed[to][from], 0)

\* Ascending heights are prolonged by greater ascending ones.
LEMMA ProlongedAscends ==
  ASSUME MaxHeight \in Nat, NEW s \in Seq(1..MaxHeight), NEW d \in Seq(1..MaxHeight),
         Ascends(s), Ascends(d), \A i \in 1..Len(d) : Tip(s, 0) < d[i]
  PROVE  /\ s \o d \in Seq(1..MaxHeight)
         /\ Ascends(s \o d)
         /\ Tip(s \o d, 0) = IF d = <<>> THEN Tip(s, 0) ELSE Last(d)
         /\ Tip(s \o d, 0) \in 0..MaxHeight
<1> DEFINE m == Len(s)
           n == Len(d)
<1>1. /\ m \in Nat /\ n \in Nat
      /\ \A i \in 1..m : s[i] \in 1..MaxHeight
      /\ \A i \in 1..n : d[i] \in 1..MaxHeight
      /\ (s = <<>> <=> m = 0) /\ (d = <<>> <=> n = 0)
  BY LenProperties, ElementOfSeq, EmptySeq
<1>2. /\ s \o d \in Seq(1..MaxHeight)
      /\ Len(s \o d) = m + n
      /\ \A i \in 1..(m + n) : (s \o d)[i] = IF i <= m THEN s[i] ELSE d[i - m]
  BY ConcatProperties
<1>3. m # 0 => Tip(s, 0) = s[m]
  BY <1>1 DEF Tip, Last
<1>4. ASSUME NEW i \in 1..(m + n - 1) PROVE (s \o d)[i] < (s \o d)[i + 1]
  <2>1. CASE i + 1 <= m
    BY <1>1, <1>2, <2>1 DEF Ascends
  <2>2. CASE i = m
    <3>1. (s \o d)[i] = s[m] /\ (s \o d)[i + 1] = d[1] /\ 1 \in 1..n
      BY <1>1, <1>2, <2>2
    <3> QED BY <1>1, <1>3, <2>2, <3>1
  <2>3. CASE i > m
    <3>1. (s \o d)[i] = d[i - m] /\ (s \o d)[i + 1] = d[(i - m) + 1] /\ i - m \in 1..(n - 1)
      BY <1>1, <1>2, <2>3
    <3> QED BY <3>1 DEF Ascends
  <2> QED BY <1>1, <2>1, <2>2, <2>3
<1>5. Ascends(s \o d)
  BY <1>2, <1>4 DEF Ascends
<1>6. Tip(s \o d, 0) = IF d = <<>> THEN Tip(s, 0) ELSE Last(d)
  <2>1. CASE n = 0
    BY <1>1, <2>1, ConcatEmptySeq
  <2>2. CASE n # 0
    <3>1. (s \o d)[m + n] = d[n] /\ s \o d # <<>>
      BY <1>1, <1>2, <2>2, EmptySeq
    <3> QED BY <1>1, <1>2, <2>2, <3>1 DEF Tip, Last
  <2> QED BY <2>1, <2>2
<1>7. Tip(s \o d, 0) \in 0..MaxHeight
  BY <1>1, <1>6 DEF Tip, Last
<1> QED BY <1>2, <1>5, <1>6, <1>7

\* Only a block of the destination moves BestCrossShard and what was processed.
LEMMA InsertKeepsOnce ==
  ASSUME MaxHeight \in Nat, OnceInv, NEW to \in Shards, NEW limit, InsertShardBlock(to, limit)
  PROVE  OnceInv'
<1> DEFINE data == [f \in Shards |-> CrossShardData(nextHeight[f][to], bestCrossShard[to][f],
                                                    GetValidBlock(to, f, limit))]
           best(f) == IF data[f] = <<>> THEN bestCrossShard[to][f] ELSE Last(data[f])
           done(f) == processed[to][f] \o data[f]
<1>1. /\ bestCrossShard' = [bestCrossShard EXCEPT ![to] = [f \in Shards |-> best(f)]]
      /\ processed' = [processed EXCEPT ![to] = [f \in Shards |-> done(f)]]
  BY DEF InsertShardBlock
<1>2. ASSUME NEW f \in Shards
      PROVE  /\ done(f) \in Seq(1..MaxHeight) /\ Ascends(done(f))
             /\ best(f) = Tip(done(f), 0) /\ best(f) \in 0..MaxHeight
  <2>1. /\ bestCrossShard[to][f] \in Nat
        /\ processed[to][f] \in Seq(1..MaxHeight) /\ Ascends(processed[to][f])
        /\ bestCrossShard[to][f] = Tip(processed[to][f], 0)
    BY DEF OnceInv
  <2>2. data[f] = CrossShardData(nextHeight[f][to], bestCrossShard[to][f], GetValidBlock(to, f, limit))
    OBVIOUS
  <2> HIDE DEF data
  <2>3. /\ data[f] \in Seq(1..MaxHeight) /\ Ascends(data[f])
        /\ \A i \in 1..Len(data[f]) : bestCrossShard[to][f] < data[f][i]
    BY <2>1, <2>2, DataAscends DEF Ascends
  <2>4. /\ done(f) \in Seq(1..MaxHeight) /\ Ascends(done(f))
        /\ Tip(done(f), 0) = IF data[f] = <<>> THEN Tip(processed[to][f], 0) ELSE Last(data[f])
        /\ Tip(done(f), 0) \in 0..MaxHeight
    <3>1. \A i \in 1..Len(data[f]) : Tip(processed[to][f], 0) < data[f][i]
      BY <2>1, <2>3
    <3> QED BY <2>1, <2>3, <3>1, ProlongedAscends
  <2>5. best(f) = Tip(done(f), 0)
    BY <2>1, <2>4
  <2> QED BY <2>4, <2>5
<1> HIDE DEF best, done
<1>3. /\ bestCrossShard' \in [Shards -> [Shards -> 0..MaxHeight]]
      /\ processed' \in [Shards -> [Shards -> Seq(1..MaxHeight)]]
  BY <1>1, <1>2 DEF OnceInv
<1>4. ASSUME NEW t \in Shards, NEW f \in Shards
      PROVE  Ascends(processed'[t][f]) /\ bestCrossShard'[t][f] = Tip(processed'[t][f], 0)
  <2>1. CASE t = to
    <3>1. bestCrossShard'[t][f] = best(f) /\ processed'[t][f] = done(f)
      BY <1>1, <2>1 DEF OnceInv
    <3> QED BY <1>2, <3>1
  <2>2. CASE t # to
    <3>1. bestCrossShard'[t][f] = bestCrossShard[t][f] /\ processed'[t][f] = processed[t][f]
      BY <1>1, <2>2 DEF OnceInv
    <3> QED BY <3>1 DEF OnceInv
  <2> QED BY <2>1, <2>2
<1> QED BY <1>3, <1>4 DEF OnceInv

\* No height of a shard is processed twice, whatever the order of goroutines,
\* restarts and forks do to the pool and to the links of the database.
THEOREM HeightsAreProcessedOnce == ASSUME CrossShardAssumption PROVE Spec => []CrossShardProcessedOnce
<1>1. MaxHeight \in Nat
  BY DEF CrossShardAssumption
<1>2. Init => OnceInv
  <2> SUFFICES ASSUME Init PROVE OnceInv
    OBVIOUS
  <2>1. /\ bestCrossShard = [s \in Shards |-> [t \in Shards |-> 0]]
        /\ processed = [s \in Shards |-> [t \in Shards |-> <<>>]]
    BY DEF Init, PerPair
  <2>2. Ascends(<<>>) /\ Tip(<<>>, 0) = 0
    BY EmptySeq DEF Ascends, Tip
  <2> QED BY <1>1, <2>1, <2>2 DEF OnceInv
<1>3. OnceInv /\ [Next]_vars => OnceInv'
  <2> SUFFICES ASSUME OnceInv, [Next]_vars PROVE OnceInv'
    OBVIOUS
  <2>1. ASSUME NEW to \in Shards, NEW limit, InsertShardBlock(to, limit) PROVE OnceInv'
    BY <1>1, <2>1, InsertKeepsOnce
  <2>2. CASE UNCHANGED <<bestCrossShard, processed>>
    BY <2>2 DEF OnceInv
  <2>3. CASE BeaconStep
    BY <2>2, <2>3 DEF BeaconStep, InsertBeaconBlock, StoreBeaconBestState, shardVars
  <2>4. CASE \E to \in Shards : RefreshPool(to)
    BY <2>2, <2>4 DEF RefreshPool
  <2>5. CASE \E i \in DOMAIN tasks : RunTask(i)
    BY <2>2, <2>5 DEF RunTask, shardVars
  <2>6. CASE ReceiveSent \/ ReceiveForked
    BY <2>2, <2>6 DEF ReceiveSent, ReceiveForked, AddCrossShardBlock, shardVars
  <2>7. CASE Restart
    BY <2>2, <2>7 DEF Restart
  <2>8. CASE UNCHANGED vars
    BY <2>2, <2>8 DEF vars, shardVars
  <2> QED BY <2>1, <2>3, <2>4, <2>5, <2>6, <2>7, <2>8 DEF Next, ShardStep
<1>4. OnceInv => CrossShardProcessedOnce
  BY DEF OnceInv, CrossShardProcessedOnce, Ascends
<1> QED BY <1>2, <1>3, <1>4, PTL DEF Spec

-----------------------------------------------------------------------------
\* The links of the database.

\* From 0 and from each height of hs, the link leads to the next height of hs up
\* to top, if there is one.
LinkedUpTo(hs, top, next) ==
  /\ next \in [0..MaxHeight -> 0..MaxHeight]
  /\ \A h \in {0} \union hs :
       h <= top =>
         \/ next[h] = 0 /\ \A x \in hs : ~(h < x /\ x <= top)
         \/ next[h] \in hs /\ h < next[h] /\ next[h] <= top /\ \A x \in hs : ~(h < x /\ x < next[h])

\* The greatest height of hs up to top, or 0.
IsLast(hs, top, last) ==
  last \in {0} \union hs /\ last <= top /\ \A x \in hs : ~(last < x /\ x <= top)

\* A non-empty set of heights has a least element.
LEMMA MinOfHeights ==
  ASSUME NEW hs, hs \subseteq 1..MaxHeight, MaxHeight \in Nat, hs # {}
  PROVE  Min(hs) \in hs /\ \A x \in hs : Min(hs) <= x
<1>1. hs \in SUBSET Nat
  OBVIOUS
<1>2. \E m \in hs : \A x \in hs : m <= x
  BY <1>1, LeastNatural
<1> QED BY <1>2 DEF Min

\* Likewise for the greatest: what is left to MaxHeight is least there.
LEMMA MaxOfHeights ==
  ASSUME NEW hs, hs \subseteq 1..MaxHeight, MaxHeight \in Nat, hs # {}
  PROVE  Max(hs) \in hs /\ \A x \in hs : x <= Max(hs)
<1> DEFINE below == {MaxHeight - x : x \in hs}
<1>1. below \in SUBSET Nat /\ below # {}
  OBVIOUS
<1>2. PICK y \in below : \A z \in below : y <= z
  <2> HIDE DEF below
  <2> QED BY <1>1, LeastNatural
<1>3. PICK m \in hs : y = MaxHeight - m
  OBVIOUS
<1>4. ASSUME NEW x \in hs PROVE m >= x
  <2>1. MaxHeight - x \in below
    OBVIOUS
  <2>2. MaxHeight - m <= MaxHeight - x
    BY <1>2, <1>3, <2>1
  <2>3. m \in Int /\ x \in Int
    OBVIOUS
  <2> HIDE DEF below
  <2> QED BY <2>2, <2>3
<1>5. \E k \in hs : \A x \in hs : k >= x
  BY <1>4
<1>6. Max(hs) \in hs /\ \A x \in hs : Max(hs) >= x
  BY <1>5 DEF Max
<1>7. \A x \in hs : x \in Int
  OBVIOUS
<1> HIDE DEF below
<1> QED BY <1>6, <1>7

\* Orders of three numbers.
LEMMA LeTransitive ==
  ASSUME NEW a \in Int, NEW b \in Int, NEW c \in Int, a <= b, b <= c
  PROVE  a <= c
OBVIOUS

\* A goroutine that continues where the links end takes them further.
LEMMA LinkedFurther ==
  ASSUME MaxHeight \in Nat, NEW hs, hs \subseteq 1..MaxHeight,
         NEW top \in 0..MaxHeight, NEW hi \in 0..MaxHeight, top <= hi,
         NEW next, NEW last, LinkedUpTo(hs, top, next), IsLast(hs, top, last),
         NEW r, r = Linked(next, last, hs \cap ((top + 1) .. hi))
  PROVE  LinkedUpTo(hs, hi, r.next) /\ IsLast(hs, hi, r.last)
<1> DEFINE new == hs \cap ((top + 1) .. hi)
           above(h) == {x \in new : x > h}
           follower(h) == IF h \in new THEN IF above(h) = {} THEN 0 ELSE Min(above(h))
                          ELSE IF h = last /\ new # {} THEN Min(new)
                          ELSE next[h]
<1>1. r.next = [h \in 0..MaxHeight |-> follower(h)] /\ r.last = IF new = {} THEN last ELSE Max(new)
  BY DEF Linked, LinkedUpTo
<1>2. new \subseteq 1..MaxHeight /\ \A h : above(h) \subseteq new
  OBVIOUS
<1>3. \A x \in hs : x \in new <=> top < x /\ x <= hi
  OBVIOUS
<1>4. \A h, x : x \in above(h) <=> x \in new /\ x > h
  OBVIOUS
<1>5. \A x \in hs : x \in Int
  OBVIOUS
<1>5a. top \in Int /\ hi \in Int
  OBVIOUS
<1>6. new \subseteq hs
  OBVIOUS
<1>7. \A h : above(h) # {} => Min(above(h)) \in above(h) /\ \A x \in above(h) : Min(above(h)) <= x
  <2> HIDE DEF new, above
  <2> SUFFICES ASSUME NEW h, above(h) # {}
               PROVE  Min(above(h)) \in above(h) /\ \A x \in above(h) : Min(above(h)) <= x
    OBVIOUS
  <2>1. above(h) \subseteq 1..MaxHeight
    BY <1>2
  <2> QED BY <2>1, MinOfHeights
<1>8. new # {} => /\ Min(new) \in new /\ \A x \in new : Min(new) <= x
                  /\ Max(new) \in new /\ \A x \in new : x <= Max(new)
  <2> HIDE DEF new
  <2> QED BY <1>2, MinOfHeights, MaxOfHeights
<1> HIDE DEF new, above
<1>9. ASSUME NEW h \in 0..MaxHeight PROVE follower(h) \in 0..MaxHeight
  <2>1. CASE h \in new
    <3>1. above(h) # {} => Min(above(h)) \in 1..MaxHeight
      BY <1>2, <1>7
    <3> QED BY <2>1, <3>1
  <2>2. CASE h \notin new /\ h = last /\ new # {}
    <3>1. follower(h) = Min(new) /\ Min(new) \in 1..MaxHeight
      BY <1>2, <1>8, <2>2
    <3> QED BY <3>1
  <2>3. CASE h \notin new /\ ~(h = last /\ new # {})
    BY <2>3 DEF LinkedUpTo
  <2> QED BY <2>1, <2>2, <2>3
<1>10. ASSUME NEW h \in {0} \union hs, h <= hi
       PROVE  \/ follower(h) = 0 /\ \A x \in hs : ~(h < x /\ x <= hi)
              \/ /\ follower(h) \in hs /\ h < follower(h) /\ follower(h) <= hi
                 /\ \A x \in hs : ~(h < x /\ x < follower(h))
  <2>1. CASE h \in new
    <3>1. h \in Int /\ top < h
      BY <1>3, <1>5, <1>6, <2>1
    <3>2. CASE above(h) = {}
      <4>1. follower(h) = 0
        BY <2>1, <3>2
      <4>2. \A x \in hs : ~(h < x /\ x <= hi)
        BY <1>3, <1>4, <1>5, <3>1, <3>2
      <4> QED BY <4>1, <4>2
    <3>3. CASE above(h) # {}
      <4> DEFINE m == Min(above(h))
      <4>1. follower(h) = m
        BY <2>1, <3>3
      <4>2. m \in new /\ m > h /\ \A x \in above(h) : m <= x
        BY <1>4, <1>7, <3>3
      <4> HIDE DEF m, follower
      <4>3. m \in hs /\ m <= hi /\ m \in Int
        BY <1>3, <1>5, <1>6, <4>2
      <4>4. ASSUME NEW x \in hs, h < x, x < m PROVE FALSE
        <5>1. x \in new
          BY <1>3, <1>5, <3>1, <4>3, <4>4
        <5>2. x \in above(h)
          BY <1>4, <1>5, <3>1, <4>4, <5>1
        <5> QED BY <1>5, <4>2, <4>3, <4>4, <5>2
      <4> QED BY <1>5, <3>1, <4>1, <4>2, <4>3, <4>4
    <3> QED BY <3>2, <3>3
  <2>2. CASE h \notin new
    <3>1. h \in Nat /\ h <= top
      BY <1>3, <1>5, <1>10, <2>2
    <3>2. CASE h = last /\ new # {}
      <4> DEFINE m == Min(new)
      <4>1. follower(h) = m
        BY <2>2, <3>2
      <4>2. m \in new /\ \A x \in new : m <= x
        BY <1>8, <3>2
      <4> HIDE DEF m, follower
      <4>3. m \in hs /\ top < m /\ m <= hi /\ m \in Int
        BY <1>3, <1>5, <1>6, <4>2
      <4>4. ASSUME NEW x \in hs, h < x, x < m PROVE FALSE
        <5>1. top < x
          BY <1>5, <3>1, <3>2, <4>4 DEF IsLast
        <5>2. x \in new
          BY <1>3, <1>5, <4>3, <4>4, <5>1
        <5> QED BY <1>5, <4>2, <4>3, <4>4, <5>2
      <4> QED BY <1>5, <3>1, <4>1, <4>3, <4>4
    <3>3. CASE h # last
      <4>1. follower(h) = next[h]
        BY <2>2, <3>3
      <4> HIDE DEF follower
      <4>2. last \in Int /\ last <= top /\ (h \in hs => ~(last < h))
        BY <1>5, <3>1 DEF IsLast
      <4>3. h < last /\ last \in hs
        BY <3>1, <3>3, <4>2 DEF IsLast
      <4>4. next[h] # 0
        <5>1. \/ next[h] = 0 /\ \A x \in hs : ~(h < x /\ x <= top)
              \/ h < next[h]
          BY <3>1 DEF LinkedUpTo
        <5> QED BY <3>1, <4>2, <4>3, <5>1
      <4>5. /\ next[h] \in hs /\ h < next[h] /\ next[h] <= top
            /\ \A x \in hs : ~(h < x /\ x < next[h])
        BY <3>1, <4>4 DEF LinkedUpTo
      <4>6. next[h] \in Int
        BY <1>5, <4>5, Zenon
      <4>7. next[h] <= hi
        BY <1>5a, <4>5, <4>6, LeTransitive, Zenon
      <4> QED BY <4>1, <4>5, <4>7
    <3>4. CASE new = {}
      <4>1. follower(h) = next[h]
        BY <3>4
      <4> HIDE DEF follower
      <4>2. \A x \in hs : x <= hi => x <= top
        BY <1>3, <1>5, <3>4
      <4>3. \/ next[h] = 0 /\ \A x \in hs : ~(h < x /\ x <= top)
            \/ next[h] \in hs /\ h < next[h] /\ next[h] <= top /\ \A x \in hs : ~(h < x /\ x < next[h])
        BY <3>1 DEF LinkedUpTo
      <4>4. CASE next[h] = 0 /\ \A x \in hs : ~(h < x /\ x <= top)
        BY <4>1, <4>2, <4>4
      <4>5. CASE /\ next[h] \in hs /\ h < next[h] /\ next[h] <= top
                 /\ \A x \in hs : ~(h < x /\ x < next[h])
        <5>1. next[h] \in Int
          BY <1>5, <4>5, Zenon
        <5>2. next[h] <= hi
          BY <1>5a, <4>5, <5>1, LeTransitive, Zenon
        <5> QED BY <4>1, <4>5, <5>2
      <4> QED BY <4>3, <4>4, <4>5
    <3> QED BY <3>2, <3>3, <3>4
  <2> QED BY <2>1, <2>2
<1>11. LinkedUpTo(hs, hi, r.next)
  <2>1. {0} \union hs \subseteq 0..MaxHeight
    OBVIOUS
  <2> HIDE DEF follower
  <2>2. \A h \in {0} \union hs : r.next[h] = follower(h)
    BY <1>1, <2>1
  <2>3. r.next \in [0..MaxHeight -> 0..MaxHeight]
    BY <1>1, <1>9
  <2>4. ASSUME NEW h \in {0} \union hs, h <= hi
        PROVE  \/ r.next[h] = 0 /\ \A x \in hs : ~(h < x /\ x <= hi)
               \/ /\ r.next[h] \in hs /\ h < r.next[h] /\ r.next[h] <= hi
                  /\ \A x \in hs : ~(h < x /\ x < r.next[h])
    <3>1. r.next[h] = follower(h)
      BY <2>2
    <3>2. \/ follower(h) = 0 /\ \A x \in hs : ~(h < x /\ x <= hi)
          \/ /\ follower(h) \in hs /\ h < follower(h) /\ follower(h) <= hi
             /\ \A x \in hs : ~(h < x /\ x < follower(h))
      BY <1>10, <2>4
    <3> QED BY <3>1, <3>2, Zenon
  <2> QED BY <2>3, <2>4 DEF LinkedUpTo
<1>12. IsLast(hs, hi, r.last)
  <2>1. CASE new = {}
    <3>1. r.last = last
      BY <1>1, <2>1
    <3>2. last \in Int /\ last <= hi
      BY <1>5 DEF IsLast
    <3>3. ASSUME NEW x \in hs, last < x, x <= hi PROVE FALSE
      <4>1. x <= top
        BY <1>3, <1>5, <2>1, <3>3
      <4> QED BY <3>3, <4>1 DEF IsLast
    <3> QED BY <3>1, <3>2, <3>3 DEF IsLast
  <2>2. CASE new # {}
    <3> DEFINE m == Max(new)
    <3>1. r.last = m /\ m \in new /\ \A x \in new : x <= m
      BY <1>1, <1>8, <2>2
    <3> HIDE DEF m
    <3>2. m \in hs /\ top < m /\ m <= hi /\ m \in Int
      BY <1>3, <1>5, <1>6, <3>1
    <3>3. ASSUME NEW x \in hs, m < x, x <= hi PROVE FALSE
      <4>1. x \in new
        BY <1>3, <1>5, <3>2, <3>3
      <4> QED BY <1>5, <3>1, <3>2, <3>3, <4>1
    <3> QED BY <3>1, <3>2, <3>3 DEF IsLast
  <2> QED BY <2>1, <2>2
<1> QED BY <1>11, <1>12

\* The heights d take what is sent from start to a height up to top; all are
\* those up to there.
Continues(sent, start, top, d, all) ==
  /\ Tip(d, start) \in {0} \union sent /\ start <= Tip(d, start) /\ Tip(d, start) <= top
  /\ all = Ascending(sent, Tip(d, start))

\* What the producer takes follows the links, and so continues what is sent
\* without a gap.
LEMMA DataFollows ==
  ASSUME MaxHeight \in Nat, NEW sent, sent \subseteq 1..MaxHeight,
         NEW top \in 0..MaxHeight, NEW next, LinkedUpTo(sent, top, next),
         NEW start \in {0} \union sent, start <= top,
         NEW hs, NEW d, d = CrossShardData(next, start, hs), NEW all, all = Ascending(sent, start) \o d
  PROVE  Continues(sent, start, top, d, all)
<1> DEFINE Good(s) == /\ Tip(s, start) \in {0} \union sent
                      /\ start <= Tip(s, start) /\ Tip(s, start) <= top
                      /\ Ascending(sent, start) \o s = Ascending(sent, Tip(s, start))
<1>1. /\ start \in 0..MaxHeight /\ top \in Int
      /\ \A x \in sent : x \in Int /\ x \in 1..MaxHeight
  OBVIOUS
<1>2. \A h \in 0..MaxHeight : Ascending(sent, h) \in Seq(sent)
  BY AscendingStep
<1>3. Good(<<>>)
  <2>1. Tip(<<>>, start) = start
    BY DEF Tip
  <2>2. Ascending(sent, start) \o <<>> = Ascending(sent, start)
    BY <1>1, <1>2, ConcatEmptySeq
  <2> QED BY <1>1, <2>1, <2>2
<1> HIDE DEF Good
<1>4. PICK taken : Takes(taken, next, start, hs)
  BY CrossShardDataSteps
<1> DEFINE G == {h \in 0..MaxHeight : Good(taken[h])}
<1>5. 0 \in G
  <2>1. taken[0] = <<>>
    BY <1>4 DEF Takes
  <2> QED BY <1>3, <2>1
<1>6. ASSUME NEW h \in 1..MaxHeight, h - 1 \in G PROVE h \in G
  <2> DEFINE s == taken[h - 1]
             at == Tip(s, start)
  <2>1. Good(s)
    BY <1>6
  <2>2. s \in Seq(1..MaxHeight)
    <3>1. h - 1 \in 0..MaxHeight
      OBVIOUS
    <3> QED BY <1>4, <3>1 DEF Takes
  <2>3. taken[h] = s \/ (taken[h] = Append(s, h) /\ next[at] = h)
    BY <1>4 DEF Takes
  <2> HIDE DEF s
  <2>4. CASE taken[h] = s
    BY <2>1, <2>4
  <2>5. CASE taken[h] = Append(s, h) /\ next[at] = h
    <3>1. /\ at \in {0} \union sent /\ start <= at /\ at <= top
          /\ Ascending(sent, start) \o s = Ascending(sent, at)
      BY <2>1 DEF Good
    <3>2. Tip(Append(s, h), start) = h
      BY <2>2, TipOfAppend, Zenon
    <3> HIDE DEF at
    <3>3. h \in sent /\ at < h /\ h <= top /\ \A x \in sent : ~(at < x /\ x < h)
      <4>1. h # 0
        OBVIOUS
      <4> QED BY <2>5, <3>1, <4>1, Zenon DEF LinkedUpTo
    <3>4. at \in 0..MaxHeight /\ h - 1 \in 0..MaxHeight /\ at <= h - 1
      BY <1>1, <3>1, <3>3
    <3>5. Ascending(sent, h - 1) = Ascending(sent, at)
      <4>1. \A x \in sent : ~(at < x /\ x <= h - 1)
        BY <1>1, <3>3, <3>4
      <4> QED BY <3>4, <4>1, AscendingRests
    <3>6. Ascending(sent, h) = Append(Ascending(sent, at), h)
      BY <3>3, <3>5, AscendingStep
    <3>7. Ascending(sent, start) \o Append(s, h) = Append(Ascending(sent, start) \o s, h)
      <4>1. Ascending(sent, start) \in Seq(Int)
        <5>1. Ascending(sent, start) \in Seq(sent)
          BY <1>1, <1>2
        <5> QED BY <1>1, <5>1, SeqMonotonic
      <4>2. s \in Seq(Int) /\ h \in Int
        BY <2>2
      <4> HIDE DEF s
      <4> QED BY <4>1, <4>2
    <3>8. Good(Append(s, h))
      <4>1. start <= h
        BY <1>1, <3>1, <3>3, <3>4
      <4> QED BY <3>1, <3>2, <3>3, <3>6, <3>7, <4>1 DEF Good
    <3>9. Good(taken[h])
      BY <2>5, <3>8, Zenon
    <3> QED BY <3>9
  <2> QED BY <2>3, <2>4, <2>5
<1>7. 0..MaxHeight \subseteq G
  <2> HIDE DEF G
  <2> QED BY <1>5, <1>6, AllUpTo, Zenon
<1>8. Good(taken[MaxHeight])
  BY <1>7
<1>9. Good(d)
  BY <1>3, <1>4, <1>8 DEF Takes
<1> QED BY <1>9 DEF Good, Continues

-----------------------------------------------------------------------------
\* Each pair of shards is a reliable ordered channel.

Tasks == [from : Shards, lo : 1..MaxHeight, hi : 1..MaxHeight]
ShardHeights == [Shards -> 1..MaxHeight]

\* The goroutines of each shard that have yet to run continue, one after the
\* other and without a gap, where the links end, up to the best height.
Waiting(queue, best, linked) ==
  /\ \A i \in 1..Len(queue) :
       /\ queue[i].lo <= queue[i].hi /\ queue[i].hi <= best[queue[i].from]
       /\ \/ queue[i].lo = linked[queue[i].from] + 1
          \/ \E j \in 1..(i - 1) : queue[j].from = queue[i].from /\ queue[i].lo = queue[j].hi + 1
  /\ \A i, j \in 1..Len(queue) : i < j /\ queue[i].from = queue[j].from => queue[i].hi < queue[j].lo
  /\ \A f \in Shards :
       /\ linked[f] <= best[f]
       /\ \/ linked[f] = best[f]
          \/ \E i \in 1..Len(queue) : queue[i].from = f /\ queue[i].hi = best[f]

\* A beacon block starts a goroutine that continues where the best height was.
LEMMA StartedWaits ==
  ASSUME MaxHeight \in Nat, NEW q \in Seq(Tasks), NEW best \in ShardHeights, NEW linked \in ShardHeights,
         Waiting(q, best, linked), NEW from \in Shards, NEW hi \in 1..MaxHeight, hi > best[from],
         NEW t, t = [from |-> from, lo |-> best[from] + 1, hi |-> hi]
  PROVE  /\ t \in Tasks /\ Append(q, t) \in Seq(Tasks)
         /\ Waiting(Append(q, t), [best EXCEPT ![from] = hi], linked)
<1> DEFINE n == Len(q)
           p == Append(q, t)
           b == [best EXCEPT ![from] = hi]
<1>1. /\ best \in [Shards -> 1..MaxHeight] /\ linked \in [Shards -> 1..MaxHeight]
      /\ t.from = from /\ t.lo = best[from] + 1 /\ t.hi = hi
  BY DEF ShardHeights
<1>2. t \in Tasks
  <2>1. best[from] + 1 \in 1..MaxHeight
    BY <1>1
  <2> QED BY <2>1 DEF Tasks
<1>3. /\ p \in Seq(Tasks) /\ n \in Nat /\ Len(p) = n + 1 /\ p[n + 1] = t
      /\ \A i \in 1..n : p[i] = q[i] /\ q[i] \in Tasks
  BY <1>2, AppendProperties, LenProperties, ElementOfSeq
<1>4. \A i \in 1..n : q[i].from \in Shards /\ q[i].lo \in Int /\ q[i].hi \in Int
  BY <1>3 DEF Tasks
<1>5. /\ b[from] = hi /\ \A f \in Shards : f # from => b[f] = best[f]
      /\ \A f \in Shards : best[f] \in Int /\ linked[f] \in Int /\ b[f] \in Int /\ best[f] <= b[f]
  BY <1>1
<1> HIDE DEF p, b
<1>6. ASSUME NEW i \in 1..Len(p)
      PROVE  /\ p[i].lo <= p[i].hi /\ p[i].hi <= b[p[i].from]
             /\ \/ p[i].lo = linked[p[i].from] + 1
                \/ \E j \in 1..(i - 1) : p[j].from = p[i].from /\ p[i].lo = p[j].hi + 1
  <2>1. CASE i \in 1..n
    <3>1. /\ q[i].lo <= q[i].hi /\ q[i].hi <= best[q[i].from]
          /\ \/ q[i].lo = linked[q[i].from] + 1
             \/ \E j \in 1..(i - 1) : q[j].from = q[i].from /\ q[i].lo = q[j].hi + 1
      BY <2>1 DEF Waiting
    <3>2. p[i] = q[i] /\ \A j \in 1..(i - 1) : p[j] = q[j]
      BY <1>3, <2>1
    <3>3. q[i].hi <= b[q[i].from]
      <4>1. q[i].hi \in Int /\ best[q[i].from] \in Int /\ b[q[i].from] \in Int /\ best[q[i].from] <= b[q[i].from]
        BY <1>4, <1>5, <2>1
      <4> QED BY <3>1, <4>1, LeTransitive, Zenon
    <3> QED BY <3>1, <3>2, <3>3
  <2>2. CASE i = n + 1
    <3>1. p[i] = t
      BY <1>3, <2>2
    <3>2. t.lo <= t.hi /\ t.hi <= b[t.from]
      BY <1>1, <1>5
    <3>3. CASE linked[from] = best[from]
      <4>1. t.lo = linked[t.from] + 1
        BY <1>1, <3>3
      <4> QED BY <3>1, <3>2, <4>1
    <3>4. CASE \E j \in 1..n : q[j].from = from /\ q[j].hi = best[from]
      <4>1. PICK j \in 1..n : q[j].from = from /\ q[j].hi = best[from]
        BY <3>4
      <4>2. p[j].from = t.from /\ t.lo = p[j].hi + 1 /\ j \in 1..(i - 1)
        BY <1>1, <1>3, <2>2, <4>1
      <4> QED BY <3>1, <3>2, <4>2
    <3> QED BY <3>3, <3>4 DEF Waiting
  <2> QED BY <1>3, <2>1, <2>2
<1>7. ASSUME NEW i \in 1..Len(p), NEW j \in 1..Len(p), i < j, p[i].from = p[j].from
      PROVE  p[i].hi < p[j].lo
  <2>1. i \in 1..n /\ p[i] = q[i]
    BY <1>3, <1>7
  <2>2. CASE j \in 1..n
    <3>1. p[j] = q[j]
      BY <1>3, <2>2
    <3> QED BY <1>7, <2>1, <2>2, <3>1 DEF Waiting
  <2>3. CASE j = n + 1
    <3>1. p[j].lo = best[from] + 1 /\ q[i].from = from
      BY <1>1, <1>3, <1>7, <2>1, <2>3
    <3>2. q[i].hi <= best[from] /\ q[i].hi \in Int /\ best[from] \in Int
      BY <1>4, <1>5, <2>1, <3>1 DEF Waiting
    <3> QED BY <2>1, <3>1, <3>2
  <2> QED BY <1>3, <2>2, <2>3
<1>8. ASSUME NEW f \in Shards
      PROVE  /\ linked[f] <= b[f]
             /\ \/ linked[f] = b[f]
                \/ \E i \in 1..Len(p) : p[i].from = f /\ p[i].hi = b[f]
  <2>1. linked[f] <= best[f]
    BY DEF Waiting
  <2>2. linked[f] <= b[f]
    BY <1>5, <2>1, LeTransitive, Zenon
  <2>3. CASE f = from
    <3>1. n + 1 \in 1..Len(p) /\ p[n + 1].from = f /\ p[n + 1].hi = b[f]
      BY <1>1, <1>3, <1>5, <2>3
    <3> QED BY <2>2, <3>1
  <2>4. CASE f # from
    <3>1. b[f] = best[f] /\ \A i \in 1..n : i \in 1..Len(p) /\ p[i] = q[i]
      BY <1>3, <1>5, <2>4
    <3> QED BY <2>2, <3>1 DEF Waiting
  <2> QED BY <2>3, <2>4
<1>9. Waiting(p, b, linked)
  BY <1>6, <1>7, <1>8, Zenon DEF Waiting
<1> QED BY <1>2, <1>3, <1>9 DEF p, b

\* The oldest goroutine, taken from the queue.
LEMMA FirstTaken ==
  ASSUME NEW S, NEW q \in Seq(S), q # <<>>, NEW r, r = RemoveAt(q, 1)
  PROVE  /\ q[1] \in S /\ r \in Seq(S) /\ Len(r) = Len(q) - 1 /\ Len(q) \in Nat \ {0}
         /\ \A i \in 1..Len(r) : r[i] = q[i + 1]
<1> DEFINE rest == SubSeq(q, 2, Len(q))
<1>1. Len(q) \in Nat /\ Len(q) # 0 /\ q[1] \in S
  BY LenProperties, EmptySeq, ElementOfSeq
<1>2. RemoveAt(q, 1) = SubSeq(q, 1, 0) \o rest
  BY DEF RemoveAt
<1>3. SubSeq(q, 1, 0) = <<>>
  BY SubSeqEmpty
<1>4. /\ rest \in Seq(S) /\ Len(rest) = Len(q) - 1
      /\ \A i \in 1..Len(rest) : rest[i] = q[i + 1]
  <2>1. \A i \in 2..Len(q) : q[i] \in S
    BY <1>1, ElementOfSeq
  <2>2. 2 \in Int /\ Len(q) \in Int /\ 2 <= Len(q) + 1
    BY <1>1
  <2>3. /\ rest \in Seq(S)
        /\ Len(rest) = IF 2 <= Len(q) THEN Len(q) - 2 + 1 ELSE 0
        /\ \A i \in 1..(Len(q) - 2 + 1) : rest[i] = q[2 + i - 1]
    BY <2>1, <2>2, SubSeqProperties
  <2>4. Len(rest) = Len(q) - 1
    <3> HIDE DEF rest
    <3>1. CASE 2 <= Len(q)
      <4>1. Len(rest) = Len(q) - 2 + 1
        BY <2>3, <3>1
      <4> QED BY <1>1, <4>1
    <3>2. CASE ~(2 <= Len(q))
      <4>1. Len(rest) = 0
        BY <2>3, <3>2, Zenon
      <4> DEFINE n == Len(q)
      <4>2. n \in Nat /\ n # 0 /\ ~(2 <= n)
        BY <1>1, <3>2
      <4>3. n = 1
        <5> HIDE DEF n
        <5> QED BY <4>2
      <4> QED BY <4>1, <4>3
    <3> QED BY <3>1, <3>2
  <2>5. ASSUME NEW i \in 1..Len(rest) PROVE rest[i] = q[i + 1]
    <3>1. i \in 1..(Len(q) - 2 + 1) /\ 2 + i - 1 = i + 1
      BY <1>1, <2>4
    <3> HIDE DEF rest
    <3> QED BY <2>3, <3>1
  <2> QED BY <2>3, <2>4, <2>5
<1> HIDE DEF rest
<1>5. r = rest
  BY <1>2, <1>3, <1>4, ConcatEmptySeq
<1> QED BY <1>1, <1>4, <1>5

\* The goroutine that was started first continues where the links end, and the
\* others wait for it.
LEMMA FirstRuns ==
  ASSUME MaxHeight \in Nat, NEW q \in Seq(Tasks), NEW best \in ShardHeights, NEW linked \in ShardHeights,
         Waiting(q, best, linked), q # <<>>, NEW t, t = q[1]
  PROVE  /\ t \in Tasks /\ t.lo = linked[t.from] + 1 /\ linked[t.from] <= t.hi
         /\ [linked EXCEPT ![t.from] = t.hi] \in ShardHeights
         /\ RemoveAt(q, 1) \in Seq(Tasks)
         /\ Waiting(RemoveAt(q, 1), best, [linked EXCEPT ![t.from] = t.hi])
<1> DEFINE r == RemoveAt(q, 1)
           l == [linked EXCEPT ![t.from] = t.hi]
<1>1. /\ t \in Tasks /\ r \in Seq(Tasks) /\ Len(r) = Len(q) - 1 /\ Len(q) \in Nat \ {0}
      /\ \A i \in 1..Len(r) : r[i] = q[i + 1]
  BY FirstTaken
<1>2. /\ best \in [Shards -> 1..MaxHeight] /\ linked \in [Shards -> 1..MaxHeight]
      /\ t.from \in Shards /\ t.lo \in Int /\ t.hi \in 1..MaxHeight
  BY <1>1 DEF ShardHeights, Tasks
<1>3. 1 \in 1..Len(q) /\ \A i \in 1..Len(r) : i + 1 \in 1..Len(q) /\ i + 1 > 1
  BY <1>1
<1>4. \A i \in 1..Len(q) : q[i].from \in Shards /\ q[i].lo \in Int /\ q[i].hi \in Int
  <2>1. \A i \in 1..Len(q) : q[i] \in Tasks
    BY ElementOfSeq
  <2> QED BY <2>1 DEF Tasks
<1>5. t.lo = linked[t.from] + 1 /\ t.lo <= t.hi /\ t.hi <= best[t.from]
  <2>1. ~\E j \in 1..(1 - 1) : q[j].from = q[1].from /\ q[1].lo = q[j].hi + 1
    OBVIOUS
  <2> QED BY <1>3, <2>1 DEF Waiting
<1>6. linked[t.from] <= t.hi
  BY <1>2, <1>5
<1>7. l \in ShardHeights /\ l[t.from] = t.hi /\ \A f \in Shards : f # t.from => l[f] = linked[f]
  BY <1>2 DEF ShardHeights
<1> HIDE DEF r, l
<1>8. ASSUME NEW i \in 1..Len(r)
      PROVE  /\ r[i].lo <= r[i].hi /\ r[i].hi <= best[r[i].from]
             /\ \/ r[i].lo = l[r[i].from] + 1
                \/ \E j \in 1..(i - 1) : r[j].from = r[i].from /\ r[i].lo = r[j].hi + 1
  <2> DEFINE k == i + 1
  <2>1. k \in 1..Len(q) /\ 1 < k /\ r[i] = q[k]
    BY <1>1, <1>3
  <2>2. \A j \in 2..(k - 1) : j - 1 \in 1..(i - 1) /\ r[j - 1] = q[j]
    BY <1>1
  <2> HIDE DEF k
  <2>3. q[k].lo <= q[k].hi /\ q[k].hi <= best[q[k].from]
    BY <2>1 DEF Waiting
  <2>4. CASE q[k].lo = linked[q[k].from] + 1
    <3>1. q[k].from # t.from
      <4> SUFFICES ASSUME q[k].from = t.from PROVE FALSE
        OBVIOUS
      <4>1. t.hi < q[k].lo
        BY <1>3, <2>1 DEF Waiting
      <4> QED BY <1>2, <1>5, <2>4, <4>1
    <3> QED BY <1>4, <1>7, <2>1, <2>3, <2>4, <3>1
  <2>5. CASE \E j \in 1..(k - 1) : q[j].from = q[k].from /\ q[k].lo = q[j].hi + 1
    <3>1. PICK j \in 1..(k - 1) : q[j].from = q[k].from /\ q[k].lo = q[j].hi + 1
      BY <2>5
    <3>2. CASE j = 1
      BY <1>7, <2>1, <2>3, <3>1, <3>2
    <3>3. CASE j # 1
      <4>1. j \in 2..(k - 1)
        BY <2>1, <3>3
      <4> QED BY <2>1, <2>2, <2>3, <3>1, <4>1
    <3> QED BY <3>2, <3>3
  <2> QED BY <2>1, <2>4, <2>5 DEF Waiting
<1>9. ASSUME NEW i \in 1..Len(r), NEW j \in 1..Len(r), i < j, r[i].from = r[j].from
      PROVE  r[i].hi < r[j].lo
  <2>1. r[i] = q[i + 1] /\ r[j] = q[j + 1] /\ i + 1 \in 1..Len(q) /\ j + 1 \in 1..Len(q) /\ i + 1 < j + 1
    BY <1>1, <1>3, <1>9
  <2> QED BY <1>9, <2>1 DEF Waiting
<1>10. ASSUME NEW f \in Shards
       PROVE  /\ l[f] <= best[f]
              /\ \/ l[f] = best[f]
                 \/ \E i \in 1..Len(r) : r[i].from = f /\ r[i].hi = best[f]
  <2>1. linked[f] <= best[f]
        /\ (linked[f] = best[f] \/ \E i \in 1..Len(q) : q[i].from = f /\ q[i].hi = best[f])
    BY DEF Waiting
  <2>2. l[f] <= best[f]
    BY <1>5, <1>7, <2>1
  <2>3. CASE linked[f] = best[f]
    <3>1. f # t.from
      BY <1>2, <1>5, <2>3
    <3> QED BY <1>7, <2>2, <2>3, <3>1
  <2>4. CASE \E i \in 1..Len(q) : q[i].from = f /\ q[i].hi = best[f]
    <3>1. PICK i \in 1..Len(q) : q[i].from = f /\ q[i].hi = best[f]
      BY <2>4
    <3>2. CASE i = 1
      BY <1>7, <2>2, <3>1, <3>2
    <3>3. CASE i # 1
      <4>1. i - 1 \in 1..Len(r) /\ r[i - 1] = q[i]
        BY <1>1, <3>3
      <4> QED BY <2>2, <3>1, <4>1
    <3> QED BY <3>2, <3>3
  <2> QED BY <2>1, <2>3, <2>4
<1>11. Waiting(r, best, l)
  BY <1>8, <1>9, <1>10, Zenon DEF Waiting
<1> QED BY <1>1, <1>5, <1>6, <1>7, <1>11 DEF r, l

\* The links of the database and the last heights are those up to linked.
Chained(next, last, linked) ==
  \A f, to \in Shards : /\ LinkedUpTo(SentHeights(f, to), linked[f], next[f][to])
                        /\ IsLast(SentHeights(f, to), linked[f], last[f][to])

\* What a shard has processed of another is what that one has sent up to the
\* height where its next block continues.
InOrder(best, done, linked) ==
  \A to, f \in Shards : /\ best[to][f] \in {0} \union SentHeights(f, to)
                        /\ best[to][f] <= linked[f]
                        /\ done[to][f] = Ascending(SentHeights(f, to), best[to][f])

\* While goroutines run in order, the links reach a height of each shard from
\* which the goroutines to run continue, and blocks are processed along them.
Delivering(linked) ==
  /\ Waiting(tasks, bestShardHeight, linked)
  /\ Chained(nextHeight, lastCrossShard, linked)
  /\ InOrder(bestCrossShard, processed, linked)

DeliveryInv ==
  /\ bestShardHeight \in ShardHeights
  /\ tasks \in Seq(Tasks)
  /\ nextHeight \in [Shards -> [Shards -> [0..MaxHeight -> 0..MaxHeight]]]
  /\ lastCrossShard \in [Shards -> [Shards -> 0..MaxHeight]]
  /\ bestCrossShard \in [Shards -> [Shards -> 0..MaxHeight]]
  /\ processed \in [Shards -> [Shards -> Seq(1..MaxHeight)]]
  /\ \E linked \in ShardHeights : Delivering(linked)

\* What the channels see of a node.
channelVars == <<[to \in Shards |-> [from \in Shards |-> Confirmed(from, to)]], processed>>

\* Heights sent are heights.
LEMMA SentAreHeights ==
  ASSUME MaxHeight \in Nat, MaxHeight > 1, NEW f, NEW to
  PROVE  /\ SentHeights(f, to) \subseteq Heights /\ SentHeights(f, to) \subseteq 1..MaxHeight
         /\ SentHeights(f, to) \subseteq 0..MaxHeight /\ 1 \notin SentHeights(f, to)
<1>1. SentHeights(f, to) \subseteq Heights
  BY DEF SentHeights
<1>2. Heights \subseteq 1..MaxHeight /\ Heights \subseteq 0..MaxHeight /\ 1 \notin Heights
  BY DEF Heights
<1> QED BY <1>1, <1>2

\* At the start nothing is confirmed and nothing is linked.
LEMMA DeliveryStarts ==
  ASSUME CrossShardAssumption, Init
  PROVE  DeliveryInv /\ Delivery!Init
<1>0. MaxHeight \in Nat /\ MaxHeight > 1
  BY DEF CrossShardAssumption
<1>1. /\ bestShardHeight = [s \in Shards |-> 1] /\ tasks = <<>>
      /\ nextHeight = [s \in Shards |-> [t \in Shards |-> [h \in 0..MaxHeight |-> 0]]]
      /\ lastCrossShard = [s \in Shards |-> [t \in Shards |-> 0]]
      /\ bestCrossShard = [s \in Shards |-> [t \in Shards |-> 0]]
      /\ processed = [s \in Shards |-> [t \in Shards |-> <<>>]]
  BY DEF Init, PerPair
<1>2. \A f, to : Ascending(SentHeights(f, to), 0) = <<>>
  BY <1>0, AscendingStep
<1>3. \A f, to : Ascending(SentHeights(f, to), 1) = <<>>
  <2> SUFFICES ASSUME NEW f, NEW to PROVE Ascending(SentHeights(f, to), 1) = <<>>
    OBVIOUS
  <2>1. 1 \in 1..MaxHeight /\ 1 - 1 = 0 /\ 1 \notin SentHeights(f, to)
    BY <1>0, SentAreHeights
  <2>2. Ascending(SentHeights(f, to), 1) = Ascending(SentHeights(f, to), 1 - 1)
    BY <1>0, <2>1, AscendingStep
  <2> QED BY <1>2, <2>1, <2>2
<1>4. bestShardHeight \in ShardHeights
  BY <1>0, <1>1 DEF ShardHeights
<1>5. tasks \in Seq(Tasks) /\ Len(tasks) = 0
  BY <1>1, EmptySeq
<1>6. /\ nextHeight \in [Shards -> [Shards -> [0..MaxHeight -> 0..MaxHeight]]]
      /\ lastCrossShard \in [Shards -> [Shards -> 0..MaxHeight]]
      /\ bestCrossShard \in [Shards -> [Shards -> 0..MaxHeight]]
  BY <1>0, <1>1
<1>7. processed \in [Shards -> [Shards -> Seq(1..MaxHeight)]]
  <2>1. <<>> \in Seq(1..MaxHeight)
    BY EmptySeq
  <2> QED BY <1>1, <2>1
<1>8. Waiting(tasks, bestShardHeight, bestShardHeight)
  BY <1>1, <1>5 DEF Waiting
<1>9. Chained(nextHeight, lastCrossShard, bestShardHeight)
  <2> SUFFICES ASSUME NEW f \in Shards, NEW to \in Shards
               PROVE  /\ LinkedUpTo(SentHeights(f, to), 1, [h \in 0..MaxHeight |-> 0])
                      /\ IsLast(SentHeights(f, to), 1, 0)
    BY <1>1 DEF Chained
  <2>1. \A x \in SentHeights(f, to) : x \in Int /\ x > 1 /\ x \in 0..MaxHeight
    <3>1. \A x \in Heights : x \in Int /\ x > 1 /\ x \in 0..MaxHeight
      BY <1>0 DEF Heights
    <3> QED BY <1>0, <3>1, SentAreHeights
  <2>2. 0 \in 0..MaxHeight
    BY <1>0
  <2> QED BY <2>1, <2>2 DEF LinkedUpTo, IsLast
<1>10. InOrder(bestCrossShard, processed, bestShardHeight)
  BY <1>1, <1>2 DEF InOrder
<1>11. DeliveryInv
  BY <1>4, <1>5, <1>6, <1>7, <1>8, <1>9, <1>10 DEF DeliveryInv, Delivering
<1>12. \A f, to \in Shards : Confirmed(f, to) = <<>>
  BY <1>1, <1>3 DEF Confirmed
<1>13. Delivery!Init
  BY <1>1, <1>12 DEF Delivery!Init
<1> QED BY <1>11, <1>13

\* What is confirmed up to a greater height is prolonged.
LEMMA ConfirmedGrows ==
  ASSUME MaxHeight \in Nat, MaxHeight > 1, NEW f, NEW to,
         NEW i \in 0..MaxHeight, NEW j \in 0..MaxHeight, i <= j
  PROVE  /\ Ascending(SentHeights(f, to), i) \in Seq(Heights)
         /\ Ascending(SentHeights(f, to), j) \in Seq(Heights)
         /\ Delivery!IsPrefix(Ascending(SentHeights(f, to), i), Ascending(SentHeights(f, to), j))
<1> DEFINE sent == SentHeights(f, to)
<1>1. sent \subseteq Heights
  BY SentAreHeights
<1> HIDE DEF sent
<1>2. Ascending(sent, i) \in Seq(sent) /\ Ascending(sent, j) \in Seq(sent)
  BY AscendingStep
<1>3. Ascending(sent, i) \in Seq(Heights) /\ Ascending(sent, j) \in Seq(Heights)
  BY <1>1, <1>2, SeqMonotonic, Zenon
<1>4. IsPrefix(Ascending(sent, i), Ascending(sent, j))
  BY AscendingGrows
<1>5. Delivery!IsPrefix(Ascending(sent, i), Ascending(sent, j))
  BY <1>4 DEF IsPrefix, Delivery!IsPrefix
<1> QED BY <1>3, <1>5 DEF sent

\* A beacon block prolongs what is confirmed of one shard, for all others.
LEMMA BeaconConfirms ==
  ASSUME CrossShardAssumption, DeliveryInv, NEW from \in Shards, NEW hi \in Heights,
         InsertBeaconBlock(from, hi)
  PROVE  DeliveryInv' /\ Delivery!Confirm(from)
<1> DEFINE t == [from |-> from, lo |-> bestShardHeight[from] + 1, hi |-> hi]
<1>0. /\ MaxHeight \in Nat /\ MaxHeight > 1 /\ hi \in 1..MaxHeight
      /\ bestShardHeight \in [Shards -> 1..MaxHeight]
  BY DEF CrossShardAssumption, Heights, DeliveryInv, ShardHeights
<1>1. /\ hi > bestShardHeight[from]
      /\ bestShardHeight' = [bestShardHeight EXCEPT ![from] = hi]
      /\ tasks' = Append(tasks, t)
      /\ UNCHANGED <<lastCrossShard, nextHeight, bestCrossShard, processed>>
  BY DEF InsertBeaconBlock, shardVars
<1>2. PICK linked \in ShardHeights : Delivering(linked)
  BY DEF DeliveryInv
<1>3. tasks' \in Seq(Tasks) /\ Waiting(tasks', bestShardHeight', linked)
  <2>1. bestShardHeight \in ShardHeights /\ tasks \in Seq(Tasks) /\ Waiting(tasks, bestShardHeight, linked)
    BY <1>2 DEF DeliveryInv, Delivering
  <2> HIDE DEF t
  <2>2. t = [from |-> from, lo |-> bestShardHeight[from] + 1, hi |-> hi]
    BY DEF t
  <2> QED BY <1>0, <1>1, <2>1, <2>2, StartedWaits
<1>4. bestShardHeight' \in ShardHeights
  BY <1>0, <1>1 DEF ShardHeights
<1>5. DeliveryInv'
  BY <1>1, <1>2, <1>3, <1>4 DEF DeliveryInv, Delivering
<1>6. ASSUME NEW to \in Shards, NEW f \in Shards
      PROVE  /\ Confirmed(f, to)' \in Seq(Heights)
             /\ IF f = from THEN Delivery!IsPrefix(Confirmed(f, to), Confirmed(f, to)')
                            ELSE Confirmed(f, to)' = Confirmed(f, to)
  <2>1. /\ bestShardHeight[f] \in 0..MaxHeight /\ bestShardHeight'[f] \in 0..MaxHeight
        /\ bestShardHeight[f] <= bestShardHeight'[f]
        /\ f # from => bestShardHeight'[f] = bestShardHeight[f]
    BY <1>0, <1>1
  <2>2. /\ Confirmed(f, to) = Ascending(SentHeights(f, to), bestShardHeight[f])
        /\ Confirmed(f, to)' = Ascending(SentHeights(f, to), bestShardHeight'[f])
    BY DEF Confirmed, SentHeights, Ascending
  <2> QED BY <1>0, <2>1, <2>2, ConfirmedGrows
<1>7. Delivery!Confirm(from)
  BY <1>1, <1>6 DEF Delivery!Confirm
<1> QED BY <1>5, <1>7

\* The oldest goroutine takes the links further, and with them nothing else.
LEMMA FirstTaskLinks ==
  ASSUME CrossShardAssumption, DeliveryInv, tasks # <<>>, RunTask(1)
  PROVE  DeliveryInv'
<1> DEFINE t == tasks[1]
           lk == [to \in Shards |->
                    Linked(nextHeight[t.from][to], lastCrossShard[t.from][to],
                           SentHeights(t.from, to) \cap (t.lo .. t.hi))]
<1>0. MaxHeight \in Nat /\ MaxHeight > 1
  BY DEF CrossShardAssumption
<1>1. /\ UNCHANGED <<bestShardHeight, bestCrossShard, processed>>
      /\ tasks' = RemoveAt(tasks, 1)
      /\ nextHeight' = [nextHeight EXCEPT ![t.from] = [to \in Shards |-> lk[to].next]]
      /\ lastCrossShard' = [lastCrossShard EXCEPT ![t.from] = [to \in Shards |-> lk[to].last]]
  BY DEF RunTask, shardVars
<1>2. PICK linked \in ShardHeights : Delivering(linked)
  BY DEF DeliveryInv
<1>3. /\ bestShardHeight \in ShardHeights /\ tasks \in Seq(Tasks)
      /\ Waiting(tasks, bestShardHeight, linked)
      /\ Chained(nextHeight, lastCrossShard, linked)
      /\ InOrder(bestCrossShard, processed, linked)
  BY <1>2 DEF DeliveryInv, Delivering
<1>4. /\ nextHeight \in [Shards -> [Shards -> [0..MaxHeight -> 0..MaxHeight]]]
      /\ lastCrossShard \in [Shards -> [Shards -> 0..MaxHeight]]
      /\ bestCrossShard \in [Shards -> [Shards -> 0..MaxHeight]]
      /\ processed \in [Shards -> [Shards -> Seq(1..MaxHeight)]]
  BY DEF DeliveryInv
<1> DEFINE l == [linked EXCEPT ![t.from] = t.hi]
<1>5. /\ t \in Tasks /\ t.lo = linked[t.from] + 1 /\ linked[t.from] <= t.hi
      /\ l \in ShardHeights /\ tasks' \in Seq(Tasks)
      /\ Waiting(tasks', bestShardHeight', l)
  BY <1>0, <1>1, <1>3, FirstRuns
<1>6. /\ t.from \in Shards /\ t.hi \in 0..MaxHeight
      /\ linked[t.from] \in 0..MaxHeight /\ linked \in [Shards -> 1..MaxHeight]
  BY <1>5 DEF Tasks, ShardHeights
<1>7. /\ l[t.from] = t.hi /\ \A f \in Shards : f # t.from => l[f] = linked[f]
      /\ \A f \in Shards : l[f] \in Int /\ linked[f] \in Int /\ linked[f] <= l[f]
  BY <1>5, <1>6
<1>8. ASSUME NEW to \in Shards
      PROVE  /\ LinkedUpTo(SentHeights(t.from, to), t.hi, lk[to].next)
             /\ IsLast(SentHeights(t.from, to), t.hi, lk[to].last)
             /\ lk[to].next \in [0..MaxHeight -> 0..MaxHeight]
             /\ lk[to].last \in 0..MaxHeight
  <2> DEFINE sent == SentHeights(t.from, to)
             next == nextHeight[t.from][to]
             last == lastCrossShard[t.from][to]
             r == Linked(next, last, sent \cap ((linked[t.from] + 1) .. t.hi))
  <2>1. lk[to] = r
    BY <1>5
  <2>2. sent \subseteq 1..MaxHeight /\ sent \subseteq 0..MaxHeight
    BY <1>0, SentAreHeights
  <2>3. LinkedUpTo(sent, linked[t.from], next) /\ IsLast(sent, linked[t.from], last)
    BY <1>3, <1>6 DEF Chained
  <2> HIDE DEF t, lk, sent, next, last
  <2>4. LinkedUpTo(sent, t.hi, r.next) /\ IsLast(sent, t.hi, r.last)
    <3>1. PICK q : q = r
      OBVIOUS
    <3>2. q = Linked(next, last, sent \cap ((linked[t.from] + 1) .. t.hi))
      BY <3>1
    <3> HIDE DEF r
    <3>3. LinkedUpTo(sent, t.hi, q.next) /\ IsLast(sent, t.hi, q.last)
      BY <1>0, <1>5, <1>6, <2>2, <2>3, <3>2, LinkedFurther
    <3> QED BY <3>1, <3>3
  <2> HIDE DEF r
  <2>5. r.next \in [0..MaxHeight -> 0..MaxHeight]
    BY <2>4 DEF LinkedUpTo
  <2>6. r.last \in 0..MaxHeight
    <3>1. r.last \in {0} \union sent
      BY <2>4 DEF IsLast
    <3>2. 0 \in 0..MaxHeight
      BY <1>0
    <3> QED BY <2>2, <3>1, <3>2
  <2> QED BY <2>1, <2>4, <2>5, <2>6 DEF sent
<1> HIDE DEF t, lk, l
<1>9. /\ nextHeight' \in [Shards -> [Shards -> [0..MaxHeight -> 0..MaxHeight]]]
      /\ lastCrossShard' \in [Shards -> [Shards -> 0..MaxHeight]]
  BY <1>1, <1>4, <1>6, <1>8
<1>10. ASSUME NEW f \in Shards, NEW to \in Shards
       PROVE  /\ LinkedUpTo(SentHeights(f, to), l[f], nextHeight'[f][to])
              /\ IsLast(SentHeights(f, to), l[f], lastCrossShard'[f][to])
  <2>1. CASE f = t.from
    <3>1. nextHeight'[f][to] = lk[to].next /\ lastCrossShard'[f][to] = lk[to].last
      BY <1>1, <1>4, <1>6, <2>1
    <3> QED BY <1>7, <1>8, <2>1, <3>1
  <2>2. CASE f # t.from
    <3>1. nextHeight'[f][to] = nextHeight[f][to] /\ lastCrossShard'[f][to] = lastCrossShard[f][to]
      BY <1>1, <1>4, <2>2
    <3> QED BY <1>3, <1>7, <2>2, <3>1 DEF Chained
  <2> QED BY <2>1, <2>2
<1>11. InOrder(bestCrossShard, processed, l)
  <2> SUFFICES ASSUME NEW to \in Shards, NEW f \in Shards PROVE bestCrossShard[to][f] <= l[f]
    BY <1>3 DEF InOrder
  <2>1. bestCrossShard[to][f] \in Int /\ bestCrossShard[to][f] <= linked[f]
    BY <1>0, <1>3, <1>4 DEF InOrder
  <2> QED BY <1>7, <2>1, LeTransitive, Zenon
<1>12. Chained(nextHeight', lastCrossShard', l)
  BY <1>10 DEF Chained
<1>13. PICK m \in ShardHeights : m = l
  BY <1>5
<1>14. Delivering(m)'
  BY <1>1, <1>5, <1>11, <1>12, <1>13 DEF Delivering
<1> QED BY <1>1, <1>3, <1>4, <1>5, <1>9, <1>13, <1>14 DEF DeliveryInv

\* A block of a shard processes what follows, and nothing that was not confirmed.
LEMMA BlockProcesses ==
  ASSUME CrossShardAssumption, DeliveryInv, NEW to \in Shards, NEW limit, InsertShardBlock(to, limit)
  PROVE  DeliveryInv' /\ Delivery!Process(to)
<1> DEFINE data == [f \in Shards |-> CrossShardData(nextHeight[f][to], bestCrossShard[to][f],
                                                    GetValidBlock(to, f, limit))]
           best(f) == IF data[f] = <<>> THEN bestCrossShard[to][f] ELSE Last(data[f])
           done(f) == processed[to][f] \o data[f]
<1>0. MaxHeight \in Nat /\ MaxHeight > 1
  BY DEF CrossShardAssumption
<1>1. /\ UNCHANGED <<bestShardHeight, tasks, nextHeight, lastCrossShard>>
      /\ bestCrossShard' = [bestCrossShard EXCEPT ![to] = [f \in Shards |-> best(f)]]
      /\ processed' = [processed EXCEPT ![to] = [f \in Shards |-> done(f)]]
  BY DEF InsertShardBlock, beaconVars
<1>2. PICK linked \in ShardHeights : Delivering(linked)
  BY DEF DeliveryInv
<1>3. /\ Waiting(tasks, bestShardHeight, linked)
      /\ Chained(nextHeight, lastCrossShard, linked)
      /\ InOrder(bestCrossShard, processed, linked)
      /\ linked \in [Shards -> 1..MaxHeight] /\ bestShardHeight \in [Shards -> 1..MaxHeight]
      /\ bestCrossShard \in [Shards -> [Shards -> 0..MaxHeight]]
      /\ processed \in [Shards -> [Shards -> Seq(1..MaxHeight)]]
  BY <1>2 DEF DeliveryInv, Delivering, ShardHeights
<1>4. ASSUME NEW f \in Shards
      PROVE  /\ best(f) \in {0} \union SentHeights(f, to) /\ best(f) <= linked[f]
             /\ bestCrossShard[to][f] <= best(f)
             /\ done(f) = Ascending(SentHeights(f, to), best(f))
  <2> DEFINE sent == SentHeights(f, to)
             start == bestCrossShard[to][f]
             next == nextHeight[f][to]
             d == data[f]
  <2>1. d = CrossShardData(next, start, GetValidBlock(to, f, limit))
    OBVIOUS
  <2>2. best(f) = Tip(d, start)
    BY DEF Tip
  <2>3. LinkedUpTo(sent, linked[f], next)
    BY <1>3 DEF Chained
  <2>4. start \in {0} \union sent /\ start <= linked[f] /\ processed[to][f] = Ascending(sent, start)
    BY <1>3 DEF InOrder
  <2>5. sent \subseteq 1..MaxHeight
    BY <1>0, SentAreHeights
  <2>6. linked[f] \in 0..MaxHeight
    BY <1>3
  <2> HIDE DEF sent, start, next, data, d
  <2>7. /\ Tip(d, start) \in {0} \union sent /\ start <= Tip(d, start) /\ Tip(d, start) <= linked[f]
        /\ done(f) = Ascending(sent, Tip(d, start))
    <3>1. PICK top \in 0..MaxHeight : top = linked[f]
      BY <2>6
    <3>2. LinkedUpTo(sent, top, next) /\ start <= top
      BY <2>3, <2>4, <3>1
    <3>3. /\ Tip(d, start) \in {0} \union sent /\ start <= Tip(d, start) /\ Tip(d, start) <= top
          /\ done(f) = Ascending(sent, Tip(d, start))
      <4>1. done(f) = Ascending(sent, start) \o d
        BY <2>4 DEF d
      <4> HIDE DEF done
      <4>2. Continues(sent, start, top, d, done(f))
        BY <1>0, <2>1, <2>4, <2>5, <3>1, <3>2, <4>1, DataFollows
      <4> QED BY <4>2 DEF Continues
    <3> QED BY <3>1, <3>3
  <2> HIDE DEF best, done
  <2> QED BY <2>2, <2>7 DEF sent, start
<1> HIDE DEF data, best, done
<1>5. ASSUME NEW f \in Shards
      PROVE  /\ best(f) \in 0..MaxHeight /\ bestCrossShard[to][f] \in 0..MaxHeight
             /\ bestShardHeight[f] \in 0..MaxHeight /\ best(f) <= bestShardHeight[f]
             /\ done(f) \in Seq(1..MaxHeight)
  <2>1. best(f) \in 0..MaxHeight
    <3>1. 0 \in 0..MaxHeight /\ SentHeights(f, to) \subseteq 0..MaxHeight
      BY <1>0, SentAreHeights
    <3> QED BY <1>4, <3>1
  <2>2. bestCrossShard[to][f] \in 0..MaxHeight /\ bestShardHeight[f] \in 0..MaxHeight
    BY <1>3
  <2>3. best(f) <= bestShardHeight[f]
    <3>1. linked[f] <= bestShardHeight[f]
      BY <1>3 DEF Waiting
    <3>2. best(f) \in Int /\ linked[f] \in Int /\ bestShardHeight[f] \in Int
      BY <1>3, <2>1
    <3> QED BY <1>4, <3>1, <3>2, LeTransitive, Zenon
  <2>4. done(f) \in Seq(1..MaxHeight)
    <3>1. Ascending(SentHeights(f, to), best(f)) \in Seq(SentHeights(f, to))
      BY <1>0, <2>1, AscendingStep
    <3>2. SentHeights(f, to) \subseteq 1..MaxHeight
      BY <1>0, SentAreHeights
    <3> QED BY <1>4, <3>1, <3>2, SeqMonotonic, Zenon
  <2> QED BY <2>1, <2>2, <2>3, <2>4
<1>6. /\ bestCrossShard' \in [Shards -> [Shards -> 0..MaxHeight]]
      /\ processed' \in [Shards -> [Shards -> Seq(1..MaxHeight)]]
  BY <1>1, <1>3, <1>5
<1>7. /\ \A f \in Shards : bestCrossShard'[to][f] = best(f) /\ processed'[to][f] = done(f)
      /\ \A s \in Shards : s # to => bestCrossShard'[s] = bestCrossShard[s] /\ processed'[s] = processed[s]
  BY <1>1, <1>3
<1>8. InOrder(bestCrossShard', processed', linked)
  <2> SUFFICES ASSUME NEW s \in Shards, NEW f \in Shards
               PROVE  /\ bestCrossShard'[s][f] \in {0} \union SentHeights(f, s)
                      /\ bestCrossShard'[s][f] <= linked[f]
                      /\ processed'[s][f] = Ascending(SentHeights(f, s), bestCrossShard'[s][f])
    BY DEF InOrder
  <2>1. CASE s = to
    BY <1>4, <1>7, <2>1
  <2>2. CASE s # to
    BY <1>3, <1>7, <2>2 DEF InOrder
  <2> QED BY <2>1, <2>2
<1>9. Delivering(linked)'
  BY <1>1, <1>3, <1>8 DEF Delivering
<1>10. DeliveryInv'
  BY <1>1, <1>2, <1>6, <1>9 DEF DeliveryInv
<1>11. ASSUME NEW s \in Shards, NEW f \in Shards
       PROVE  IF s = to THEN /\ Delivery!IsPrefix(processed[s][f], processed'[s][f])
                             /\ Delivery!IsPrefix(processed'[s][f], Confirmed(f, s))
                        ELSE processed'[s][f] = processed[s][f]
  <2>1. CASE s = to
    <3>1. /\ processed[s][f] = Ascending(SentHeights(f, to), bestCrossShard[to][f])
          /\ processed'[s][f] = Ascending(SentHeights(f, to), best(f))
      BY <1>3, <1>4, <1>7, <2>1 DEF InOrder
    <3>2. Confirmed(f, s) = Ascending(SentHeights(f, to), bestShardHeight[f])
      BY <2>1 DEF Confirmed
    <3>3. bestCrossShard[to][f] <= best(f)
      BY <1>4
    <3>4. Delivery!IsPrefix(processed[s][f], processed'[s][f])
      BY <1>0, <1>5, <3>1, <3>3, ConfirmedGrows
    <3>5. Delivery!IsPrefix(processed'[s][f], Confirmed(f, s))
      BY <1>0, <1>5, <3>1, <3>2, ConfirmedGrows
    <3> QED BY <2>1, <3>4, <3>5
  <2>2. CASE s # to
    BY <1>7, <2>2
  <2> QED BY <2>1, <2>2
<1>12. \A f, s : Confirmed(f, s)' = Confirmed(f, s)
  BY <1>1 DEF Confirmed, SentHeights, Ascending
<1>13. Delivery!Process(to)
  BY <1>11, <1>12 DEF Delivery!Process
<1> QED BY <1>10, <1>13

\* While goroutines run in the order in which they were started, each pair of
\* shards is a reliable ordered channel: what a shard processes is what the
\* beacon chain has confirmed for it, in that order, whatever blocks its pool
\* receives, of whatever chain, and whatever it evicts.
THEOREM TransferIsDelivery == ASSUME CrossShardAssumption PROVE OrderedSpec => IsDelivery
<1>1. Init => DeliveryInv /\ Delivery!Init
  BY DeliveryStarts
<1>2. ASSUME DeliveryInv, [OrderedNext]_vars
      PROVE  DeliveryInv' /\ (Delivery!Next \/ UNCHANGED channelVars)
  <2>1. ASSUME UNCHANGED <<bestShardHeight, tasks, nextHeight, lastCrossShard, bestCrossShard, processed>>
        PROVE  DeliveryInv' /\ UNCHANGED channelVars
    <3>1. DeliveryInv'
      BY <1>2, <2>1 DEF DeliveryInv, Delivering
    <3>2. \A f, to : Confirmed(f, to)' = Confirmed(f, to)
      BY <2>1 DEF Confirmed, SentHeights, Ascending
    <3> QED BY <2>1, <3>1, <3>2 DEF channelVars
  <2>2. ASSUME NEW from \in Shards, NEW hi \in Heights, InsertBeaconBlock(from, hi)
        PROVE  DeliveryInv' /\ Delivery!Next
    BY <1>2, <2>2, BeaconConfirms DEF Delivery!Next
  <2>3. CASE StoreBeaconBestState
    BY <2>1, <2>3 DEF StoreBeaconBestState, shardVars
  <2>4. ASSUME NEW to \in Shards, NEW limit, InsertShardBlock(to, limit)
        PROVE  DeliveryInv' /\ Delivery!Next
    BY <1>2, <2>4, BlockProcesses DEF Delivery!Next
  <2>5. CASE \E to \in Shards : RefreshPool(to)
    BY <2>1, <2>5 DEF RefreshPool, beaconVars
  <2>6. CASE tasks # <<>> /\ RunTask(1)
    <3>1. UNCHANGED <<bestShardHeight, processed>>
      BY <2>6 DEF RunTask, shardVars
    <3>2. \A f, to : Confirmed(f, to)' = Confirmed(f, to)
      BY <3>1 DEF Confirmed, SentHeights, Ascending
    <3>3. UNCHANGED channelVars
      BY <3>1, <3>2 DEF channelVars
    <3> QED BY <1>2, <2>6, <3>3, FirstTaskLinks
  <2>7. CASE ReceiveSent \/ ReceiveForked
    BY <2>1, <2>7 DEF ReceiveSent, ReceiveForked, AddCrossShardBlock, beaconVars, shardVars
  <2>8. CASE UNCHANGED vars
    BY <2>1, <2>8 DEF vars, beaconVars, shardVars
  <2> QED BY <1>2, <2>2, <2>3, <2>4, <2>5, <2>6, <2>7, <2>8 DEF OrderedNext, BeaconStep, ShardStep
<1>3. DeliveryInv /\ [OrderedNext]_vars => DeliveryInv'
  BY <1>2
<1>4. DeliveryInv /\ [OrderedNext]_vars => [Delivery!Next]_channelVars
  BY <1>2
<1> QED BY <1>1, <1>3, <1>4, PTL DEF OrderedSpec, IsDelivery, Delivery!Spec, channelVars

-----------------------------------------------------------------------------
\* What the blocks of a chain ask for and mint.

BridgeBlock == [reqs : Seq(Requests) \ {<<>>}, mints : Seq(Mints)]

RequestsOf(c) == UNION {ToSet(c[i].reqs) : i \in DOMAIN c}
PlacesOf(c) == UNION {{<<h, i>> : i \in DOMAIN c[h].mints} : h \in DOMAIN c}
MintsOf(c, t) == {p \in PlacesOf(c) : c[p[1]].mints[p[2]].token = t}
AmountsOf(c) == [p \in PlacesOf(c) |-> c[p[1]].mints[p[2]].amount]
OfToken(rs, t) == {r \in rs : TokenOf[r] = t}

MintSum(c, t) == SumOver(MintsOf(c, t), AmountsOf(c))
IssueSum(c, t) == SumOf(OfToken(RequestsOf(c) \cap Issues, t))
BurnSum(c, t) == SumOf(OfToken(RequestsOf(c) \cap Burns, t))

\* Positions and elements of a sequence are finitely many.
LEMMA FiniteRange ==
  ASSUME NEW X, NEW s \in Seq(X)
  PROVE  IsFiniteSet(DOMAIN s) /\ IsFiniteSet(ToSet(s))
<1>1. DOMAIN s = 1..Len(s) /\ Len(s) \in Nat
  OBVIOUS
<1>2. IsFiniteSet(DOMAIN s)
  BY <1>1, FS_Interval
<1>3. IsFiniteSet(ImageOf(s, DOMAIN s))
  BY <1>2, FiniteImage, Zenon
<1> QED BY <1>2, <1>3 DEF ToSet, ImageOf

\* What a block of a chain is.
LEMMA BlockOfChain ==
  ASSUME NEW c \in Seq(BridgeBlock), NEW h \in DOMAIN c
  PROVE  c[h].reqs \in Seq(Requests) /\ c[h].reqs # <<>> /\ c[h].mints \in Seq(Mints)
<1>1. c[h] \in BridgeBlock
  OBVIOUS
<1> QED BY <1>1 DEF BridgeBlock

\* The requests of a chain are finitely many,
LEMMA FiniteRequests ==
  ASSUME NEW c \in Seq(BridgeBlock)
  PROVE  IsFiniteSet(RequestsOf(c)) /\ RequestsOf(c) \subseteq Requests
<1> DEFINE f == [i \in DOMAIN c |-> ToSet(c[i].reqs)]
<1>1. IsFiniteSet(DOMAIN c)
  BY FiniteRange, Zenon
<1>2. ASSUME NEW i \in DOMAIN c PROVE IsFiniteSet(f[i]) /\ f[i] \subseteq Requests
  <2>1. c[i].reqs \in Seq(Requests)
    BY BlockOfChain, Zenon
  <2>2. IsFiniteSet(ToSet(c[i].reqs))
    BY <2>1, FiniteRange, Zenon
  <2>3. ToSet(c[i].reqs) \subseteq Requests
    BY <2>1 DEF ToSet
  <2> QED BY <2>2, <2>3
<1>3. ImageOf(f, DOMAIN c) = {ToSet(c[i].reqs) : i \in DOMAIN c}
  BY DEF ImageOf
<1>4. IsFiniteSet(ImageOf(f, DOMAIN c)) /\ \A T \in ImageOf(f, DOMAIN c) : IsFiniteSet(T)
  <2> HIDE DEF f
  <2>1. IsFiniteSet(ImageOf(f, DOMAIN c))
    BY <1>1, FiniteImage, Zenon
  <2> QED BY <1>2, <2>1 DEF ImageOf
<1>5. IsFiniteSet(UNION ImageOf(f, DOMAIN c))
  <2> HIDE DEF f
  <2> QED BY <1>4, FS_UNION, Zenon
<1> QED BY <1>2, <1>3, <1>5 DEF RequestsOf

\* and so are the places of its mints.
LEMMA FinitePlaces ==
  ASSUME NEW c \in Seq(BridgeBlock)
  PROVE  IsFiniteSet(PlacesOf(c))
<1> DEFINE f == [h \in DOMAIN c |-> {<<h, i>> : i \in DOMAIN c[h].mints}]
<1>1. IsFiniteSet(DOMAIN c)
  BY FiniteRange, Zenon
<1>2. ASSUME NEW h \in DOMAIN c PROVE IsFiniteSet(f[h])
  <2> DEFINE pair == [i \in DOMAIN c[h].mints |-> <<h, i>>]
  <2>1. c[h].mints \in Seq(Mints)
    BY BlockOfChain, Zenon
  <2>2. IsFiniteSet(DOMAIN c[h].mints)
    BY <2>1, FiniteRange, Zenon
  <2>3. IsFiniteSet(ImageOf(pair, DOMAIN c[h].mints))
    <3> HIDE DEF pair
    <3> QED BY <2>2, FiniteImage, Zenon
  <2>4. ImageOf(pair, DOMAIN c[h].mints) = f[h]
    BY DEF ImageOf
  <2> QED BY <2>3, <2>4
<1>3. ImageOf(f, DOMAIN c) = {{<<h, i>> : i \in DOMAIN c[h].mints} : h \in DOMAIN c}
  BY DEF ImageOf
<1>4. IsFiniteSet(ImageOf(f, DOMAIN c)) /\ \A T \in ImageOf(f, DOMAIN c) : IsFiniteSet(T)
  <2> HIDE DEF f
  <2>1. IsFiniteSet(ImageOf(f, DOMAIN c))
    BY <1>1, FiniteImage, Zenon
  <2> QED BY <1>2, <2>1 DEF ImageOf
<1>5. IsFiniteSet(UNION ImageOf(f, DOMAIN c))
  <2> HIDE DEF f
  <2> QED BY <1>4, FS_UNION, Zenon
<1> QED BY <1>3, <1>5 DEF PlacesOf

\* What a sum over requests needs.
LEMMA RequestsAdd ==
  ASSUME NEW rs, IsFiniteSet(rs), rs \subseteq Requests
  PROVE  Summable(rs, AmountOf)
<1>1. \A r \in Requests : AmountOf[r] \in Nat
  BY BridgeAssumptionHolds DEF BridgeAssumption
<1> QED BY <1>1 DEF Summable

\* The mints of a token can be summed.
LEMMA MintsAdd ==
  ASSUME NEW c \in Seq(BridgeBlock), NEW t
  PROVE  Summable(MintsOf(c, t), AmountsOf(c))
<1>1. IsFiniteSet(MintsOf(c, t))
  <2>1. MintsOf(c, t) \in SUBSET PlacesOf(c)
    BY DEF MintsOf
  <2> QED BY <2>1, FinitePlaces, FS_Subset, Zenon
<1>2. ASSUME NEW p \in MintsOf(c, t) PROVE AmountsOf(c)[p] \in Nat
  <2>1. p \in PlacesOf(c) /\ AmountsOf(c)[p] = c[p[1]].mints[p[2]].amount
    BY DEF MintsOf, AmountsOf
  <2>2. PICK h \in DOMAIN c : \E i \in DOMAIN c[h].mints : p = <<h, i>>
    BY <2>1 DEF PlacesOf
  <2>3. PICK i \in DOMAIN c[h].mints : p = <<h, i>>
    BY <2>2
  <2>4. c[h].mints \in Seq(Mints)
    BY BlockOfChain, Zenon
  <2>5. c[h].mints[i] \in Mints
    BY <2>4
  <2>6. c[h].mints[i].amount \in BridgeAmounts
    BY <2>5 DEF Mints, Mint
  <2>7. BridgeAmounts \subseteq Nat
    BY BridgeAssumptionHolds DEF BridgeAssumption, BridgeAmounts
  <2> QED BY <2>1, <2>3, <2>6, <2>7
<1> QED BY <1>1, <1>2 DEF Summable

\* What a committee that signs the block b after the chain c has seen of it.
SoundBlock(c, b) ==
  /\ b \in BridgeBlock
  /\ RequestsOf(c) \cap ToSet(b.reqs) = {}
  /\ \A t \in BridgeTokenIDs :
        LET burns == OfToken(ToSet(b.reqs) \cap Burns, t)
        IN  burns # {} => SumOf(burns) <= MintSum(c, t) - BurnSum(c, t)
  /\ \A i \in DOMAIN b.mints :
        LET m == b.mints[i]
        IN  m.req \in ToSet(b.reqs) \cap Issues /\ m.token = TokenOf[m.req] /\ m.amount = AmountOf[m.req]
  /\ \A i, j \in DOMAIN b.mints : b.mints[i].token = b.mints[j].token => i = j

\* What is burned was minted, and what is minted was deposited.
Backed(c) ==
  \A t \in BridgeTokenIDs : BurnSum(c, t) <= MintSum(c, t) /\ MintSum(c, t) <= IssueSum(c, t)

\* A chain with one more block.
LEMMA ChainAppend ==
  ASSUME NEW c \in Seq(BridgeBlock), NEW b \in BridgeBlock
  PROVE  /\ Append(c, b) \in Seq(BridgeBlock)
         /\ DOMAIN Append(c, b) = DOMAIN c \cup {Len(c) + 1} /\ Len(c) + 1 \notin DOMAIN c
         /\ \A i \in DOMAIN c : Append(c, b)[i] = c[i]
         /\ Append(c, b)[Len(c) + 1] = b
  OBVIOUS

\* Its requests are those of the chain and those of the block.
LEMMA AppendedRequests ==
  ASSUME NEW c \in Seq(BridgeBlock), NEW b \in BridgeBlock
  PROVE  RequestsOf(Append(c, b)) = RequestsOf(c) \cup ToSet(b.reqs)
  BY ChainAppend DEF RequestsOf

\* The mints of b come after those of c, which keep their places.
LEMMA AppendedMints ==
  ASSUME NEW c \in Seq(BridgeBlock), NEW b \in BridgeBlock, NEW t
  PROVE  LET new == {<<Len(c) + 1, i>> : i \in {j \in DOMAIN b.mints : b.mints[j].token = t}}
         IN  /\ MintsOf(Append(c, b), t) = MintsOf(c, t) \cup new
             /\ MintsOf(c, t) \cap new = {}
             /\ \A p \in MintsOf(c, t) : AmountsOf(Append(c, b))[p] = AmountsOf(c)[p]
             /\ \A i \in DOMAIN b.mints : AmountsOf(Append(c, b))[<<Len(c) + 1, i>>] = b.mints[i].amount
<1> DEFINE d == Append(c, b)
           n == Len(c) + 1
           here == {<<n, i>> : i \in DOMAIN b.mints}
<1>1. /\ DOMAIN d = DOMAIN c \cup {n} /\ n \notin DOMAIN c
      /\ \A i \in DOMAIN c : d[i] = c[i]
      /\ d[n] = b
  BY ChainAppend
<1> HIDE DEF d, n
<1>2. PlacesOf(d) = PlacesOf(c) \cup here
  BY <1>1 DEF PlacesOf
<1>3. ASSUME NEW p \in PlacesOf(c) PROVE p[1] \in DOMAIN c /\ p[1] # n /\ d[p[1]] = c[p[1]]
  <2>1. PICK h \in DOMAIN c : p \in {<<h, i>> : i \in DOMAIN c[h].mints}
    BY DEF PlacesOf
  <2> QED BY <1>1, <2>1
<1>4. \A i : <<n, i>>[1] = n /\ <<n, i>>[2] = i
  OBVIOUS
<1>5. \A p \in PlacesOf(c) : AmountsOf(d)[p] = AmountsOf(c)[p]
  BY <1>2, <1>3 DEF AmountsOf
<1>6. \A i \in DOMAIN b.mints : AmountsOf(d)[<<n, i>>] = b.mints[i].amount
  BY <1>1, <1>2, <1>4 DEF AmountsOf
<1>7. MintsOf(d, t) = MintsOf(c, t) \cup {<<n, i>> : i \in {j \in DOMAIN b.mints : b.mints[j].token = t}}
  <2>1. ASSUME NEW p PROVE p \in MintsOf(d, t) <=> \/ p \in MintsOf(c, t)
                                                   \/ p \in here /\ b.mints[p[2]].token = t
    <3>1. p \in here => p[1] = n /\ d[p[1]] = b
      BY <1>1
    <3> HIDE DEF here
    <3> QED BY <1>2, <1>3, <3>1 DEF MintsOf
  <2> HIDE DEF n
  <2> QED BY <2>1
<1>8. MintsOf(c, t) \cap {<<n, i>> : i \in {j \in DOMAIN b.mints : b.mints[j].token = t}} = {}
  BY <1>3 DEF MintsOf
<1>9. \A p \in MintsOf(c, t) : p \in PlacesOf(c)
  BY DEF MintsOf
<1> QED BY <1>5, <1>6, <1>7, <1>8, <1>9 DEF d, n

IsTotal(z, x, y) == x \in Nat /\ y \in Nat /\ z = x + y

\* The sum over the requests of a kind is that of c and that of b.
LEMMA AppendedSum ==
  ASSUME NEW c \in Seq(BridgeBlock), NEW b, SoundBlock(c, b), NEW K, NEW t
  PROVE  IsTotal(SumOf(OfToken(RequestsOf(Append(c, b)) \cap K, t)),
                 SumOf(OfToken(RequestsOf(c) \cap K, t)), SumOf(OfToken(ToSet(b.reqs) \cap K, t)))
<1> DEFINE old == OfToken(RequestsOf(c) \cap K, t)
           new == OfToken(ToSet(b.reqs) \cap K, t)
<1>0. b \in BridgeBlock /\ RequestsOf(c) \cap ToSet(b.reqs) = {}
  BY DEF SoundBlock
<1>1. OfToken(RequestsOf(Append(c, b)) \cap K, t) = old \cup new /\ old \cap new = {}
  BY <1>0, AppendedRequests DEF OfToken
<1>2. Summable(old, AmountOf)
  <2>1. old \in SUBSET RequestsOf(c)
    BY DEF OfToken
  <2> HIDE DEF old
  <2>2. IsFiniteSet(old) /\ old \subseteq Requests
    BY <2>1, FiniteRequests, FS_Subset
  <2> QED BY <2>2, RequestsAdd, Zenon
<1>3. Summable(new, AmountOf)
  <2>1. b.reqs \in Seq(Requests)
    BY <1>0 DEF BridgeBlock
  <2>2. IsFiniteSet(ToSet(b.reqs)) /\ ToSet(b.reqs) \subseteq Requests
    BY <2>1, FiniteRange DEF ToSet
  <2>3. new \in SUBSET ToSet(b.reqs)
    BY DEF OfToken
  <2> HIDE DEF new
  <2>4. IsFiniteSet(new) /\ new \subseteq Requests
    BY <2>2, <2>3, FS_Subset
  <2> QED BY <2>4, RequestsAdd, Zenon
<1> HIDE DEF old, new
<1>4. /\ SumOver(old, AmountOf) \in Nat /\ SumOver(new, AmountOf) \in Nat
      /\ SumOver(old \cup new, AmountOf) = SumOver(old, AmountOf) + SumOver(new, AmountOf)
  BY <1>1, <1>2, <1>3, SumOverUnion, SMT
<1> QED BY <1>1, <1>4 DEF IsTotal, SumOf, old, new

\* A sound block keeps a chain backed: it mints a token once at most, for a
\* request of its own, and burns no more than there is.
LEMMA BackedAppend ==
  ASSUME NEW c \in Seq(BridgeBlock), NEW b, SoundBlock(c, b), Backed(c)
  PROVE  Backed(Append(c, b))
<1> SUFFICES ASSUME NEW t \in BridgeTokenIDs
             PROVE  /\ BurnSum(Append(c, b), t) <= MintSum(Append(c, b), t)
                    /\ MintSum(Append(c, b), t) <= IssueSum(Append(c, b), t)
  BY DEF Backed
<1> DEFINE d == Append(c, b)
           burns == OfToken(ToSet(b.reqs) \cap Burns, t)
           issues == OfToken(ToSet(b.reqs) \cap Issues, t)
           at == {j \in DOMAIN b.mints : b.mints[j].token = t}
           new == {<<Len(c) + 1, i>> : i \in at}
<1>1. b \in BridgeBlock /\ RequestsOf(c) \cap ToSet(b.reqs) = {}
  BY DEF SoundBlock
<1>2. /\ SumOf(burns) \in Nat /\ BurnSum(c, t) \in Nat
      /\ BurnSum(d, t) = BurnSum(c, t) + SumOf(burns)
  <2>1. IsTotal(BurnSum(d, t), BurnSum(c, t), SumOf(burns))
    BY AppendedSum, Zenon DEF BurnSum
  <2> QED BY <2>1 DEF IsTotal
<1>3. /\ SumOf(issues) \in Nat /\ IssueSum(c, t) \in Nat
      /\ IssueSum(d, t) = IssueSum(c, t) + SumOf(issues)
  <2>1. IsTotal(IssueSum(d, t), IssueSum(c, t), SumOf(issues))
    BY AppendedSum, Zenon DEF IssueSum
  <2> QED BY <2>1 DEF IsTotal
<1>4. /\ MintsOf(d, t) = MintsOf(c, t) \cup new
      /\ MintsOf(c, t) \cap new = {}
      /\ \A p \in MintsOf(c, t) : AmountsOf(d)[p] = AmountsOf(c)[p]
      /\ \A i \in DOMAIN b.mints : AmountsOf(d)[<<Len(c) + 1, i>>] = b.mints[i].amount
  BY <1>1, AppendedMints
<1>5. Summable(MintsOf(c, t), AmountsOf(c)) /\ Summable(MintsOf(d, t), AmountsOf(d))
  BY <1>1, MintsAdd, ChainAppend
<1>6. SumOver(MintsOf(c, t), AmountsOf(d)) = MintSum(c, t)
  <2>1. SumOver(MintsOf(c, t), AmountsOf(d)) = SumOver(MintsOf(c, t), AmountsOf(c))
    BY <1>4, <1>5, SumOverSame
  <2> QED BY <2>1 DEF MintSum
<1>7. Summable(MintsOf(c, t), AmountsOf(d)) /\ Summable(new, AmountsOf(d))
  <2>1. MintsOf(c, t) \in SUBSET MintsOf(d, t) /\ new \in SUBSET MintsOf(d, t)
    BY <1>4
  <2> HIDE DEF new, d
  <2> QED BY <1>5, <2>1, FS_Subset DEF Summable
<1>8. /\ MintSum(c, t) \in Nat /\ SumOver(new, AmountsOf(d)) \in Nat
      /\ MintSum(d, t) = MintSum(c, t) + SumOver(new, AmountsOf(d))
  <2> HIDE DEF new, d
  <2>1. /\ SumOver(MintsOf(c, t), AmountsOf(d)) \in Nat /\ SumOver(new, AmountsOf(d)) \in Nat
        /\ SumOver(MintsOf(c, t) \cup new, AmountsOf(d)) = SumOver(MintsOf(c, t), AmountsOf(d)) + SumOver(new, AmountsOf(d))
    BY <1>4, <1>7, SumOverUnion, SMT
  <2> QED BY <1>4, <1>6, <2>1 DEF MintSum
<1>9. SumOf(burns) <= MintSum(c, t) - BurnSum(c, t) \/ SumOf(burns) = 0
  <2>1. CASE burns = {}
    BY <2>1, SumOverNothing DEF SumOf
  <2>2. CASE burns # {}
    BY <2>2 DEF SoundBlock
  <2> QED BY <2>1, <2>2
<1>10. SumOver(new, AmountsOf(d)) <= SumOf(issues)
  <2>1. CASE at = {}
    <3>1. new = {}
      BY <2>1
    <3>2. SumOver({}, AmountsOf(d)) = 0
      BY SumOverNothing
    <3> HIDE DEF new, d, issues
    <3> QED BY <1>3, <3>1, <3>2
  <2>2. CASE at # {}
    <3>1. PICK i \in at : TRUE
      BY <2>2
    <3> DEFINE m == b.mints[i]
               q == <<Len(c) + 1, i>>
    <3>2. at = {i}
      BY <3>1 DEF SoundBlock
    <3>3. new = {q}
      BY <3>2
    <3>4. m.req \in ToSet(b.reqs) \cap Issues /\ m.token = TokenOf[m.req] /\ m.amount = AmountOf[m.req]
      BY <3>1 DEF SoundBlock
    <3>5. m.req \in issues
      BY <3>1, <3>4 DEF OfToken
    <3>6. AmountsOf(d)[q] = AmountOf[m.req]
      BY <1>4, <3>1, <3>4
    <3>7. AmountOf[m.req] \in Nat
      <4>1. \A r \in Requests : AmountOf[r] \in Nat
        BY BridgeAssumptionHolds DEF BridgeAssumption
      <4>2. m.req \in Requests
        BY <3>4 DEF Requests
      <4> HIDE DEF m
      <4> QED BY <4>1, <4>2
    <3>8. SumOver({q}, AmountsOf(d)) = AmountOf[m.req] /\ SumOver({m.req}, AmountOf) = AmountOf[m.req]
      <4> HIDE DEF m, q, d
      <4> QED BY <3>6, <3>7, SumOverOne
    <3>9. Summable(issues, AmountOf)
      <4>1. b.reqs \in Seq(Requests)
        BY <1>1 DEF BridgeBlock
      <4>2. IsFiniteSet(ToSet(b.reqs)) /\ ToSet(b.reqs) \subseteq Requests
        BY <4>1, FiniteRange DEF ToSet
      <4>3. issues \in SUBSET ToSet(b.reqs)
        BY DEF OfToken
      <4> HIDE DEF issues
      <4>4. IsFiniteSet(issues) /\ issues \subseteq Requests
        BY <4>2, <4>3, FS_Subset
      <4> QED BY <4>4, RequestsAdd, Zenon
    <3>10. SumOver({m.req}, AmountOf) <= SumOver(issues, AmountOf)
      <4>1. {m.req} \in SUBSET issues
        BY <3>5
      <4> HIDE DEF issues, m
      <4> QED BY <3>9, <4>1, SumOverPart, Zenon
    <3> QED BY <3>3, <3>8, <3>10 DEF SumOf
  <2> QED BY <2>1, <2>2
<1>11. BurnSum(c, t) <= MintSum(c, t) /\ MintSum(c, t) <= IssueSum(c, t)
  BY DEF Backed
<1> HIDE DEF d, burns, issues, at, new
<1>12. BurnSum(d, t) <= MintSum(d, t) /\ MintSum(d, t) <= IssueSum(d, t)
  BY <1>2, <1>3, <1>8, <1>9, <1>10, <1>11
<1> QED BY <1>12 DEF d

-----------------------------------------------------------------------------
\* Blocks of honest producers.

\* The responses s answer different issuing requests among the first i of reqs.
Answers(s, reqs, i) ==
  /\ s \in Seq(Mints)
  /\ \A a \in DOMAIN s : \E p \in 1..i : reqs[p] \in Issues /\ s[a] = buildIssuanceTx(reqs[p])
  /\ \A a, b \in DOMAIN s : a # b => s[a].req # s[b].req

\* The response to an issuing request mints what was asked for.
LEMMA ResponseIsMint ==
  ASSUME NEW r \in Issues
  PROVE  buildIssuanceTx(r) \in Mints /\ buildIssuanceTx(r).req = r
<1>1. r \in Requests
  BY DEF Requests
<1>2. TokenOf[r] \in BridgeTokenIDs /\ AmountOf[r] \in BridgeAmounts
  BY <1>1 DEF BridgeTokenIDs, BridgeAmounts
<1>3. buildIssuanceTx(r) = Mint(r, TokenOf[r], AmountOf[r])
  BY DEF buildIssuanceTx, NewIssuingRequest
<1>4. Mint(r, TokenOf[r], AmountOf[r]) \in Mints
  BY <1>2 DEF Mints
<1> QED BY <1>3, <1>4 DEF Mint

\* One more request is answered, when it is an issue.
LEMMA AnswersStep ==
  ASSUME NEW n \in Nat, NEW reqs, \A i, j \in 1..n : reqs[i] = reqs[j] => i = j,
         NEW i \in 1..n, NEW s, Answers(s, reqs, i - 1)
  PROVE  Answers(IF reqs[i] \in Issues THEN Append(s, buildIssuanceTx(reqs[i])) ELSE s, reqs, i)
<1>1. CASE reqs[i] \notin Issues
  BY <1>1 DEF Answers
<1>2. CASE reqs[i] \in Issues
  <2> DEFINE m == buildIssuanceTx(reqs[i])
             d == Append(s, m)
  <2>1. m \in Mints /\ m.req = reqs[i]
    BY <1>2, ResponseIsMint, Zenon
  <2> HIDE DEF m
  <2>2. s \in Seq(Mints)
    BY DEF Answers
  <2>3. /\ d \in Seq(Mints) /\ DOMAIN d = DOMAIN s \cup {Len(s) + 1} /\ d[Len(s) + 1] = m
        /\ \A a \in DOMAIN s : d[a] = s[a]
    BY <2>1, <2>2
  <2>4. ASSUME NEW a \in DOMAIN s PROVE s[a].req # m.req
    <3>1. PICK p \in 1..(i - 1) : reqs[p] \in Issues /\ s[a] = buildIssuanceTx(reqs[p])
      BY DEF Answers
    <3>2. s[a].req = reqs[p]
      BY <3>1, ResponseIsMint
    <3>3. p \in 1..n /\ p # i
      BY <3>1
    <3> QED BY <2>1, <3>2, <3>3
  <2>5. ASSUME NEW a \in DOMAIN d PROVE \E p \in 1..i : reqs[p] \in Issues /\ d[a] = buildIssuanceTx(reqs[p])
    <3>1. CASE a \in DOMAIN s
      <4>1. PICK p \in 1..(i - 1) : reqs[p] \in Issues /\ s[a] = buildIssuanceTx(reqs[p])
        BY <3>1 DEF Answers
      <4>2. p \in 1..i
        BY <4>1
      <4> QED BY <2>3, <3>1, <4>1, <4>2
    <3>2. CASE a \notin DOMAIN s
      <4>1. d[a] = m /\ i \in 1..i
        BY <2>3, <3>2
      <4> QED BY <1>2, <4>1 DEF m
    <3> QED BY <3>1, <3>2
  <2>6. ASSUME NEW a \in DOMAIN d, NEW b \in DOMAIN d, a # b PROVE d[a].req # d[b].req
    <3> HIDE DEF d
    <3>1. CASE a \in DOMAIN s /\ b \in DOMAIN s
      BY <2>3, <2>6, <3>1 DEF Answers
    <3>2. CASE a \notin DOMAIN s \/ b \notin DOMAIN s
      BY <2>3, <2>4, <2>6, <3>2
    <3> QED BY <3>1, <3>2
  <2> HIDE DEF d
  <2>7. Answers(d, reqs, i)
    BY <2>3, <2>5, <2>6 DEF Answers
  <2> QED BY <1>2, <2>7 DEF d, m
<1> QED BY <1>1, <1>2

\* What buildStabilityResponseTxsAtShardOnly returns.
LEMMA ResponsesAnswer ==
  ASSUME NEW n \in Nat, NEW reqs, DOMAIN reqs = 1..n, Len(reqs) = n, IsInjective(reqs)
  PROVE  Answers(buildStabilityResponseTxsAtShardOnly(reqs), reqs, n)
<1> DEFINE Body(f, i) == IF i = 0 THEN <<>>
                         ELSE IF reqs[i] \in Issues THEN Append(f[i - 1], buildIssuanceTx(reqs[i])) ELSE f[i - 1]
           upTo == CHOOSE f : f = [i \in 0..Len(reqs) |-> Body(f, i)]
           step == [i \in 1..n |-> [s \in Seq(Mints) |->
                      IF reqs[i] \in Issues THEN Append(s, buildIssuanceTx(reqs[i])) ELSE s]]
           G == {i \in 0..n : Answers(upTo[i], reqs, i)}
<1>1. \E f : f = [i \in 0..Len(reqs) |-> Body(f, i)]
  <2>1. \A i \in 1..n : \A s \in Seq(Mints) :
           step[i][s] = IF reqs[i] \in Issues THEN Append(s, buildIssuanceTx(reqs[i])) ELSE s
    OBVIOUS
  <2>2. \A i \in 1..n : \A s \in Seq(Mints) : step[i][s] \in Seq(Mints)
    BY ResponseIsMint
  <2>3. <<>> \in Seq(Mints)
    OBVIOUS
  <2> HIDE DEF step
  <2>4. PICK f : Iterates(f, Seq(Mints), n, <<>>, step)
    BY <2>2, <2>3, RecursionExists, Zenon
  <2>5. ASSUME NEW i \in 0..n PROVE f[i] = Body(f, i)
    <3>1. i # 0 => i \in 1..n /\ i - 1 \in 0..n
      OBVIOUS
    <3> QED BY <2>1, <2>4, <3>1 DEF Iterates
  <2>6. f = [i \in 0..n |-> f[i]]
    BY <2>4 DEF Iterates
  <2>7. [i \in 0..n |-> f[i]] = [i \in 0..n |-> Body(f, i)]
    <3> HIDE DEF Body
    <3> QED BY <2>5
  <2> QED BY <2>6, <2>7, Zenon
<1>2. upTo = [i \in 0..Len(reqs) |-> Body(upTo, i)]
  BY <1>1, Zenon
<1>3. buildStabilityResponseTxsAtShardOnly(reqs) = upTo[n]
  BY DEF buildStabilityResponseTxsAtShardOnly
<1> HIDE DEF upTo
<1>4. ASSUME NEW i \in 0..n PROVE upTo[i] = Body(upTo, i)
  <2> HIDE DEF Body
  <2> QED BY <1>2
<1>5. 0 \in G
  <2>1. upTo[0] = <<>> /\ 0 \in 0..n
    BY <1>4
  <2>2. <<>> \in Seq(Mints) /\ DOMAIN <<>> = {}
    OBVIOUS
  <2> QED BY <2>1, <2>2 DEF Answers
<1>6. ASSUME NEW i \in 1..n, i - 1 \in G PROVE i \in G
  <2>1. i \in 0..n /\ i # 0
    OBVIOUS
  <2>2. upTo[i] = IF reqs[i] \in Issues THEN Append(upTo[i - 1], buildIssuanceTx(reqs[i])) ELSE upTo[i - 1]
    BY <1>4, <2>1
  <2>3. \A j, k \in 1..n : reqs[j] = reqs[k] => j = k
    BY DEF IsInjective
  <2>4. Answers(upTo[i - 1], reqs, i - 1)
    BY <1>6
  <2>5. Answers(IF reqs[i] \in Issues THEN Append(upTo[i - 1], buildIssuanceTx(reqs[i])) ELSE upTo[i - 1], reqs, i)
    BY <2>3, <2>4, AnswersStep, Zenon
  <2>6. Answers(upTo[i], reqs, i)
    BY <2>2, <2>5, Zenon
  <2> QED BY <2>1, <2>6
<1>7. 0..n \subseteq G
  <2> HIDE DEF G
  <2> QED BY <1>5, <1>6, AllUpTo, Zenon
<1>8. n \in G
  BY <1>7
<1> QED BY <1>3, <1>8

\* An empty chain has nothing.
LEMMA NothingBacked == Backed(<<>>)
<1>1. RequestsOf(<<>>) = {} /\ PlacesOf(<<>>) = {}
  BY DEF RequestsOf, PlacesOf
<1>2. ASSUME NEW t PROVE BurnSum(<<>>, t) = 0 /\ MintSum(<<>>, t) = 0 /\ IssueSum(<<>>, t) = 0
  <2>1. /\ OfToken(RequestsOf(<<>>) \cap Burns, t) = {} /\ OfToken(RequestsOf(<<>>) \cap Issues, t) = {}
        /\ MintsOf(<<>>, t) = {}
    BY <1>1 DEF OfToken, MintsOf
  <2> QED BY <2>1, SumOverNothing DEF BurnSum, MintSum, IssueSum, SumOf
<1> QED BY <1>2 DEF Backed

\* Every block of a chain was sound when it came.
SoundChain(c) == \A k \in DOMAIN c : SoundBlock(SubSeq(c, 1, k - 1), c[k])

\* The chain as it was after its k-th block.
LEMMA ChainPrefix ==
  ASSUME NEW c \in Seq(BridgeBlock)
  PROVE  /\ SubSeq(c, 1, 0) = <<>> /\ SubSeq(c, 1, Len(c)) = c
         /\ \A k \in 0..Len(c) : SubSeq(c, 1, k) \in Seq(BridgeBlock) /\ Len(SubSeq(c, 1, k)) = k
         /\ \A k \in DOMAIN c : SubSeq(c, 1, k) = Append(SubSeq(c, 1, k - 1), c[k])
<1>1. SubSeq(c, 1, 0) = <<>> /\ SubSeq(c, 1, Len(c)) = c
  OBVIOUS
<1>2. \A k \in 0..Len(c) : SubSeq(c, 1, k) \in Seq(BridgeBlock) /\ Len(SubSeq(c, 1, k)) = k
  OBVIOUS
<1>3. ASSUME NEW k \in DOMAIN c PROVE SubSeq(c, 1, k) = Append(SubSeq(c, 1, k - 1), c[k])
  <2>1. k \in 1..Len(c)
    OBVIOUS
  <2> QED BY <2>1
<1> QED BY <1>1, <1>2, <1>3

\* A sound block continues a sound chain.
LEMMA SoundChainAppend ==
  ASSUME NEW c \in Seq(BridgeBlock), SoundChain(c), NEW b, SoundBlock(c, b)
  PROVE  Append(c, b) \in Seq(BridgeBlock) /\ SoundChain(Append(c, b))
<1> DEFINE d == Append(c, b)
<1>1. b \in BridgeBlock
  BY DEF SoundBlock
<1>2. ASSUME NEW k \in DOMAIN d PROVE SoundBlock(SubSeq(d, 1, k - 1), d[k])
  <2>1. CASE k \in DOMAIN c
    <3>1. SubSeq(d, 1, k - 1) = SubSeq(c, 1, k - 1) /\ d[k] = c[k]
      BY <1>1, <2>1
    <3> HIDE DEF d
    <3> QED BY <2>1, <3>1 DEF SoundChain
  <2>2. CASE k \notin DOMAIN c
    <3>1. SubSeq(d, 1, k - 1) = c /\ d[k] = b
      BY <1>1, <2>2
    <3> HIDE DEF d
    <3> QED BY <3>1
  <2> QED BY <2>1, <2>2
<1>3. d \in Seq(BridgeBlock)
  BY <1>1
<1> HIDE DEF d
<1>4. SoundChain(d)
  BY <1>2 DEF SoundChain
<1> QED BY <1>3, <1>4 DEF d

\* All that such a chain has ever been is backed.
LEMMA SoundIsBacked ==
  ASSUME NEW c \in Seq(BridgeBlock), SoundChain(c)
  PROVE  \A k \in 0..Len(c) : Backed(SubSeq(c, 1, k))
<1> DEFINE G == {k \in 0..Len(c) : Backed(SubSeq(c, 1, k))}
<1>0. Len(c) \in Nat /\ DOMAIN c = 1..Len(c)
  OBVIOUS
<1>1. 0 \in G
  <2>1. SubSeq(c, 1, 0) = <<>>
    BY ChainPrefix
  <2>2. Backed(SubSeq(c, 1, 0))
    BY <2>1, NothingBacked, Zenon
  <2> QED BY <1>0, <2>2
<1>2. ASSUME NEW k \in 1..Len(c), k - 1 \in G PROVE k \in G
  <2>1. k \in DOMAIN c /\ k - 1 \in 0..Len(c) /\ k \in 0..Len(c)
    BY <1>0
  <2>2. SubSeq(c, 1, k - 1) \in Seq(BridgeBlock) /\ SubSeq(c, 1, k) = Append(SubSeq(c, 1, k - 1), c[k])
    BY <2>1, ChainPrefix
  <2>3. SoundBlock(SubSeq(c, 1, k - 1), c[k]) /\ Backed(SubSeq(c, 1, k - 1))
    BY <1>2, <2>1 DEF SoundChain
  <2>4. Backed(Append(SubSeq(c, 1, k - 1), c[k]))
    BY <2>2, <2>3, BackedAppend, Zenon
  <2> QED BY <2>1, <2>2, <2>4
<1>3. 0..Len(c) \subseteq G
  <2> HIDE DEF G
  <2> QED BY <1>0, <1>1, <1>2, AllUpTo, Zenon
<1> QED BY <1>3

-----------------------------------------------------------------------------
\* The state of the bridge.

\* Holdings are mints less burns of the chain.
LEMMA BridgeState ==
  /\ OnChain = RequestsOf(shardChain)
  /\ \A t : Holdings(t) = MintSum(shardChain, t) - BurnSum(shardChain, t)
<1>1. OnChain = RequestsOf(shardChain)
  BY DEF OnChain, RequestsOf
<1>2. Minted = PlacesOf(shardChain)
  BY DEF Minted, PlacesOf
<1>3. ASSUME NEW t PROVE MintedOf(t) = MintsOf(shardChain, t)
  BY <1>2 DEF MintedOf, MintAt, MintsOf
<1>4. [p \in Minted |-> MintAt(p).amount] = AmountsOf(shardChain)
  BY <1>2 DEF MintAt, AmountsOf
<1>5. ASSUME NEW t PROVE {r \in OnChain \cap Burns : TokenOf[r] = t} = OfToken(RequestsOf(shardChain) \cap Burns, t)
  BY <1>1 DEF OfToken
<1>6. ASSUME NEW t PROVE Holdings(t) = MintSum(shardChain, t) - BurnSum(shardChain, t)
  BY <1>3, <1>4, <1>5 DEF Holdings, MintSum, BurnSum
<1> QED BY <1>1, <1>6

\* A block that the committee signs is sound.
LEMMA SignedIsSound ==
  ASSUME NEW b \in BridgeBlock, SignedBlock(b)
  PROVE  SoundBlock(shardChain, b)
<1>1. ASSUME NEW r \in ToSet(b.reqs) PROVE r \notin RequestsOf(shardChain)
  <2>1. PICK i \in DOMAIN b.reqs : r = b.reqs[i]
    BY DEF ToSet
  <2>2. ValidateRequest(b.reqs[i])
    BY DEF SignedBlock, ValidateTxList
  <2> QED BY <2>1, <2>2, BridgeState DEF ValidateRequest
<1>2. ASSUME NEW t \in BridgeTokenIDs, OfToken(ToSet(b.reqs) \cap Burns, t) # {}
      PROVE  SumOf(OfToken(ToSet(b.reqs) \cap Burns, t)) <= MintSum(shardChain, t) - BurnSum(shardChain, t)
  <2>1. SumOf(OfToken(ToSet(b.reqs) \cap Burns, t)) <= Holdings(t)
    BY <1>2 DEF SignedBlock, ValidateTxList, SpendOnce, OfToken
  <2> QED BY <2>1, BridgeState
<1>3. ASSUME NEW i \in DOMAIN b.mints
      PROVE  LET m == b.mints[i]
             IN  m.req \in ToSet(b.reqs) \cap Issues /\ m.token = TokenOf[m.req] /\ m.amount = AmountOf[m.req]
  <2> DEFINE m == b.mints[i]
  <2>1. b.mints \in Seq(Mints)
    BY DEF BridgeBlock
  <2>2. m \in Mints
    BY <2>1
  <2>3. m.req \in Issues
    BY <2>2 DEF Mints, Mint
  <2>4. m.req \in ToSet(b.reqs) /\ GetTransferData(m) = NewIssuingRequest(m.req)
    BY DEF SignedBlock, VerifyMinerCreatedTxs, VerifyIssuingResponse
  <2>5. m.token = TokenOf[m.req] /\ m.amount = AmountOf[m.req]
    <3>1. GetTransferData(m).token = NewIssuingRequest(m.req).token /\ GetTransferData(m).amount = NewIssuingRequest(m.req).amount
      BY <2>4
    <3> QED BY <3>1 DEF GetTransferData, NewIssuingRequest
  <2> QED BY <2>3, <2>4, <2>5
<1>4. \A i, j \in DOMAIN b.mints : b.mints[i].token = b.mints[j].token => i = j
  BY DEF SignedBlock, ValidateTxList
<1> QED BY <1>1, <1>2, <1>3, <1>4 DEF SoundBlock

\* All three sums are natural numbers.
LEMMA SumsAreNumbers ==
  ASSUME NEW c \in Seq(BridgeBlock), NEW t
  PROVE  BurnSum(c, t) \in Nat /\ MintSum(c, t) \in Nat /\ IssueSum(c, t) \in Nat
<1>1. ASSUME NEW K PROVE SumOf(OfToken(RequestsOf(c) \cap K, t)) \in Nat
  <2> DEFINE rs == OfToken(RequestsOf(c) \cap K, t)
  <2>1. rs \in SUBSET RequestsOf(c)
    BY DEF OfToken
  <2> HIDE DEF rs
  <2>2. Summable(RequestsOf(c), AmountOf)
    BY FiniteRequests, RequestsAdd, Zenon
  <2>3. SumOver(rs, AmountOf) \in Nat
    BY <2>1, <2>2, SumOverPart, Zenon
  <2> QED BY <2>3 DEF SumOf, rs
<1>2. MintSum(c, t) \in Nat
  <2>1. MintsOf(c, t) \in SUBSET MintsOf(c, t)
    OBVIOUS
  <2> QED BY <2>1, MintsAdd, SumOverPart, Zenon DEF MintSum
<1> QED BY <1>1, <1>2 DEF BurnSum, IssueSum

\* The requests of a proposal are different ones of the pool.
LEMMA ProposalFits ==
  ASSUME bridgePool \subseteq Requests, NEW reqs \in Proposals
  PROVE  /\ Len(reqs) \in Nat /\ DOMAIN reqs = 1..Len(reqs)
         /\ reqs \in Seq(Requests) \ {<<>>} /\ IsInjective(reqs)
<1>1. MaxBlockTxs \in Nat
  BY BridgeAssumptionHolds DEF BridgeAssumption
<1>2. PICK n \in 1..MaxBlockTxs : reqs \in [1..n -> bridgePool] /\ IsInjective(reqs)
  BY DEF Proposals
<1>3. n \in Nat /\ n > 0
  BY <1>1
<1>4. reqs \in Seq(Requests) /\ Len(reqs) = n
  BY <1>2, <1>3
<1> QED BY <1>2, <1>3, <1>4

\* The chain holds what committees signed, one block after the other.
BridgeInv ==
  /\ bridgePool \subseteq Requests
  /\ rawTxs \subseteq Requests
  /\ shardChain \in Seq(BridgeBlock)
  /\ SoundChain(shardChain)

\* What a signed block does to the chain.
LEMMA InsertKeepsSound ==
  ASSUME BridgeInv, NEW b \in BridgeBlock, SignedBlock(b), InsertShard(b)
  PROVE  shardChain' \in Seq(BridgeBlock) /\ SoundChain(shardChain') /\ bridgePool' \subseteq Requests
<1>1. SoundBlock(shardChain, b)
  BY SignedIsSound, Zenon
<1>2. Append(shardChain, b) \in Seq(BridgeBlock) /\ SoundChain(Append(shardChain, b))
  BY <1>1, SoundChainAppend DEF BridgeInv
<1> QED BY <1>2 DEF InsertShard, BridgeInv

\* Requests and their responses make a block.
LEMMA HonestBlockFits ==
  ASSUME BridgeInv, NEW reqs \in Proposals
  PROVE  ShardBlock(reqs, buildStabilityResponseTxsAtShardOnly(reqs)) \in BridgeBlock
<1>1. Answers(buildStabilityResponseTxsAtShardOnly(reqs), reqs, Len(reqs)) /\ reqs \in Seq(Requests) \ {<<>>}
  BY ProposalFits, ResponsesAnswer DEF BridgeInv
<1> QED BY <1>1 DEF Answers, ShardBlock, BridgeBlock

\* The invariant holds at first,
LEMMA BridgeStarts ==
  ASSUME BridgeInit
  PROVE  BridgeInv
<1>1. shardChain = <<>> /\ bridgePool = {} /\ rawTxs = {}
  BY DEF BridgeInit
<1>2. <<>> \in Seq(BridgeBlock) /\ DOMAIN <<>> = {}
  OBVIOUS
<1> QED BY <1>1, <1>2 DEF BridgeInv, SoundChain

\* and every step keeps it: only signed blocks come to the chain.
LEMMA BridgeInvStep ==
  ASSUME BridgeInv, [BridgeNext]_bridgeVars
  PROVE  BridgeInv'
<1> USE DEF BridgeInv
<1>1. ASSUME NEW r \in Requests, CreateIssue(r) \/ CreateBurn(r) \/ SendIssue(r) \/ SendBurn(r) \/ DropPending(r)
      PROVE  BridgeInv'
  BY <1>1 DEF CreateIssue, CreateBurn, SendIssue, SendBurn, Send, DropPending
<1>2. ASSUME NEW reqs \in Proposals, ProduceBridgeBlock(reqs)
      PROVE  BridgeInv'
  <2> DEFINE b == ShardBlock(reqs, buildStabilityResponseTxsAtShardOnly(reqs))
  <2>1. b \in BridgeBlock
    BY HonestBlockFits, Zenon
  <2>2. rawTxs' = rawTxs /\ ((SignedBlock(b) /\ InsertShard(b)) \/ UNCHANGED <<bridgePool, shardChain>>)
    BY <1>2 DEF ProduceBridgeBlock
  <2> HIDE DEF b
  <2>3. CASE SignedBlock(b) /\ InsertShard(b)
    BY <2>1, <2>2, <2>3, InsertKeepsSound
  <2>4. CASE UNCHANGED <<bridgePool, shardChain>>
    BY <2>2, <2>4
  <2> QED BY <2>2, <2>3, <2>4
<1>3. ASSUME NEW reqs \in Proposals, NEW n \in 0 .. MaxBlockTxs, NEW mints \in [1 .. n -> Mints],
             FaultyBlock(reqs, mints)
      PROVE  BridgeInv'
  <2> DEFINE b == ShardBlock(reqs, mints)
  <2>1. reqs \in Seq(Requests) \ {<<>>}
    BY ProposalFits
  <2>2. n \in Nat
    BY BridgeAssumptionHolds DEF BridgeAssumption
  <2>3. mints \in Seq(Mints)
    BY <2>2
  <2>4. b \in BridgeBlock
    BY <2>1, <2>3 DEF ShardBlock, BridgeBlock
  <2>5. rawTxs' = rawTxs /\ SignedBlock(b) /\ InsertShard(b)
    BY <1>3 DEF FaultyBlock
  <2> HIDE DEF b
  <2> QED BY <2>4, <2>5, InsertKeepsSound
<1>4. ASSUME NEW to \in DOMAIN shardChain, NEW crash \in BOOLEAN, InsertBeacon(to, crash)
      PROVE  BridgeInv'
  BY <1>4 DEF InsertBeacon
<1>5. CASE UNCHANGED bridgeVars
  BY <1>5 DEF bridgeVars
<1> QED BY <1>1, <1>2, <1>3, <1>4, <1>5 DEF BridgeNext

\* Whatever a producer proposes, what is burned of a token was minted, and what
\* is minted of it was deposited (issuingresponse.go, stabilityvalidation.go).
THEOREM BridgeMintsAreBacked == BridgeSpec => []MintsAreBacked
<1>1. BridgeInv => MintsAreBacked
  <2> SUFFICES ASSUME BridgeInv, NEW t \in BridgeTokenIDs
               PROVE  /\ Holdings(t) >= 0
                      /\ Holdings(t) <= SumOf({r \in OnChain \cap Issues : TokenOf[r] = t})
                                          - SumOf({r \in OnChain \cap Burns : TokenOf[r] = t})
    BY DEF MintsAreBacked
  <2>1. Len(shardChain) \in 0..Len(shardChain) /\ SubSeq(shardChain, 1, Len(shardChain)) = shardChain
    BY DEF BridgeInv
  <2>2. Backed(shardChain)
    BY <2>1, SoundIsBacked DEF BridgeInv
  <2>3. /\ SumOf({r \in OnChain \cap Issues : TokenOf[r] = t}) = IssueSum(shardChain, t)
        /\ SumOf({r \in OnChain \cap Burns : TokenOf[r] = t}) = BurnSum(shardChain, t)
    BY BridgeState DEF IssueSum, BurnSum, OfToken
  <2>4. BurnSum(shardChain, t) \in Nat /\ MintSum(shardChain, t) \in Nat /\ IssueSum(shardChain, t) \in Nat
    BY SumsAreNumbers DEF BridgeInv
  <2> QED BY <2>2, <2>3, <2>4, BridgeState DEF Backed
<1>2. BridgeInit => BridgeInv
  BY BridgeStarts
<1>3. BridgeInv /\ [BridgeNext]_bridgeVars => BridgeInv'
  BY BridgeInvStep
<1> QED BY <1>1, <1>2, <1>3, PTL DEF BridgeSpec

\* A block of an honest producer that the committee refuses has two issuing
\* requests of a token (ValidateTxList sees two init transactions).
LEMMA RefusedHasTwins ==
  ASSUME BridgeInv, NEW reqs \in Proposals, PendingRequests(reqs),
         ~SignedBlock(ShardBlock(reqs, buildStabilityResponseTxsAtShardOnly(reqs)))
  PROVE  \E i, j \in DOMAIN reqs : i # j /\ {reqs[i], reqs[j]} \subseteq Issues /\ TokenOf[reqs[i]] = TokenOf[reqs[j]]
<1> DEFINE s == buildStabilityResponseTxsAtShardOnly(reqs)
           b == ShardBlock(reqs, s)
<1>1. DOMAIN reqs = 1..Len(reqs) /\ Answers(s, reqs, Len(reqs))
  BY ProposalFits, ResponsesAnswer DEF BridgeInv
<1>2. b.reqs = reqs /\ b.mints = s
  BY DEF ShardBlock
<1> HIDE DEF s, b
<1>3. ASSUME NEW a \in DOMAIN s
      PROVE  \E p \in DOMAIN reqs : /\ reqs[p] \in Issues /\ s[a].req = reqs[p] /\ s[a].token = TokenOf[reqs[p]]
                                    /\ GetTransferData(s[a]) = NewIssuingRequest(reqs[p])
  <2>1. PICK p \in 1..Len(reqs) : reqs[p] \in Issues /\ s[a] = buildIssuanceTx(reqs[p])
    BY <1>1 DEF Answers
  <2>2. s[a] = [req |-> reqs[p], token |-> TokenOf[reqs[p]], amount |-> AmountOf[reqs[p]]]
    BY <2>1 DEF buildIssuanceTx, NewIssuingRequest, Mint
  <2> QED BY <1>1, <2>1, <2>2 DEF GetTransferData, NewIssuingRequest
<1>4. VerifyMinerCreatedTxs(b)
  <2>1. ASSUME NEW a \in DOMAIN s PROVE s[a].req \in ToSet(reqs) /\ GetTransferData(s[a]) = NewIssuingRequest(s[a].req)
    BY <1>3 DEF ToSet
  <2>2. \A a, c \in DOMAIN s : a # c => s[a].req # s[c].req
    BY <1>1 DEF Answers
  <2> QED BY <1>2, <2>1, <2>2 DEF VerifyMinerCreatedTxs, VerifyIssuingResponse
<1>5. SpendOnce(b.reqs) /\ \A i \in DOMAIN b.reqs : ValidateRequest(b.reqs[i])
  BY <1>2 DEF PendingRequests
<1>6. PICK a, c \in DOMAIN s : a # c /\ s[a].token = s[c].token
  BY <1>2, <1>4, <1>5 DEF SignedBlock, ValidateTxList, s, b
<1>7. PICK p \in DOMAIN reqs : reqs[p] \in Issues /\ s[a].req = reqs[p] /\ s[a].token = TokenOf[reqs[p]]
  BY <1>3
<1>8. PICK q \in DOMAIN reqs : reqs[q] \in Issues /\ s[c].req = reqs[q] /\ s[c].token = TokenOf[reqs[q]]
  BY <1>3
<1>9. p # q
  BY <1>1, <1>6, <1>7, <1>8 DEF Answers
<1> QED BY <1>6, <1>7, <1>8, <1>9

\* The committee refuses a block of an honest producer for two issuing requests
\* of one token and for nothing else (getPendingTransactionV2,
\* buildStabilityResponseTxsAtShardOnly, ValidateTxList): what the producer has
\* validated and answered passes every other test.
THEOREM BridgeRefusesOnlyTwins == BridgeSpec => []OnlyTwinIssuesAreRefused
<1>1. BridgeInit => OnlyTwinIssuesAreRefused
  BY DEF BridgeInit, OnlyTwinIssuesAreRefused
<1>2. BridgeInv /\ OnlyTwinIssuesAreRefused /\ [BridgeNext]_bridgeVars => OnlyTwinIssuesAreRefused'
  <2> SUFFICES ASSUME BridgeInv, OnlyTwinIssuesAreRefused, [BridgeNext]_bridgeVars
               PROVE  OnlyTwinIssuesAreRefused'
    OBVIOUS
  <2>1. ASSUME NEW reqs \in Proposals, ProduceBridgeBlock(reqs) PROVE OnlyTwinIssuesAreRefused'
    <3>1. CASE SignedBlock(ShardBlock(reqs, buildStabilityResponseTxsAtShardOnly(reqs)))
      <4>1. rejected' = rejected
        BY <2>1, <3>1 DEF ProduceBridgeBlock
      <4> QED BY <4>1 DEF OnlyTwinIssuesAreRefused
    <3>2. CASE ~SignedBlock(ShardBlock(reqs, buildStabilityResponseTxsAtShardOnly(reqs)))
      <4>1. PendingRequests(reqs) /\ rejected' = rejected \cup {reqs}
        BY <2>1, <3>2 DEF ProduceBridgeBlock
      <4>2. \E i, j \in DOMAIN reqs : i # j /\ {reqs[i], reqs[j]} \subseteq Issues /\ TokenOf[reqs[i]] = TokenOf[reqs[j]]
        BY <3>2, <4>1, RefusedHasTwins, Zenon
      <4> QED BY <4>1, <4>2 DEF OnlyTwinIssuesAreRefused
    <3> QED BY <3>1, <3>2
  <2>2. (~\E reqs \in Proposals : ProduceBridgeBlock(reqs)) => rejected' = rejected
    BY DEF BridgeNext, bridgeVars, CreateIssue, CreateBurn, SendIssue, SendBurn, Send, DropPending, FaultyBlock, InsertBeacon
  <2> QED BY <2>1, <2>2 DEF OnlyTwinIssuesAreRefused
<1> QED BY <1>1, <1>2, BridgeStarts, BridgeInvStep, PTL DEF BridgeSpec

-----------------------------------------------------------------------------
\* The amounts in the database.

\* Sequences joined to one that starts as the first of them does.
Joined(s, X, ss, i) ==
  /\ s \in Seq(X) /\ s # <<>>
  /\ s[1] = ss[1][1]
  /\ ToSet(s) = UNION {ToSet(ss[j]) : j \in 1..i}

\* One more sequence is joined at the end.
LEMMA JoinedStep ==
  ASSUME NEW X, NEW n \in Nat, NEW ss \in [1..n -> Seq(X)], NEW i \in 1..n, i # 1,
         NEW s, Joined(s, X, ss, i - 1)
  PROVE  Joined(s \o ss[i], X, ss, i)
<1> DEFINE r == ss[i]
           d == s \o r
<1>1. r \in Seq(X) /\ s \in Seq(X) /\ s # <<>>
  BY DEF Joined
<1> HIDE DEF r
<1>2. /\ d \in Seq(X) /\ Len(d) = Len(s) + Len(r) /\ Len(s) \in Nat /\ Len(r) \in Nat /\ Len(s) > 0
      /\ \A p \in 1..Len(d) : d[p] = IF p <= Len(s) THEN s[p] ELSE r[p - Len(s)]
  BY <1>1
<1>3. /\ DOMAIN d = 1..Len(d) /\ DOMAIN s = 1..Len(s) /\ DOMAIN r = 1..Len(r)
  BY <1>1, <1>2
<1> HIDE DEF d
<1>4. ToSet(d) = ToSet(s) \cup ToSet(r)
  <2>1. ASSUME NEW p \in 1..Len(d) PROVE d[p] \in ToSet(s) \cup ToSet(r)
    <3>1. p <= Len(s) => p \in 1..Len(s)
      BY <1>2
    <3>2. ~(p <= Len(s)) => p - Len(s) \in 1..Len(r)
      BY <1>2
    <3> QED BY <1>2, <1>3, <3>1, <3>2 DEF ToSet
  <2>2. ASSUME NEW p \in 1..Len(s) PROVE s[p] \in ToSet(d)
    <3>1. p \in 1..Len(d) /\ d[p] = s[p]
      BY <1>2
    <3> QED BY <1>3, <3>1 DEF ToSet
  <2>3. ASSUME NEW p \in 1..Len(r) PROVE r[p] \in ToSet(d)
    <3>1. p + Len(s) \in 1..Len(d) /\ ~(p + Len(s) <= Len(s)) /\ (p + Len(s)) - Len(s) = p
      BY <1>2
    <3>2. d[p + Len(s)] = r[p]
      BY <1>2, <3>1
    <3> QED BY <1>3, <3>1, <3>2 DEF ToSet
  <2> QED BY <1>3, <2>1, <2>2, <2>3 DEF ToSet
<1>5. UNION {ToSet(ss[j]) : j \in 1..i} = (UNION {ToSet(ss[j]) : j \in 1..(i - 1)}) \cup ToSet(r)
  <2>1. 1..i = 1..(i - 1) \cup {i}
    OBVIOUS
  <2> QED BY <2>1 DEF r
<1>6. d[1] = s[1] /\ d # <<>>
  BY <1>2, <1>3
<1> QED BY <1>2, <1>4, <1>5, <1>6 DEF Joined, d, r

\* FlattenSeq joins all of them.
LEMMA FlattenJoins ==
  ASSUME NEW X, NEW n \in Nat, n > 0, NEW ss \in [1..n -> Seq(X)], ss[1] # <<>>
  PROVE  Joined(FlattenSeq(ss), X, ss, n)
<1>1. PICK g : Flattens(g, X, n, ss)
  BY FlattensExists DEF CanFlatten
<1>2. FlattenSeq(ss) = g[n]
  BY <1>1, FlattenIs
<1> DEFINE G == {i \in 0..n : i = 0 \/ Joined(g[i], X, ss, i)}
<1>3. ASSUME NEW i \in 1..n, i - 1 \in G PROVE i \in G
  <2>1. CASE i = 1
    <3>1. ss[1] \in Seq(X) /\ 1 \in 1..n /\ 1 - 1 = 0
      OBVIOUS
    <3>2. g[1] = g[0] \o ss[1] /\ g[0] = <<>>
      BY <1>1, <3>1, Zenon DEF Flattens
    <3>3. <<>> \o ss[1] = ss[1]
      BY <3>1
    <3>4. 1..1 = {1} /\ g[1] = ss[1]
      BY <3>2, <3>3
    <3>5. Joined(ss[1], X, ss, 1)
      BY <3>1, <3>4 DEF Joined
    <3> QED BY <2>1, <3>4, <3>5
  <2>2. CASE i # 1
    <3>1. g[i] = g[i - 1] \o ss[i]
      BY <1>1 DEF Flattens
    <3>2. Joined(g[i - 1], X, ss, i - 1)
      BY <1>3, <2>2
    <3>3. Joined(g[i - 1] \o ss[i], X, ss, i)
      BY <2>2, <3>2, JoinedStep, Zenon
    <3>4. Joined(g[i], X, ss, i)
      BY <3>1, <3>3, Zenon
    <3> QED BY <3>4
  <2> QED BY <2>1, <2>2
<1>4. 0..n \subseteq G
  <2>1. 0 \in G
    OBVIOUS
  <2> HIDE DEF G
  <2> QED BY <1>3, <2>1, AllUpTo, Zenon
<1>5. n \in G /\ n # 0
  BY <1>4
<1> QED BY <1>2, <1>5

\* What the database should have for a token when the requests P are confirmed.
Exact(amts, P, t) ==
  /\ t \in DOMAIN amts <=> OfToken(P \cap Issues, t) # {}
  /\ t \in DOMAIN amts => amts[t] = SumOf(OfToken(P \cap Issues, t)) - SumOf(OfToken(P \cap Burns, t))

\* Only the requests of the token matter, and only its amount.
LEMMA ExactOfToken ==
  ASSUME NEW P, NEW Q, NEW t, OfToken(P, t) = OfToken(Q, t), NEW a, NEW b, Exact(a, P, t),
         t \in DOMAIN a <=> t \in DOMAIN b, t \in DOMAIN a => b[t] = a[t]
  PROVE  Exact(b, Q, t)
<1>1. ASSUME NEW K PROVE OfToken(P \cap K, t) = OfToken(Q \cap K, t)
  BY DEF OfToken
<1>2. OfToken(P \cap Issues, t) = OfToken(Q \cap Issues, t) /\ OfToken(P \cap Burns, t) = OfToken(Q \cap Burns, t)
  BY <1>1
<1> QED BY <1>2 DEF Exact

\* What one more request adds to the sum over the requests of its token.
LEMMA OneMoreRequest ==
  ASSUME NEW P, IsFiniteSet(P), P \subseteq Requests, NEW h \in Requests, h \notin P, NEW K
  PROVE  IsTotal(SumOf(OfToken((P \cup {h}) \cap K, TokenOf[h])), SumOf(OfToken(P \cap K, TokenOf[h])),
                 IF h \in K THEN AmountOf[h] ELSE 0)
<1> DEFINE t == TokenOf[h]
           old == OfToken(P \cap K, t)
<1>1. Summable(old, AmountOf)
  <2>1. old \in SUBSET P
    BY DEF OfToken
  <2> HIDE DEF old
  <2>2. IsFiniteSet(old) /\ old \subseteq Requests
    BY <2>1, FS_Subset
  <2> QED BY <2>2, RequestsAdd, Zenon
<1>2. Summable({h}, AmountOf)
  <2>1. IsFiniteSet({h}) /\ {h} \subseteq Requests
    BY FS_Singleton
  <2> QED BY <2>1, RequestsAdd, Zenon
<1>3. AmountOf[h] \in Nat
  BY <1>2 DEF Summable
<1>4. SumOver(old, AmountOf) \in Nat
  <2>1. old \in SUBSET old
    OBVIOUS
  <2> QED BY <1>1, <2>1, SumOverPart, Zenon
<1>5. CASE h \in K
  <2>1. OfToken((P \cup {h}) \cap K, t) = old \cup {h} /\ old \cap {h} = {}
    BY <1>5 DEF OfToken
  <2> HIDE DEF old, t
  <2>2. SumOver(old \cup {h}, AmountOf) = SumOver(old, AmountOf) + SumOver({h}, AmountOf)
    BY <1>1, <1>2, <2>1, SumOverUnion, SMT
  <2>3. SumOver({h}, AmountOf) = AmountOf[h]
    BY <1>3, SumOverOne, Zenon
  <2>4. IsTotal(SumOver(old \cup {h}, AmountOf), SumOver(old, AmountOf), AmountOf[h])
    BY <1>3, <1>4, <2>2, <2>3 DEF IsTotal
  <2> QED BY <1>5, <2>1, <2>4 DEF SumOf, old, t
<1>6. CASE h \notin K
  <2>1. OfToken((P \cup {h}) \cap K, t) = old
    BY <1>6 DEF OfToken
  <2> HIDE DEF old, t
  <2>2. IsTotal(SumOver(old, AmountOf), SumOver(old, AmountOf), 0)
    BY <1>4 DEF IsTotal
  <2> QED BY <1>6, <2>1, <2>2 DEF SumOf, old, t
<1> QED BY <1>5, <1>6

\* A confirmed issue is counted up.
LEMMA CountedIssue ==
  ASSUME NEW P, IsFiniteSet(P), P \subseteq Requests, NEW h \in Issues, h \notin P, NEW a, Exact(a, P, TokenOf[h]),
         OfToken(P \cap Issues, TokenOf[h]) = {} => SumOf(OfToken(P \cap Burns, TokenOf[h])) = 0
  PROVE  Exact(CountUpDepositedAmtByTokenID(a, TokenOf[h], AmountOf[h]), P \cup {h}, TokenOf[h])
<1> DEFINE t == TokenOf[h]
           Q == P \cup {h}
           b == CountUpDepositedAmtByTokenID(a, t, AmountOf[h])
<1>1. h \in Requests /\ h \notin Burns
  BY BridgeAssumptionHolds DEF BridgeAssumption, Requests
<1>2. /\ IsTotal(SumOf(OfToken(Q \cap Issues, t)), SumOf(OfToken(P \cap Issues, t)), AmountOf[h])
      /\ IsTotal(SumOf(OfToken(Q \cap Burns, t)), SumOf(OfToken(P \cap Burns, t)), 0)
  <2>1. \A K : IsTotal(SumOf(OfToken(Q \cap K, t)), SumOf(OfToken(P \cap K, t)), IF h \in K THEN AmountOf[h] ELSE 0)
    BY <1>1, OneMoreRequest
  <2> QED BY <1>1, <2>1
<1>3. h \in OfToken(Q \cap Issues, t)
  BY DEF OfToken
<1>4. t \in DOMAIN b /\ b[t] = IF t \in DOMAIN a THEN a[t] + AmountOf[h] ELSE AmountOf[h]
  BY DEF CountUpDepositedAmtByTokenID
<1>5. t \notin DOMAIN a => OfToken(P \cap Issues, t) = {}
  BY DEF Exact
<1>6. t \notin DOMAIN a => SumOf(OfToken(P \cap Issues, t)) = 0
  BY <1>5, SumOverNothing DEF SumOf
<1>7. t \in DOMAIN a => a[t] = SumOf(OfToken(P \cap Issues, t)) - SumOf(OfToken(P \cap Burns, t))
  BY DEF Exact
<1> HIDE DEF t, Q, b
<1>8. b[t] = SumOf(OfToken(Q \cap Issues, t)) - SumOf(OfToken(Q \cap Burns, t))
  <2>1. CASE t \in DOMAIN a
    BY <1>2, <1>4, <1>7, <2>1 DEF IsTotal
  <2>2. CASE t \notin DOMAIN a
    <3>1. SumOf(OfToken(P \cap Burns, t)) = 0
      BY <1>5, <2>2 DEF t
    <3> QED BY <1>2, <1>4, <1>6, <2>2, <3>1 DEF IsTotal
  <2> QED BY <2>1, <2>2
<1>9. Exact(b, Q, t)
  BY <1>3, <1>4, <1>8 DEF Exact
<1> QED BY <1>9 DEF b, Q, t

\* A confirmed burn of no more than there is is deducted.
LEMMA DeductedBurn ==
  ASSUME NEW P, IsFiniteSet(P), P \subseteq Requests, NEW h \in Burns, h \notin P, NEW a, Exact(a, P, TokenOf[h]),
         AmountOf[h] <= SumOf(OfToken(P \cap Issues, TokenOf[h])) - SumOf(OfToken(P \cap Burns, TokenOf[h]))
  PROVE  Exact(DeductAmtByTokenID(a, TokenOf[h], AmountOf[h]), P \cup {h}, TokenOf[h])
<1> DEFINE t == TokenOf[h]
           Q == P \cup {h}
           b == DeductAmtByTokenID(a, t, AmountOf[h])
<1>1. h \in Requests /\ h \notin Issues
  BY BridgeAssumptionHolds DEF BridgeAssumption, Requests
<1>2. /\ IsTotal(SumOf(OfToken(Q \cap Issues, t)), SumOf(OfToken(P \cap Issues, t)), 0)
      /\ IsTotal(SumOf(OfToken(Q \cap Burns, t)), SumOf(OfToken(P \cap Burns, t)), AmountOf[h])
  <2>1. \A K : IsTotal(SumOf(OfToken(Q \cap K, t)), SumOf(OfToken(P \cap K, t)), IF h \in K THEN AmountOf[h] ELSE 0)
    BY <1>1, OneMoreRequest
  <2> QED BY <1>1, <2>1
<1>3. OfToken(Q \cap Issues, t) = OfToken(P \cap Issues, t)
  BY <1>1 DEF OfToken
<1>4. AmountOf[h] \in Nat /\ AmountOf[h] > 0
  <2>1. AmountOf[h] \in Nat \ {0}
    BY <1>1, BridgeAssumptionHolds DEF BridgeAssumption
  <2> QED BY <2>1
<1>5. OfToken(P \cap Issues, t) # {}
  <2> SUFFICES ASSUME OfToken(P \cap Issues, t) = {} PROVE FALSE
    OBVIOUS
  <2>1. SumOf(OfToken(P \cap Issues, t)) = 0
    BY SumOverNothing DEF SumOf
  <2> HIDE DEF Q
  <2> QED BY <1>2, <1>4, <2>1 DEF IsTotal
<1>6. t \in DOMAIN a /\ a[t] = SumOf(OfToken(P \cap Issues, t)) - SumOf(OfToken(P \cap Burns, t))
  BY <1>5 DEF Exact
<1>7. t \in DOMAIN b /\ b[t] = IF a[t] <= AmountOf[h] THEN 0 ELSE a[t] - AmountOf[h]
  BY <1>6 DEF DeductAmtByTokenID
<1>8. AmountOf[h] <= a[t]
  BY <1>6
<1> HIDE DEF t, Q, b
<1>9. b[t] = SumOf(OfToken(Q \cap Issues, t)) - SumOf(OfToken(Q \cap Burns, t))
  BY <1>2, <1>4, <1>6, <1>7, <1>8 DEF IsTotal
<1>10. Exact(b, Q, t)
  BY <1>3, <1>5, <1>7, <1>9 DEF Exact
<1> QED BY <1>10 DEF b, Q, t

\* The instructions of the beacon block that takes the shard blocks after the
\* k-th up to the to-th.
LEMMA InstructionsOf ==
  ASSUME shardChain \in Seq(BridgeBlock), NEW to \in DOMAIN shardChain, NEW k \in 0..Len(shardChain), to > k
  PROVE  LET insts == buildStabilityInstructions(k, to)
         IN  /\ insts \in Seq(Requests) /\ insts # <<>>
             /\ insts[1] = shardChain[k + 1].reqs[1]
             /\ RequestsOf(SubSeq(shardChain, 1, to)) = RequestsOf(SubSeq(shardChain, 1, k)) \cup ToSet(insts)
<1> DEFINE n == to - k
           ss == [i \in 1..n |-> shardChain[k + i].reqs]
           insts == buildStabilityInstructions(k, to)
<1>1. n \in Nat /\ n > 0 /\ Len(shardChain) \in Nat /\ DOMAIN shardChain = 1..Len(shardChain) /\ k \in Nat /\ to \in Nat
  OBVIOUS
<1>2. ASSUME NEW i \in 1..n PROVE k + i \in DOMAIN shardChain /\ k + i \in (k + 1)..to
  BY <1>1
<1>3. ss \in [1..n -> Seq(Requests)]
  BY <1>2, BlockOfChain
<1>4. 1 \in 1..n /\ ss[1] = shardChain[k + 1].reqs /\ ss[1] # <<>>
  <2>1. 1 \in 1..n /\ ss[1] = shardChain[k + 1].reqs
    BY <1>1
  <2>2. shardChain[k + 1].reqs # <<>>
    BY <1>2, <2>1, BlockOfChain
  <2> QED BY <2>1, <2>2
<1>5. insts = FlattenSeq(ss)
  BY DEF buildStabilityInstructions, buildStabilityActions
<1>6. Joined(insts, Requests, ss, n)
  <2> HIDE DEF ss, insts, n
  <2> QED BY <1>1, <1>3, <1>4, <1>5, FlattenJoins
<1>7. UNION {ToSet(ss[j]) : j \in 1..n} = UNION {ToSet(shardChain[i].reqs) : i \in (k + 1)..to}
  <2>1. ASSUME NEW i \in (k + 1)..to PROVE i - k \in 1..n /\ ss[i - k] = shardChain[i].reqs
    <3>1. i - k \in 1..n /\ k + (i - k) = i
      BY <1>1
    <3> HIDE DEF n
    <3> QED BY <3>1
  <2>2. ASSUME NEW j \in 1..n PROVE k + j \in (k + 1)..to /\ ss[j] = shardChain[k + j].reqs
    BY <1>2
  <2> HIDE DEF ss, n
  <2> QED BY <2>1, <2>2
<1>8. ASSUME NEW m \in 0..Len(shardChain)
      PROVE  RequestsOf(SubSeq(shardChain, 1, m)) = UNION {ToSet(shardChain[i].reqs) : i \in 1..m}
  <2>1. DOMAIN SubSeq(shardChain, 1, m) = 1..m /\ \A i \in 1..m : SubSeq(shardChain, 1, m)[i] = shardChain[i]
    BY <1>1
  <2> QED BY <2>1 DEF RequestsOf
<1>9. 1..to = 1..k \cup (k + 1)..to /\ to \in 0..Len(shardChain)
  BY <1>1
<1>10. RequestsOf(SubSeq(shardChain, 1, to)) =
         RequestsOf(SubSeq(shardChain, 1, k)) \cup (UNION {ToSet(shardChain[i].reqs) : i \in (k + 1)..to})
  BY <1>8, <1>9
<1> HIDE DEF ss, n
<1> QED BY <1>4, <1>6, <1>7, <1>10 DEF Joined

\* Beacon blocks have confirmed the first toConfirm blocks of the chain.
AmountsInv ==
  /\ toConfirm \in 0..Len(shardChain)
  /\ beaconChain \in Seq([insts : Seq(Requests), processed : BOOLEAN])
  /\ ConfirmedRequests = RequestsOf(SubSeq(shardChain, 1, toConfirm))
  /\ AmountsAreExact

\* AmountsAreExact in terms of Exact.
LEMMA ExactState ==
  AmountsAreExact <=>
    \A t \in BridgeTokenIDs : OfToken(Uncounted, t) = {} => Exact(bridgeTokens, ConfirmedRequests, t)
  BY DEF AmountsAreExact, Exact, OfToken, IsBridgeTokenExisted

\* A beacon block adds its instructions to those confirmed, and all but the
\* first to those not counted; all of them, when the node crashes on it.
LEMMA BeaconAppend ==
  ASSUME beaconChain \in Seq([insts : Seq(Requests), processed : BOOLEAN]), NEW insts \in Seq(Requests), NEW crash \in BOOLEAN,
         beaconChain' = Append(beaconChain, [insts |-> insts, processed |-> ~crash])
  PROVE  /\ beaconChain' \in Seq([insts : Seq(Requests), processed : BOOLEAN])
         /\ ConfirmedRequests' = ConfirmedRequests \cup ToSet(insts)
         /\ Uncounted' = Uncounted \cup {insts[i] : i \in {j \in DOMAIN insts : j > 1 \/ crash}}
<1> DEFINE b == [insts |-> insts, processed |-> ~crash]
           n == Len(beaconChain) + 1
<1>1. b \in [insts : Seq(Requests), processed : BOOLEAN]
  OBVIOUS
<1>2. b.insts = insts /\ (~b.processed <=> crash)
  OBVIOUS
<1> HIDE DEF b
<1>3. /\ beaconChain' \in Seq([insts : Seq(Requests), processed : BOOLEAN])
      /\ DOMAIN beaconChain' = DOMAIN beaconChain \cup {n} /\ beaconChain'[n] = b
      /\ \A h \in DOMAIN beaconChain : beaconChain'[h] = beaconChain[h]
  BY <1>1 DEF b
<1> HIDE DEF n
<1>4. ConfirmedRequests' = ConfirmedRequests \cup ToSet(insts)
  BY <1>2, <1>3 DEF ConfirmedRequests
<1>5. Uncounted' = Uncounted \cup {insts[i] : i \in {j \in DOMAIN insts : j > 1 \/ crash}}
  BY <1>2, <1>3 DEF Uncounted
<1> QED BY <1>3, <1>4, <1>5

\* The first request of the block after the k-th is new, and a burn is backed
\* by what is confirmed up to the k-th.
LEMMA HeadIsBacked ==
  ASSUME BridgeInv, NEW k \in 0..Len(shardChain), k + 1 \in DOMAIN shardChain,
         NEW P, P = RequestsOf(SubSeq(shardChain, 1, k)), NEW h, h = shardChain[k + 1].reqs[1]
  PROVE  /\ IsFiniteSet(P) /\ P \subseteq Requests /\ h \in Requests /\ h \notin P
         /\ OfToken(P \cap Issues, TokenOf[h]) = {} => SumOf(OfToken(P \cap Burns, TokenOf[h])) = 0
         /\ h \in Burns => AmountOf[h] <= SumOf(OfToken(P \cap Issues, TokenOf[h]))
                                            - SumOf(OfToken(P \cap Burns, TokenOf[h]))
<1> DEFINE c == SubSeq(shardChain, 1, k)
           b == shardChain[k + 1]
           t == TokenOf[h]
           burns == OfToken(ToSet(b.reqs) \cap Burns, t)
<1>1. c \in Seq(BridgeBlock)
  BY ChainPrefix DEF BridgeInv
<1>2. SoundBlock(c, b)
  <2>1. (k + 1) - 1 = k
    OBVIOUS
  <2>2. SoundBlock(SubSeq(shardChain, 1, (k + 1) - 1), shardChain[k + 1])
    BY DEF BridgeInv, SoundChain
  <2> QED BY <2>1, <2>2
<1>3. Backed(c)
  BY SoundIsBacked DEF BridgeInv
<1> HIDE DEF c
<1>4. IsFiniteSet(P) /\ P \subseteq Requests
  BY <1>1, FiniteRequests DEF c
<1>5. b.reqs \in Seq(Requests) /\ b.reqs # <<>>
  BY BlockOfChain DEF BridgeInv
<1> HIDE DEF b
<1>6. h \in ToSet(b.reqs) /\ h \in Requests
  <2>1. 1 \in DOMAIN b.reqs /\ h = b.reqs[1]
    BY <1>5 DEF b
  <2> QED BY <1>5, <2>1 DEF ToSet
<1>7. h \notin P
  BY <1>2, <1>6 DEF SoundBlock, c
<1>8. t \in BridgeTokenIDs
  BY <1>6 DEF BridgeTokenIDs
<1> HIDE DEF t
<1>9. /\ IssueSum(c, t) = SumOf(OfToken(P \cap Issues, t)) /\ BurnSum(c, t) = SumOf(OfToken(P \cap Burns, t))
      /\ IssueSum(c, t) \in Nat /\ BurnSum(c, t) \in Nat /\ MintSum(c, t) \in Nat
      /\ BurnSum(c, t) <= MintSum(c, t) /\ MintSum(c, t) <= IssueSum(c, t)
  <2>1. IssueSum(c, t) = SumOf(OfToken(P \cap Issues, t)) /\ BurnSum(c, t) = SumOf(OfToken(P \cap Burns, t))
    BY DEF IssueSum, BurnSum, c
  <2> QED BY <1>1, <1>3, <1>8, <2>1, SumsAreNumbers DEF Backed
<1>10. ASSUME OfToken(P \cap Issues, t) = {} PROVE SumOf(OfToken(P \cap Burns, t)) = 0
  <2>1. IssueSum(c, t) = 0
    BY <1>9, <1>10, SumOverNothing DEF SumOf
  <2>2. BurnSum(c, t) = 0
    BY <1>9, <2>1
  <2> QED BY <1>9, <2>2
<1>11. ASSUME h \in Burns
       PROVE  AmountOf[h] <= SumOf(OfToken(P \cap Issues, t)) - SumOf(OfToken(P \cap Burns, t))
  <2>1. h \in burns
    BY <1>6, <1>11 DEF OfToken, t
  <2>2. SumOf(burns) <= MintSum(c, t) - BurnSum(c, t)
    BY <1>2, <1>8, <2>1 DEF SoundBlock
  <2>3. Summable(burns, AmountOf)
    <3>1. IsFiniteSet(ToSet(b.reqs)) /\ ToSet(b.reqs) \subseteq Requests
      BY <1>5, FiniteRange DEF ToSet
    <3>2. burns \in SUBSET ToSet(b.reqs)
      BY DEF OfToken
    <3> HIDE DEF burns
    <3>3. IsFiniteSet(burns) /\ burns \subseteq Requests
      BY <3>1, <3>2, FS_Subset
    <3> QED BY <3>3, RequestsAdd, Zenon
  <2> HIDE DEF burns
  <2>4. SumOver({h}, AmountOf) <= SumOver(burns, AmountOf) /\ SumOver(burns, AmountOf) \in Nat
    <3>1. {h} \in SUBSET burns
      BY <2>1
    <3> QED BY <2>3, <3>1, SumOverPart, Zenon
  <2>5. AmountOf[h] \in Nat
    BY <1>6, BridgeAssumptionHolds DEF BridgeAssumption
  <2>6. SumOver({h}, AmountOf) = AmountOf[h]
    BY <2>5, SumOverOne, Zenon
  <2>7. AmountOf[h] <= SumOf(burns) /\ SumOf(burns) \in Nat
    BY <2>4, <2>6 DEF SumOf
  <2> QED BY <1>9, <2>2, <2>5, <2>7
<1> QED BY <1>4, <1>6, <1>7, <1>10, <1>11 DEF t

\* A beacon block counts the one request of the token that it confirms, or
\* confirms none, or leaves one uncounted.
LEMMA BeaconKeepsExact ==
  ASSUME BridgeInv, AmountsInv, NEW to \in DOMAIN shardChain, NEW crash \in BOOLEAN, InsertBeacon(to, crash)
  PROVE  AmountsInv'
<1> DEFINE k == toConfirm
           insts == buildStabilityInstructions(k, to)
           P == ConfirmedRequests
           h == insts[1]
<1>1. /\ to > k /\ toConfirm' = to /\ shardChain' = shardChain
      /\ beaconChain' = Append(beaconChain, [insts |-> insts, processed |-> ~crash])
      /\ bridgeTokens' = IF crash THEN bridgeTokens ELSE processBridgeInstructions(insts)
  BY DEF InsertBeacon
<1>2. k \in 0..Len(shardChain) /\ to \in 0..Len(shardChain) /\ k + 1 \in DOMAIN shardChain
  BY <1>1 DEF AmountsInv, BridgeInv
<1>3. /\ insts \in Seq(Requests) /\ insts # <<>>
      /\ h = shardChain[k + 1].reqs[1]
      /\ RequestsOf(SubSeq(shardChain, 1, to)) = RequestsOf(SubSeq(shardChain, 1, k)) \cup ToSet(insts)
  BY <1>1, <1>2, InstructionsOf DEF BridgeInv
<1> HIDE DEF insts
<1>4. /\ beaconChain' \in Seq([insts : Seq(Requests), processed : BOOLEAN])
      /\ ConfirmedRequests' = P \cup ToSet(insts)
      /\ Uncounted' = Uncounted \cup {insts[i] : i \in {j \in DOMAIN insts : j > 1 \/ crash}}
  BY <1>1, <1>3, BeaconAppend DEF AmountsInv
<1>5. P = RequestsOf(SubSeq(shardChain, 1, k))
  BY DEF AmountsInv
<1>6. ConfirmedRequests' = RequestsOf(SubSeq(shardChain', 1, toConfirm'))
  BY <1>1, <1>3, <1>4, <1>5
<1>7. /\ IsFiniteSet(P) /\ P \subseteq Requests /\ h \in Requests /\ h \notin P
      /\ OfToken(P \cap Issues, TokenOf[h]) = {} => SumOf(OfToken(P \cap Burns, TokenOf[h])) = 0
      /\ h \in Burns => AmountOf[h] <= SumOf(OfToken(P \cap Issues, TokenOf[h]))
                                         - SumOf(OfToken(P \cap Burns, TokenOf[h]))
  <2> HIDE DEF h, k, P
  <2> QED BY <1>2, <1>3, <1>5, HeadIsBacked
<1>8. 1 \in DOMAIN insts /\ \A i \in DOMAIN insts : i = 1 \/ i > 1
  BY <1>3
<1>9. ASSUME NEW t \in BridgeTokenIDs, OfToken(Uncounted', t) = {}
      PROVE  Exact(bridgeTokens', ConfirmedRequests', t)
  <2>1. OfToken(Uncounted, t) = {} /\ \A i \in DOMAIN insts : i > 1 \/ crash => TokenOf[insts[i]] # t
    BY <1>4, <1>9 DEF OfToken
  <2>2. Exact(bridgeTokens, P, t)
    BY <2>1, ExactState DEF AmountsInv
  <2>3. CASE crash \/ TokenOf[h] # t
    <3>1. \A i \in DOMAIN insts : TokenOf[insts[i]] # t
      BY <1>8, <2>1, <2>3
    <3>2. OfToken(P, t) = OfToken(ConfirmedRequests', t)
      BY <1>4, <3>1 DEF OfToken, ToSet
    <3>3. (t \in DOMAIN bridgeTokens <=> t \in DOMAIN bridgeTokens') /\ (t \in DOMAIN bridgeTokens => bridgeTokens'[t] = bridgeTokens[t])
      <4>1. CASE crash
        BY <1>1, <4>1
      <4>2. CASE ~crash
        <5>1. TokenOf[h] # t /\ bridgeTokens' = processBridgeInstructions(insts) /\ Head(insts) = h
          BY <1>1, <1>3, <2>3, <4>2
        <5>2. \/ bridgeTokens' = CountUpDepositedAmtByTokenID(bridgeTokens, TokenOf[h], AmountOf[h])
              \/ bridgeTokens' = DeductAmtByTokenID(bridgeTokens, TokenOf[h], AmountOf[h])
          BY <1>3, <5>1 DEF processBridgeInstructions, processIssuingReq, processContractingReq, NewIssuingRequest, NewContractingRequest
        <5> HIDE DEF h
        <5> QED BY <5>1, <5>2 DEF CountUpDepositedAmtByTokenID, DeductAmtByTokenID
      <4> QED BY <4>1, <4>2
    <3> HIDE DEF P
    <3> QED BY <2>2, <3>2, <3>3, ExactOfToken
  <2>4. CASE ~crash /\ TokenOf[h] = t
    <3>1. OfToken(P \cup {h}, t) = OfToken(ConfirmedRequests', t)
      <4>1. \A r \in ToSet(insts) : TokenOf[r] = t => r = h
        BY <1>8, <2>1 DEF ToSet
      <4>2. h \in ToSet(insts)
        BY <1>8 DEF ToSet
      <4> HIDE DEF h, P
      <4> QED BY <1>4, <4>1, <4>2 DEF OfToken
    <3>2. bridgeTokens' = processBridgeInstructions(insts) /\ Head(insts) = h
      BY <1>1, <1>3, <2>4
    <3>3. Exact(bridgeTokens', P \cup {h}, t)
      <4>1. CASE h \in Issues
        <5>1. bridgeTokens' = CountUpDepositedAmtByTokenID(bridgeTokens, TokenOf[h], AmountOf[h])
          BY <1>3, <3>2, <4>1 DEF processBridgeInstructions, processIssuingReq, NewIssuingRequest
        <5> HIDE DEF h, P
        <5> QED BY <1>7, <2>2, <2>4, <4>1, <5>1, CountedIssue
      <4>2. CASE h \notin Issues
        <5>1. bridgeTokens' = DeductAmtByTokenID(bridgeTokens, TokenOf[h], AmountOf[h])
          BY <1>3, <3>2, <4>2 DEF processBridgeInstructions, processContractingReq, NewContractingRequest
        <5>2. h \in Burns
          BY <1>7, <4>2 DEF Requests
        <5> HIDE DEF h, P
        <5> QED BY <1>7, <2>2, <2>4, <5>1, <5>2, DeductedBurn
      <4> QED BY <4>1, <4>2
    <3> HIDE DEF P, h
    <3> QED BY <3>1, <3>3, ExactOfToken
  <2> QED BY <2>3, <2>4
<1>10. AmountsAreExact'
  BY <1>9 DEF AmountsAreExact, Exact, OfToken, IsBridgeTokenExisted
<1>11. toConfirm' \in 0..Len(shardChain')
  BY <1>1, <1>2
<1> QED BY <1>4, <1>6, <1>10, <1>11 DEF AmountsInv

\* Nothing is confirmed and nothing counted at first.
LEMMA AmountsStart ==
  ASSUME BridgeInit
  PROVE  AmountsInv
<1>1. shardChain = <<>> /\ beaconChain = <<>> /\ toConfirm = 0 /\ bridgeTokens = <<>>
  BY DEF BridgeInit
<1>2. \A S : <<>> \in Seq(S) /\ DOMAIN <<>> = {} /\ Len(<<>>) = 0 /\ SubSeq(<<>>, 1, 0) = <<>>
  OBVIOUS
<1>3. ConfirmedRequests = {} /\ RequestsOf(<<>>) = {}
  BY <1>1, <1>2 DEF ConfirmedRequests, RequestsOf
<1>4. ASSUME NEW t PROVE Exact(bridgeTokens, ConfirmedRequests, t)
  BY <1>1, <1>2, <1>3 DEF Exact, OfToken
<1>5. AmountsAreExact
  BY <1>4, ExactState
<1>6. toConfirm \in 0..Len(shardChain) /\ beaconChain \in Seq([insts : Seq(Requests), processed : BOOLEAN])
  BY <1>1, <1>2
<1>7. SubSeq(shardChain, 1, toConfirm) = <<>>
  BY <1>1, <1>2
<1> QED BY <1>3, <1>5, <1>6, <1>7 DEF AmountsInv

\* No other step touches what is confirmed or counted.
LEMMA AmountsStay ==
  ASSUME AmountsInv, UNCHANGED <<beaconChain, toConfirm, bridgeTokens>>, shardChain \in Seq(BridgeBlock),
         shardChain' = shardChain \/ \E b \in BridgeBlock : shardChain' = Append(shardChain, b)
  PROVE  AmountsInv'
<1>1. Len(shardChain') >= Len(shardChain) /\ Len(shardChain') \in Nat /\ Len(shardChain) \in Nat
  OBVIOUS
<1>2. toConfirm' \in 0..Len(shardChain')
  BY <1>1 DEF AmountsInv
<1>3. SubSeq(shardChain', 1, toConfirm) = SubSeq(shardChain, 1, toConfirm)
  BY DEF AmountsInv
<1>4. ConfirmedRequests' = ConfirmedRequests
  BY DEF ConfirmedRequests
<1>5. AmountsAreExact'
  <2>1. Uncounted' = Uncounted /\ bridgeTokens' = bridgeTokens
    BY DEF Uncounted
  <2>2. AmountsAreExact
    BY DEF AmountsInv
  <2> QED BY <1>4, <2>1, <2>2 DEF AmountsAreExact, IsBridgeTokenExisted
<1> QED BY <1>2, <1>3, <1>4, <1>5 DEF AmountsInv

\* As long as no instruction of a token came second in a beacon block or met a
\* crash, the database has for it what was deposited less what was burned
\* (processBridgeInstructions, lvdb/bridge.go): the burn that is deducted was
\* checked against the chain before its block, which is confirmed then.
THEOREM BridgeAmountsAreExact == BridgeSpec => []AmountsAreExact
<1>1. ASSUME BridgeInv, AmountsInv, [BridgeNext]_bridgeVars PROVE AmountsInv'
  <2>1. ASSUME NEW to \in DOMAIN shardChain, NEW crash \in BOOLEAN, InsertBeacon(to, crash) PROVE AmountsInv'
    BY <1>1, <2>1, BeaconKeepsExact
  <2>2. ASSUME NEW r \in Requests, CreateIssue(r) \/ CreateBurn(r) \/ SendIssue(r) \/ SendBurn(r) \/ DropPending(r)
        PROVE  AmountsInv'
    <3>1. UNCHANGED <<shardChain, beaconChain, toConfirm, bridgeTokens>>
      BY <2>2 DEF CreateIssue, CreateBurn, SendIssue, SendBurn, Send, DropPending
    <3> QED BY <1>1, <3>1, AmountsStay DEF BridgeInv
  <2>3. ASSUME NEW reqs \in Proposals, ProduceBridgeBlock(reqs) PROVE AmountsInv'
    <3> DEFINE b == ShardBlock(reqs, buildStabilityResponseTxsAtShardOnly(reqs))
    <3>1. b \in BridgeBlock
      BY <1>1, HonestBlockFits, Zenon
    <3>2. /\ UNCHANGED <<beaconChain, toConfirm, bridgeTokens>>
          /\ shardChain' = shardChain \/ shardChain' = Append(shardChain, b)
      BY <2>3 DEF ProduceBridgeBlock, InsertShard
    <3> HIDE DEF b
    <3> QED BY <1>1, <3>1, <3>2, AmountsStay DEF BridgeInv
  <2>4. ASSUME NEW reqs \in Proposals, NEW n \in 0 .. MaxBlockTxs, NEW mints \in [1 .. n -> Mints],
               FaultyBlock(reqs, mints)
        PROVE  AmountsInv'
    <3> DEFINE b == ShardBlock(reqs, mints)
    <3>1. reqs \in Seq(Requests) \ {<<>>}
      BY <1>1, ProposalFits DEF BridgeInv
    <3>2. n \in Nat
      BY BridgeAssumptionHolds DEF BridgeAssumption
    <3>3. mints \in Seq(Mints)
      BY <3>2
    <3>4. b \in BridgeBlock
      BY <3>1, <3>3 DEF ShardBlock, BridgeBlock
    <3>5. UNCHANGED <<beaconChain, toConfirm, bridgeTokens>> /\ shardChain' = Append(shardChain, b)
      BY <2>4 DEF FaultyBlock, InsertShard
    <3> HIDE DEF b
    <3> QED BY <1>1, <3>4, <3>5, AmountsStay DEF BridgeInv
  <2>5. CASE UNCHANGED bridgeVars
    <3>1. UNCHANGED <<shardChain, beaconChain, toConfirm, bridgeTokens>>
      BY <2>5 DEF bridgeVars
    <3> QED BY <1>1, <3>1, AmountsStay DEF BridgeInv
  <2> QED BY <1>1, <2>1, <2>2, <2>3, <2>4, <2>5 DEF BridgeNext
<1>2. BridgeInit => BridgeInv /\ AmountsInv
  BY BridgeStarts, AmountsStart
<1>3. (BridgeInv /\ AmountsInv) /\ [BridgeNext]_bridgeVars => (BridgeInv /\ AmountsInv)'
  BY <1>1, BridgeInvStep
<1>4. AmountsInv => AmountsAreExact
  BY DEF AmountsInv
<1> QED BY <1>2, <1>3, <1>4, PTL DEF BridgeSpec
=============================================================================
