---------------------- MODULE ShardToBeaconPoolProofs ----------------------
(***************************************************************************)
(* Proofs about the shard-to-beacon pool, for every set of shards and      *)
(* hashes, every bound on heights and every capacity, and about what a     *)
(* validator that checks a proposal against it signs.                      *)
(***************************************************************************)
EXTENDS ShardStateVerification, FiniteSetTheorems, SequenceTheorems, WellFoundedInduction, TLAPS

USE HeightAssumption

-----------------------------------------------------------------------------
\* Facts about least and greatest heights, and about the end of a run.

\* A non-empty set of natural numbers has a least element.
LEMMA LeastNatural ==
  ASSUME NEW T \in SUBSET Nat, T # {}
  PROVE  \E x \in T : \A y \in T : x <= y
<1> DEFINE R == OpToRel(<, Nat)
<1>1. IsWellFoundedOn(R, Nat)
  BY NatLessThanWellFounded
<1>2. PICK x \in T : \A y \in T : ~(<<y, x>> \in R)
  BY <1>1, WFMin, Zenon
<1>3. ASSUME NEW y \in T PROVE x <= y
  <2>1. ~(<<y, x>> \in R)
    BY <1>2
  <2>2. ~(y < x)
    BY <2>1 DEF OpToRel
  <2> QED BY <2>2
<1> QED BY <1>3

\* The least of a non-empty set of heights.
LEMMA MinHeight ==
  ASSUME NEW H \in SUBSET Nat, H # {}
  PROVE  Min(H) \in H /\ \A h \in H : Min(H) <= h
<1>1. PICK x \in H : \A y \in H : x <= y
  BY LeastNatural
<1> QED BY <1>1 DEF Min

\* The greatest of a non-empty, bounded set of heights.
LEMMA MaxHeightOf ==
  ASSUME NEW n \in Nat, NEW H \in SUBSET (0..n), H # {}
  PROVE  Max(H) \in H /\ \A h \in H : h <= Max(H)
<1> DEFINE D == {k \in Nat : \E h \in H : k = n - h}
<1>1. D \in SUBSET Nat /\ D # {}
  <2>1. PICK h \in H : TRUE
    OBVIOUS
  <2>2. n - h \in D
    BY <2>1
  <2> QED BY <2>2
<1> HIDE DEF D
<1>2. PICK d \in D : \A y \in D : d <= y
  BY <1>1, LeastNatural
<1>3. PICK x \in H : d = n - x
  BY <1>2 DEF D
<1>4. ASSUME NEW h \in H PROVE h <= x
  <2>1. n - h \in D
    BY DEF D
  <2> QED BY <2>1, <1>2, <1>3
<1> QED BY <1>4 DEF Max

\* A run of consecutive heights in a bounded set has an end.
LEMMA RunEndExists ==
  ASSUME NEW n \in Nat, NEW H \in SUBSET (0..n), NEW m \in H
  PROVE  /\ RunEnd(H, m) \in H
         /\ RunEnd(H, m) >= m
         /\ m..RunEnd(H, m) \subseteq H
         /\ RunEnd(H, m) + 1 \notin H
<1> DEFINE T == {k \in Nat : k > m /\ k \notin H}
<1>1. n + 1 \in T
  OBVIOUS
<1> HIDE DEF T
<1>2. PICK k \in T : \A y \in T : k <= y
  BY <1>1, LeastNatural DEF T
<1> DEFINE e == k - 1
<1>3. \A j \in m..e : j \in H
  BY <1>2 DEF T
<1>4. e \in H /\ e >= m /\ m..e \subseteq H /\ e + 1 \notin H
  BY <1>2, <1>3 DEF T
<1> QED BY <1>4 DEF RunEnd

\* What updateLatestShardState computes for a shard whose blocks lie above base
\* and include every height from base + 1 to the height it starts from: the end
\* of a gapless, maximal run that starts right after base.
LEMMA UpdatedHeightRun ==
  ASSUME NEW blks \in SUBSET Block, NEW latest \in 0..MaxHeight, NEW base \in 1..MaxHeight,
         base <= AtLeastGenesis(latest),
         \A h \in Heights :
           h <= AtLeastGenesis(latest) => (h \in HeightsOf(blks) <=> h > base)
  PROVE  LET u == UpdatedHeight(blks, latest)
             top == AtLeastGenesis(u)
         IN /\ u \in 0..MaxHeight
            /\ top >= AtLeastGenesis(latest)
            /\ \A h \in Heights : h <= top => (h \in HeightsOf(blks) <=> h > base)
            /\ top + 1 \notin HeightsOf(blks)
<1> DEFINE H == HeightsOf(blks)
           L == AtLeastGenesis(latest)
           u == UpdatedHeight(blks, latest)
           first == Min(H)
<1>1. H \in SUBSET Heights /\ H \in SUBSET (0..MaxHeight) /\ H \in SUBSET Nat
  BY DEF HeightsOf, Block, Heights
<1>a. \A h \in H : h \in Int /\ 2 <= h /\ h <= MaxHeight
  BY <1>1 DEF Heights
<1>2. L \in 1..MaxHeight /\ L >= latest /\ AtLeastGenesis(L) = L
  BY HeightAssumption DEF AtLeastGenesis
<1>3. CASE blks = {}
  <2>1. u = latest /\ H = {}
    BY <1>3 DEF UpdatedHeight, HeightsOf
  <2> QED BY <2>1, <1>2
<1>4. CASE blks # {}
  <2>1. H # {}
    BY <1>4 DEF HeightsOf
  <2> HIDE DEF H
  <2>2. first \in H /\ \A h \in H : first <= h
    BY <1>1, <2>1, MinHeight
  <2>a. first \in Int /\ 2 <= first /\ first <= MaxHeight
    BY <1>a, <2>2
  <2> HIDE DEF first, L
  <2>3. first > base
    <3>1. CASE first <= L
      BY <3>1, <2>2, <2>a DEF H, L, Heights
    <3>2. CASE first > L
      BY <3>2, <2>a, <1>2 DEF L
    <3> QED BY <3>1, <3>2, <2>a, <1>2
  <2>4. CASE first > L + 1
    <3>1. u = L
      BY <2>4, <1>4 DEF UpdatedHeight, H, first, L
    <3>2. L + 1 \notin H
      BY <2>4, <2>2, <2>a, <1>2
    <3> QED BY <3>1, <3>2, <1>2 DEF H, L
  <2>5. CASE ~(first > L + 1)
    <3>1. u = RunEnd(H, first)
      BY <2>5, <1>4 DEF UpdatedHeight, H, first, L
    <3>2. u \in H /\ u >= first /\ (first..u) \subseteq H /\ u + 1 \notin H
      BY <3>1, <1>1, <2>2, RunEndExists, HeightAssumption
    <3>3. u \in 2..MaxHeight /\ AtLeastGenesis(u) = u
      BY <3>2, <1>a DEF AtLeastGenesis
    <3>4. first = base + 1
      <4>1. CASE L = base
        BY <4>1, <2>3, <2>5, <2>a, <1>2
      <4>2. CASE L > base
        <5>1. base + 1 \in Heights /\ base + 1 <= L
          BY <4>2, <1>2 DEF Heights
        <5>2. base + 1 \in H
          BY <5>1 DEF H, L
        <5> QED BY <5>2, <2>2, <2>3, <2>a
      <4> QED BY <4>1, <4>2, <1>2 DEF L
    <3>5. u >= L
      <4>1. CASE u < L
        <5>1. u + 1 \in Heights /\ u + 1 <= L /\ u + 1 > base
          BY <4>1, <3>2, <3>3, <3>4, <1>2 DEF Heights
        <5>2. u + 1 \in H
          BY <5>1 DEF H, L
        <5> QED BY <5>2, <3>2
      <4> QED BY <4>1, <3>3, <1>2
    <3>6. ASSUME NEW h \in Heights, h <= u
          PROVE  h \in H <=> h > base
      <4>1. CASE h > base
        BY <4>1, <3>6, <3>2, <3>3, <3>4 DEF Heights
      <4>2. CASE ~(h > base)
        BY <4>2, <2>2, <2>3, <2>a DEF Heights
      <4> QED BY <4>1, <4>2
    <3> QED BY <3>2, <3>3, <3>5, <3>6 DEF H, L
  <2> QED BY <2>4, <2>5
<1> QED BY <1>3, <1>4

\* The same computation has the right type whatever the blocks are, and gives a
\* map entry that exists.
LEMMA UpdatedHeightType ==
  ASSUME NEW blks \in SUBSET Block, NEW latest \in 0..MaxHeight
  PROVE  /\ UpdatedHeight(blks, latest) \in 0..MaxHeight
         /\ UpdatedHeight(blks, latest) = 0 => latest = 0
<1> DEFINE H == HeightsOf(blks)
<1>1. H \in SUBSET Nat /\ H \in SUBSET (0..MaxHeight)
  BY DEF HeightsOf, Block, Heights
<1>2. CASE blks = {}
  BY <1>2 DEF UpdatedHeight
<1>3. CASE blks # {}
  <2>1. H # {}
    BY <1>3 DEF HeightsOf
  <2> HIDE DEF H
  <2>2. Min(H) \in H
    BY <2>1, <1>1, MinHeight
  <2>3. RunEnd(H, Min(H)) \in H
    BY <2>2, <1>1, RunEndExists
  <2>4. AtLeastGenesis(latest) \in 1..MaxHeight
    BY DEF AtLeastGenesis
  <2>5. RunEnd(H, Min(H)) \in 2..MaxHeight
    BY <2>3 DEF H, HeightsOf, Block, Heights
  <2>6. UpdatedHeight(blks, latest) \in {AtLeastGenesis(latest), RunEnd(H, Min(H))}
    BY <1>3 DEF UpdatedHeight, H
  <2> QED BY <2>4, <2>5, <2>6
<1> QED BY <1>2, <1>3

-----------------------------------------------------------------------------
\* Counting blocks: with one block per height, a slice is finite and has as many
\* blocks as heights.
LEMMA CountByHeight ==
  ASSUME NEW blks \in SUBSET Block,
         \A a, b \in blks : a.height = b.height => a = b
  PROVE  /\ IsFiniteSet(blks)
         /\ Cardinality(blks) = Cardinality(HeightsOf(blks))
         /\ Cardinality(blks) \in Nat
<1> DEFINE H == HeightsOf(blks)
           f == [b \in blks |-> b.height]
<1>1. H \in SUBSET Nat /\ \A h \in H : h <= MaxHeight
  BY DEF HeightsOf, Block, Heights
<1>2. IsFiniteSet(H)
  BY <1>1, FS_BoundedSetOfNaturals
<1>3. f \in Injection(blks, H) /\ f \in Surjection(blks, H)
  BY DEF Injection, Surjection, IsInjective, HeightsOf
<1> HIDE DEF f, H
<1>4. IsFiniteSet(blks) /\ Cardinality(blks) = Cardinality(H)
  BY <1>2, <1>3, FS_Injection
<1> QED BY <1>4, FS_CardinalityType DEF H

\* The block that is evicted for a better one is never part of the gapless run:
\* when too many invalid blocks are counted, at least one is really invalid,
\* although the count is one too high.
LEMMA EvictionSparesRun ==
  ASSUME TypeOK, OneBlockPerHeight, ValidRun, NEW s \in Shards,
         ExceedsInvalid(s, AtLeastGenesis(latestValidHeight[s]))
  PROVE  /\ Max(HeightsOf(pool[s])) \in HeightsOf(pool[s])
         /\ Max(HeightsOf(pool[s])) > AtLeastGenesis(latestValidHeight[s])
<1> DEFINE H == HeightsOf(pool[s])
           top == AtLeastGenesis(latestValidHeight[s])
           base == AtLeastGenesis(applied[s])
           MI == MAX_INVALID_SHARD_TO_BEACON_BLK_IN_POOL
<1>1. pool[s] \in SUBSET Block /\ pool[s] # {}
  BY DEF TypeOK, ExceedsInvalid
<1>2. H \in SUBSET Heights /\ H # {}
  BY <1>1 DEF HeightsOf, Block
<1>3. base \in Int /\ top \in Int /\ base >= 1 /\ base <= top
      /\ \A h \in Heights : h <= top => (h \in H <=> h > base)
  BY DEF TypeOK, ValidRun, AtLeastGenesis, Heights
<1>4. Cardinality(pool[s]) = Cardinality(H)
  BY <1>1, CountByHeight DEF OneBlockPerHeight
<1>5. /\ MI \in Nat /\ MI >= 1
      /\ Cardinality(H) - (IF top >= Min(H) THEN top - Min(H) ELSE 0) > MI
  BY <1>4, CapacityAssumption DEF ExceedsInvalid, NumInvalid, NumValid
<1>a. \A h \in H : h \in Int /\ 2 <= h /\ h <= MaxHeight
  BY <1>2 DEF Heights
<1> HIDE DEF H, top, base
<1>6. Max(H) \in H /\ \A h \in H : h <= Max(H)
  BY <1>2, MaxHeightOf DEF Heights
<1>b. Max(H) \in Int /\ Max(H) <= MaxHeight
  BY <1>a, <1>6
<1>7. ASSUME Max(H) <= top PROVE FALSE
  <2>1. H = (base + 1)..Max(H)
    <3>1. ASSUME NEW h \in H PROVE h \in (base + 1)..Max(H)
      BY <1>a, <1>3, <1>6, <1>b, <1>7 DEF Heights
    <3>2. ASSUME NEW h \in (base + 1)..Max(H) PROVE h \in H
      BY <1>a, <1>3, <1>6, <1>b, <1>7 DEF Heights
    <3> QED BY <3>1, <3>2
  <2>2. Max(H) \in Int /\ Max(H) > base
    BY <1>a, <1>3, <1>6, <1>b, <1>7 DEF Heights
  <2>3. Cardinality(H) = Max(H) - base
    <3>1. Cardinality((base + 1)..Max(H)) = Max(H) - base
      BY <2>2, <1>3, FS_Interval
    <3> QED BY <3>1, <2>1
  <2>4. Min(H) = base + 1
    <3>1. Min(H) \in H /\ \A h \in H : Min(H) <= h
      BY <1>2, MinHeight DEF Heights
    <3>2. base + 1 \in H
      BY <2>1, <2>2, <1>3
    <3>3. Min(H) >= base + 1
      <4>1. \A h \in H : h >= base + 1
        BY <2>1, <2>2, <1>3
      <4> QED BY <4>1, <3>1
    <3>4. Min(H) <= base + 1 /\ Min(H) \in Int
      BY <3>1, <3>2, <1>a
    <3> QED BY <3>3, <3>4, <1>3
  <2> QED BY <1>5, <2>2, <2>3, <2>4, <1>3, <1>7
<1> QED BY <1>2, <1>3, <1>6, <1>7 DEF Heights, H, top

-----------------------------------------------------------------------------
\* The pool is never told of a height that the best state does not have.
AppliedBehindBest == \A s \in Shards : applied[s] <= best[s]

\* ValidRun and RunIsMaximal need each other (the run found again by
\* SetShardState ends where the old one did only if the old one was maximal),
\* OneBlockPerHeight (to count blocks before an eviction) and
\* AppliedBehindBest (a shard without a confirmed height keeps its base).
IInv ==
  /\ TypeOK
  /\ OneBlockPerHeight
  /\ ValidRun
  /\ RunIsMaximal
  /\ AppliedBehindBest

\* The state of a node that has just been set up satisfies the invariant.
LEMMA InitIInv == Init => IInv
<1> SUFFICES ASSUME Init PROVE IInv
  OBVIOUS
<1>1. TypeOK
  BY DEF Init, TypeOK
<1>2. \A s \in Shards : HeightsOf(pool[s]) = {} /\ AtLeastGenesis(latestValidHeight[s]) = 1
                          /\ AtLeastGenesis(applied[s]) = 1
  BY DEF Init, HeightsOf, AtLeastGenesis
<1>3. ValidRun /\ RunIsMaximal
  BY <1>2 DEF ValidRun, RunIsMaximal, Heights
<1>4. OneBlockPerHeight /\ AppliedBehindBest
  BY DEF Init, OneBlockPerHeight, AppliedBehindBest
<1> QED BY <1>1, <1>3, <1>4 DEF IInv

\* AddShardToBeaconBlock with an error.
LEMMA RejectPreserves ==
  ASSUME IInv, NEW s \in Shards, NEW b \in Block, RejectBlock(s, b)
  PROVE  IInv'
<1>1. \A t \in Shards : AtLeastGenesis(latestValidHeight'[t]) = AtLeastGenesis(latestValidHeight[t])
  BY DEF RejectBlock, IInv, TypeOK, AtLeastGenesis
<1>2. TypeOK'
  BY DEF RejectBlock, IInv, TypeOK, AtLeastGenesis, chainVars
<1>3. UNCHANGED <<pool, applied, best>>
  BY DEF RejectBlock, chainVars
<1>4. ValidRun' /\ RunIsMaximal'
  BY <1>1, <1>3 DEF IInv, ValidRun, RunIsMaximal, HeightsOf
<1>5. OneBlockPerHeight' /\ AppliedBehindBest'
  BY <1>3 DEF IInv, OneBlockPerHeight, AppliedBehindBest
<1> QED BY <1>2, <1>4, <1>5 DEF IInv

\* AddShardToBeaconBlock with an accepted block.
LEMMA AcceptPreserves ==
  ASSUME IInv, NEW s \in Shards, NEW b \in Block, AcceptBlock(s, b)
  PROVE  IInv' /\ \A t \in Shards : latestValidHeight'[t] >= latestValidHeight[t]
<1> DEFINE latest == AtLeastGenesis(latestValidHeight[s])
           kept == IF ExceedsInvalid(s, latest) THEN WithoutLast(pool[s]) ELSE pool[s]
           heights == [latestValidHeight EXCEPT ![s] = latest]
<1>1. /\ ~IsRejected(s, b, latest)
      /\ pool' = [pool EXCEPT ![s] = kept \union {b}]
      /\ latestValidHeight' = [t \in Shards |-> UpdatedHeight(pool'[t], heights[t])]
      /\ requested' = [requested EXCEPT ![s] = RequestRange(pool'[s], latestValidHeight'[s])]
      /\ UNCHANGED <<best, stored, applied, insert>>
  BY DEF AcceptBlock, chainVars
<1>2. /\ pool \in [Shards -> SUBSET Block]
      /\ latestValidHeight \in [Shards -> 0..MaxHeight]
      /\ requested \in [Shards -> SUBSET Nat]
      /\ applied \in [Shards -> {0} \union Heights]
  BY DEF IInv, TypeOK
<1>3. latest \in 0..MaxHeight /\ AtLeastGenesis(latest) = latest
      /\ b.height > latest /\ b.height \notin HeightsOf(pool[s]) /\ b.height \in Heights
  BY <1>1, <1>2 DEF AtLeastGenesis, IsRejected, IsOld, IsDuplicate, Block, Heights
<1>4. kept \in SUBSET pool[s]
  BY DEF WithoutLast
<1>5. \A h \in HeightsOf(pool[s]) : h <= latest => h \in HeightsOf(kept)
  <2>1. CASE ExceedsInvalid(s, latest)
    <3>1. Max(HeightsOf(pool[s])) \in HeightsOf(pool[s]) /\ Max(HeightsOf(pool[s])) > latest
      BY <2>1, EvictionSparesRun DEF IInv
    <3>2. \A x \in pool[s] : x.height <= latest => x \in WithoutLast(pool[s])
      <4>1. \A x \in pool[s] : x.height \in Int
        BY <1>2 DEF Block, Heights
      <4>2. Max(HeightsOf(pool[s])) \in Int /\ latest \in Int
        BY <3>1, <4>1, <1>3 DEF HeightsOf
      <4> QED BY <3>1, <4>1, <4>2 DEF WithoutLast
    <3> QED BY <3>2, <2>1 DEF HeightsOf
  <2>2. CASE ~ExceedsInvalid(s, latest)
    BY <2>2
  <2> QED BY <2>1, <2>2
<1> HIDE DEF kept, latest
<1>6. pool' \in [Shards -> SUBSET Block] /\ heights \in [Shards -> 0..MaxHeight]
  BY <1>1, <1>2, <1>3, <1>4
<1>7. latestValidHeight' \in [Shards -> 0..MaxHeight]
  BY <1>1, <1>6, UpdatedHeightType
\* the run of each shard, with the lemma about updateLatestShardState
<1>8. ASSUME NEW t \in Shards
      PROVE  LET base == AtLeastGenesis(applied[t])
                 top == AtLeastGenesis(latestValidHeight'[t])
             IN /\ top >= AtLeastGenesis(latestValidHeight[t])
                /\ base <= top
                /\ \A h \in Heights : h <= top => (h \in HeightsOf(pool'[t]) <=> h > base)
                /\ top + 1 \notin HeightsOf(pool'[t])
  <2> DEFINE base == AtLeastGenesis(applied[t])
             H == HeightsOf(pool'[t])
             old == AtLeastGenesis(latestValidHeight[t])
  <2>1. base \in 1..MaxHeight
    BY <1>2 DEF AtLeastGenesis, Heights
  <2>2. base <= old /\ \A h \in Heights : h <= old => (h \in HeightsOf(pool[t]) <=> h > base)
    BY DEF IInv, ValidRun
  <2>3. AtLeastGenesis(heights[t]) = old
    BY <1>2, <1>3 DEF latest, AtLeastGenesis
  <2>4. \A h \in Heights : h <= old => (h \in H <=> h > base)
    <3>1. CASE t = s
      <4>1. H = HeightsOf(kept) \union {b.height}
        BY <3>1, <1>1, <1>2 DEF HeightsOf
      <4>2. HeightsOf(kept) \in SUBSET HeightsOf(pool[s])
        BY <1>4 DEF HeightsOf
      <4>3. old = latest
        BY <3>1 DEF latest
      <4>4. \A h \in Heights : h <= old => (h \in H <=> h \in HeightsOf(pool[t]))
        BY <4>1, <4>2, <4>3, <3>1, <1>3, <1>5 DEF Heights
      <4> QED BY <4>4, <2>2
    <3>2. CASE t # s
      BY <3>2, <2>2, <1>1, <1>2
    <3> QED BY <3>1, <3>2
  <2>5. pool'[t] \in SUBSET Block /\ heights[t] \in 0..MaxHeight
    BY <1>6
  <2>6. latestValidHeight'[t] = UpdatedHeight(pool'[t], heights[t])
    BY <1>1
  <2> HIDE DEF heights, base, H, old
  <2>7. LET u == UpdatedHeight(pool'[t], heights[t])
            top == AtLeastGenesis(u)
        IN /\ u \in 0..MaxHeight
           /\ top >= AtLeastGenesis(heights[t])
           /\ \A h \in Heights : h <= top => (h \in HeightsOf(pool'[t]) <=> h > base)
           /\ top + 1 \notin HeightsOf(pool'[t])
    BY <2>1, <2>2, <2>3, <2>4, <2>5, UpdatedHeightRun DEF H
  <2>8. old \in Int /\ AtLeastGenesis(latestValidHeight'[t]) \in Int
    BY <1>2, <1>7 DEF old, AtLeastGenesis
  <2> QED BY <2>1, <2>2, <2>3, <2>6, <2>7, <2>8 DEF base, old
<1>9. ValidRun' /\ RunIsMaximal'
  BY <1>8, <1>1 DEF ValidRun, RunIsMaximal
<1>10. \A t \in Shards : latestValidHeight'[t] >= latestValidHeight[t]
  <2> SUFFICES ASSUME NEW t \in Shards PROVE latestValidHeight'[t] >= latestValidHeight[t]
    OBVIOUS
  <2>1. AtLeastGenesis(latestValidHeight'[t]) >= AtLeastGenesis(latestValidHeight[t])
    BY <1>8
  <2>2. latestValidHeight'[t] = 0 => latestValidHeight[t] = 0
    <3>1. latestValidHeight'[t] = UpdatedHeight(pool'[t], heights[t])
      BY <1>1
    <3>2. latestValidHeight'[t] = 0 => heights[t] = 0
      BY <3>1, <1>6, UpdatedHeightType
    <3>3. heights[t] = 0 => latestValidHeight[t] = 0
      BY <1>2 DEF latest, AtLeastGenesis
    <3> QED BY <3>2, <3>3
  <2> QED BY <2>1, <2>2, <1>2, <1>7 DEF AtLeastGenesis
<1>11. OneBlockPerHeight'
  <2> SUFFICES ASSUME NEW t \in Shards, NEW x \in pool'[t], NEW y \in pool'[t], x.height = y.height
               PROVE  x = y
    BY DEF OneBlockPerHeight
  <2>1. CASE t = s
    <3>1. x \in pool[s] \union {b} /\ y \in pool[s] \union {b}
      BY <2>1, <1>1, <1>2, <1>4
    <3> QED BY <3>1, <1>3 DEF IInv, OneBlockPerHeight, HeightsOf
  <2>2. CASE t # s
    BY <2>2, <1>1, <1>2 DEF IInv, OneBlockPerHeight
  <2> QED BY <2>1, <2>2
<1>12. RequestRange(pool'[s], latestValidHeight'[s]) \in SUBSET Nat
  BY <1>7 DEF RequestRange
<1>13. TypeOK'
  <2>1. requested' \in [Shards -> SUBSET Nat]
    BY <1>1, <1>2, <1>12
  <2> QED BY <2>1, <1>1, <1>6, <1>7 DEF TypeOK, IInv
<1>14. AppliedBehindBest'
  BY <1>1 DEF IInv, AppliedBehindBest
<1> QED BY <1>9, <1>10, <1>11, <1>13, <1>14 DEF IInv

\* SetShardState, for any confirmed heights the best state can hold and for the
\* pool of the node or an empty one: the run is found again from the new base.
LEMMA SetShardStateRun ==
  ASSUME NEW state \in [Shards -> {0} \union Heights],
         NEW p \in [Shards -> SUBSET Block],
         NEW old \in [Shards -> 0..MaxHeight],
         \A t \in Shards : state[t] = 0 =>
           \A h \in Heights : h <= AtLeastGenesis(old[t]) => (h \in HeightsOf(p[t]) <=> h > 1),
         SetShardState(state, p, old)
  PROVE  /\ pool' \in [Shards -> SUBSET Block]
         /\ \A t \in Shards : pool'[t] \in SUBSET p[t]
         /\ latestValidHeight' \in [Shards -> 0..MaxHeight]
         /\ applied' = state
         /\ ValidRun' /\ RunIsMaximal'
<1> DEFINE known == {t \in Shards : state[t] # 0}
           heights == [t \in Shards |-> IF t \in known THEN state[t] ELSE old[t]]
           left == [t \in Shards |-> IF t \in known THEN RemoveUpTo(p[t], state[t]) ELSE p[t]]
<1>1. /\ pool' = left
      /\ latestValidHeight' = [t \in Shards |-> UpdatedHeight(left[t], heights[t])]
      /\ applied' = state
  BY DEF SetShardState
<1>2. left \in [Shards -> SUBSET Block] /\ heights \in [Shards -> 0..MaxHeight]
      /\ \A t \in Shards : left[t] \in SUBSET p[t]
  BY DEF RemoveUpTo, Heights
<1>3. latestValidHeight' \in [Shards -> 0..MaxHeight]
  BY <1>1, <1>2, UpdatedHeightType
<1>4. ASSUME NEW t \in Shards
      PROVE  LET base == AtLeastGenesis(state[t])
                 top == AtLeastGenesis(latestValidHeight'[t])
             IN /\ base <= top
                /\ \A h \in Heights : h <= top => (h \in HeightsOf(left[t]) <=> h > base)
                /\ top + 1 \notin HeightsOf(left[t])
  <2> DEFINE base == AtLeastGenesis(state[t])
  <2>1. base \in 1..MaxHeight
    BY DEF AtLeastGenesis, Heights
  <2>2. base <= AtLeastGenesis(heights[t])
        /\ \A h \in Heights : h <= AtLeastGenesis(heights[t]) =>
             (h \in HeightsOf(left[t]) <=> h > base)
    <3>1. CASE state[t] = 0
      <4>1. left[t] = p[t] /\ heights[t] = old[t] /\ base = 1
        BY <3>1 DEF AtLeastGenesis
      <4>2. AtLeastGenesis(old[t]) \in Int /\ AtLeastGenesis(old[t]) >= 1
        BY DEF AtLeastGenesis
      <4> QED BY <4>1, <4>2, <3>1
    <3>2. CASE state[t] # 0
      <4>1. left[t] = RemoveUpTo(p[t], state[t]) /\ heights[t] = state[t]
            /\ base = state[t] /\ AtLeastGenesis(state[t]) = state[t] /\ state[t] \in Int
        BY <3>2 DEF AtLeastGenesis, Heights
      <4>2. \A h \in HeightsOf(left[t]) : h > base
        BY <4>1 DEF HeightsOf, RemoveUpTo
      <4> QED BY <4>1, <4>2 DEF Heights
    <3> QED BY <3>1, <3>2
  <2>3. left[t] \in SUBSET Block /\ heights[t] \in 0..MaxHeight
    BY <1>2
  <2>4. latestValidHeight'[t] = UpdatedHeight(left[t], heights[t])
    BY <1>1
  <2> HIDE DEF heights, left, base
  <2>5. LET u == UpdatedHeight(left[t], heights[t])
            top == AtLeastGenesis(u)
        IN /\ u \in 0..MaxHeight
           /\ top >= AtLeastGenesis(heights[t])
           /\ \A h \in Heights : h <= top => (h \in HeightsOf(left[t]) <=> h > base)
           /\ top + 1 \notin HeightsOf(left[t])
    BY <2>1, <2>2, <2>3, UpdatedHeightRun
  <2>6. AtLeastGenesis(heights[t]) \in Int /\ AtLeastGenesis(latestValidHeight'[t]) \in Int
    BY <2>3, <1>3 DEF AtLeastGenesis
  <2> QED BY <2>1, <2>2, <2>4, <2>5, <2>6 DEF base
<1>5. ValidRun' /\ RunIsMaximal'
  BY <1>1, <1>4 DEF ValidRun, RunIsMaximal
<1> QED BY <1>1, <1>2, <1>3, <1>5

\* The call of SetShardState at the end of InsertBeaconBlock.
LEMMA InsertSetPreserves ==
  ASSUME IInv, InsertSetShardState
  PROVE  IInv' /\ \A t \in Shards : latestValidHeight'[t] >= latestValidHeight[t]
<1>1. /\ best \in [Shards -> {0} \union Heights]
      /\ applied \in [Shards -> {0} \union Heights]
      /\ pool \in [Shards -> SUBSET Block]
      /\ latestValidHeight \in [Shards -> 0..MaxHeight]
  BY DEF IInv, TypeOK
<1>2. \A t \in Shards : best[t] = 0 => applied[t] = 0
  BY <1>1 DEF IInv, AppliedBehindBest, Heights
<1>3. \A t \in Shards : best[t] = 0 =>
        \A h \in Heights : h <= AtLeastGenesis(latestValidHeight[t]) =>
                              (h \in HeightsOf(pool[t]) <=> h > 1)
  BY <1>2 DEF IInv, ValidRun, AtLeastGenesis
<1>4. SetShardState(best, pool, latestValidHeight) /\ UNCHANGED <<requested, best, stored>>
      /\ insert' = "idle"
  BY DEF InsertSetShardState
<1>5. /\ pool' \in [Shards -> SUBSET Block]
      /\ \A t \in Shards : pool'[t] \in SUBSET pool[t]
      /\ latestValidHeight' \in [Shards -> 0..MaxHeight]
      /\ applied' = best
      /\ ValidRun' /\ RunIsMaximal'
  BY <1>1, <1>3, <1>4, SetShardStateRun
<1>6. TypeOK'
  BY <1>1, <1>4, <1>5 DEF TypeOK, IInv
<1>7. OneBlockPerHeight'
  BY <1>5 DEF OneBlockPerHeight, IInv
<1>8. AppliedBehindBest'
  BY <1>1, <1>4, <1>5 DEF AppliedBehindBest, Heights
\* the old run above the new base is still in the pool, so the new one covers it
<1>9. ASSUME NEW t \in Shards PROVE latestValidHeight'[t] >= latestValidHeight[t]
  <2> DEFINE L == latestValidHeight[t]
             u == latestValidHeight'[t]
             base == AtLeastGenesis(best[t])
  <2>1. L \in 0..MaxHeight /\ u \in 0..MaxHeight
    BY <1>1, <1>5
  <2>2. base <= AtLeastGenesis(u)
    BY <1>5, <1>4 DEF ValidRun
  <2>3. AtLeastGenesis(u) + 1 \notin HeightsOf(pool'[t])
    BY <1>5 DEF RunIsMaximal
  <2>4. \A h \in Heights : h <= AtLeastGenesis(L) /\ h > AtLeastGenesis(applied[t]) => h \in HeightsOf(pool[t])
    BY DEF IInv, ValidRun
  <2>5. AtLeastGenesis(applied[t]) <= base /\ base \in Int /\ base >= 1
        /\ AtLeastGenesis(applied[t]) \in Int
    BY <1>1 DEF IInv, AppliedBehindBest, AtLeastGenesis, Heights
  <2>6. \A x \in pool[t] : x.height > base => x \in pool'[t]
    BY <1>1, <1>4 DEF SetShardState, RemoveUpTo, AtLeastGenesis
  <2>7. ASSUME AtLeastGenesis(u) < AtLeastGenesis(L) PROVE FALSE
    <3> DEFINE h == AtLeastGenesis(u) + 1
    <3>1. h \in Heights /\ h <= AtLeastGenesis(L) /\ h > base
      BY <2>1, <2>2, <2>5, <2>7 DEF Heights, AtLeastGenesis
    <3>2. h \in HeightsOf(pool[t])
      BY <3>1, <2>4, <2>5 DEF Heights
    <3>3. PICK x \in pool[t] : x.height = h
      BY <3>2 DEF HeightsOf
    <3>4. x \in pool'[t]
      BY <3>3, <3>1, <2>6
    <3> QED BY <3>3, <3>4, <2>3 DEF HeightsOf
  <2>8. u = 0 => L = 0
    <3>1. ASSUME u = 0 PROVE L = 0
      <4>1. best[t] = 0
        BY <3>1, <2>2, <1>1 DEF AtLeastGenesis, Heights
      <4>2. u = UpdatedHeight(pool'[t], L)
        BY <4>1, <1>4, <1>1 DEF SetShardState
      <4> QED BY <4>2, <3>1, <2>1, <1>5, UpdatedHeightType
    <3> QED BY <3>1
  <2> QED BY <2>1, <2>7, <2>8 DEF AtLeastGenesis
<1> QED BY <1>5, <1>6, <1>7, <1>8, <1>9 DEF IInv

\* A restart: an empty pool that starts from the heights on disk.
LEMMA RestartPreserves ==
  ASSUME IInv, Restart
  PROVE  IInv'
<1> DEFINE p == [s \in Shards |-> {}]
           old == [s \in Shards |-> 0]
<1>1. stored \in [Shards -> {0} \union Heights]
  BY DEF IInv, TypeOK
<1>2. SetShardState(stored, p, old) /\ best' = stored /\ stored' = stored /\ insert' = "idle"
      /\ requested' = [s \in Shards |-> {}]
  BY DEF Restart
<1>3. \A t \in Shards : stored[t] = 0 =>
        \A h \in Heights : h <= AtLeastGenesis(old[t]) => (h \in HeightsOf(p[t]) <=> h > 1)
  BY DEF AtLeastGenesis, Heights
<1>4. p \in [Shards -> SUBSET Block] /\ old \in [Shards -> 0..MaxHeight]
      /\ \A t \in Shards : p[t] = {}
  OBVIOUS
<1> HIDE DEF p, old
<1>5. /\ pool' \in [Shards -> SUBSET Block]
      /\ \A t \in Shards : pool'[t] \in SUBSET p[t]
      /\ latestValidHeight' \in [Shards -> 0..MaxHeight]
      /\ applied' = stored
      /\ ValidRun' /\ RunIsMaximal'
  BY <1>1, <1>2, <1>3, <1>4, SetShardStateRun
<1>6. TypeOK'
  BY <1>1, <1>2, <1>5 DEF TypeOK
<1>7. OneBlockPerHeight'
  BY <1>4, <1>5 DEF OneBlockPerHeight
<1>8. AppliedBehindBest'
  BY <1>1, <1>2, <1>5 DEF AppliedBehindBest, Heights
<1> QED BY <1>5, <1>6, <1>7, <1>8 DEF IInv

\* The steps of InsertBeaconBlock that the pool does not see.
LEMMA ChainStepPreserves ==
  ASSUME IInv,
         \/ \E state \in [Shards -> {0} \union Heights] : UpdateBestState(state)
         \/ StoreBestState
         \/ InsertAborts
         \/ UNCHANGED vars
  PROVE  IInv' /\ \A t \in Shards : latestValidHeight'[t] >= latestValidHeight[t]
<1>1. UNCHANGED <<pool, latestValidHeight, requested, applied>>
  BY DEF UpdateBestState, StoreBestState, InsertAborts, vars, poolVars, chainVars
<1>2. TypeOK'
  BY DEF IInv, TypeOK, UpdateBestState, StoreBestState, InsertAborts, vars, poolVars, chainVars
<1>3. \A s \in Shards : best'[s] >= best[s]
  BY DEF IInv, TypeOK, UpdateBestState, StoreBestState, InsertAborts, vars, poolVars, chainVars, Heights
<1>4. AppliedBehindBest'
  BY <1>1, <1>2, <1>3 DEF IInv, AppliedBehindBest, TypeOK, Heights
<1>5. ValidRun' /\ RunIsMaximal' /\ OneBlockPerHeight'
  BY <1>1 DEF IInv, ValidRun, RunIsMaximal, OneBlockPerHeight
<1>6. \A t \in Shards : latestValidHeight'[t] >= latestValidHeight[t]
  BY <1>1 DEF IInv, TypeOK
<1> QED BY <1>2, <1>4, <1>5, <1>6 DEF IInv

\* Every step keeps the invariant, and every step but a restart keeps
\* latestValidHeight from receding.
LEMMA NextIInv ==
  ASSUME IInv, [Next]_vars
  PROVE  IInv' /\ (Restart \/ \A t \in Shards : latestValidHeight'[t] >= latestValidHeight[t])
<1>1. ASSUME NEW s \in Shards, NEW b \in Block, AddShardToBeaconBlock(s, b)
      PROVE  IInv' /\ \A t \in Shards : latestValidHeight'[t] >= latestValidHeight[t]
  <2>1. CASE AcceptBlock(s, b)
    BY <2>1, AcceptPreserves
  <2>2. CASE RejectBlock(s, b)
    <3>1. \A t \in Shards : latestValidHeight'[t] >= latestValidHeight[t]
      BY <2>2 DEF RejectBlock, IInv, TypeOK, AtLeastGenesis
    <3> QED BY <3>1, <2>2, RejectPreserves
  <2> QED BY <1>1, <2>1, <2>2 DEF AddShardToBeaconBlock
<1>2. CASE InsertSetShardState
  BY <1>2, InsertSetPreserves
<1>3. CASE Restart
  BY <1>3, RestartPreserves
<1>4. CASE \/ \E state \in [Shards -> {0} \union Heights] : UpdateBestState(state)
           \/ StoreBestState
           \/ InsertAborts
           \/ UNCHANGED vars
  BY <1>4, ChainStepPreserves
<1> QED BY <1>1, <1>2, <1>3, <1>4 DEF Next

-----------------------------------------------------------------------------
\* The inductive invariant holds in every reachable state.
THEOREM Inductive == Spec => []IInv
<1>1. Init => IInv
  BY InitIInv
<1>2. IInv /\ [Next]_vars => IInv'
  BY NextIInv
<1> QED BY <1>1, <1>2, PTL DEF Spec

\* The state keeps its type.
THEOREM TypeCorrect == Spec => []TypeOK
<1>1. IInv => TypeOK
  BY DEF IInv
<1> QED BY <1>1, Inductive, PTL

\* No two blocks of one height are in the pool.
THEOREM PoolHasOneBlockPerHeight == Spec => []OneBlockPerHeight
<1>1. IInv => OneBlockPerHeight
  BY DEF IInv
<1> QED BY <1>1, Inductive, PTL

\* What the pool hands to the beacon producer is a gapless run that starts right
\* after the confirmed height.
THEOREM PoolRunIsGapless == Spec => []ValidRun
<1>1. IInv => ValidRun
  BY DEF IInv
<1> QED BY <1>1, Inductive, PTL

\* The run is as long as the blocks in the pool allow.
THEOREM PoolRunIsMaximal == Spec => []RunIsMaximal
<1>1. IInv => RunIsMaximal
  BY DEF IInv
<1> QED BY <1>1, Inductive, PTL

\* Only a restart takes latestValidHeight back.
THEOREM HeightNeverRecedes == Spec => LatestNeverRecedes
<1>1. IInv /\ [Next]_vars =>
        [Restart \/ \A s \in Shards : latestValidHeight'[s] >= latestValidHeight[s]]_vars
  BY NextIInv
<1> QED BY <1>1, Inductive, PTL DEF Spec, LatestNeverRecedes

\* The capacity of the pool is kept by every step.
LEMMA NextBounded ==
  ASSUME IInv, PoolBounded, [Next]_vars
  PROVE  PoolBounded'
<1> DEFINE MV == MAX_VALID_SHARD_TO_BEACON_BLK_IN_POOL
           MI == MAX_INVALID_SHARD_TO_BEACON_BLK_IN_POOL
<1>1. MV \in Nat /\ MI \in Nat
  BY CapacityAssumption
<1>2. \A t \in Shards : IsFiniteSet(pool[t]) /\ Cardinality(pool[t]) \in Nat
  BY CountByHeight DEF IInv, TypeOK, OneBlockPerHeight
<1>3. ASSUME \A t \in Shards : pool'[t] \in SUBSET pool[t]
      PROVE  PoolBounded'
  <2>1. \A t \in Shards : Cardinality(pool'[t]) <= Cardinality(pool[t])
                          /\ Cardinality(pool'[t]) \in Nat
    BY <1>2, <1>3, FS_Subset, FS_CardinalityType
  <2> QED BY <2>1, <1>1, <1>2 DEF PoolBounded
<1>4. ASSUME NEW s \in Shards, NEW b \in Block, AcceptBlock(s, b)
      PROVE  PoolBounded'
  <2> DEFINE latest == AtLeastGenesis(latestValidHeight[s])
             P == pool[s]
             c == Cardinality(P)
  <2>1. pool \in [Shards -> SUBSET Block] /\ b.height \notin HeightsOf(P)
    BY <1>4 DEF IInv, TypeOK, AcceptBlock, IsRejected, IsDuplicate
  <2>2. b \notin P
    BY <2>1 DEF HeightsOf
  <2>3. CASE ExceedsInvalid(s, latest)
    <3>1. Max(HeightsOf(P)) \in HeightsOf(P)
      BY <2>3, EvictionSparesRun DEF IInv
    <3>2. PICK x \in P : x.height = Max(HeightsOf(P))
      BY <3>1 DEF HeightsOf
    <3>3. WithoutLast(P) = P \ {x}
      BY <3>2 DEF WithoutLast, IInv, OneBlockPerHeight
    <3>4. pool'[s] = (P \ {x}) \union {b} /\ \A t \in Shards : t # s => pool'[t] = pool[t]
      BY <2>1, <2>3, <3>3, <1>4 DEF AcceptBlock
    <3>5. IsFiniteSet(P \ {x}) /\ Cardinality(P \ {x}) = c - 1
      BY <1>2, <3>2, FS_RemoveElement
    <3>6. Cardinality((P \ {x}) \union {b}) = c
      <4>1. Cardinality((P \ {x}) \union {b}) = Cardinality(P \ {x}) + 1
        BY <2>2, <3>5, FS_AddElement
      <4> QED BY <4>1, <3>5, <1>2
    <3>7. \A t \in Shards : Cardinality(pool'[t]) = Cardinality(pool[t])
      BY <3>4, <3>6
    <3> QED BY <3>7 DEF PoolBounded
  <2>4. CASE ~ExceedsInvalid(s, latest)
    <3>1. pool'[s] = P \union {b} /\ \A t \in Shards : t # s => pool'[t] = pool[t]
      BY <2>1, <2>4, <1>4 DEF AcceptBlock
    <3>2. Cardinality(P \union {b}) = c + 1
      BY <1>2, <2>2, FS_AddElement
    <3>3. c <= MV + MI
      <4>1. CASE P = {}
        BY <4>1, <1>1, FS_EmptySet
      <4>2. CASE P # {}
        <5>1. ~ExceedsValid(s, latest)
          BY <1>4 DEF AcceptBlock, IsRejected
        <5>2. ~(NumValid(s, latest) > MV) /\ ~(c - NumValid(s, latest) > MI)
          BY <5>1, <4>2, <2>4 DEF ExceedsValid, ExceedsInvalid, NumInvalid
        <5>3. NumValid(s, latest) \in Int
          <6>1. HeightsOf(P) \in SUBSET Heights /\ HeightsOf(P) # {}
            BY <4>2, <2>1 DEF HeightsOf, Block
          <6>2. Min(HeightsOf(P)) \in Int
            BY <6>1, MinHeight DEF Heights
          <6>3. latest \in Int
            BY DEF IInv, TypeOK, AtLeastGenesis
          <6> QED BY <6>2, <6>3 DEF NumValid
        <5> QED BY <5>2, <5>3, <1>1, <1>2
      <4> QED BY <4>1, <4>2
    <3>4. Cardinality(pool'[s]) <= MV + MI + 1
      BY <3>1, <3>2, <3>3, <1>1, <1>2
    <3> QED BY <3>1, <3>4 DEF PoolBounded
  <2> QED BY <2>3, <2>4
<1>5. CASE InsertSetShardState \/ Restart
  <2>1. \A t \in Shards : pool'[t] \in SUBSET pool[t]
    BY <1>5 DEF InsertSetShardState, Restart, SetShardState, RemoveUpTo
  <2> QED BY <2>1, <1>3
<1>6. CASE UNCHANGED pool
  BY <1>6 DEF PoolBounded
<1>7. \/ \E s \in Shards, b \in Block : AcceptBlock(s, b)
      \/ InsertSetShardState \/ Restart
      \/ UNCHANGED pool
  BY DEF Next, AddShardToBeaconBlock, RejectBlock, UpdateBestState, StoreBestState,
         InsertAborts, vars, poolVars
<1> QED BY <1>4, <1>5, <1>6, <1>7

\* No order of arrival makes the slice of a shard longer than the two capacities
\* plus one.
THEOREM PoolIsBounded == Spec => []PoolBounded
<1>1. Init => PoolBounded
  BY FS_EmptySet, CapacityAssumption DEF Init, PoolBounded
<1>2. IInv /\ PoolBounded /\ [Next]_vars => PoolBounded'
  BY NextBounded
<1> QED BY <1>1, <1>2, Inductive, PTL DEF Spec

-----------------------------------------------------------------------------
\* What a successful AddShardToBeaconBlock returns: with a block in the pool,
\* the range of requests is empty exactly when the producer is handed something,
\* and otherwise it starts after the run.
LEMMA RequestStartsAfterRun ==
  ASSUME NEW blks \in SUBSET Block, blks # {}, NEW latest \in 0..MaxHeight
  PROVE  LET first == Min(HeightsOf(blks))
             range == RequestRange(blks, latest)
         IN /\ first \in HeightsOf(blks)
            /\ \A h \in HeightsOf(blks) : first <= h
            /\ range = {} <=> first <= latest
            /\ range # {} => Min(range) = latest + 1
<1> DEFINE H == HeightsOf(blks)
           first == Min(H)
           MV == MAX_VALID_SHARD_TO_BEACON_BLK_IN_POOL
           offset == IF first - latest > MV THEN MV ELSE first - latest
           range == RequestRange(blks, latest)
<1>1. H \in SUBSET Nat /\ H # {}
  BY DEF HeightsOf, Block, Heights
<1>2. first \in H /\ \A h \in H : first <= h
  BY <1>1, MinHeight
<1>3. first \in Nat /\ MV \in Nat \ {0} /\ latest \in Nat
  BY <1>1, <1>2, CapacityAssumption
<1>4. range = IF first > latest THEN (latest + 1)..(latest + offset) ELSE {}
  BY DEF RequestRange
<1>5. CASE first > latest
  <2>1. offset \in Nat \ {0}
    BY <1>3, <1>5
  <2> HIDE DEF offset
  <2>2. range = (latest + 1)..(latest + offset)
    BY <1>4, <1>5
  <2> HIDE DEF range, first
  <2>3. range \in SUBSET Nat /\ latest + 1 \in range /\ \A r \in range : latest + 1 <= r
    BY <2>1, <2>2, <1>3
  <2>4. Min(range) \in range /\ \A r \in range : Min(range) <= r
    BY <2>3, MinHeight
  <2> DEFINE m == Min(range)
  <2>5. m \in Nat /\ m <= latest + 1 /\ latest + 1 <= m
    BY <2>3, <2>4
  <2> HIDE DEF m
  <2>7. m = latest + 1
    BY <2>5, <1>3
  <2>6. range # {} /\ ~(first <= latest)
    BY <2>3, <1>5, <1>3
  <2> QED BY <2>6, <2>7, <1>2 DEF m, range, first
<1>6. CASE ~(first > latest)
  <2>1. range = {} /\ first <= latest
    BY <1>4, <1>6, <1>3
  <2> QED BY <2>1, <1>2
<1> QED BY <1>5, <1>6

\* Of the heights of a pool, the lowest is handed out first.
LEMMA LowestIsHandedOut ==
  ASSUME NEW H \in SUBSET Nat, NEW first \in H, \A h \in H : first <= h, NEW latest \in Nat
  PROVE  {h \in H : /\ h <= latest
                    /\ Cardinality({k \in H : k < h}) < MaxGet
                    /\ 0 # 0 => h <= 0} # {} <=> first <= latest
<1>1. ASSUME NEW k \in H PROVE ~(k < first)
  <2>1. k \in Nat /\ first \in Nat /\ first <= k
    OBVIOUS
  <2> QED BY <2>1
<1>2. {k \in H : k < first} = {}
  BY <1>1
<1>3. Cardinality({k \in H : k < first}) < MaxGet
  BY <1>2, FS_EmptySet, CapacityAssumption
<1> DEFINE handed(h) == /\ h <= latest
                        /\ Cardinality({k \in H : k < h}) < MaxGet
                        /\ 0 # 0 => h <= 0
<1>4. first <= latest => handed(first)
  BY <1>3
<1>5. \A h \in H : handed(h) => first <= latest
  <2>1. ASSUME NEW h \in H, h <= latest PROVE first <= latest
    <3>1. h \in Nat /\ first \in Nat /\ first <= h
      OBVIOUS
    <3> QED BY <3>1, <2>1
  <2> QED BY <2>1
<1> HIDE DEF handed
<1>6. {h \in H : handed(h)} # {} <=> first <= latest
  BY <1>4, <1>5
<1> QED BY <1>6 DEF handed

\* AddShardToBeaconBlock asks the network for blocks exactly when it has none
\* for the producer, and then from the first height that is missing.
THEOREM MissingBlocksAreRequested == Spec => RequestsWhatIsMissing
<1> DEFINE Asks(s, b) == AcceptBlock(s, b) =>
             /\ requested'[s] = {} <=> GetValidPendingHeights(s, 0)' # {}
             /\ requested'[s] # {} => Min(requested'[s]) = latestValidHeight'[s] + 1
<1>1. ASSUME IInv, NEW s \in Shards, NEW b \in Block, AcceptBlock(s, b)
      PROVE  Asks(s, b)
  <2>1. IInv'
    BY <1>1, AcceptPreserves
  <2>2. pool'[s] \in SUBSET Block /\ latestValidHeight'[s] \in 0..MaxHeight
    BY <2>1 DEF IInv, TypeOK
  <2>3. pool'[s] # {} /\ requested'[s] = RequestRange(pool'[s], latestValidHeight'[s])
    BY <1>1 DEF AcceptBlock, IInv, TypeOK
  <2> DEFINE first == Min(HeightsOf(pool'[s]))
  <2>4. /\ first \in HeightsOf(pool'[s])
        /\ \A h \in HeightsOf(pool'[s]) : first <= h
        /\ requested'[s] = {} <=> first <= latestValidHeight'[s]
        /\ requested'[s] # {} => Min(requested'[s]) = latestValidHeight'[s] + 1
    BY <2>2, <2>3, RequestStartsAfterRun
  <2> HIDE DEF first
  <2>5. HeightsOf(pool'[s]) \in SUBSET Nat /\ latestValidHeight'[s] \in Nat
    BY <2>2 DEF HeightsOf, Block, Heights
  <2> DEFINE H == HeightsOf(pool'[s])
             latest == latestValidHeight'[s]
             handed == {h \in H : /\ h <= latest
                                  /\ Cardinality({k \in H : k < h}) < MaxGet
                                  /\ 0 # 0 => h <= 0}
  <2>6. GetValidPendingHeights(s, 0)' = handed
    BY DEF GetValidPendingHeights
  <2>7. H \in SUBSET Nat /\ first \in H /\ latest \in Nat /\ \A h \in H : first <= h
    BY <2>4, <2>5
  <2> HIDE DEF H, latest
  <2>8. handed # {} <=> first <= latest
    BY <2>7, LowestIsHandedOut, Zenon
  <2> QED BY <2>4, <2>6, <2>8 DEF latest
<1>2. IInv /\ [Next]_vars => [\A s \in Shards, b \in Block : Asks(s, b)]_vars
  BY <1>1
<1> QED BY <1>2, Inductive, PTL DEF Spec, RequestsWhatIsMissing

-----------------------------------------------------------------------------
\* What a validator compares with the states of a proposal.

\* The heights handed out are a run that starts right after the confirmed one.
LEMMA HandedOutRun ==
  ASSUME IInv, NEW s \in Shards
  PROVE  LET H == GetValidPendingHeights(s, 0)
             base == AtLeastGenesis(applied[s])
         IN /\ H \in SUBSET Heights /\ H \subseteq HeightsOf(pool[s])
            /\ base \in 1..MaxHeight
            /\ \A h \in H : h > base
            /\ \A h \in H : \A k \in Heights : base < k /\ k <= h => k \in H
<1> DEFINE P == HeightsOf(pool[s])
           H == GetValidPendingHeights(s, 0)
           base == AtLeastGenesis(applied[s])
           latest == latestValidHeight[s]
           top == AtLeastGenesis(latest)
<1>1. /\ P \in SUBSET Heights
      /\ applied[s] \in {0} \union Heights
      /\ latest \in 0..MaxHeight
      /\ base \in 1..MaxHeight /\ top \in 1..MaxHeight /\ latest <= top
  BY DEF IInv, TypeOK, HeightsOf, Block, Heights, AtLeastGenesis
<1>2. \A h \in Heights : h <= top => (h \in P <=> h > base)
  BY DEF IInv, ValidRun
<1> DEFINE Below(h) == {k \in P : k < h}
<1>3. \A h : h \in H <=> h \in P /\ h <= latest /\ Cardinality(Below(h)) < MaxGet
  BY DEF GetValidPendingHeights
<1>4. IsFiniteSet(P)
  <2>1. P \in SUBSET Nat /\ \A h \in P : h <= MaxHeight
    BY <1>1 DEF Heights
  <2> QED BY <2>1, FS_BoundedSetOfNaturals
<1> HIDE DEF P, H, base, latest, top
<1>a. MaxHeight \in Nat /\ base \in Int /\ latest \in Int /\ top \in Int
  BY <1>1
<1>b. \A h \in H : h \in P /\ h \in Heights /\ h \in Int /\ h <= latest /\ h <= top
  <2>1. \A h \in H : h \in P /\ h <= latest
    BY <1>3
  <2>2. \A h \in P : h \in Heights /\ h \in Int
    BY <1>1, <1>a DEF Heights
  <2> QED BY <2>1, <2>2, <1>1, <1>a
<1>5. \A h \in H : h > base
  BY <1>2, <1>b
<1>6. ASSUME NEW h \in H, NEW k \in Heights, base < k, k <= h
      PROVE  k \in H
  <2>a. k \in Int /\ h \in Int /\ h <= latest /\ h <= top
    BY <1>b, <1>a DEF Heights
  <2>1. k <= latest /\ k \in P
    BY <2>a, <1>a, <1>2, <1>6
  <2>b. \A j \in P : j \in Int
    BY <1>1, <1>a DEF Heights
  <2>2. Below(k) \subseteq Below(h)
    BY <2>a, <2>b, <1>6
  <2>3. IsFiniteSet(Below(h))
    BY <1>4, FS_Subset
  <2>4. /\ Cardinality(Below(k)) <= Cardinality(Below(h))
        /\ Cardinality(Below(k)) \in Nat /\ Cardinality(Below(h)) \in Nat
    BY <2>2, <2>3, FS_Subset, FS_CardinalityType
  <2>5. Cardinality(Below(h)) < MaxGet
    BY <1>3
  <2>6. Cardinality(Below(k)) < MaxGet
    BY <2>4, <2>5, CapacityAssumption
  <2> QED BY <1>3, <2>1, <2>6
<1> QED BY <1>1, <1>3, <1>5, <1>6 DEF P, H, base

\* The i-th block that the pool returns for a shard is i above the confirmed
\* height.
LEMMA PendingBlocksContinue ==
  ASSUME IInv, NEW s \in Shards
  PROVE  /\ ValidPendingBlocks(s) \in Seq(pool[s])
         /\ \A i \in 1..Len(ValidPendingBlocks(s)) :
              ValidPendingBlocks(s)[i].height = AtLeastGenesis(applied[s]) + i
<1> DEFINE H == GetValidPendingHeights(s, 0)
           base == AtLeastGenesis(applied[s])
           blks == {b \in pool[s] : b.height \in H}
           Before(b) == {a \in blks : a.height < b.height}
           n == Cardinality(blks)
           Place(i) == CHOOSE b \in blks : Cardinality(Before(b)) = i - 1
<1>1. /\ H \in SUBSET Heights /\ H \subseteq HeightsOf(pool[s])
      /\ base \in 1..MaxHeight
      /\ \A h \in H : h > base
      /\ \A h \in H : \A k \in Heights : base < k /\ k <= h => k \in H
  BY HandedOutRun
<1>2. pool[s] \in SUBSET Block /\ \A a, b \in pool[s] : a.height = b.height => a = b
  BY DEF IInv, TypeOK, OneBlockPerHeight
<1>3. HeightsOf(blks) = H
  BY <1>1 DEF HeightsOf
<1> HIDE DEF H, base
<1>4. blks \in SUBSET Block /\ blks \subseteq pool[s] /\ \A a, b \in blks : a.height = b.height => a = b
  BY <1>2
<1>5. n \in Nat /\ n = Cardinality(H)
  BY <1>3, <1>4, CountByHeight
<1>a. \A h \in H : h \in Nat /\ h > base
  <2>1. H \in SUBSET Heights /\ \A h \in H : h > base
    BY <1>1
  <2> QED BY <2>1 DEF Heights
<1>6. \A b \in blks : b.height \in H /\ b.height \in Nat /\ b.height > base
  <2>1. \A b \in blks : b.height \in H
    OBVIOUS
  <2> HIDE DEF blks
  <2> QED BY <2>1, <1>a
\* The blocks before one have the heights between the confirmed one and its own.
<1>7. ASSUME NEW b \in blks
      PROVE  Cardinality(Before(b)) = b.height - 1 - base
  <2>1. b.height \in H /\ b.height \in Nat /\ b.height > base
    BY <1>6
  <2>2. HeightsOf(Before(b)) = (base + 1)..(b.height - 1)
    <3>1. ASSUME NEW h \in HeightsOf(Before(b)) PROVE h \in (base + 1)..(b.height - 1)
      <4>1. h \in H /\ h < b.height
        BY <3>1 DEF HeightsOf
      <4> QED BY <4>1, <1>1, <2>1 DEF Heights
    <3>2. ASSUME NEW h \in (base + 1)..(b.height - 1) PROVE h \in HeightsOf(Before(b))
      <4>1. h \in Heights
        BY <3>2, <1>1, <2>1 DEF Heights
      <4>2. h \in H /\ h < b.height
        BY <3>2, <4>1, <1>1, <2>1 DEF Heights
      <4>3. PICK a \in blks : a.height = h
        BY <4>2, <1>3 DEF HeightsOf
      <4> QED BY <4>2, <4>3 DEF HeightsOf
    <3> QED BY <3>1, <3>2
  <2>3. /\ Before(b) \in SUBSET Block
        /\ \A a, c \in Before(b) : a.height = c.height => a = c
    BY <1>4
  <2>4. Cardinality(Before(b)) = Cardinality((base + 1)..(b.height - 1))
    <3> HIDE DEF blks
    <3> QED BY <2>2, <2>3, CountByHeight
  <2>5. base + 1 \in Int /\ b.height - 1 \in Int /\ ~(base + 1 > b.height - 1 + 1)
    BY <1>1, <2>1
  <2>6. Cardinality((base + 1)..(b.height - 1)) =
          IF base + 1 > b.height - 1 THEN 0 ELSE (b.height - 1) - (base + 1) + 1
    BY <2>5, FS_Interval
  <2> QED BY <2>1, <2>4, <2>5, <2>6, <1>1
\* As many heights follow the confirmed one.
<1>8. ASSUME NEW i \in 1..n
      PROVE  base + i \in H
  <2>1. H # {}
    <3>1. Cardinality({}) = 0
      BY FS_EmptySet
    <3> QED BY <3>1, <1>5
  <2>2. H \in SUBSET (0..MaxHeight)
    BY <1>1 DEF Heights
  <2>3. Max(H) \in H /\ \A h \in H : h <= Max(H)
    BY <2>1, <2>2, MaxHeightOf, HeightAssumption
  <2>4. Max(H) \in Heights /\ Max(H) > base
    BY <2>3, <1>1
  <2>5. H = (base + 1)..Max(H)
    <3>1. ASSUME NEW h \in H PROVE h \in (base + 1)..Max(H)
      BY <2>3, <2>4, <1>1 DEF Heights
    <3>2. ASSUME NEW h \in (base + 1)..Max(H) PROVE h \in H
      <4>1. h \in Heights /\ base < h /\ h <= Max(H)
        BY <2>4, <1>1 DEF Heights
      <4> QED BY <4>1, <2>3, <1>1
    <3> QED BY <3>1, <3>2
  <2>6. Cardinality((base + 1)..Max(H)) = Max(H) - (base + 1) + 1
    <3>1. base + 1 \in Int /\ Max(H) \in Int /\ ~(base + 1 > Max(H))
      BY <2>4, <1>1 DEF Heights
    <3> QED BY <3>1, FS_Interval
  <2>7. n = Max(H) - base
    BY <2>4, <2>5, <2>6, <1>1, <1>5 DEF Heights
  <2>8. base + i \in (base + 1)..Max(H)
    BY <2>4, <2>7, <1>1 DEF Heights
  <2> QED BY <2>5, <2>8
<1>9. ASSUME NEW i \in 1..n
      PROVE  Place(i) \in blks /\ Place(i).height = base + i
  <2>1. PICK b \in blks : b.height = base + i
    BY <1>3, <1>8 DEF HeightsOf
  <2>2. Cardinality(Before(b)) = i - 1
    BY <1>1, <1>7, <2>1
  <2> HIDE DEF blks, Before
  <2>3. Place(i) \in blks /\ Cardinality(Before(Place(i))) = i - 1
    BY <2>2
  <2>4. Place(i).height - 1 - base = i - 1
    BY <2>3, <1>7
  <2>5. Place(i).height \in Int
    BY <2>3, <1>6
  <2> QED BY <2>3, <2>4, <2>5, <1>1
<1>10. ValidPendingBlocks(s) = [i \in 1..n |-> Place(i)]
  BY DEF ValidPendingBlocks, H
<1> HIDE DEF n, Place
<1>11. ValidPendingBlocks(s) \in [1..n -> pool[s]]
  BY <1>4, <1>9, <1>10
<1>12. ValidPendingBlocks(s) \in Seq(pool[s])
  BY <1>5, <1>11, SeqDef
<1>13. Len(ValidPendingBlocks(s)) = n
  BY <1>5, <1>11, <1>12, LenProperties
<1> QED BY <1>9, <1>10, <1>12, <1>13 DEF base

\* A validator whose pool has a block for a shard signs only states that continue
\* the shard with blocks it holds: the comparison by position of
\* VerifyPreProcessingBeaconBlock is enough, since the pool's run has no gap.
THEOREM SignedStatesContinue == Spec => SignedStatesContinueRun
<1> DEFINE Continues(block) == \A s \in Shards : ValidPendingBlocks(s) # <<>> =>
             \A i \in DOMAIN block[s] :
               /\ block[s][i].height = AtLeastGenesis(applied[s]) + i
               /\ block[s][i] \in pool[s]
<1>1. ASSUME IInv, NEW block \in ProposedBlock, InsertSignedBlock(block)
      PROVE  Continues(block)
  <2>1. SUFFICES ASSUME NEW s \in Shards, ValidPendingBlocks(s) # <<>>, NEW i \in DOMAIN block[s]
                 PROVE  /\ block[s][i].height = AtLeastGenesis(applied[s]) + i
                        /\ block[s][i] \in pool[s]
    OBVIOUS
  <2> DEFINE mine == ValidPendingBlocks(s)
  <2>2. mine \in Seq(pool[s]) /\ \A j \in 1..Len(mine) : mine[j].height = AtLeastGenesis(applied[s]) + j
    BY <1>1, PendingBlocksContinue
  <2>3. MatchesPool(mine, block[s])
    BY <1>1, <2>1 DEF InsertSignedBlock, VerifyPreSign
  <2>4. PICK m \in 0..MaxStates : block[s] \in [1..m -> Block]
    BY DEF ProposedBlock, ShardStates
  <2>5. Len(block[s]) = m /\ DOMAIN block[s] = 1..m
    <3>1. m \in Nat
      BY MaxStatesAssumption
    <3>2. block[s] \in Seq(Block)
      BY <2>4, <3>1, SeqDef
    <3> QED BY <2>4, <3>1, <3>2, LenProperties
  <2> HIDE DEF mine
  <2>6. Len(mine) \in Nat /\ Len(mine) >= m /\ mine[i] = block[s][i]
    BY <2>2, <2>3, <2>5, LenProperties DEF MatchesPool
  <2>7. i \in 1..Len(mine)
    BY <2>5, <2>6, MaxStatesAssumption
  <2>8. mine[i] \in pool[s]
    BY <2>2, <2>7, ElementOfSeq
  <2> QED BY <2>2, <2>6, <2>7, <2>8
<1>2. IInv /\ [Next]_vars =>
        [insert = "idle" /\ insert' = "updated" =>
           \A block \in ProposedBlock : InsertSignedBlock(block) => Continues(block)]_vars
  BY <1>1
<1> QED BY <1>2, Inductive, PTL DEF Spec, SignedStatesContinueRun
=============================================================================
