-------------------------- MODULE BlockPoolProofs --------------------------
(***************************************************************************)
(* Proofs about the pools of beacon and of shard blocks, for every block   *)
(* tree and all sizes.  First the pool of beacon blocks: a valid block is  *)
(* followed by a pending one until the chain has got there, no height is   *)
(* skipped, and the pool keeps to its sizes.  Then the pool of shard       *)
(* blocks: whatever is pushed out and put back, the valid blocks are one   *)
(* branch that the beacon chain has confirmed and that skips no height.    *)
(* The lemmas about numbers, the cache and sequences, and what it means    *)
(* that heights are covered, are those of the pool of beacon blocks.       *)
(***************************************************************************)
EXTENDS BeaconPool, ShardPool, FiniteSetTheorems, SequenceTheorems, WellFoundedInduction, TLAPS

USE SizesAssumption

Pool == [validPool : Seq(Block), pendingPool : SUBSET Block, conflictedPool : SUBSET Block,
         cache : Seq(Block), latestValidHeight : Nat]

\* TipIsCertified, for a pool p and a chain of height top.
Certified(p, top) ==
  p.validPool # <<>> /\ Last(p.validPool).height + 1 > top =>
    \E c \in p.pendingPool : c.height = Last(p.validPool).height + 1 /\ Parent[c] = Last(p.validPool)

\* Each height from top + 1 to h has a valid block.
Covered(p, top, h) == \A i \in Nat : top < i /\ i <= h => i \in HeightsOf(Range(p.validPool))

\* SetBeaconState can take latestValidHeight below the last valid block, and
\* removeBlock then sets it to that block's height again: NoHeightIsSkipped holds
\* there because the heights up to the last valid block are covered, too.
CoveredToTip(p, top) == p.validPool # <<>> => Covered(p, top, Last(p.validPool).height)

Bounded(p) ==
  /\ Len(p.validPool) <= MaxValidBlock
  /\ IsFiniteSet(p.pendingPool)
  /\ Cardinality(p.pendingPool) <= MaxPendingBlock
  /\ \A a, b \in p.pendingPool : a.height = b.height => a = b

\* What is shown of a pool and of the height of the chain.
Sound(p, top) ==
  /\ p \in Pool
  /\ Certified(p, top)
  /\ Covered(p, top, p.latestValidHeight)
  /\ CoveredToTip(p, top)
  /\ Bounded(p)

PoolInv ==
  /\ beaconBest \in Block \union {Genesis}
  /\ beaconStored \in Block \union {Genesis}
  /\ beaconInsert \in {"idle", "updated", "stored", "behind", "set"}
  /\ Sound(beaconPool, beaconBest.height)

-----------------------------------------------------------------------------
\* Facts about numbers, sets of numbers and sequences.

\* A non-empty set of natural numbers has a least element.
LEMMA LeastNatural ==
  ASSUME NEW T \in SUBSET Nat, T # {}
  PROVE  \E x \in T : \A y \in T : x <= y
<1> DEFINE R == OpToRel(<, Nat)
<1>1. IsWellFoundedOn(R, Nat)
  BY NatLessThanWellFounded
<1>2. PICK x \in T : \A y \in T : ~(<<y, x>> \in R)
  BY <1>1, WFMin, Zenon
<1>3. ASSUME NEW y \in T PROVE x <= y
  <2>1. ~(y < x)
    BY <1>2 DEF OpToRel
  <2> QED BY <2>1
<1> QED BY <1>3

\* The cache keeps to blocks.
LEMMA CacheType ==
  ASSUME NEW c \in Seq(Block), NEW b \in Block, NEW size \in Nat
  PROVE  CacheGet(c, b) \in Seq(Block) /\ CacheAdd(c, b, size) \in Seq(Block)
<1>1. WithoutKey(c, b) \in Seq(Block)
  <2>1. CASE IsCached(c, b)
    <3> DEFINE i == CHOOSE i \in DOMAIN c : c[i] = b
    <3>1. i \in 1..Len(c)
      BY <2>1 DEF IsCached, Range
    <3> HIDE DEF i
    <3>2. SubSeq(c, 1, i - 1) \in Seq(Block) /\ SubSeq(c, i + 1, Len(c)) \in Seq(Block)
      BY <3>1
    <3>3. RemoveAt(c, i) \in Seq(Block)
      BY <3>2, ConcatProperties DEF RemoveAt
    <3> QED BY <2>1, <3>3 DEF WithoutKey, i
  <2>2. CASE ~IsCached(c, b)
    BY <2>2 DEF WithoutKey
  <2> QED BY <2>1, <2>2
<1>2. Touched(c, b) \in Seq(Block) /\ Touched(c, b) # <<>>
  BY <1>1, AppendProperties DEF Touched
<1>3. Tail(Touched(c, b)) \in Seq(Block)
  BY <1>2, HeadTailProperties
<1> QED BY <1>2, <1>3 DEF CacheGet, CacheAdd

\* A block of a given height.
LEMMA AtFound ==
  ASSUME NEW blks \in SUBSET Block, NEW h \in HeightsOf(blks)
  PROVE  At(blks, h) \in blks /\ At(blks, h).height = h
  BY DEF At, HeightsOf

\* A height of a block.
LEMMA HeightType ==
  /\ \A b \in Block : b.height \in Nat /\ b.height >= 1
  /\ Genesis.height \in Nat /\ Genesis.height >= 1
<1>1. ASSUME NEW b \in Block PROVE b.height \in Nat /\ b.height >= 1
  <2>1. b.height \in Nat /\ b.height > 1
    BY BlockAssumption, Zenon
  <2> QED BY <2>1
<1>2. Genesis.height = 1
  BY BlockAssumption, Zenon
<1> QED BY <1>1, <1>2

-----------------------------------------------------------------------------
\* promotePendingPool.

\* The loop ends, at the latest when the valid pool is full, and PromotedTo is
\* where.
LEMMA PromotionEnds ==
  ASSUME NEW p \in Pool
  PROVE  LET e == PromotedTo(p)
         IN /\ e \in Nat /\ e >= p.latestValidHeight
            /\ \A h \in (p.latestValidHeight + 1)..e : Promotable(p, h)
            /\ ~Promotable(p, e + 1)
<1> DEFINE l == p.latestValidHeight
           T == {k \in Nat : k > l /\ ~Promotable(p, k)}
           E(e) == /\ e >= l
                   /\ \A h \in (l + 1)..e : Promotable(p, h)
                   /\ ~Promotable(p, e + 1)
<1>1. l \in Nat /\ Len(p.validPool) \in Nat /\ p.pendingPool \in SUBSET Block
  BY DEF Pool
<1>2. l + MaxValidBlock + 1 \in T
  BY <1>1 DEF Promotable
<1>3. PICK k \in T : \A j \in T : k <= j
  BY <1>2, LeastNatural
<1> DEFINE e == k - 1
<1>4. e \in Nat /\ e >= l /\ ~Promotable(p, e + 1)
  BY <1>1, <1>3
<1>5. \A h \in (l + 1)..e : Promotable(p, h)
  BY <1>1, <1>3
<1>6. e \in {l} \union HeightsOf(p.pendingPool)
  <2>1. CASE e = l
    BY <2>1
  <2>2. CASE e # l
    <3>1. Promotable(p, e)
      BY <1>1, <1>4, <1>5, <2>2
    <3> QED BY <3>1 DEF Promotable, HeightsOf
  <2> QED BY <2>1, <2>2
<1>7. E(e)
  BY <1>4, <1>5
<1> HIDE DEF E, e
<1>8. \E x \in {l} \union HeightsOf(p.pendingPool) : E(x)
  BY <1>6, <1>7
<1>9. PromotedTo(p) = CHOOSE x \in {l} \union HeightsOf(p.pendingPool) : E(x)
  BY DEF PromotedTo, E
<1>10. PromotedTo(p) \in {l} \union HeightsOf(p.pendingPool) /\ E(PromotedTo(p))
  BY <1>8, <1>9
<1>11. PromotedTo(p) \in Nat
  BY <1>1, <1>10, HeightType DEF HeightsOf
<1> QED BY <1>10, <1>11 DEF E

\* What a promotion does to a pool with one pending block per height.
LEMMA PromotionResult ==
  ASSUME NEW p \in Pool, \A a, b \in p.pendingPool : a.height = b.height => a = b
  PROVE  LET q == PromotePending(p)
             e == PromotedTo(p)
             n == e - p.latestValidHeight
         IN /\ q \in Pool
            /\ n \in Nat
            /\ q.latestValidHeight = e
            /\ q.pendingPool = {b \in p.pendingPool : b.height \notin (p.latestValidHeight + 1)..e}
            /\ Len(q.validPool) = Len(p.validPool) + n
            /\ \A i \in 1..Len(p.validPool) : q.validPool[i] = p.validPool[i]
            /\ \A i \in 1..n :
                 /\ q.validPool[Len(p.validPool) + i] \in p.pendingPool
                 /\ q.validPool[Len(p.validPool) + i].height = p.latestValidHeight + i
                 /\ HasNext(p.pendingPool, q.validPool[Len(p.validPool) + i])
<1> DEFINE e == PromotedTo(p)
           l == p.latestValidHeight
           n == e - l
           added == [i \in 1..n |-> At(p.pendingPool, l + i)]
           q == PromotePending(p)
<1>1. /\ l \in Nat /\ p.validPool \in Seq(Block) /\ p.pendingPool \in SUBSET Block /\ p.cache \in Seq(Block)
      /\ e \in Nat /\ n \in Nat
      /\ \A h \in (l + 1)..e : Promotable(p, h)
  BY PromotionEnds DEF Pool
<1> HIDE DEF e
<1>2. ASSUME NEW i \in 1..n
      PROVE  /\ l + i \in HeightsOf(p.pendingPool)
             /\ At(p.pendingPool, l + i) \in p.pendingPool
             /\ At(p.pendingPool, l + i).height = l + i
             /\ HasNext(p.pendingPool, At(p.pendingPool, l + i))
  <2>1. Promotable(p, l + i)
    BY <1>1
  <2>2. PICK b \in p.pendingPool : b.height = l + i /\ HasNext(p.pendingPool, b)
    BY <2>1 DEF Promotable
  <2>3. l + i \in HeightsOf(p.pendingPool)
    BY <2>2 DEF HeightsOf
  <2>4. At(p.pendingPool, l + i) \in p.pendingPool /\ At(p.pendingPool, l + i).height = l + i
    BY <1>1, <2>3, AtFound
  <2>5. At(p.pendingPool, l + i) = b
    BY <2>2, <2>4
  <2> QED BY <2>2, <2>3, <2>4, <2>5
<1>3. added \in Seq(Block) /\ Len(added) = n
  <2>1. \A i \in 1..n : At(p.pendingPool, l + i) \in Block
    BY <1>1, <1>2
  <2>2. added \in [1..n -> Block]
    BY <2>1
  <2> HIDE DEF added, n
  <2> QED BY <1>1, <2>2, LenProperties, IsASeq
<1> HIDE DEF added, n
<1>4. /\ p.validPool \o added \in Seq(Block)
      /\ Len(p.validPool \o added) = Len(p.validPool) + n
      /\ \A i \in 1..Len(p.validPool) : (p.validPool \o added)[i] = p.validPool[i]
      /\ \A i \in 1..n : (p.validPool \o added)[Len(p.validPool) + i] = added[i]
  <2>1. Len(added) = n /\ added \in Seq(Block) /\ p.validPool \in Seq(Block)
    BY <1>1, <1>3
  <2>2. /\ p.validPool \o added \in Seq(Block)
        /\ Len(p.validPool \o added) = Len(p.validPool) + n
        /\ \A i \in 1..(Len(p.validPool) + n) :
             (p.validPool \o added)[i] = IF i <= Len(p.validPool) THEN p.validPool[i]
                                        ELSE added[i - Len(p.validPool)]
    BY <2>1, ConcatProperties
  <2>3. Len(p.validPool) \in Nat /\ n \in Nat
    BY <1>1
  <2>4. \A i \in 1..Len(p.validPool) : (p.validPool \o added)[i] = p.validPool[i]
    BY <2>2, <2>3
  <2>5. ASSUME NEW i \in 1..n PROVE (p.validPool \o added)[Len(p.validPool) + i] = added[i]
    <3>1. Len(p.validPool) + i \in 1..(Len(p.validPool) + n) /\ ~(Len(p.validPool) + i <= Len(p.validPool))
          /\ Len(p.validPool) + i - Len(p.validPool) = i
      BY <2>3
    <3> QED BY <2>2, <3>1
  <2> QED BY <2>2, <2>4, <2>5
<1>5. \A i \in 1..n : added[i] = At(p.pendingPool, l + i)
  BY DEF added
<1> DEFINE last == At(p.pendingPool, e + 1)
           stops == e + 1 \in HeightsOf(p.pendingPool)
           refused == /\ stops
                      /\ ~IsCached(p.cache, last)
                      /\ Len(p.validPool \o added) < MaxValidBlock
                      /\ HasOtherNext(p.pendingPool, last)
           cache == CASE refused -> CacheAdd(p.cache, last, CacheSize)
                      [] stops /\ ~refused -> CacheGet(p.cache, last)
                      [] OTHER -> p.cache
<1>6. q = [p EXCEPT !.validPool = p.validPool \o added,
                    !.pendingPool = {b \in p.pendingPool : b.height \notin (l + 1)..e},
                    !.latestValidHeight = e,
                    !.cache = cache]
  BY DEF PromotePending, e, n, added
<1>7. cache \in Seq(Block)
  <2>1. stops => last \in Block
    BY <1>1, AtFound
  <2>2. stops => CacheAdd(p.cache, last, CacheSize) \in Seq(Block) /\ CacheGet(p.cache, last) \in Seq(Block)
    BY <1>1, <2>1, CacheType
  <2> HIDE DEF last, stops
  <2> QED BY <1>1, <2>2
<1> HIDE DEF cache, q
<1>8. q \in Pool
  BY <1>1, <1>4, <1>6, <1>7 DEF Pool
<1>9. /\ q.validPool = p.validPool \o added
      /\ q.latestValidHeight = e
      /\ q.pendingPool = {b \in p.pendingPool : b.height \notin (l + 1)..e}
  BY <1>6 DEF Pool
<1>10. ASSUME NEW i \in 1..n
       PROVE  /\ q.validPool[Len(p.validPool) + i] \in p.pendingPool
              /\ q.validPool[Len(p.validPool) + i].height = l + i
              /\ HasNext(p.pendingPool, q.validPool[Len(p.validPool) + i])
  <2>1. q.validPool[Len(p.validPool) + i] = At(p.pendingPool, l + i)
    BY <1>4, <1>5, <1>9
  <2>2. /\ At(p.pendingPool, l + i) \in p.pendingPool
        /\ At(p.pendingPool, l + i).height = l + i /\ HasNext(p.pendingPool, At(p.pendingPool, l + i))
    BY <1>2
  <2> QED BY <2>1, <2>2
<1> QED BY <1>1, <1>4, <1>8, <1>9, <1>10, Zenon DEF e, n, q

\* The heights of the blocks of a sequence.
LEMMA HeightsOfSeq ==
  ASSUME NEW v \in Seq(Block), NEW h
  PROVE  h \in HeightsOf(Range(v)) <=> \E j \in 1..Len(v) : v[j].height = h
  BY DEF HeightsOf, Range

\* The last block of a sequence.
LEMMA LastOfSeq ==
  ASSUME NEW v \in Seq(Block), v # <<>>
  PROVE  /\ Len(v) \in Nat \ {0}
         /\ Last(v) = v[Len(v)]
         /\ Last(v) \in Block
         /\ Last(v).height \in Nat
<1>1. Len(v) \in Nat \ {0} /\ v[Len(v)] \in Block
  BY EmptySeq, ElementOfSeq, LenProperties
<1> QED BY <1>1, HeightType DEF Last

\* promotePendingPool keeps a pool sound.
LEMMA PromotionKeepsSound ==
  ASSUME NEW top \in Nat, NEW p, Sound(p, top)
  PROVE  Sound(PromotePending(p), top)
<1> DEFINE q == PromotePending(p)
           e == PromotedTo(p)
           l == p.latestValidHeight
           n == e - l
           v == p.validPool
           w == q.validPool
<1>1. /\ p \in Pool /\ v \in Seq(Block) /\ Len(v) \in Nat /\ l \in Nat /\ p.pendingPool \in SUBSET Block
      /\ \A a, b \in p.pendingPool : a.height = b.height => a = b
  BY DEF Sound, Bounded, Pool
<1>2. e \in Nat /\ e >= l /\ \A h \in (l + 1)..e : Promotable(p, h)
  BY <1>1, PromotionEnds
<1>3. /\ q \in Pool /\ n \in Nat
      /\ q.latestValidHeight = e
      /\ q.pendingPool = {b \in p.pendingPool : b.height \notin (l + 1)..e}
      /\ Len(w) = Len(v) + n
      /\ \A i \in 1..Len(v) : w[i] = v[i]
      /\ \A i \in 1..n : w[Len(v) + i].height = l + i /\ HasNext(p.pendingPool, w[Len(v) + i])
  BY <1>1, PromotionResult
<1> HIDE DEF q, e
<1>4. w \in Seq(Block) /\ q.pendingPool \in SUBSET Block
  BY <1>3 DEF Pool
<1>a. Len(w) \in Nat /\ e = l + n
  <2>1. e \in Nat /\ l \in Nat
    BY <1>1, <1>2
  <2>2. e = l + n
    BY <2>1
  <2>3. Len(w) = Len(v) + n /\ n \in Nat
    BY <1>3
  <2>4. Len(v) \in Nat
    BY <1>1
  <2> HIDE DEF w, v, n
  <2>5. Len(w) \in Nat
    BY <2>3, <2>4
  <2> QED BY <2>2, <2>5
<1> HIDE DEF w, v, l, n
<1>5. Covered(q, top, e)
  <2> SUFFICES ASSUME NEW i \in Nat, top < i, i <= e PROVE i \in HeightsOf(Range(w))
    BY DEF Covered, w
  <2>1. CASE i <= l
    <3>1. i \in HeightsOf(Range(v))
      BY <2>1 DEF Sound, Covered, v, l
    <3>2. PICK j \in 1..Len(v) : v[j].height = i
      BY <1>1, <3>1, HeightsOfSeq
    <3>3. j \in 1..Len(w) /\ w[j].height = i
      BY <1>1, <1>3, <3>2
    <3> QED BY <1>4, <3>3, HeightsOfSeq
  <2>2. CASE ~(i <= l)
    <3> DEFINE k == i - l
    <3>1. k \in 1..n /\ l + k = i /\ Len(v) + k \in 1..Len(w)
      <4>1. k \in 1..n /\ l + k = i
        BY <1>1, <1>3, <1>a, <2>2
      <4>2. Len(v) + k \in 1..Len(w)
        <5> HIDE DEF k
        <5> QED BY <1>1, <1>3, <1>a, <4>1
      <4> QED BY <4>1, <4>2
    <3>2. w[Len(v) + k].height = i
      BY <1>3, <3>1
    <3> QED BY <1>4, <3>1, <3>2, HeightsOfSeq
  <2> QED BY <2>1, <2>2
<1>6. CASE n = 0
  <2>1. q.pendingPool = p.pendingPool
    <3>1. e = l /\ (l + 1)..e = {}
      BY <1>1, <1>3, <1>a, <1>6
    <3> QED BY <1>3, <3>1
  <2>2. w # <<>> => v # <<>> /\ Last(w) = Last(v)
    <3> SUFFICES ASSUME w # <<>> PROVE v # <<>> /\ Last(w) = Last(v)
      OBVIOUS
    <3>1. Len(w) \in Nat \ {0} /\ Last(w) = w[Len(w)]
      BY <1>4, LastOfSeq
    <3>2. Len(w) = Len(v) /\ Len(v) # 0
      BY <1>1, <1>3, <1>6, <3>1
    <3>3. v # <<>>
      BY <3>2, EmptySeq
    <3>4. Last(v) = v[Len(v)]
      BY <1>1, <3>3, LastOfSeq
    <3> QED BY <1>1, <1>3, <3>1, <3>2, <3>3, <3>4
  <2>3. Certified(q, top)
    BY <2>1, <2>2 DEF Sound, Certified, w, v
  <2>4. CoveredToTip(q, top)
    <3> SUFFICES ASSUME w # <<>> PROVE Covered(q, top, Last(w).height)
      BY DEF CoveredToTip, w
    <3>1. v # <<>> /\ Last(w) = Last(v)
      BY <2>2
    <3>2. Covered(p, top, Last(v).height)
      BY <3>1 DEF Sound, CoveredToTip, v
    <3>3. \A h : h \in HeightsOf(Range(v)) => h \in HeightsOf(Range(w))
      BY <1>1, <1>3, <1>4, <1>6, HeightsOfSeq
    <3> QED BY <3>1, <3>2, <3>3 DEF Covered, v, w
  <2>5. Bounded(q)
    <3>1. Len(w) = Len(v)
      BY <1>1, <1>3, <1>6
    <3> QED BY <2>1, <3>1 DEF Sound, Bounded, v, w
  <2> QED BY <1>3, <1>5, <2>3, <2>4, <2>5 DEF Sound, q
<1>7. CASE n # 0
  <2>1. n \in 1..n /\ l + n = e /\ e \in (l + 1)..e /\ Len(w) # 0 /\ e + 1 \notin (l + 1)..e
    BY <1>1, <1>3, <1>7, <1>a
  <2>2. w # <<>>
    BY <2>1, EmptySeq
  <2>3. Last(w).height = e /\ HasNext(p.pendingPool, Last(w))
    BY <1>3, <1>4, <2>1, <2>2, LastOfSeq
  <2>4. Certified(q, top)
    <3>1. PICK c \in p.pendingPool : c.height = e + 1 /\ Parent[c] = Last(w)
      BY <2>3 DEF HasNext
    <3>2. c \in q.pendingPool
      BY <1>3, <2>1, <3>1
    <3> QED BY <2>3, <3>1, <3>2 DEF Certified, w
  <2>5. CoveredToTip(q, top)
    BY <1>5, <2>3 DEF CoveredToTip, w
  <2>6. Len(w) <= MaxValidBlock
    <3>1. Promotable(p, e)
      BY <1>2, <2>1
    <3> QED BY <1>1, <1>3, <1>a, <3>1 DEF Promotable, v, l
  <2>7. /\ IsFiniteSet(q.pendingPool)
        /\ Cardinality(q.pendingPool) <= MaxPendingBlock
    <3>1. q.pendingPool \subseteq p.pendingPool
      BY <1>3
    <3>2. IsFiniteSet(p.pendingPool) /\ Cardinality(p.pendingPool) <= MaxPendingBlock
      BY DEF Sound, Bounded
    <3>3. IsFiniteSet(q.pendingPool) /\ Cardinality(q.pendingPool) <= Cardinality(p.pendingPool)
      BY <3>1, <3>2, FS_Subset
    <3>4. Cardinality(q.pendingPool) \in Nat /\ Cardinality(p.pendingPool) \in Nat
      BY <3>2, <3>3, FS_CardinalityType
    <3> QED BY <3>2, <3>3, <3>4
  <2>8. Bounded(q)
    BY <1>1, <1>3, <2>6, <2>7 DEF Bounded, w
  <2> QED BY <1>3, <1>5, <2>4, <2>5, <2>8 DEF Sound, q
<1> QED BY <1>6, <1>7

-----------------------------------------------------------------------------
\* The other changes of the pool.

\* insertNewBeaconBlockToPool, for a block that validateBeaconBlock lets through.
LEMMA InsertNewKeepsSound ==
  ASSUME NEW top \in Nat, NEW p, Sound(p, top), NEW b \in Block, ~IsRefused(p, b)
  PROVE  Sound(InsertNew(p, b), top)
<1> DEFINE v == p.validPool
           l == p.latestValidHeight
           q == InsertNew(p, b)
<1>1. /\ p \in Pool /\ v \in Seq(Block) /\ Len(v) \in Nat /\ l \in Nat /\ p.pendingPool \in SUBSET Block
      /\ p.cache \in Seq(Block) /\ b.height \in Nat
  BY HeightType DEF Sound, Pool
<1>2. CASE /\ b.height = l + 1 /\ Len(v) < MaxValidBlock /\ HasNext(p.pendingPool, b)
           /\ q = [p EXCEPT !.validPool = Append(v, b), !.latestValidHeight = b.height]
  <2> DEFINE w == Append(v, b)
  <2>1. /\ w \in Seq(Block) /\ Len(w) = Len(v) + 1 /\ w # <<>>
        /\ w[Len(v) + 1] = b /\ \A i \in 1..Len(v) : w[i] = v[i]
    BY <1>1, AppendProperties
  <2> HIDE DEF w
  <2>2. Last(w) = b
    BY <2>1, LastOfSeq
  <2>3. /\ q \in Pool /\ q.validPool = w /\ q.latestValidHeight = l + 1
        /\ q.pendingPool = p.pendingPool
    BY <1>1, <1>2, <2>1 DEF Pool, w
  <2> HIDE DEF q, v, l
  <2>4. Certified(q, top)
    BY <1>2, <2>2, <2>3 DEF Certified, HasNext
  <2>5. Covered(q, top, l + 1)
    <3> SUFFICES ASSUME NEW i \in Nat, top < i, i <= l + 1 PROVE i \in HeightsOf(Range(w))
      BY <2>3 DEF Covered
    <3>1. CASE i <= l
      <4>1. i \in HeightsOf(Range(v))
        BY <3>1 DEF Sound, Covered, v, l
      <4>2. PICK j \in 1..Len(v) : v[j].height = i
        BY <1>1, <4>1, HeightsOfSeq
      <4>3. j \in 1..Len(w) /\ w[j].height = i
        BY <1>1, <2>1, <4>2
      <4> QED BY <2>1, <4>3, HeightsOfSeq
    <3>2. CASE ~(i <= l)
      <4>1. i = l + 1 /\ Len(v) + 1 \in 1..Len(w)
        BY <1>1, <2>1, <3>2
      <4>2. w[Len(v) + 1].height = i
        BY <1>2, <2>1, <4>1
      <4> QED BY <2>1, <4>1, <4>2, HeightsOfSeq
    <3> QED BY <3>1, <3>2
  <2>6. CoveredToTip(q, top)
    <3>1. q.validPool = w /\ Last(w).height = l + 1
      BY <1>2, <2>2, <2>3
    <3> QED BY <2>5, <3>1 DEF CoveredToTip
  <2>7. Bounded(q)
    <3>1. Len(w) <= MaxValidBlock
      BY <1>1, <1>2, <2>1
    <3>2. Bounded(p)
      BY DEF Sound
    <3> QED BY <2>3, <3>1, <3>2 DEF Bounded
  <2> QED BY <2>3, <2>4, <2>5, <2>6, <2>7 DEF Sound, q
<1>3. CASE q = [p EXCEPT !.cache = CacheAdd(p.cache, b, CacheSize)]
  <2>1. CacheAdd(p.cache, b, CacheSize) \in Seq(Block)
    BY <1>1, CacheType
  <2>2. q \in Pool /\ q.validPool = v /\ q.latestValidHeight = l /\ q.pendingPool = p.pendingPool
    BY <1>1, <1>3, <2>1 DEF Pool
  <2> HIDE DEF q
  <2> QED BY <2>2 DEF Sound, Certified, Covered, CoveredToTip, Bounded, q
<1>4. CASE q = [p EXCEPT !.pendingPool = p.pendingPool \union {b}]
  <2>1. /\ q \in Pool /\ q.validPool = v /\ q.latestValidHeight = l
        /\ q.pendingPool = p.pendingPool \union {b}
    BY <1>1, <1>4 DEF Pool
  <2>2. /\ b.height \notin HeightsOf(p.pendingPool)
        /\ ~(Cardinality(p.pendingPool) >= MaxPendingBlock)
        /\ IsFiniteSet(p.pendingPool)
        /\ Cardinality(p.pendingPool) \in Nat
    BY FS_CardinalityType DEF IsRefused, Sound, Bounded
  <2>3. b \notin p.pendingPool /\ \A a \in p.pendingPool : a.height # b.height
    BY <2>2 DEF HeightsOf
  <2>4. IsFiniteSet(q.pendingPool) /\ Cardinality(q.pendingPool) = Cardinality(p.pendingPool) + 1
    <3>1. /\ IsFiniteSet(p.pendingPool \union {b})
          /\ Cardinality(p.pendingPool \union {b}) = Cardinality(p.pendingPool) + 1
      BY <2>2, <2>3, FS_AddElement
    <3> HIDE DEF q
    <3> QED BY <2>1, <3>1
  <2> HIDE DEF q
  <2>5. Bounded(q)
    BY <2>1, <2>2, <2>3, <2>4 DEF Sound, Bounded
  <2>6. Certified(q, top)
    BY <2>1 DEF Sound, Certified
  <2> QED BY <2>1, <2>5, <2>6 DEF Sound, Covered, CoveredToTip, q
<1> QED BY <1>2, <1>3, <1>4 DEF InsertNew

\* removeBlock: m of the first blocks go, none of them above height, and the last
\* valid block is the same.
LEMMA RemovedBlockResult ==
  ASSUME NEW p \in Pool, NEW height \in Nat, beaconBest.height \in Nat
  PROVE  LET q == RemovedBlock(p, height)
             v == p.validPool
         IN /\ q \in Pool
            /\ q.pendingPool = p.pendingPool
            /\ \E m \in 0..Len(v) :
                 /\ Len(q.validPool) = Len(v) - m
                 /\ \A i \in 1..(Len(v) - m) : q.validPool[i] = v[m + i]
                 /\ \A i \in 1..m : v[i].height <= height
            /\ q.validPool = <<>> => q.latestValidHeight = beaconBest.height
            /\ q.validPool # <<>> => /\ v # <<>> /\ Last(q.validPool) = Last(v)
                                     /\ q.latestValidHeight = Last(v).height
<1> DEFINE v == p.validPool
           n == Len(v)
           above == {i \in DOMAIN v : v[i].height > height}
           m == IF above = {} THEN n ELSE Min(above) - 1
           left == IF above = {} THEN <<>> ELSE SubSeq(v, Min(above), Len(v))
           q == RemovedBlock(p, height)
<1>1. /\ v \in Seq(Block) /\ n \in Nat /\ DOMAIN v = 1..n
      /\ \A i \in 1..n : v[i].height \in Nat
  BY ElementOfSeq, HeightType, LenProperties DEF Pool
<1>2. q = [p EXCEPT !.validPool = left, !.latestValidHeight = LatestOf(left)]
  BY DEF RemovedBlock
<1> HIDE DEF v, q
<1>3. /\ m \in 0..n /\ left \in Seq(Block) /\ Len(left) = n - m
      /\ \A i \in 1..(n - m) : left[i] = v[m + i]
      /\ \A i \in 1..m : v[i].height <= height
  <2>1. CASE above = {}
    <3>1. left = <<>> /\ m = n /\ n - m = 0
      BY <1>1, <2>1
    <3>2. \A i \in 1..n : v[i].height <= height
      BY <1>1, <2>1
    <3>3. \A i \in 1..0 : left[i] = v[m + i]
      OBVIOUS
    <3> HIDE DEF left, m
    <3> QED BY <1>1, <3>1, <3>2, <3>3, EmptySeq
  <2>2. CASE above # {}
    <3> DEFINE k == Min(above)
    <3>1. above \in SUBSET Nat
      BY <1>1
    <3>2. m = k - 1 /\ left = SubSeq(v, k, n)
      BY <2>2
    <3> HIDE DEF above, m, left
    <3>3. k \in above /\ \A j \in above : k <= j
      <4>1. PICK x \in above : \A y \in above : x <= y
        BY <2>2, <3>1, LeastNatural
      <4> QED BY <4>1 DEF Min
    <3> HIDE DEF k
    <3>4. k \in 1..n
      BY <1>1, <3>3 DEF above
    <3> HIDE DEF n
    <3>5. m \in 0..n /\ n - k + 1 = n - m /\ k \in 1..(n + 1) /\ n \in (k - 1)..n
      BY <1>1, <3>2, <3>4
    <3>6. left \in Seq(Block) /\ Len(left) = n - m
      BY <1>1, <3>2, <3>4, <3>5, SubSeqProperties DEF n
    <3>7. ASSUME NEW i \in 1..(n - m) PROVE left[i] = v[m + i]
      <4>1. i \in 1..(n - k + 1) /\ k + i - 1 = m + i
        BY <1>1, <3>2, <3>4, <3>5
      <4>2. left[i] = v[k + i - 1]
        BY <1>1, <3>2, <3>4, <4>1, SubSeqProperties DEF n
      <4> QED BY <4>1, <4>2
    <3>8. ASSUME NEW i \in 1..m PROVE v[i].height <= height
      <4>1. i \in 1..n /\ ~(k <= i)
        BY <1>1, <3>2, <3>4
      <4>2. i \notin above
        BY <3>3, <4>1
      <4> QED BY <1>1, <4>1, <4>2 DEF above
    <3> QED BY <3>5, <3>6, <3>7, <3>8
  <2> QED BY <2>1, <2>2
<1> HIDE DEF left, m
<1>4. left # <<>> => v # <<>> /\ Last(left) = Last(v) /\ Last(v).height \in Nat
  <2> SUFFICES ASSUME left # <<>> PROVE v # <<>> /\ Last(left) = Last(v) /\ Last(v).height \in Nat
    OBVIOUS
  <2> HIDE DEF n
  <2>1. n - m \in Nat \ {0} /\ Last(left) = left[n - m]
    BY <1>3, LastOfSeq
  <2>2. n # 0 /\ n - m \in 1..(n - m) /\ m + (n - m) = n
    BY <1>1, <1>3, <2>1
  <2>3. v # <<>>
    BY <2>2, EmptySeq DEF n
  <2>4. Last(v) = v[n] /\ Last(v).height \in Nat
    BY <1>1, <2>3, LastOfSeq DEF n
  <2>5. left[n - m] = v[n]
    BY <1>3, <2>2
  <2> QED BY <2>1, <2>3, <2>4, <2>5
<1>5. /\ LatestOf(left) \in Nat
      /\ left = <<>> => LatestOf(left) = beaconBest.height
      /\ left # <<>> => LatestOf(left) = Last(v).height
  BY <1>4 DEF LatestOf
<1>6. /\ q \in Pool /\ q.validPool = left /\ q.latestValidHeight = LatestOf(left)
      /\ q.pendingPool = p.pendingPool
  BY <1>2, <1>3, <1>5 DEF Pool
<1>7. \E k \in 0..n : /\ Len(q.validPool) = n - k
                      /\ \A i \in 1..(n - k) : q.validPool[i] = v[k + i]
                      /\ \A i \in 1..k : v[i].height <= height
  BY <1>3, <1>6
<1> HIDE DEF n
<1> QED BY <1>4, <1>5, <1>6, <1>7 DEF n, v, q

\* removeBlock, for a height that the chain has reached: the blocks above it stay.
LEMMA RemovedBlockKeepsSound ==
  ASSUME NEW p, NEW top \in Nat, top = beaconBest.height, Sound(p, top), NEW height \in Nat, height <= top
  PROVE  Sound(RemovedBlock(p, height), top)
<1> DEFINE v == p.validPool
           n == Len(v)
           q == RemovedBlock(p, height)
           w == q.validPool
<1>1. p \in Pool /\ v \in Seq(Block) /\ n \in Nat
  BY LenProperties DEF Sound, Pool
<1>2. /\ q \in Pool /\ q.pendingPool = p.pendingPool
      /\ \E m \in 0..n : /\ Len(w) = n - m
                         /\ \A i \in 1..(n - m) : w[i] = v[m + i]
                         /\ \A i \in 1..m : v[i].height <= height
      /\ w = <<>> => q.latestValidHeight = top
      /\ w # <<>> => v # <<>> /\ Last(w) = Last(v) /\ q.latestValidHeight = Last(v).height
  BY <1>1, RemovedBlockResult
<1> HIDE DEF q
<1>3. PICK m \in 0..n : /\ Len(w) = n - m
                        /\ \A i \in 1..(n - m) : w[i] = v[m + i]
                        /\ \A i \in 1..m : v[i].height <= height
  BY <1>2
<1>4. w \in Seq(Block)
  BY <1>2 DEF Pool
<1>5. Certified(q, top)
  BY <1>2 DEF Sound, Certified
<1>6. w # <<>> => Covered(q, top, Last(v).height)
  <2> SUFFICES ASSUME w # <<>>, NEW i \in Nat, top < i, i <= Last(v).height
               PROVE  i \in HeightsOf(Range(w))
    BY DEF Covered
  <2>1. i \in HeightsOf(Range(v))
    BY <1>2 DEF Sound, CoveredToTip, Covered
  <2>2. PICK j \in 1..n : v[j].height = i
    BY <1>1, <2>1, HeightsOfSeq
  <2> HIDE DEF v, w, n
  <2>3. j \notin 1..m
    BY <1>1, <1>3, <2>2
  <2>4. j - m \in 1..(n - m) /\ m + (j - m) = j
    BY <1>1, <1>3, <2>3
  <2>5. w[j - m].height = i /\ j - m \in 1..Len(w)
    BY <1>3, <2>2, <2>4
  <2> QED BY <1>4, <2>5, HeightsOfSeq
<1>7. Covered(q, top, q.latestValidHeight)
  <2>1. CASE w = <<>>
    BY <1>2, <2>1 DEF Covered
  <2> QED BY <1>2, <1>6, <2>1
<1>8. CoveredToTip(q, top)
  BY <1>2, <1>6 DEF CoveredToTip
<1>9. Bounded(q)
  <2>1. Len(w) <= n
    BY <1>1, <1>3
  <2> QED BY <1>1, <1>2, <1>4, <2>1 DEF Sound, Bounded
<1> QED BY <1>2, <1>5, <1>7, <1>8, <1>9 DEF Sound, q

-----------------------------------------------------------------------------
\* The steps.

\* What the ticker forgets of the pending and the conflicting blocks, and what a
\* received block that is refused leaves behind.
LEMMA ForgottenKeepsSound ==
  ASSUME NEW p, NEW q, NEW top \in Nat, NEW height \in Nat, height <= top, Sound(p, top), q \in Pool,
         q.validPool = p.validPool, q.latestValidHeight = p.latestValidHeight,
         q.pendingPool = {b \in p.pendingPool : b.height > height}
  PROVE  Sound(q, top)
<1>1. p \in Pool /\ p.validPool \in Seq(Block) /\ p.pendingPool \in SUBSET Block
  BY DEF Sound, Pool
<1>2. Certified(q, top)
  <2> SUFFICES ASSUME p.validPool # <<>>, Last(p.validPool).height + 1 > top
               PROVE  \E c \in q.pendingPool : /\ c.height = Last(p.validPool).height + 1
                                               /\ Parent[c] = Last(p.validPool)
    BY DEF Certified
  <2>1. PICK c \in p.pendingPool : c.height = Last(p.validPool).height + 1 /\ Parent[c] = Last(p.validPool)
    BY DEF Sound, Certified
  <2>2. c.height \in Nat
    BY <1>1, <2>1, HeightType
  <2>3. c.height > height
    BY <2>1, <2>2
  <2> QED BY <2>1, <2>3
<1>3. IsFiniteSet(q.pendingPool) /\ Cardinality(q.pendingPool) <= MaxPendingBlock
  <2>1. q.pendingPool \subseteq p.pendingPool
    OBVIOUS
  <2>2. IsFiniteSet(p.pendingPool) /\ Cardinality(p.pendingPool) <= MaxPendingBlock
    BY DEF Sound, Bounded
  <2>3. IsFiniteSet(q.pendingPool) /\ Cardinality(q.pendingPool) <= Cardinality(p.pendingPool)
    BY <2>1, <2>2, FS_Subset
  <2>4. Cardinality(q.pendingPool) \in Nat /\ Cardinality(p.pendingPool) \in Nat
    BY <2>2, <2>3, FS_CardinalityType
  <2> QED BY <2>2, <2>3, <2>4
<1>4. Bounded(q)
  BY <1>3 DEF Sound, Bounded
<1> QED BY <1>2, <1>4 DEF Sound, Covered, CoveredToTip

\* A pool of which only the cache and the conflicting blocks change.
LEMMA RejectedKeepsSound ==
  ASSUME NEW p, NEW q, NEW top, Sound(p, top), q \in Pool, q.validPool = p.validPool,
         q.latestValidHeight = p.latestValidHeight, q.pendingPool = p.pendingPool
  PROVE  Sound(q, top)
  BY DEF Sound, Certified, Covered, CoveredToTip, Bounded

\* A chain that grows asks less of the pool.
LEMMA GrowthKeepsSound ==
  ASSUME NEW p, NEW low \in Nat, NEW top \in Nat, low <= top, Sound(p, low)
  PROVE  Sound(p, top)
<1>1. p \in Pool /\ p.validPool \in Seq(Block)
  BY DEF Sound, Pool
<1>2. p.validPool # <<>> => Last(p.validPool).height \in Nat
  BY <1>1, LastOfSeq
<1>3. Certified(p, top)
  BY <1>2 DEF Sound, Certified
<1>4. \A h : Covered(p, low, h) => Covered(p, top, h)
  BY DEF Covered
<1> QED BY <1>3, <1>4 DEF Sound, CoveredToTip

\* An empty pool, whatever the height of the chain it starts at.
LEMMA EmptyPoolSound ==
  ASSUME NEW top \in Nat
  PROVE  Sound([EmptyPool EXCEPT !.latestValidHeight = top], top)
<1> DEFINE q == [EmptyPool EXCEPT !.latestValidHeight = top]
<1>1. /\ q \in Pool /\ q.validPool = <<>> /\ q.pendingPool = {} /\ q.latestValidHeight = top
  BY EmptySeq DEF EmptyPool, Pool
<1>2. IsFiniteSet({}) /\ Cardinality({}) = 0 /\ Len(<<>>) = 0
  BY FS_EmptySet, EmptySeq
<1> HIDE DEF q
<1>3. Bounded(q)
  BY <1>1, <1>2 DEF Bounded
<1> QED BY <1>1, <1>3 DEF Sound, Certified, Covered, CoveredToTip, q

\* The start of a node.
LEMMA InitPoolInv == BeaconInit => PoolInv
<1> SUFFICES ASSUME BeaconInit PROVE PoolInv
  OBVIOUS
<1>1. beaconBest.height = 1
  BY BlockAssumption, Zenon DEF BeaconInit
<1>2. beaconPool = [EmptyPool EXCEPT !.latestValidHeight = 1]
  BY DEF BeaconInit, EmptyPool
<1> QED BY <1>1, <1>2, EmptyPoolSound DEF BeaconInit, PoolInv

\* OnBlockBeaconReceived, with a block that is taken or refused.
LEMMA ReceivedKeepsPoolInv ==
  ASSUME PoolInv, NEW b \in Block, OnBlockBeaconReceived(b)
  PROVE  PoolInv'
<1>1. /\ beaconBest.height \in Nat /\ UNCHANGED <<beaconBest, beaconStored, beaconInsert>>
      /\ Sound(beaconPool, beaconBest.height) /\ beaconPool \in Pool
  BY HeightType DEF PoolInv, Sound, OnBlockBeaconReceived, AcceptBeaconBlock, RejectBeaconBlock, beaconChainVars
<1>2. CASE AcceptBeaconBlock(b)
  <2>1. Sound(InsertNew(beaconPool, b), beaconBest.height)
    BY <1>1, <1>2, InsertNewKeepsSound DEF AcceptBeaconBlock
  <2>2. Sound(PromotePending(InsertNew(beaconPool, b)), beaconBest.height)
    BY <1>1, <2>1, PromotionKeepsSound
  <2> QED BY <1>1, <1>2, <2>2 DEF PoolInv, AcceptBeaconBlock
<1>3. CASE RejectBeaconBlock(b)
  <2>1. CacheGet(beaconPool.cache, b) \in Seq(Block)
    BY <1>1, CacheType DEF Pool
  <2>2. PICK c \in {beaconPool.conflictedPool, beaconPool.conflictedPool \union {b}} :
          beaconPool' = [beaconPool EXCEPT !.cache = CacheGet(beaconPool.cache, b), !.conflictedPool = c]
    BY <1>3 DEF RejectBeaconBlock
  <2>3. /\ beaconPool' \in Pool /\ beaconPool'.validPool = beaconPool.validPool
        /\ beaconPool'.latestValidHeight = beaconPool.latestValidHeight
        /\ beaconPool'.pendingPool = beaconPool.pendingPool
    BY <1>1, <2>1, <2>2 DEF Pool
  <2>4. Sound(beaconPool', beaconBest.height)
    BY <1>1, <2>3, RejectedKeepsSound
  <2> QED BY <1>1, <2>4 DEF PoolInv
<1> QED BY <1>2, <1>3 DEF OnBlockBeaconReceived

\* The ticker, with any height that the chain has had.
LEMMA TickerKeepsPoolInv ==
  ASSUME PoolInv, TickRemoveBlock \/ TickCleanOldBlock \/ TickPromotePendingPool
  PROVE  PoolInv'
<1>1. /\ beaconBest.height \in Nat /\ UNCHANGED <<beaconBest, beaconStored, beaconInsert>>
      /\ Sound(beaconPool, beaconBest.height) /\ beaconPool \in Pool
  BY HeightType DEF PoolInv, Sound, TickRemoveBlock, TickCleanOldBlock, TickPromotePendingPool, beaconChainVars
<1>2. CASE TickRemoveBlock
  <2>1. PICK height \in 1..beaconBest.height : beaconPool' = RemovedBlock(beaconPool, height)
    BY <1>2 DEF TickRemoveBlock
  <2>2. height \in Nat /\ height <= beaconBest.height
    BY <1>1
  <2>3. Sound(beaconPool', beaconBest.height)
    BY <1>1, <2>1, <2>2, RemovedBlockKeepsSound
  <2> QED BY <1>1, <2>3 DEF PoolInv
<1>3. CASE TickCleanOldBlock
  <2>1. PICK height \in 1..beaconBest.height : beaconPool' = CleanedOldBlock(beaconPool, height)
    BY <1>3 DEF TickCleanOldBlock
  <2>2. height \in Nat /\ height <= beaconBest.height
    BY <1>1
  <2>3. /\ beaconPool' \in Pool /\ beaconPool'.validPool = beaconPool.validPool
        /\ beaconPool'.latestValidHeight = beaconPool.latestValidHeight
        /\ beaconPool'.pendingPool = {b \in beaconPool.pendingPool : b.height > height}
    BY <1>1, <2>1 DEF CleanedOldBlock, Pool
  <2>4. Sound(beaconPool', beaconBest.height)
    BY <1>1, <2>2, <2>3, ForgottenKeepsSound
  <2> QED BY <1>1, <2>4 DEF PoolInv
<1>4. CASE TickPromotePendingPool
  <2>1. Sound(beaconPool', beaconBest.height)
    BY <1>1, <1>4, PromotionKeepsSound DEF TickPromotePendingPool
  <2> QED BY <1>1, <2>1 DEF PoolInv
<1> QED BY <1>2, <1>3, <1>4

\* InsertBeaconBlock, step by step.  SetBeaconState writes the height of the chain
\* however old its test is: no height above the chain is then skipped.
LEMMA InsertKeepsPoolInv ==
  ASSUME PoolInv, InsertStep \/ InsertAborts \/ \E b \in Block : UpdateBestState(b)
  PROVE  PoolInv'
<1>1. /\ beaconBest.height \in Nat /\ Sound(beaconPool, beaconBest.height) /\ beaconPool \in Pool
  BY HeightType DEF PoolInv, Sound
<1>2. CASE \E b \in Block : UpdateBestState(b)
  <2>1. PICK b \in Block : Parent[b] = beaconBest /\ beaconBest' = b /\ beaconInsert' = "updated"
                           /\ UNCHANGED <<beaconPool, beaconStored>>
    BY <1>2 DEF UpdateBestState
  <2>2. Parent[b].height = b.height - 1
    BY BlockAssumption, Zenon
  <2>3. beaconBest.height <= b.height /\ b.height \in Nat
    BY <1>1, <2>1, <2>2, HeightType
  <2>4. Sound(beaconPool, b.height)
    BY <1>1, <2>3, GrowthKeepsSound
  <2> QED BY <2>1, <2>4 DEF PoolInv
<1>3. CASE StoreBestState \/ InsertAborts \/ SetBeaconStateTest
  BY <1>3 DEF PoolInv, StoreBestState, InsertAborts, SetBeaconStateTest
<1>4. CASE SetBeaconStateWrite
  <2> DEFINE p == beaconPool
             q == [p EXCEPT !.latestValidHeight = beaconBest.height]
  <2>1. beaconPool' = q /\ beaconInsert' = "set" /\ UNCHANGED <<beaconBest, beaconStored>>
    BY <1>4 DEF SetBeaconStateWrite
  <2>2. /\ q \in Pool /\ q.validPool = p.validPool /\ q.pendingPool = p.pendingPool
        /\ q.latestValidHeight = beaconBest.height
    BY <1>1 DEF Pool
  <2> HIDE DEF q
  <2>3. Covered(q, beaconBest.height, beaconBest.height)
    BY <1>1 DEF Covered
  <2>4. Sound(q, beaconBest.height)
    BY <1>1, <2>2, <2>3 DEF Sound, Certified, Covered, CoveredToTip, Bounded
  <2> QED BY <2>1, <2>4 DEF PoolInv
<1>5. CASE InsertRemoveBlock
  <2>1. Sound(RemovedBlock(beaconPool, beaconBest.height), beaconBest.height)
    BY <1>1, RemovedBlockKeepsSound
  <2> QED BY <1>5, <2>1 DEF PoolInv, InsertRemoveBlock
<1> QED BY <1>2, <1>3, <1>4, <1>5 DEF InsertStep

\* InitBeaconPool, after a restart.
LEMMA RestartKeepsPoolInv ==
  ASSUME PoolInv, BeaconRestart
  PROVE  PoolInv'
<1>1. /\ beaconPool' = [EmptyPool EXCEPT !.latestValidHeight = beaconStored.height]
      /\ beaconBest' = beaconStored /\ beaconStored' = beaconStored /\ beaconInsert' = "idle"
  BY DEF BeaconRestart
<1>2. beaconStored.height \in Nat /\ beaconStored \in Block \union {Genesis}
  BY HeightType DEF PoolInv
<1>3. Sound(beaconPool', beaconStored.height)
  BY <1>1, <1>2, EmptyPoolSound
<1> QED BY <1>1, <1>2, <1>3 DEF PoolInv

\* Every step keeps the invariant.
LEMMA NextPoolInv == PoolInv /\ [BeaconNext]_beaconVars => PoolInv'
<1> SUFFICES ASSUME PoolInv, [BeaconNext]_beaconVars PROVE PoolInv'
  OBVIOUS
<1>1. ASSUME NEW b \in Block, OnBlockBeaconReceived(b) PROVE PoolInv'
  BY <1>1, ReceivedKeepsPoolInv
<1>2. CASE InsertStep \/ InsertAborts \/ \E b \in Block : UpdateBestState(b)
  BY <1>2, InsertKeepsPoolInv
<1>3. CASE TickRemoveBlock \/ TickCleanOldBlock \/ TickPromotePendingPool
  BY <1>3, TickerKeepsPoolInv
<1>4. CASE BeaconRestart
  BY <1>4, RestartKeepsPoolInv
<1>5. CASE UNCHANGED beaconVars
  BY <1>5 DEF beaconVars, PoolInv
<1> QED BY <1>1, <1>2, <1>3, <1>4, <1>5 DEF BeaconNext

-----------------------------------------------------------------------------
\* The pool of beacon blocks keeps its last valid block certified, skips no
\* height and keeps to its sizes, whatever blocks are received, however the
\* ticker and an insertion interleave with them and with each other, and whenever
\* the node is restarted: for every block tree, fork and size.
THEOREM ValidBlocksAreCertified == BeaconSpec => []BeaconPoolIsSound
<1>1. PoolInv => BeaconPoolIsSound
  <2> SUFFICES ASSUME PoolInv PROVE BeaconPoolIsSound
    OBVIOUS
  <2>1. /\ Sound(beaconPool, beaconBest.height) /\ beaconPool \in Pool /\ beaconBest.height \in Nat
        /\ beaconPool.latestValidHeight \in Nat
    BY HeightType DEF PoolInv, Sound, Pool
  <2>2. BeaconTypeOK
    BY <2>1 DEF PoolInv, BeaconTypeOK, Pool
  <2>3. TipIsCertified
    BY <2>1 DEF TipIsCertified, Sound, Certified
  <2>4. NoHeightIsSkipped
    BY <2>1 DEF NoHeightIsSkipped, Sound, Covered
  <2>5. PoolsAreBounded
    BY <2>1 DEF PoolsAreBounded, Sound, Bounded
  <2> QED BY <2>2, <2>3, <2>4, <2>5 DEF BeaconPoolIsSound
<1> QED BY <1>1, InitPoolInv, NextPoolInv, PTL DEF BeaconSpec

-----------------------------------------------------------------------------
\* A chain without forks.

\* One block per height.
Unforked == \A a, b \in Block \union {Genesis} : a.height = b.height => a = b

\* The blocks above the chain that a pool holds, by their heights.
HeldIn(p, top) ==
  {b.height : b \in {c \in Range(p.validPool) \union p.pendingPool : c.height > top}}

\* A block of height h is among the valid ones, among the pending ones.
IsValidHeight(p, h) == \E j \in 1..Len(p.validPool) : p.validPool[j].height = h
IsPendingHeight(p, h) == \E c \in p.pendingPool : c.height = h

\* The valid blocks have the heights up to latestValidHeight, one after the other.
Aligned(p) ==
  \A i \in 1..Len(p.validPool) : p.validPool[i].height = p.latestValidHeight - Len(p.validPool) + i

\* A pool that the chain has not overtaken: it is so while the chain grows from
\* the pool only.
Leads(p, top) == Aligned(p) /\ top <= p.latestValidHeight

\* A pool whose k valid blocks have the heights up to l.
LEMMA LeadsBy ==
  ASSUME NEW p, NEW top \in Nat, NEW k \in Nat, NEW l \in Nat, Len(p.validPool) = k, p.latestValidHeight = l, top <= l,
         \A j \in 1..k : p.validPool[j].height = l - k + j
  PROVE  Leads(p, top)
  BY DEF Leads, Aligned

\* Whether a height is held.
LEMMA HeldByHeight ==
  ASSUME NEW p \in Pool, NEW top \in Nat, NEW h
  PROVE  h \in HeldIn(p, top) <=> h \in Nat /\ h > top /\ (IsValidHeight(p, h) \/ IsPendingHeight(p, h))
<1>1. p.validPool \in Seq(Block) /\ p.pendingPool \in SUBSET Block
  BY DEF Pool
<1>2. \A c : c \in Range(p.validPool) <=> \E j \in 1..Len(p.validPool) : p.validPool[j] = c
  BY <1>1 DEF Range
<1>3. \A j \in 1..Len(p.validPool) : p.validPool[j] \in Block
  BY <1>1, ElementOfSeq
<1>4. ASSUME h \in HeldIn(p, top)
      PROVE  h \in Nat /\ h > top /\ (IsValidHeight(p, h) \/ IsPendingHeight(p, h))
  <2>1. PICK c \in Range(p.validPool) \union p.pendingPool : c.height > top /\ h = c.height
    BY <1>4 DEF HeldIn
  <2>2. c \in Block
    BY <1>1, <1>2, <1>3, <2>1
  <2> QED BY <1>2, <2>1, <2>2, HeightType DEF IsValidHeight, IsPendingHeight
<1>5. ASSUME h \in Nat, h > top, IsValidHeight(p, h) \/ IsPendingHeight(p, h) PROVE h \in HeldIn(p, top)
  BY <1>2, <1>5 DEF HeldIn, IsValidHeight, IsPendingHeight
<1> QED BY <1>4, <1>5

\* Two pools with the same heights above the chain.
LEMMA SameHeld ==
  ASSUME NEW p \in Pool, NEW q \in Pool, NEW top \in Nat,
         \A h \in Nat : h > top =>
           (IsValidHeight(q, h) \/ IsPendingHeight(q, h) <=> IsValidHeight(p, h) \/ IsPendingHeight(p, h))
  PROVE  HeldIn(q, top) = HeldIn(p, top)
<1>1. \A h : h \in HeldIn(q, top) <=> h \in HeldIn(p, top)
  BY HeldByHeight
<1> QED BY <1>1

\* q is p with n blocks, of the heights after the latest, moved from the pending
\* ones to the end of the valid ones.
Moved(p, q, n) ==
  /\ q.latestValidHeight = p.latestValidHeight + n
  /\ q.pendingPool = {b \in p.pendingPool : b.height \notin (p.latestValidHeight + 1)..(p.latestValidHeight + n)}
  /\ Len(q.validPool) = Len(p.validPool) + n
  /\ \A i \in 1..Len(p.validPool) : q.validPool[i] = p.validPool[i]
  /\ \A i \in 1..n : /\ q.validPool[Len(p.validPool) + i].height = p.latestValidHeight + i
                     /\ q.validPool[Len(p.validPool) + i] \in p.pendingPool

\* The loop of a promotion moves blocks.
LEMMA MovedKeepsHeld ==
  ASSUME NEW p \in Pool, NEW q \in Pool, NEW top \in Nat, NEW n \in Nat, Leads(p, top), Moved(p, q, n)
  PROVE  HeldIn(q, top) = HeldIn(p, top) /\ Leads(q, top)
<1> DEFINE l == p.latestValidHeight
           m == Len(p.validPool)
           v == p.validPool
           w == q.validPool
<1>1. l \in Nat /\ m \in Nat /\ p.pendingPool \in SUBSET Block
  BY DEF Pool
<1> HIDE DEF l, m, v, w
<1>2. ASSUME NEW j \in 1..(m + n) PROVE \/ j \in 1..m
                                       \/ \E i \in 1..n : j = m + i
  <2>1. CASE j <= m
    BY <1>1, <2>1
  <2>2. CASE ~(j <= m)
    <3>1. j - m \in 1..n /\ j = m + (j - m)
      BY <1>1, <2>2
    <3> QED BY <3>1
  <2> QED BY <2>1, <2>2
<1>3. /\ Len(w) = m + n
      /\ \A i \in 1..m : w[i] = v[i]
      /\ \A i \in 1..n : w[m + i].height = l + i /\ w[m + i] \in p.pendingPool
      /\ q.pendingPool = {b \in p.pendingPool : b.height \notin (l + 1)..(l + n)}
      /\ q.latestValidHeight = l + n
  BY DEF l, m, v, w, Moved
<1>4. \A i \in 1..m : v[i].height = l - m + i
  BY DEF Leads, Aligned, l, m, v
<1>5. Leads(q, top)
  <2> SUFFICES ASSUME NEW j \in 1..(m + n) PROVE w[j].height = l + n - (m + n) + j
    <3>1. top <= l
      BY DEF Leads, l
    <3>2. top <= l + n
      BY <1>1, <3>1
    <3>3. Len(q.validPool) = m + n
      BY <1>3 DEF w
    <3>4. \A j \in 1..(m + n) : q.validPool[j].height = l + n - (m + n) + j
      BY DEF w
    <3> DEFINE k == m + n
               u == l + n
    <3>5. /\ k \in Nat /\ u \in Nat /\ top <= u
          /\ Len(q.validPool) = k /\ q.latestValidHeight = u
          /\ \A j \in 1..k : q.validPool[j].height = u - k + j
      BY <1>1, <1>3, <3>2, <3>3, <3>4
    <3> HIDE DEF k, u
    <3> QED BY <3>5, LeadsBy
  <2>1. CASE j \in 1..m
    <3>1. w[j].height = l - m + j
      BY <1>3, <1>4, <2>1
    <3> QED BY <1>1, <3>1
  <2>2. CASE \E i \in 1..n : j = m + i
    <3>1. PICK i \in 1..n : j = m + i
      BY <2>2
    <3>2. w[j].height = l + i
      BY <1>3, <3>1
    <3> QED BY <1>1, <3>1, <3>2
  <2> QED BY <1>2, <2>1, <2>2
<1>6. ASSUME NEW h \in Nat, IsValidHeight(q, h) PROVE IsValidHeight(p, h) \/ IsPendingHeight(p, h)
  <2>1. PICK j \in 1..(m + n) : w[j].height = h
    BY <1>3, <1>6 DEF IsValidHeight, w
  <2>2. CASE j \in 1..m
    BY <1>3, <2>1, <2>2 DEF IsValidHeight, m, v
  <2>3. CASE \E i \in 1..n : j = m + i
    BY <1>3, <2>1, <2>3 DEF IsPendingHeight
  <2> QED BY <1>2, <2>2, <2>3
<1>7. ASSUME NEW h \in Nat, IsValidHeight(p, h) PROVE IsValidHeight(q, h)
  <2>1. PICK j \in 1..m : v[j].height = h
    BY <1>7 DEF IsValidHeight, m, v
  <2>2. j \in 1..(m + n)
    BY <1>1
  <2> QED BY <1>3, <2>1, <2>2 DEF IsValidHeight, w
<1>8. ASSUME NEW h \in Nat, IsPendingHeight(p, h) PROVE IsValidHeight(q, h) \/ IsPendingHeight(q, h)
  <2>1. PICK c \in p.pendingPool : c.height = h
    BY <1>8 DEF IsPendingHeight
  <2>2. CASE h \notin (l + 1)..(l + n)
    BY <1>3, <2>1, <2>2 DEF IsPendingHeight
  <2>3. CASE h \in (l + 1)..(l + n)
    <3>1. h - l \in 1..n /\ l + (h - l) = h /\ m + (h - l) \in 1..(m + n)
      BY <1>1, <2>3
    <3>2. w[m + (h - l)].height = h
      BY <1>3, <3>1
    <3> QED BY <1>3, <3>1, <3>2 DEF IsValidHeight, w
  <2> QED BY <2>2, <2>3
<1>9. \A h \in Nat : IsPendingHeight(q, h) => IsPendingHeight(p, h)
  BY <1>3 DEF IsPendingHeight
<1>10. HeldIn(q, top) = HeldIn(p, top)
  BY <1>6, <1>7, <1>8, <1>9, SameHeld
<1> QED BY <1>5, <1>10

\* q is p with block b, among the valid or among the pending ones.
Taken(p, q, b) ==
  \/ /\ b.height = p.latestValidHeight + 1
     /\ q.validPool = Append(p.validPool, b)
     /\ q.latestValidHeight = b.height
     /\ q.pendingPool = p.pendingPool
  \/ /\ q.validPool = p.validPool
     /\ q.latestValidHeight = p.latestValidHeight
     /\ q.pendingPool = p.pendingPool \union {b}

\* The heights held grow by that of a block that is taken, wherever it goes.
LEMMA TakenIsHeld ==
  ASSUME NEW p \in Pool, NEW q \in Pool, NEW top \in Nat, NEW b \in Block, b.height > top, Leads(p, top),
         Taken(p, q, b)
  PROVE  HeldIn(q, top) = HeldIn(p, top) \union {b.height} /\ Leads(q, top)
<1> DEFINE l == p.latestValidHeight
           m == Len(p.validPool)
           v == p.validPool
           w == q.validPool
<1>1. l \in Nat /\ m \in Nat /\ v \in Seq(Block) /\ b.height \in Nat
  BY HeightType DEF Pool
<1> HIDE DEF l, m, v, w
<1>2. CASE b.height = l + 1 /\ w = Append(v, b) /\ q.latestValidHeight = b.height /\ q.pendingPool = p.pendingPool
  <2>1. /\ Len(w) = m + 1 /\ w[m + 1] = b
        /\ \A i \in 1..m : w[i] = v[i]
    <3>1. m = Len(v)
      BY DEF m, v
    <3> QED BY <1>1, <1>2, <3>1, AppendProperties
  <2>2. Leads(q, top)
    <3> SUFFICES ASSUME NEW j \in 1..(m + 1) PROVE w[j].height = l + 1 - (m + 1) + j
      <4>1. Len(q.validPool) = m + 1 /\ q.latestValidHeight = l + 1
        BY <1>2, <2>1 DEF w
      <4>2. top <= l /\ top <= l + 1
        BY <1>1 DEF Leads, l
      <4>3. \A j \in 1..(m + 1) : q.validPool[j].height = l + 1 - (m + 1) + j
        BY DEF w
      <4> DEFINE k == m + 1
                 u == l + 1
      <4>4. /\ k \in Nat /\ u \in Nat /\ top <= u
            /\ Len(q.validPool) = k /\ q.latestValidHeight = u
            /\ \A j \in 1..k : q.validPool[j].height = u - k + j
        BY <1>1, <4>1, <4>2, <4>3
      <4> HIDE DEF k, u
      <4> QED BY <4>4, LeadsBy
    <3>1. CASE j = m + 1
      BY <1>1, <1>2, <2>1, <3>1
    <3>2. CASE j # m + 1
      <4>1. j \in 1..m
        BY <1>1, <3>2
      <4>2. v[j].height = l - m + j
        BY <4>1 DEF Leads, Aligned, l, m, v
      <4>3. w[j].height = l - m + j
        BY <2>1, <4>1, <4>2
      <4> QED BY <1>1, <4>3
    <3> QED BY <3>1, <3>2
  <2>3. ASSUME NEW h \in Nat PROVE IsValidHeight(q, h) <=> IsValidHeight(p, h) \/ h = b.height
    <3>1. ASSUME IsValidHeight(q, h) PROVE IsValidHeight(p, h) \/ h = b.height
      <4>1. PICK j \in 1..(m + 1) : w[j].height = h
        BY <2>1, <3>1 DEF IsValidHeight, w
      <4>2. j \in 1..m \/ j = m + 1
        BY <1>1
      <4> QED BY <2>1, <4>1, <4>2 DEF IsValidHeight, m, v
    <3>2. ASSUME IsValidHeight(p, h) PROVE IsValidHeight(q, h)
      <4>1. PICK j \in 1..m : v[j].height = h
        BY <3>2 DEF IsValidHeight, m, v
      <4>2. j \in 1..(m + 1)
        BY <1>1
      <4> QED BY <2>1, <4>1, <4>2 DEF IsValidHeight, w
    <3>3. m + 1 \in 1..(m + 1)
      BY <1>1
    <3>4. IsValidHeight(q, b.height)
      BY <2>1, <3>3 DEF IsValidHeight, w
    <3> QED BY <3>1, <3>2, <3>4
  <2>4. \A h : IsPendingHeight(q, h) <=> IsPendingHeight(p, h)
    BY <1>2 DEF IsPendingHeight
  <2>5. \A h : h \in HeldIn(q, top) <=> h \in HeldIn(p, top) \union {b.height}
    BY <1>1, <2>3, <2>4, HeldByHeight
  <2> QED BY <2>2, <2>5
<1>3. CASE w = v /\ q.latestValidHeight = l /\ q.pendingPool = p.pendingPool \union {b}
  <2>1. Leads(q, top)
    BY <1>3 DEF Leads, Aligned, w, v, l
  <2>2. \A h : IsValidHeight(q, h) <=> IsValidHeight(p, h)
    BY <1>3 DEF IsValidHeight, w, v
  <2>3. \A h : IsPendingHeight(q, h) <=> IsPendingHeight(p, h) \/ h = b.height
    BY <1>3 DEF IsPendingHeight
  <2>4. \A h : h \in HeldIn(q, top) <=> h \in HeldIn(p, top) \union {b.height}
    BY <1>1, <2>2, <2>3, HeldByHeight
  <2> QED BY <2>1, <2>4
<1> QED BY <1>2, <1>3 DEF l, v, w, Taken

\* q is p without m of the first valid blocks, none of them above the chain.
Dropped(p, q, m, top) ==
  /\ m <= Len(p.validPool)
  /\ Len(q.validPool) = Len(p.validPool) - m
  /\ \A i \in 1..(Len(p.validPool) - m) : q.validPool[i] = p.validPool[m + i]
  /\ \A i \in 1..m : p.validPool[i].height <= top
  /\ q.pendingPool = p.pendingPool
  /\ q.validPool = <<>> => q.latestValidHeight = top
  /\ q.validPool # <<>> => q.latestValidHeight = Last(p.validPool).height

\* removeBlock drops blocks that nobody asks for.
LEMMA DroppedKeepsHeld ==
  ASSUME NEW p \in Pool, NEW q \in Pool, NEW top \in Nat, NEW m \in Nat, Leads(p, top), Dropped(p, q, m, top)
  PROVE  HeldIn(q, top) = HeldIn(p, top) /\ Leads(q, top)
<1> DEFINE l == p.latestValidHeight
           n == Len(p.validPool)
           v == p.validPool
           w == q.validPool
<1>0. /\ q.pendingPool = p.pendingPool
      /\ w = <<>> => q.latestValidHeight = top
      /\ w # <<>> => q.latestValidHeight = Last(v).height
  BY DEF Dropped
<1>1. l \in Nat /\ n \in Nat /\ v \in Seq(Block) /\ w \in Seq(Block) /\ top <= l
  BY DEF Pool, Leads
<1> HIDE DEF l, n, v, w
<1>2. /\ Len(w) = n - m /\ m <= n /\ m \in Nat
      /\ \A i \in 1..(n - m) : w[i] = v[m + i]
      /\ \A i \in 1..m : v[i].height <= top
      /\ \A i \in 1..n : v[i].height = l - n + i
  BY DEF n, v, w, Leads, Aligned, l, Dropped
<1>a. n \in Nat /\ m \in Nat /\ m <= n
  BY <1>1, <1>2
<1>3. Leads(q, top)
  <2>1. CASE w = <<>>
    <3>1. Len(w) = 0
      BY <2>1, EmptySeq
    <3> QED BY <1>0, <2>1, <3>1 DEF Leads, Aligned, w
  <2>2. CASE w # <<>>
    <3>1. n - m # 0
      BY <1>1, <1>2, <2>2, EmptySeq
    <3>2. n \in 1..n /\ n # 0
      BY <1>1, <1>2, <3>1
    <3>3. v # <<>> /\ Last(v) = v[n]
      BY <1>1, <3>2, EmptySeq, LastOfSeq DEF n, v
    <3>4. q.latestValidHeight = l
      <4>1. q.latestValidHeight = v[n].height
        BY <1>0, <2>2, <3>3
      <4>2. v[n].height = l - n + n
        BY <1>2, <3>2
      <4> QED BY <1>1, <4>1, <4>2
    <3>5. ASSUME NEW i \in 1..(n - m) PROVE w[i].height = l - (n - m) + i
      <4>1. m + i \in 1..n
        BY <1>a
      <4>2. w[i].height = l - n + (m + i)
        BY <1>2, <4>1
      <4> QED BY <1>1, <1>2, <4>2
    <3>6. Len(q.validPool) = n - m
      BY <1>2 DEF w
    <3>7. \A i \in 1..(n - m) : q.validPool[i].height = l - (n - m) + i
      BY <3>5 DEF w
    <3>8. n - m \in Nat
      BY <1>a
    <3> QED BY <1>1, <3>4, <3>6, <3>7, <3>8, LeadsBy
  <2> QED BY <2>1, <2>2
<1>4. ASSUME NEW h \in Nat, h > top PROVE IsValidHeight(q, h) <=> IsValidHeight(p, h)
  <2>1. ASSUME IsValidHeight(q, h) PROVE IsValidHeight(p, h)
    <3>1. PICK i \in 1..(n - m) : w[i].height = h
      BY <1>2, <2>1 DEF IsValidHeight, w
    <3>2. m + i \in 1..n
      BY <1>a
    <3> QED BY <1>2, <3>1, <3>2 DEF IsValidHeight, n, v
  <2>2. ASSUME IsValidHeight(p, h) PROVE IsValidHeight(q, h)
    <3>1. PICK i \in 1..n : v[i].height = h
      BY <2>2 DEF IsValidHeight, n, v
    <3>2. i \notin 1..m
      BY <1>2, <1>4, <3>1
    <3>3. i - m \in 1..(n - m) /\ m + (i - m) = i
      BY <1>a, <3>2
    <3>4. w[i - m].height = h
      BY <1>2, <3>1, <3>3
    <3> QED BY <1>2, <3>3, <3>4 DEF IsValidHeight, w
  <2> QED BY <2>1, <2>2
<1>5. \A h : IsPendingHeight(q, h) <=> IsPendingHeight(p, h)
  BY <1>0 DEF IsPendingHeight
<1>6. HeldIn(q, top) = HeldIn(p, top)
  BY <1>4, <1>5, SameHeld
<1> QED BY <1>3, <1>6

-----------------------------------------------------------------------------
\* The pool of beacon blocks, when the chain has no forks and grows from it only.

\* promotePendingPool.
LEMMA PromotionKeepsHeld ==
  ASSUME NEW top \in Nat, NEW p, Sound(p, top), Leads(p, top)
  PROVE  HeldIn(PromotePending(p), top) = HeldIn(p, top) /\ Leads(PromotePending(p), top)
<1> DEFINE q == PromotePending(p)
           e == PromotedTo(p)
           l == p.latestValidHeight
           m == Len(p.validPool)
           n == e - l
<1>1. p \in Pool /\ l \in Nat /\ \A a, b \in p.pendingPool : a.height = b.height => a = b
  BY DEF Sound, Bounded, Pool
<1>2. /\ q \in Pool /\ n \in Nat /\ q.latestValidHeight = e
      /\ q.pendingPool = {b \in p.pendingPool : b.height \notin (l + 1)..e}
      /\ Len(q.validPool) = m + n
      /\ \A i \in 1..m : q.validPool[i] = p.validPool[i]
      /\ \A i \in 1..n : q.validPool[m + i] \in p.pendingPool /\ q.validPool[m + i].height = l + i
  BY <1>1, PromotionResult
<1>3. e \in Nat
  BY <1>1, PromotionEnds
<1> HIDE DEF q, e
<1>4. e = l + n
  BY <1>1, <1>3
<1> HIDE DEF n
<1>5. /\ q.latestValidHeight = l + n
      /\ q.pendingPool = {b \in p.pendingPool : b.height \notin (l + 1)..(l + n)}
  BY <1>2, <1>4
<1>6. HeldIn(q, top) = HeldIn(p, top) /\ Leads(q, top)
  <2>1. Moved(p, q, n)
    BY <1>2, <1>5 DEF Moved
  <2> QED BY <1>1, <1>2, <2>1, MovedKeepsHeld
<1> QED BY <1>6 DEF q

\* insertNewBeaconBlockToPool: no other block has the height of a successor.
LEMMA InsertNewIsHeld ==
  ASSUME Unforked, NEW top \in Nat, NEW p, Sound(p, top), Leads(p, top),
         NEW b \in Block, b.height > top, ~IsRefused(p, b)
  PROVE  HeldIn(InsertNew(p, b), top) = HeldIn(p, top) \union {b.height} /\ Leads(InsertNew(p, b), top)
<1> DEFINE q == InsertNew(p, b)
<1>1. p \in Pool /\ p.pendingPool \in SUBSET Block
  BY DEF Sound, Pool
<1>2. q \in Pool
  BY InsertNewKeepsSound DEF Sound
<1>3. ~HasOtherNext(p.pendingPool, b)
  <2> SUFFICES ASSUME NEW c \in p.pendingPool, c.height = b.height + 1 PROVE Parent[c] = b
    BY DEF HasOtherNext
  <2>1. c \in Block /\ b \in Block \union {Genesis}
    BY <1>1
  <2>2. Parent[c] \in Block \union {Genesis} /\ Parent[c].height = c.height - 1
    BY <2>1, BlockAssumption
  <2>3. Parent[c].height = b.height
    BY <2>2, HeightType
  <2> QED BY <2>1, <2>2, <2>3 DEF Unforked
<1>4. \/ /\ b.height = p.latestValidHeight + 1
         /\ q = [p EXCEPT !.validPool = Append(p.validPool, b), !.latestValidHeight = b.height]
      \/ q = [p EXCEPT !.pendingPool = p.pendingPool \union {b}]
  BY <1>3 DEF InsertNew
<1> HIDE DEF q
<1>5. Taken(p, q, b)
  BY <1>1, <1>4 DEF Pool, Taken
<1>6. HeldIn(q, top) = HeldIn(p, top) \union {b.height} /\ Leads(q, top)
  BY <1>1, <1>2, <1>5, TakenIsHeld
<1> QED BY <1>6 DEF q

\* removeBlock, for a height that the chain has reached.
LEMMA RemovedKeepsHeld ==
  ASSUME NEW top \in Nat, top = beaconBest.height, NEW p, Sound(p, top), Leads(p, top),
         NEW height \in Nat, height <= top
  PROVE  HeldIn(RemovedBlock(p, height), top) = HeldIn(p, top) /\ Leads(RemovedBlock(p, height), top)
<1> DEFINE q == RemovedBlock(p, height)
           n == Len(p.validPool)
<1>1. p \in Pool /\ p.validPool \in Seq(Block) /\ n \in Nat
  BY LenProperties DEF Sound, Pool
<1>2. /\ q \in Pool /\ q.pendingPool = p.pendingPool
      /\ \E m \in 0..n : /\ Len(q.validPool) = n - m
                         /\ \A i \in 1..(n - m) : q.validPool[i] = p.validPool[m + i]
                         /\ \A i \in 1..m : p.validPool[i].height <= height
      /\ q.validPool = <<>> => q.latestValidHeight = top
      /\ q.validPool # <<>> => q.latestValidHeight = Last(p.validPool).height
  BY <1>1, RemovedBlockResult
<1>3. PICK m \in 0..n : /\ Len(q.validPool) = n - m
                        /\ \A i \in 1..(n - m) : q.validPool[i] = p.validPool[m + i]
                        /\ \A i \in 1..m : p.validPool[i].height <= height
  BY <1>2
<1> HIDE DEF q
<1>4. m \in Nat /\ m <= n
  BY <1>1
<1>5. \A i \in 1..m : p.validPool[i].height <= top
  <2> SUFFICES ASSUME NEW i \in 1..m PROVE p.validPool[i].height <= top
    OBVIOUS
  <2>1. p.validPool[i].height \in Nat
    BY <1>1, <1>4, ElementOfSeq, HeightType
  <2> QED BY <1>3, <2>1
<1>6. HeldIn(q, top) = HeldIn(p, top) /\ Leads(q, top)
  <2>1. Dropped(p, q, m, top)
    BY <1>2, <1>3, <1>4, <1>5 DEF Dropped
  <2> QED BY <1>1, <1>2, <1>4, <2>1, DroppedKeepsHeld
<1> QED BY <1>6 DEF q

\* What CleanOldBlock forgets, for a height that the chain has reached.
LEMMA CleanedKeepsHeld ==
  ASSUME NEW p \in Pool, NEW q \in Pool, NEW top \in Nat, NEW height \in Nat, height <= top, Leads(p, top),
         q.validPool = p.validPool, q.latestValidHeight = p.latestValidHeight,
         q.pendingPool = {b \in p.pendingPool : b.height > height}
  PROVE  HeldIn(q, top) = HeldIn(p, top) /\ Leads(q, top)
<1>1. ASSUME NEW h \in Nat, h > top PROVE IsPendingHeight(q, h) <=> IsPendingHeight(p, h)
  <2>1. h > height
    BY <1>1
  <2> QED BY <2>1 DEF IsPendingHeight
<1>2. \A h : IsValidHeight(q, h) <=> IsValidHeight(p, h)
  BY DEF IsValidHeight
<1> QED BY <1>1, <1>2, SameHeld DEF Leads, Aligned

\* A chain that grows by the block after the best one: its height is no longer
\* among those held.
LEMMA GrowthReleases ==
  ASSUME NEW p \in Pool, NEW top \in Nat
  PROVE  HeldIn(p, top + 1) = HeldIn(p, top) \ {top + 1}
<1>1. \A h \in Nat : h > top + 1 <=> h > top /\ h # top + 1
  OBVIOUS
<1>2. \A h : h \in HeldIn(p, top + 1) <=> h \in HeldIn(p, top) /\ h # top + 1
  BY <1>1, HeldByHeight
<1> QED BY <1>2

\* The first valid block is held when it is the next one.
LEMMA HeadIsHeld ==
  ASSUME NEW top \in Nat, NEW p \in Pool, Leads(p, top), p.validPool # <<>>,
         Head(p.validPool).height = top + 1
  PROVE  top + 1 \in HeldIn(p, top) /\ Leads(p, top + 1)
<1> DEFINE v == p.validPool
           n == Len(v)
           l == p.latestValidHeight
<1>1. v \in Seq(Block) /\ l \in Nat
  BY DEF Pool
<1>2. n \in Nat \ {0} /\ v[1].height = top + 1
  <2>1. n \in Nat \ {0}
    BY <1>1, LastOfSeq
  <2>2. Head(v) = v[1]
    OBVIOUS
  <2> QED BY <2>1, <2>2
<1>3. \A i \in 1..n : v[i].height = l - n + i
  BY DEF Leads, Aligned
<1> HIDE DEF v, n, l
<1>4. 1 \in 1..n
  BY <1>2
<1>5. l - n + 1 = top + 1
  BY <1>2, <1>3, <1>4
<1>6. top + 1 <= l
  BY <1>1, <1>2, <1>5
<1>7. IsValidHeight(p, top + 1)
  BY <1>2, <1>4 DEF IsValidHeight, v, n
<1>8. top + 1 \in Nat /\ top + 1 > top
  OBVIOUS
<1>9. top + 1 \in HeldIn(p, top)
  BY <1>7, <1>8, HeldByHeight
<1> QED BY <1>6, <1>9 DEF Leads, l

\* Its successor is held, too: it is a valid block or the pending one that
\* certifies it.
LEMMA HeadIsCertified ==
  ASSUME NEW top \in Nat, NEW p, Sound(p, top), Leads(p, top), p.validPool # <<>>,
         Head(p.validPool).height = top + 1
  PROVE  {top + 1, top + 2} \subseteq HeldIn(p, top) /\ Leads(p, top + 1)
<1> DEFINE v == p.validPool
           n == Len(v)
           l == p.latestValidHeight
<1>1. p \in Pool /\ v \in Seq(Block) /\ l \in Nat
  BY DEF Sound, Pool
<1>2. /\ n \in Nat \ {0} /\ Last(v) = v[n] /\ v[1].height = top + 1
  <2>1. n \in Nat \ {0} /\ Last(v) = v[n]
    BY <1>1, LastOfSeq
  <2>2. Head(v) = v[1]
    OBVIOUS
  <2> QED BY <2>1, <2>2
<1>3. \A i \in 1..n : v[i].height = l - n + i
  BY DEF Leads, Aligned
<1>4. top + 1 \in HeldIn(p, top) /\ Leads(p, top + 1)
  BY <1>1, HeadIsHeld
<1> HIDE DEF v, n, l
<1>5. IsValidHeight(p, top + 2) \/ IsPendingHeight(p, top + 2)
  <2>1. CASE n = 1
    <3>1. Last(v).height = top + 1
      BY <1>2, <2>1
    <3>2. Last(v).height + 1 > top
      BY <3>1
    <3>3. PICK c \in p.pendingPool : c.height = Last(v).height + 1
      BY <1>2, <3>2, EmptySeq DEF Sound, Certified, v
    <3>4. c.height = top + 2
      BY <3>1, <3>3
    <3> QED BY <3>4 DEF IsPendingHeight
  <2>2. CASE n # 1
    <3>1. 1 \in 1..n /\ 2 \in 1..n
      BY <1>2, <2>2
    <3>2. v[2].height = l - n + 2 /\ l - n + 1 = top + 1
      BY <1>2, <1>3, <3>1
    <3>3. v[2].height = top + 2
      BY <1>1, <1>2, <3>2
    <3> QED BY <3>1, <3>3 DEF IsValidHeight, v, n
  <2> QED BY <2>1, <2>2
<1>6. top + 2 \in Nat /\ top + 2 > top
  OBVIOUS
<1>7. top + 2 \in HeldIn(p, top)
  BY <1>1, <1>5, <1>6, HeldByHeight
<1> QED BY <1>4, <1>7

\* SetBeaconState finds a pool that the chain has not overtaken.
FollowsPool == beaconInsert # "behind" /\ Leads(beaconPool, beaconBest.height)

\* The heights the pool holds above the chain.
BeaconHeld == HeldIn(beaconPool, beaconBest.height)

\* OnBlockBeaconReceived: a block that is refused is not missed by anybody who
\* has it, and one that is taken is held.
LEMMA ReceivedIsHeld ==
  ASSUME Unforked, PoolInv, FollowsPool, NEW b \in Block, OnBlockBeaconReceived(b)
  PROVE  /\ FollowsPool'
         /\ beaconBest' = beaconBest
         /\ b.height > beaconBest.height
         /\ BeaconHeld' = BeaconHeld \/ BeaconHeld' = BeaconHeld \union {b.height}
<1> DEFINE top == beaconBest.height
<1>1. /\ top \in Nat /\ UNCHANGED <<beaconBest, beaconStored, beaconInsert>>
      /\ Sound(beaconPool, top) /\ beaconPool \in Pool /\ Leads(beaconPool, top)
  BY HeightType DEF PoolInv, Sound, FollowsPool, OnBlockBeaconReceived, AcceptBeaconBlock, RejectBeaconBlock,
                    beaconChainVars
<1>2. b.height > top
  BY <1>1, HeightType DEF OnBlockBeaconReceived
<1> SUFFICES /\ Leads(beaconPool', top)
             /\ \/ HeldIn(beaconPool', top) = HeldIn(beaconPool, top)
                \/ HeldIn(beaconPool', top) = HeldIn(beaconPool, top) \union {b.height}
  BY <1>1, <1>2 DEF FollowsPool, BeaconHeld
<1> HIDE DEF top
<1>3. CASE AcceptBeaconBlock(b)
  <2> DEFINE q == InsertNew(beaconPool, b)
  <2>1. ~IsRefused(beaconPool, b) /\ beaconPool' = PromotePending(q)
    BY <1>3 DEF AcceptBeaconBlock
  <2>2. Sound(q, top) /\ HeldIn(q, top) = HeldIn(beaconPool, top) \union {b.height} /\ Leads(q, top)
    BY <1>1, <1>2, <2>1, InsertNewKeepsSound, InsertNewIsHeld
  <2> HIDE DEF q
  <2> QED BY <1>1, <2>1, <2>2, PromotionKeepsHeld
<1>4. CASE RejectBeaconBlock(b)
  <2>1. PICK c \in {beaconPool.conflictedPool, beaconPool.conflictedPool \union {b}} :
          beaconPool' = [beaconPool EXCEPT !.cache = CacheGet(beaconPool.cache, b), !.conflictedPool = c]
    BY <1>4 DEF RejectBeaconBlock
  <2>2. /\ beaconPool'.validPool = beaconPool.validPool
        /\ beaconPool'.latestValidHeight = beaconPool.latestValidHeight
        /\ beaconPool'.pendingPool = beaconPool.pendingPool
    BY <1>1, <2>1 DEF Pool
  <2> QED BY <1>1, <2>2 DEF HeldIn, Leads, Aligned
<1> QED BY <1>3, <1>4 DEF OnBlockBeaconReceived

\* The ticker and what follows an insertion forget no block above the chain.
LEMMA TickerKeepsHeld ==
  ASSUME PoolInv, FollowsPool, TickRemoveBlock \/ TickCleanOldBlock \/ TickPromotePendingPool
  PROVE  FollowsPool' /\ beaconBest' = beaconBest /\ BeaconHeld' = BeaconHeld
<1> DEFINE top == beaconBest.height
<1>1. /\ top \in Nat /\ UNCHANGED <<beaconBest, beaconStored, beaconInsert>>
      /\ Sound(beaconPool, top) /\ beaconPool \in Pool /\ Leads(beaconPool, top)
  BY HeightType DEF PoolInv, Sound, FollowsPool, TickRemoveBlock, TickCleanOldBlock, TickPromotePendingPool,
                    beaconChainVars
<1> SUFFICES HeldIn(beaconPool', top) = HeldIn(beaconPool, top) /\ Leads(beaconPool', top)
  BY <1>1 DEF FollowsPool, BeaconHeld
<1>2. CASE TickRemoveBlock
  <2>1. PICK height \in 1..beaconBest.height : beaconPool' = RemovedBlock(beaconPool, height)
    BY <1>2 DEF TickRemoveBlock
  <2>2. height \in Nat /\ height <= top
    BY <1>1
  <2> QED BY <1>1, <2>1, <2>2, RemovedKeepsHeld
<1>3. CASE TickCleanOldBlock
  <2>1. PICK height \in 1..beaconBest.height : beaconPool' = CleanedOldBlock(beaconPool, height)
    BY <1>3 DEF TickCleanOldBlock
  <2>2. height \in Nat /\ height <= top
    BY <1>1
  <2>3. /\ beaconPool' \in Pool /\ beaconPool'.validPool = beaconPool.validPool
        /\ beaconPool'.latestValidHeight = beaconPool.latestValidHeight
        /\ beaconPool'.pendingPool = {b \in beaconPool.pendingPool : b.height > height}
    BY <1>1, <2>1 DEF CleanedOldBlock, Pool
  <2> HIDE DEF top
  <2> QED BY <1>1, <2>2, <2>3, CleanedKeepsHeld
<1>4. CASE TickPromotePendingPool
  BY <1>1, <1>4, PromotionKeepsHeld DEF TickPromotePendingPool
<1> QED BY <1>2, <1>3, <1>4

\* The steps of InsertBeaconBlock after the best state in memory has changed.
LEMMA InsertStepKeepsHeld ==
  ASSUME PoolInv, FollowsPool, InsertStep
  PROVE  FollowsPool' /\ beaconBest' = beaconBest /\ BeaconHeld' = BeaconHeld
<1>1. /\ beaconBest.height \in Nat /\ Sound(beaconPool, beaconBest.height)
      /\ Leads(beaconPool, beaconBest.height) /\ beaconPool.latestValidHeight \in Nat
  BY HeightType DEF PoolInv, Sound, FollowsPool, Pool
<1>2. CASE StoreBestState
  BY <1>2 DEF StoreBestState, FollowsPool, BeaconHeld
<1>3. CASE SetBeaconStateTest
  <2>1. ~(beaconPool.latestValidHeight < beaconBest.height)
    BY <1>1 DEF Leads
  <2> QED BY <1>3, <2>1 DEF SetBeaconStateTest, FollowsPool, BeaconHeld
<1>4. CASE SetBeaconStateWrite
  BY <1>4 DEF SetBeaconStateWrite, FollowsPool
<1>5. CASE InsertRemoveBlock
  <2>1. /\ beaconPool' = RemovedBlock(beaconPool, beaconBest.height)
        /\ beaconInsert' = "idle" /\ beaconBest' = beaconBest
    BY <1>5 DEF InsertRemoveBlock
  <2>2. /\ HeldIn(RemovedBlock(beaconPool, beaconBest.height), beaconBest.height) = BeaconHeld
        /\ Leads(RemovedBlock(beaconPool, beaconBest.height), beaconBest.height)
    BY <1>1, RemovedKeepsHeld DEF BeaconHeld
  <2> QED BY <2>1, <2>2 DEF FollowsPool, BeaconHeld
<1> QED BY <1>2, <1>3, <1>4, <1>5 DEF InsertStep

\* InsertBeaconBlockFromPool: the block inserted is the next one and its successor
\* is held.
LEMMA HeadIsInserted ==
  ASSUME PoolInv, FollowsPool, beaconPool.validPool # <<>>, UpdateBestState(Head(beaconPool.validPool))
  PROVE  /\ FollowsPool'
         /\ Head(beaconPool.validPool) \in Block
         /\ beaconBest'.height = beaconBest.height + 1
         /\ {beaconBest.height + 1, beaconBest.height + 2} \subseteq BeaconHeld
         /\ BeaconHeld' = BeaconHeld \ {beaconBest.height + 1}
<1> DEFINE top == beaconBest.height
           b == Head(beaconPool.validPool)
<1>1. /\ top \in Nat /\ Sound(beaconPool, top) /\ beaconPool \in Pool /\ Leads(beaconPool, top)
      /\ beaconPool.validPool \in Seq(Block)
  BY HeightType DEF PoolInv, Sound, FollowsPool, Pool
<1>2. b \in Block
  BY <1>1, HeadTailProperties
<1>3. Parent[b] = beaconBest /\ beaconBest' = b /\ beaconInsert' = "updated" /\ beaconPool' = beaconPool
  BY DEF UpdateBestState
<1> HIDE DEF b
<1>4. b.height = top + 1
  <2>1. Parent[b].height = b.height - 1 /\ b.height \in Nat
    BY <1>2, BlockAssumption, HeightType
  <2> QED BY <1>3, <2>1
<1>5. {top + 1, top + 2} \subseteq HeldIn(beaconPool, top) /\ Leads(beaconPool, top + 1)
  BY <1>1, <1>4, HeadIsCertified DEF b
<1>6. HeldIn(beaconPool, top + 1) = HeldIn(beaconPool, top) \ {top + 1}
  BY <1>1, GrowthReleases
<1> QED BY <1>2, <1>3, <1>4, <1>5, <1>6 DEF FollowsPool, BeaconHeld, b

-----------------------------------------------------------------------------
\* The pool of shard blocks.

\* ValidPoolIsOneBranch, for a sequence of blocks.
OneBranch(v) == \A i \in 1..(Len(v) - 1) : Parent[v[i + 1]] = v[i]

\* ValidIsConfirmed, for a pool p and the height known to the beacon chain.
Confirmed(p, known) == \A i \in 1..Len(p.validPool) : p.validPool[i].height <= known

\* A block that pushes the last valid one out has the height after
\* latestValidHeight: what is left skips no height only because latestValidHeight
\* is never below the last valid block.
LatestIsTip(p) == p.validPool # <<>> => Last(p.validPool).height <= p.latestValidHeight

\* What is shown of a pool, the height of the chain and the height known to the
\* beacon chain.
ShardSound(p, top, known) ==
  /\ p \in Pool
  /\ OneBranch(p.validPool)
  /\ Covered(p, top, p.latestValidHeight)
  /\ LatestIsTip(p)
  /\ Confirmed(p, known)
  /\ Bounded(p)

ShardPoolInv ==
  /\ shardKnown \in Nat
  /\ shardBest \in Block \union {Genesis}
  /\ shardStored \in Block \union {Genesis}
  /\ shardInsert \in {"idle", "updated", "set", "stored"}
  /\ shardLocked \in BOOLEAN
  /\ ShardSound(shardPool, shardBest.height, shardKnown)

-----------------------------------------------------------------------------
\* The cache.

\* The function that CacheAddAll is defined by exists, whatever the number of
\* blocks: a function for n blocks gives one for n + 1.
LEMMA CacheAddAllExists ==
  ASSUME NEW c \in Seq(Block), NEW blks \in Seq(Block), NEW size \in Nat
  PROVE  \E f \in [0..Len(blks) -> Seq(Block)] :
           \A i \in 0..Len(blks) : f[i] = IF i = 0 THEN c ELSE CacheAdd(f[i - 1], blks[i], size)
<1> DEFINE E(m) == \E f \in [0..m -> Seq(Block)] :
                     \A i \in 0..m : f[i] = IF i = 0 THEN c ELSE CacheAdd(f[i - 1], blks[i], size)
           T == {m \in Nat : m <= Len(blks) /\ ~E(m)}
<1>0. Len(blks) \in Nat
  BY LenProperties
<1>1. E(0)
  <2> DEFINE f == [i \in 0..0 |-> c]
  <2>1. f \in [0..0 -> Seq(Block)]
    OBVIOUS
  <2>2. \A i \in 0..0 : f[i] = IF i = 0 THEN c ELSE CacheAdd(f[i - 1], blks[i], size)
    OBVIOUS
  <2> QED BY <2>1, <2>2
<1>2. ASSUME NEW m \in Nat, m + 1 <= Len(blks), E(m) PROVE E(m + 1)
  <2>1. PICK f \in [0..m -> Seq(Block)] :
               \A i \in 0..m : f[i] = IF i = 0 THEN c ELSE CacheAdd(f[i - 1], blks[i], size)
    BY <1>2
  <2> DEFINE last == CacheAdd(f[m], blks[m + 1], size)
             g == [i \in 0..(m + 1) |-> IF i = m + 1 THEN last ELSE f[i]]
  <2>2. blks[m + 1] \in Block /\ f[m] \in Seq(Block)
    <3>1. m + 1 \in 1..Len(blks) /\ m \in 0..m
      BY <1>0, <1>2
    <3> QED BY <2>1, <3>1, ElementOfSeq
  <2>3. last \in Seq(Block)
    BY <2>2, CacheType
  <2>4. g \in [0..(m + 1) -> Seq(Block)]
    <3> HIDE DEF last
    <3> QED BY <2>1, <2>3
  <2>5. ASSUME NEW i \in 0..(m + 1)
        PROVE  g[i] = IF i = 0 THEN c ELSE CacheAdd(g[i - 1], blks[i], size)
    <3>1. CASE i = m + 1
      <4>1. g[i] = last /\ i # 0 /\ i - 1 = m /\ g[m] = f[m]
        BY <3>1
      <4> HIDE DEF g
      <4> QED BY <3>1, <4>1
    <3>2. CASE i # m + 1
      <4>1. i \in 0..m /\ g[i] = f[i] /\ (i # 0 => g[i - 1] = f[i - 1])
        BY <3>2
      <4> HIDE DEF g
      <4> QED BY <2>1, <4>1
    <3> QED BY <3>1, <3>2
  <2> HIDE DEF g, last
  <2> QED BY <2>4, <2>5
<1> HIDE DEF E
<1>3. T = {}
  <2> SUFFICES ASSUME T # {} PROVE FALSE
    OBVIOUS
  <2>1. PICK m \in T : \A k \in T : m <= k
    BY LeastNatural
  <2>2. m # 0 /\ m \in Nat /\ m <= Len(blks)
    BY <1>1, <2>1
  <2>3. m - 1 \in Nat /\ m - 1 <= Len(blks) /\ m - 1 \notin T
    BY <1>0, <2>1, <2>2
  <2>4. E(m - 1)
    BY <2>3
  <2>5. E((m - 1) + 1)
    BY <1>2, <2>2, <2>3, <2>4
  <2> QED BY <2>1, <2>2, <2>5
<1>4. E(Len(blks))
  BY <1>0, <1>3
<1> QED BY <1>4 DEF E

\* The cache keeps to blocks when many are added.
LEMMA CacheAddAllType ==
  ASSUME NEW c \in Seq(Block), NEW blks \in Seq(Block), NEW size \in Nat
  PROVE  CacheAddAll(c, blks, size) \in Seq(Block)
<1> DEFINE n == Len(blks)
           Adds(f) == f = [i \in 0..n |-> IF i = 0 THEN c ELSE CacheAdd(f[i - 1], blks[i], size)]
           added == CHOOSE f : Adds(f)
           T == {i \in Nat : i <= n /\ added[i] \notin Seq(Block)}
<1>1. n \in Nat
  BY LenProperties
<1>2. \E f : Adds(f)
  <2>0. \E f \in [0..n -> Seq(Block)] :
          \A i \in 0..n : f[i] = IF i = 0 THEN c ELSE CacheAdd(f[i - 1], blks[i], size)
    BY CacheAddAllExists, Zenon
  <2>1. PICK f \in [0..n -> Seq(Block)] :
               \A i \in 0..n : f[i] = IF i = 0 THEN c ELSE CacheAdd(f[i - 1], blks[i], size)
    BY <2>0, Zenon
  <2>2. f = [i \in 0..n |-> f[i]]
    OBVIOUS
  <2>3. Adds(f)
    BY <2>1, <2>2
  <2> QED BY <2>3
<1>3. Adds(added)
  BY <1>2, Zenon
<1>4. \A i \in 0..n : added[i] = IF i = 0 THEN c ELSE CacheAdd(added[i - 1], blks[i], size)
  BY <1>3
<1>5. CacheAddAll(c, blks, size) = added[n]
  BY DEF CacheAddAll
<1> HIDE DEF added, n
<1>6. T = {}
  <2> SUFFICES ASSUME T # {} PROVE FALSE
    OBVIOUS
  <2>1. PICK m \in T : \A k \in T : m <= k
    BY LeastNatural
  <2>2. m # 0
    BY <1>1, <1>4, <2>1
  <2>3. m - 1 \in Nat /\ m - 1 <= n /\ m - 1 \notin T /\ m \in 1..n /\ m \in 0..n
    BY <1>1, <2>1, <2>2
  <2>4. added[m - 1] \in Seq(Block)
    BY <2>3
  <2>5. added[m] = CacheAdd(added[m - 1], blks[m], size)
    BY <1>4, <2>2, <2>3
  <2>6. blks[m] \in Block
    BY <2>3, ElementOfSeq DEF n
  <2>7. added[m] \in Seq(Block)
    BY <2>4, <2>5, <2>6, CacheType
  <2> QED BY <2>1, <2>7
<1>7. added[n] \in Seq(Block)
  BY <1>1, <1>6
<1> QED BY <1>5, <1>7

-----------------------------------------------------------------------------
\* promotePendingPool.

\* The loop ends, at the latest when the valid pool is full, and ShardPromotedTo
\* is where.
LEMMA ShardPromotionEnds ==
  ASSUME NEW p \in Pool
  PROVE  LET e == ShardPromotedTo(p)
         IN /\ e \in Nat /\ e >= p.latestValidHeight
            /\ \A h \in (p.latestValidHeight + 1)..e : ShardPromotable(p, h)
            /\ ~ShardPromotable(p, e + 1)
<1> DEFINE l == p.latestValidHeight
           T == {k \in Nat : k > l /\ ~ShardPromotable(p, k)}
           E(e) == /\ e >= l
                   /\ \A h \in (l + 1)..e : ShardPromotable(p, h)
                   /\ ~ShardPromotable(p, e + 1)
<1>1. l \in Nat /\ Len(p.validPool) \in Nat /\ p.pendingPool \in SUBSET Block
  BY DEF Pool
<1>2. l + MaxValidBlock + 1 \in T
  BY <1>1 DEF ShardPromotable
<1>3. PICK k \in T : \A j \in T : k <= j
  BY <1>2, LeastNatural
<1> DEFINE e == k - 1
<1>4. e \in Nat /\ e >= l /\ ~ShardPromotable(p, e + 1)
  BY <1>1, <1>3
<1>5. \A h \in (l + 1)..e : ShardPromotable(p, h)
  BY <1>1, <1>3
<1>6. e \in {l} \union HeightsOf(p.pendingPool)
  <2>1. CASE e = l
    BY <2>1
  <2>2. CASE e # l
    <3>1. ShardPromotable(p, e)
      BY <1>1, <1>4, <1>5, <2>2
    <3> QED BY <3>1 DEF ShardPromotable, HeightsOf
  <2> QED BY <2>1, <2>2
<1>7. E(e)
  BY <1>4, <1>5
<1> HIDE DEF E, e
<1>8. \E x \in {l} \union HeightsOf(p.pendingPool) : E(x)
  BY <1>6, <1>7
<1>9. ShardPromotedTo(p) = CHOOSE x \in {l} \union HeightsOf(p.pendingPool) : E(x)
  BY DEF ShardPromotedTo, E
<1>10. ShardPromotedTo(p) \in {l} \union HeightsOf(p.pendingPool) /\ E(ShardPromotedTo(p))
  BY <1>8, <1>9
<1>11. ShardPromotedTo(p) \in Nat
  BY <1>1, <1>10, HeightType DEF HeightsOf
<1> QED BY <1>10, <1>11 DEF E

\* One sequence of blocks behind another.
LEMMA ConcatOfBlocks ==
  ASSUME NEW v \in Seq(Block), NEW t \in Seq(Block)
  PROVE  /\ v \o t \in Seq(Block)
         /\ Len(v \o t) = Len(v) + Len(t)
         /\ \A i \in 1..Len(v) : (v \o t)[i] = v[i]
         /\ \A i \in 1..Len(t) : (v \o t)[Len(v) + i] = t[i]
<1>1. /\ v \o t \in Seq(Block)
      /\ Len(v \o t) = Len(v) + Len(t)
      /\ \A i \in 1..(Len(v) + Len(t)) : (v \o t)[i] = IF i <= Len(v) THEN v[i] ELSE t[i - Len(v)]
  BY ConcatProperties
<1>2. Len(v) \in Nat /\ Len(t) \in Nat
  BY LenProperties
<1>3. \A i \in 1..Len(v) : (v \o t)[i] = v[i]
  BY <1>1, <1>2
<1>4. ASSUME NEW i \in 1..Len(t) PROVE (v \o t)[Len(v) + i] = t[i]
  <2>1. Len(v) + i \in 1..(Len(v) + Len(t)) /\ ~(Len(v) + i <= Len(v)) /\ Len(v) + i - Len(v) = i
    BY <1>2
  <2> QED BY <1>1, <2>1
<1> QED BY <1>1, <1>3, <1>4

\* A block behind a sequence of blocks.
LEMMA AppendOfBlocks ==
  ASSUME NEW v \in Seq(Block), NEW b \in Block
  PROVE  /\ Append(v, b) \in Seq(Block) /\ Append(v, b) # <<>>
         /\ Len(Append(v, b)) = Len(v) + 1 /\ Append(v, b)[Len(v) + 1] = b
         /\ \A i \in 1..Len(v) : Append(v, b)[i] = v[i]
  BY AppendProperties

\* A sequence of blocks in two parts.
LEMMA SplitOfBlocks ==
  ASSUME NEW v \in Seq(Block), NEW n \in 0..Len(v)
  PROVE  LET w == SubSeq(v, n + 1, Len(v))
         IN /\ SubSeq(v, 1, n) \in Seq(Block)
            /\ w \in Seq(Block) /\ Len(w) = Len(v) - n
            /\ \A i \in 1..(Len(v) - n) : w[i] = v[n + i]
<1> DEFINE m == Len(v)
           w == SubSeq(v, n + 1, m)
<1>1. m \in Nat /\ n \in Nat /\ n <= m
  BY LenProperties
<1>2. SubSeq(v, 1, n) \in Seq(Block)
  BY SubSeqProperties
<1>3. n + 1 \in 1..(m + 1) /\ m \in n..m /\ m - (n + 1) + 1 = m - n
  <2> HIDE DEF m
  <2> QED BY <1>1
<1>a. \A i \in (n + 1)..m : v[i] \in Block
  BY <1>1, ElementOfSeq
<1>4. w \in Seq(Block) /\ Len(w) = m - (n + 1) + 1
  <2>1. w \in Seq(Block) /\ Len(w) = IF n + 1 <= m THEN m - (n + 1) + 1 ELSE 0
    BY <1>1, <1>a, SubSeqProperties
  <2> HIDE DEF w, m
  <2> QED BY <1>1, <2>1
<1>5. \A i \in 1..(m - (n + 1) + 1) : w[i] = v[n + 1 + i - 1]
  BY <1>1, <1>3, SubSeqProperties
<1> HIDE DEF w, m
<1>6. \A i \in 1..(m - n) : w[i] = v[n + i]
  <2>1. \A i \in 1..(m - n) : n + 1 + i - 1 = n + i
    BY <1>1
  <2> QED BY <1>3, <1>5, <2>1
<1> QED BY <1>2, <1>3, <1>4, <1>6 DEF w, m

\* Two neighbours of a subsequence that starts behind n are neighbours.
LEMMA ShiftedNeighbours ==
  ASSUME NEW m \in Nat, NEW n \in Nat, n <= m, NEW i \in 1..((m - n) - 1)
  PROVE  i \in 1..(m - n) /\ i + 1 \in 1..(m - n) /\ n + i \in 1..(m - 1) /\ n + (i + 1) = (n + i) + 1
  OBVIOUS

\* What the loop of a promotion does to a pool with one pending block per height.
LEMMA TakePendingResult ==
  ASSUME NEW p \in Pool, \A a, b \in p.pendingPool : a.height = b.height => a = b
  PROVE  LET q == TakePending(p)
             e == ShardPromotedTo(p)
             n == e - p.latestValidHeight
             m == Len(p.validPool)
         IN /\ q \in Pool
            /\ n \in Nat
            /\ q.latestValidHeight = e
            /\ q.pendingPool = {b \in p.pendingPool : b.height \notin (p.latestValidHeight + 1)..e}
            /\ Len(q.validPool) = m + n
            /\ \A i \in 1..m : q.validPool[i] = p.validPool[i]
            /\ \A i \in 1..n :
                 /\ q.validPool[m + i] \in p.pendingPool
                 /\ q.validPool[m + i].height = p.latestValidHeight + i
                 /\ p.latestValidHeight + i <= shardKnown
                 /\ i = 1 => Continues(p.validPool, q.validPool[m + i])
                 /\ i # 1 => Parent[q.validPool[m + i]] \in p.pendingPool
<1> DEFINE e == ShardPromotedTo(p)
           l == p.latestValidHeight
           n == e - l
           m == Len(p.validPool)
           taken == [i \in 1..n |-> At(p.pendingPool, l + i)]
           rest == {b \in p.pendingPool : b.height \notin (l + 1)..e}
           q == TakePending(p)
<1>1. /\ l \in Nat /\ m \in Nat /\ p.validPool \in Seq(Block) /\ p.pendingPool \in SUBSET Block
      /\ e \in Nat /\ n \in Nat
      /\ \A h \in (l + 1)..e : ShardPromotable(p, h)
  BY ShardPromotionEnds DEF Pool
<1> HIDE DEF e
<1>2. ASSUME NEW i \in 1..n
      PROVE  LET b == At(p.pendingPool, l + i)
             IN /\ b \in p.pendingPool
                /\ b.height = l + i
                /\ l + i <= shardKnown
                /\ i = 1 => Continues(p.validPool, b)
                /\ i # 1 => Parent[b] \in p.pendingPool
  <2>1. ShardPromotable(p, l + i)
    BY <1>1
  <2>2. PICK b \in p.pendingPool : /\ b.height = l + i /\ l + i <= shardKnown
                                   /\ IF l + i = l + 1 THEN Continues(p.validPool, b)
                                      ELSE Parent[b] \in p.pendingPool
    BY <2>1 DEF ShardPromotable
  <2>3. l + i \in HeightsOf(p.pendingPool)
    BY <2>2 DEF HeightsOf
  <2>4. At(p.pendingPool, l + i) \in p.pendingPool /\ At(p.pendingPool, l + i).height = l + i
    BY <1>1, <2>3, AtFound
  <2>5. At(p.pendingPool, l + i) = b
    BY <2>2, <2>4
  <2>6. l + i = l + 1 <=> i = 1
    BY <1>1
  <2> QED BY <2>2, <2>5, <2>6, Zenon
<1>3. taken \in Seq(Block) /\ Len(taken) = n
  <2>1. \A i \in 1..n : At(p.pendingPool, l + i) \in Block
    BY <1>1, <1>2
  <2>2. taken \in [1..n -> Block]
    BY <2>1
  <2> HIDE DEF taken, n
  <2> QED BY <1>1, <2>2, LenProperties, IsASeq
<1>4. \A i \in 1..n : taken[i] = At(p.pendingPool, l + i)
  BY DEF taken
<1> HIDE DEF taken, n
<1>5. /\ p.validPool \o taken \in Seq(Block)
      /\ Len(p.validPool \o taken) = m + n
      /\ \A i \in 1..m : (p.validPool \o taken)[i] = p.validPool[i]
      /\ \A i \in 1..n : (p.validPool \o taken)[m + i] = taken[i]
  BY <1>1, <1>3, ConcatOfBlocks
<1>6. q = [p EXCEPT !.validPool = p.validPool \o taken,
                    !.pendingPool = rest,
                    !.latestValidHeight = e]
  BY DEF TakePending, e, n, taken
<1> HIDE DEF q
<1>7. /\ q \in Pool /\ q.validPool = p.validPool \o taken /\ q.latestValidHeight = e
      /\ q.pendingPool = rest
  BY <1>1, <1>5, <1>6 DEF Pool
<1> HIDE DEF rest
<1>8. \A i \in 1..n : q.validPool[m + i] = At(p.pendingPool, l + i)
  BY <1>4, <1>5, <1>7
<1>9. Len(q.validPool) = m + n /\ \A i \in 1..m : q.validPool[i] = p.validPool[i]
  BY <1>5, <1>7
<1> HIDE DEF m, l
<1> DEFINE Follows(i) == /\ q.validPool[m + i] \in p.pendingPool
                         /\ q.validPool[m + i].height = l + i
                         /\ l + i <= shardKnown
                         /\ i = 1 => Continues(p.validPool, q.validPool[m + i])
                         /\ i # 1 => Parent[q.validPool[m + i]] \in p.pendingPool
<1>10. \A i \in 1..n : Follows(i)
  BY <1>2, <1>8, Zenon
<1> HIDE DEF Follows
<1>11. /\ q \in Pool
       /\ n \in Nat
       /\ q.latestValidHeight = e
       /\ q.pendingPool = rest
       /\ Len(q.validPool) = m + n
       /\ \A i \in 1..m : q.validPool[i] = p.validPool[i]
       /\ \A i \in 1..n : Follows(i)
  BY <1>1, <1>7, <1>9, <1>10
<1> QED BY <1>11 DEF e, n, q, m, l, rest, Follows

\* The loop of promotePendingPool keeps a pool sound.
LEMMA TakePendingKeepsSound ==
  ASSUME NEW top \in Nat, shardKnown \in Nat, NEW p, ShardSound(p, top, shardKnown)
  PROVE  ShardSound(TakePending(p), top, shardKnown)
<1> DEFINE q == TakePending(p)
           e == ShardPromotedTo(p)
           l == p.latestValidHeight
           n == e - l
           v == p.validPool
           w == q.validPool
           m == Len(v)
<1>1. /\ p \in Pool /\ v \in Seq(Block) /\ m \in Nat /\ l \in Nat /\ p.pendingPool \in SUBSET Block
      /\ \A a, b \in p.pendingPool : a.height = b.height => a = b
      /\ OneBranch(v) /\ Covered(p, top, l) /\ LatestIsTip(p) /\ Confirmed(p, shardKnown) /\ Bounded(p)
  BY DEF ShardSound, Bounded, Pool
<1>2. e \in Nat /\ \A h \in (l + 1)..e : ShardPromotable(p, h)
  BY <1>1, ShardPromotionEnds
<1>3. /\ q \in Pool /\ n \in Nat
      /\ q.latestValidHeight = e
      /\ q.pendingPool = {b \in p.pendingPool : b.height \notin (l + 1)..e}
      /\ Len(w) = m + n
      /\ \A i \in 1..m : w[i] = v[i]
      /\ \A i \in 1..n : /\ w[m + i] \in p.pendingPool
                         /\ w[m + i].height = l + i
                         /\ l + i <= shardKnown
                         /\ i = 1 => Continues(v, w[m + i])
                         /\ i # 1 => Parent[w[m + i]] \in p.pendingPool
  BY <1>1, TakePendingResult, Zenon
<1> HIDE DEF q, e
<1>4. w \in Seq(Block) /\ q.pendingPool \in SUBSET Block
  BY <1>3 DEF Pool
<1>5. Len(w) \in Nat /\ e = l + n
  <2>1. e \in Nat /\ l \in Nat /\ m \in Nat /\ n \in Nat /\ Len(w) = m + n
    BY <1>1, <1>2, <1>3
  <2> HIDE DEF w, m, v, l
  <2> QED BY <2>1
<1> HIDE DEF w, l, n
<1>6. OneBranch(w)
  <2> SUFFICES ASSUME NEW k \in 1..(Len(w) - 1) PROVE Parent[w[k + 1]] = w[k]
    BY DEF OneBranch
  <2>1. CASE k < m
    <3>1. k \in 1..m /\ k + 1 \in 1..m /\ k \in 1..(m - 1)
      BY <1>1, <2>1
    <3>2. w[k] = v[k] /\ w[k + 1] = v[k + 1]
      BY <1>3, <3>1
    <3> QED BY <1>1, <3>1, <3>2 DEF OneBranch
  <2>2. CASE k = m
    <3>1. 1 \in 1..n /\ m # 0 /\ m \in 1..m
      BY <1>1, <1>3, <1>5, <2>2
    <3>2. Continues(v, w[m + 1])
      BY <1>3, <3>1
    <3>3. v # <<>> /\ Last(v) = v[m]
      BY <1>1, <3>1, EmptySeq, LastOfSeq
    <3>4. w[m] = v[m]
      BY <1>3, <3>1
    <3> QED BY <2>2, <3>2, <3>3, <3>4 DEF Continues
  <2>3. CASE k > m
    <3> DEFINE i == k - m
    <3>1. i \in 1..n /\ i + 1 \in 1..n /\ k = m + i /\ k + 1 = m + (i + 1) /\ i + 1 # 1
      BY <1>1, <1>3, <1>5, <2>3
    <3> HIDE DEF i
    <3>2. /\ w[k] \in p.pendingPool /\ w[k].height = l + i
          /\ w[k + 1] \in p.pendingPool /\ w[k + 1].height = l + (i + 1)
          /\ Parent[w[k + 1]] \in p.pendingPool
      BY <1>3, <3>1
    <3>3. Parent[w[k + 1]].height = w[k + 1].height - 1
      BY <1>1, <3>2, BlockAssumption, Zenon
    <3>4. Parent[w[k + 1]].height = w[k].height
      BY <1>1, <3>1, <3>2, <3>3
    <3> QED BY <1>1, <3>2, <3>4
  <2> QED BY <1>1, <1>5, <2>1, <2>2, <2>3
<1>7. Covered(q, top, e)
  <2> SUFFICES ASSUME NEW i \in Nat, top < i, i <= e PROVE i \in HeightsOf(Range(w))
    BY DEF Covered, w
  <2>1. CASE i <= l
    <3>1. i \in HeightsOf(Range(v))
      BY <1>1, <2>1 DEF Covered
    <3>2. PICK j \in 1..Len(v) : v[j].height = i
      BY <1>1, <3>1, HeightsOfSeq
    <3>3. j \in 1..Len(w) /\ w[j].height = i
      BY <1>1, <1>3, <3>2
    <3> QED BY <1>4, <3>3, HeightsOfSeq
  <2>2. CASE ~(i <= l)
    <3> DEFINE k == i - l
    <3>1. k \in 1..n /\ l + k = i
      BY <1>1, <1>3, <1>5, <2>2
    <3> HIDE DEF k
    <3>2. m + k \in 1..Len(w)
      BY <1>1, <1>3, <1>5, <3>1
    <3>3. w[m + k].height = i
      BY <1>3, <3>1
    <3> QED BY <1>4, <3>2, <3>3, HeightsOfSeq
  <2> QED BY <2>1, <2>2
<1>8. LatestIsTip(q)
  <2> SUFFICES ASSUME w # <<>> PROVE Last(w).height <= e
    BY <1>3 DEF LatestIsTip, w
  <2>1. Len(w) # 0 /\ Last(w) = w[Len(w)]
    BY <1>4, LastOfSeq
  <2>2. CASE n = 0
    <3>1. Len(w) = m /\ m \in 1..m /\ e = l
      BY <1>1, <1>3, <1>5, <2>1, <2>2
    <3>2. v # <<>> /\ Last(v) = v[m]
      BY <1>1, <3>1, EmptySeq, LastOfSeq
    <3>3. w[m] = v[m]
      BY <1>3, <3>1
    <3> QED BY <1>1, <2>1, <3>1, <3>2, <3>3 DEF LatestIsTip, l
  <2>3. CASE n # 0
    <3>1. n \in 1..n /\ Len(w) = m + n
      BY <1>3, <2>3
    <3>2. w[Len(w)].height = l + n
      BY <1>3, <3>1
    <3> QED BY <1>2, <1>5, <2>1, <3>2
  <2> QED BY <2>2, <2>3
<1>9. Confirmed(q, shardKnown)
  <2> SUFFICES ASSUME NEW k \in 1..Len(w) PROVE w[k].height <= shardKnown
    BY DEF Confirmed, w
  <2>1. CASE k <= m
    <3>1. k \in 1..m
      BY <1>1, <2>1
    <3>2. w[k] = v[k]
      BY <1>3, <3>1
    <3> QED BY <1>1, <3>1, <3>2 DEF Confirmed
  <2>2. CASE ~(k <= m)
    <3> DEFINE i == k - m
    <3>1. i \in 1..n /\ k = m + i
      BY <1>1, <1>3, <1>5, <2>2
    <3> HIDE DEF i
    <3> QED BY <1>3, <3>1
  <2> QED BY <2>1, <2>2
<1>10. Bounded(q)
  <2>1. IsFiniteSet(p.pendingPool) /\ Cardinality(p.pendingPool) <= MaxPendingBlock /\ m <= MaxValidBlock
    BY <1>1 DEF Bounded
  <2>2. IsFiniteSet(q.pendingPool) /\ Cardinality(q.pendingPool) <= Cardinality(p.pendingPool)
    BY <1>3, <2>1, FS_Subset
  <2>3. Cardinality(q.pendingPool) \in Nat /\ Cardinality(p.pendingPool) \in Nat
    BY <2>1, <2>2, FS_CardinalityType
  <2>4. Cardinality(q.pendingPool) <= MaxPendingBlock
    BY <2>1, <2>2, <2>3
  <2>5. Len(w) <= MaxValidBlock
    <3>1. CASE n = 0
      BY <1>1, <1>3, <2>1, <3>1
    <3>2. CASE n # 0
      <4>1. e \in (l + 1)..e
        BY <1>1, <1>2, <1>3, <1>5, <3>2
      <4>2. ShardPromotable(p, e)
        BY <1>2, <4>1
      <4>3. m + e - l <= MaxValidBlock
        BY <4>2 DEF ShardPromotable, l
      <4>4. /\ e = l + n /\ Len(w) = m + n
            /\ l \in Nat /\ m \in Nat /\ n \in Nat
        BY <1>1, <1>3, <1>5
      <4> HIDE DEF m, v, q
      <4> QED BY <4>3, <4>4
    <3> QED BY <3>1, <3>2
  <2> QED BY <1>1, <1>3, <2>2, <2>4, <2>5 DEF Bounded, w
<1> QED BY <1>3, <1>6, <1>7, <1>8, <1>9, <1>10 DEF ShardSound, q, w

\* The last valid block gives way: the block before it is the last one then, and
\* the heights up to it are those of the blocks that are left.
LEMMA PushOutLastKeepsSound ==
  ASSUME NEW top \in Nat, top = shardBest.height, shardKnown \in Nat,
         NEW p, ShardSound(p, top, shardKnown), NEW b \in Block, ~Continues(p.validPool, b),
         Bounded([p EXCEPT !.pendingPool = p.pendingPool \union {b}])
  PROVE  ShardSound(PushOutLast(p, b), top, shardKnown)
<1> DEFINE v == p.validPool
           m == Len(v)
           w == SubSeq(v, 1, m - 1)
           q == PushOutLast(p, b)
           r == [p EXCEPT !.pendingPool = p.pendingPool \union {b}]
<1>1. /\ p \in Pool /\ v \in Seq(Block) /\ p.cache \in Seq(Block) /\ p.pendingPool \in SUBSET Block
      /\ p.latestValidHeight \in Nat
      /\ OneBranch(v) /\ Covered(p, top, p.latestValidHeight) /\ LatestIsTip(p) /\ Confirmed(p, shardKnown)
      /\ v # <<>>
  BY DEF ShardSound, Pool, Continues
<1>2. m \in Nat \ {0} /\ Last(v) = v[m] /\ Last(v) \in Block /\ Last(v).height \in Nat
  BY <1>1, LastOfSeq
<1>3. /\ w \in Seq(Block) /\ Len(w) = m - 1
      /\ \A i \in 1..(m - 1) : w[i] = v[i]
  <2>1. 1 \in 1..(m + 1) /\ m - 1 \in 0..m
    BY <1>2
  <2>2. w \in Seq(Block)
    BY <1>1, <2>1, SubSeqProperties
  <2>3. Len(w) = m - 1
    BY <1>1, <1>2, <2>1, SubSeqProperties
  <2>4. \A i \in 1..(m - 1) : w[i] = v[i]
    BY <1>1, <1>2, <2>1, SubSeqProperties
  <2> QED BY <2>2, <2>3, <2>4
<1>4. q = [p EXCEPT !.pendingPool = p.pendingPool \union {b}, !.validPool = w,
                    !.latestValidHeight = LatestShardStateOf(w),
                    !.cache = CacheAdd(p.cache, Last(v), CacheSize)]
  BY DEF PushOutLast, Front
<1> HIDE DEF m, w, q
<1>5. /\ w = <<>> => LatestShardStateOf(w) = top
      /\ w # <<>> => /\ m - 1 \in 1..(m - 1) /\ Last(w) = v[m - 1]
                     /\ LatestShardStateOf(w) = v[m - 1].height /\ v[m - 1].height \in Nat
                     /\ v[m].height = v[m - 1].height + 1
  <2>1. CASE w = <<>>
    BY <2>1 DEF LatestShardStateOf
  <2>2. CASE w # <<>>
    <3>1. Len(w) # 0 /\ Last(w) = w[Len(w)] /\ Last(w).height \in Nat
      BY <1>3, <2>2, LastOfSeq
    <3>2. m - 1 \in 1..(m - 1)
      BY <1>2, <1>3, <3>1
    <3>3. Last(w) = v[m - 1]
      BY <1>3, <3>1, <3>2
    <3>4. Parent[v[(m - 1) + 1]] = v[m - 1]
      BY <1>1, <3>2 DEF OneBranch, m
    <3>5. (m - 1) + 1 = m
      BY <1>2
    <3>6. Parent[v[m]] = v[m - 1]
      BY <3>4, <3>5
    <3>7. v[m] \in Block
      BY <1>2
    <3>8. Parent[v[m]].height = v[m].height - 1 /\ v[m].height \in Nat
      BY <3>7, BlockAssumption, Zenon
    <3>9. v[m].height = v[m - 1].height + 1
      BY <3>6, <3>8
    <3> QED BY <2>2, <3>1, <3>2, <3>3, <3>9 DEF LatestShardStateOf
  <2> QED BY <2>1, <2>2
<1>6. CacheAdd(p.cache, Last(v), CacheSize) \in Seq(Block) /\ LatestShardStateOf(w) \in Nat
  BY <1>1, <1>2, <1>5, CacheType
<1>7. /\ q \in Pool /\ q.validPool = w /\ q.latestValidHeight = LatestShardStateOf(w)
      /\ q.pendingPool = p.pendingPool \union {b}
  BY <1>1, <1>3, <1>4, <1>6 DEF Pool
<1>8. OneBranch(w)
  <2> SUFFICES ASSUME NEW i \in 1..(Len(w) - 1) PROVE Parent[w[i + 1]] = w[i]
    BY DEF OneBranch
  <2>1. i \in 1..(m - 1) /\ i + 1 \in 1..(m - 1)
    BY <1>2, <1>3
  <2>2. w[i] = v[i] /\ w[i + 1] = v[i + 1]
    BY <1>3, <2>1
  <2> QED BY <1>1, <2>1, <2>2 DEF OneBranch, m
<1>9. Covered(q, top, q.latestValidHeight)
  <2> SUFFICES ASSUME NEW i \in Nat, top < i, i <= LatestShardStateOf(w) PROVE i \in HeightsOf(Range(w))
    BY <1>7 DEF Covered
  <2>1. w # <<>>
    BY <1>5
  <2>2. i <= v[m - 1].height /\ i < v[m].height /\ v[m].height <= p.latestValidHeight
    <3>1. v[m].height <= p.latestValidHeight
      BY <1>1, <1>2, Zenon DEF LatestIsTip
    <3>2. i <= v[m - 1].height /\ v[m - 1].height \in Nat /\ v[m].height = v[m - 1].height + 1
      BY <1>5, <2>1
    <3> QED BY <3>1, <3>2
  <2>3. i \in HeightsOf(Range(v))
    <3>1. i <= p.latestValidHeight
      BY <1>1, <1>2, <2>2
    <3> QED BY <1>1, <3>1 DEF Covered
  <2>4. PICK j \in 1..m : v[j].height = i
    BY <1>1, <2>3, HeightsOfSeq DEF m
  <2>5. j \in 1..(m - 1)
    BY <1>2, <2>2, <2>4
  <2>6. j \in 1..Len(w) /\ w[j].height = i
    BY <1>3, <2>4, <2>5
  <2> QED BY <1>3, <2>6, HeightsOfSeq
<1>10. LatestIsTip(q)
  BY <1>5, <1>7 DEF LatestIsTip
<1>11. Confirmed(q, shardKnown)
  <2> SUFFICES ASSUME NEW i \in 1..Len(w) PROVE w[i].height <= shardKnown
    BY <1>7 DEF Confirmed
  <2>1. i \in 1..m /\ w[i] = v[i]
    BY <1>2, <1>3
  <2> QED BY <1>1, <2>1 DEF Confirmed, m
<1>12. Bounded(q)
  <2>1. r.pendingPool = q.pendingPool /\ r.validPool = v
    BY <1>1, <1>7 DEF Pool
  <2>2. Len(w) <= MaxValidBlock
    <3>1. m <= MaxValidBlock
      BY <2>1 DEF Bounded, m
    <3> QED BY <1>2, <1>3, <3>1
  <2> HIDE DEF r
  <2>3. Bounded(r)
    BY DEF r
  <2> QED BY <1>7, <2>1, <2>2, <2>3 DEF Bounded
<1> QED BY <1>7, <1>8, <1>9, <1>10, <1>11, <1>12 DEF ShardSound, q

\* promotePendingPool, with the block that the loop stops at.
LEMMA ShardPromotionKeepsSound ==
  ASSUME NEW top \in Nat, top = shardBest.height, shardKnown \in Nat, NEW p, ShardSound(p, top, shardKnown)
  PROVE  ShardSound(PromotePendingShard(p), top, shardKnown)
<1> DEFINE q == TakePending(p)
           b == CHOOSE x \in StopsAt(q) : TRUE
           r == [q EXCEPT !.cache = CacheGet(q.cache, b)]
<1>1. ShardSound(q, top, shardKnown)
  BY TakePendingKeepsSound
<1> HIDE DEF q
<1>2. q \in Pool /\ q.pendingPool \in SUBSET Block /\ q.cache \in Seq(Block)
  BY <1>1 DEF ShardSound, Pool
<1>3. StopsAt(q) # {} => b \in StopsAt(q) /\ b \in q.pendingPool /\ b \in Block
  BY <1>2 DEF StopsAt
<1> HIDE DEF b
<1>4. CASE StopsAt(q) = {}
  BY <1>1, <1>4 DEF PromotePendingShard, q
<1>5. CASE StopsAt(q) # {} /\ ~Continues(q.validPool, b) /\ PromotePendingShard(p) = PushOutLast(q, b)
  <2>1. q.pendingPool \union {b} = q.pendingPool
    BY <1>3, <1>5
  <2>2. Bounded([q EXCEPT !.pendingPool = q.pendingPool \union {b}])
    BY <1>1, <1>2, <2>1 DEF ShardSound, Bounded, Pool
  <2> QED BY <1>1, <1>3, <1>5, <2>2, PushOutLastKeepsSound
<1>6. CASE StopsAt(q) # {} /\ PromotePendingShard(p) = r
  <2>1. CacheGet(q.cache, b) \in Seq(Block)
    BY <1>2, <1>3, <1>6, CacheType
  <2>2. /\ r \in Pool /\ r.validPool = q.validPool /\ r.pendingPool = q.pendingPool
        /\ r.latestValidHeight = q.latestValidHeight
    BY <1>2, <2>1 DEF Pool
  <2> HIDE DEF r
  <2>3. ShardSound(r, top, shardKnown)
    BY <1>1, <2>2 DEF ShardSound, Covered, LatestIsTip, Confirmed, Bounded
  <2> QED BY <1>6, <2>3
<1> QED BY <1>4, <1>5, <1>6 DEF PromotePendingShard, q, b, r

\* A pending block that ValidateShardBlock lets through.
LEMMA AddedPendingBounded ==
  ASSUME NEW p \in Pool, Bounded(p), NEW b \in Block, ~IsRefusedShardBlock(p, b)
  PROVE  Bounded([p EXCEPT !.pendingPool = p.pendingPool \union {b}])
<1> DEFINE q == [p EXCEPT !.pendingPool = p.pendingPool \union {b}]
<1>1. q.validPool = p.validPool /\ q.pendingPool = p.pendingPool \union {b}
  BY DEF Pool
<1>2. /\ b.height \notin HeightsOf(p.pendingPool)
      /\ ~(Cardinality(p.pendingPool) >= MaxPendingBlock)
      /\ IsFiniteSet(p.pendingPool)
      /\ Cardinality(p.pendingPool) \in Nat
  BY FS_CardinalityType DEF IsRefusedShardBlock, Bounded
<1>3. b \notin p.pendingPool /\ \A a \in p.pendingPool : a.height # b.height
  BY <1>2 DEF HeightsOf
<1>4. IsFiniteSet(q.pendingPool) /\ Cardinality(q.pendingPool) = Cardinality(p.pendingPool) + 1
  <2>1. /\ IsFiniteSet(p.pendingPool \union {b})
        /\ Cardinality(p.pendingPool \union {b}) = Cardinality(p.pendingPool) + 1
    BY <1>2, <1>3, FS_AddElement
  <2> HIDE DEF q
  <2> QED BY <1>1, <2>1
<1> HIDE DEF q
<1>5. Bounded(q)
  BY <1>1, <1>2, <1>3, <1>4 DEF Bounded
<1> QED BY <1>5 DEF q

\* insertNewShardBlockToPoolV2, for a block that ValidateShardBlock lets through.
LEMMA InsertNewShardKeepsSound ==
  ASSUME NEW top \in Nat, top = shardBest.height, shardKnown \in Nat, NEW p, ShardSound(p, top, shardKnown),
         NEW b \in Block, ~IsRefusedShardBlock(p, b)
  PROVE  ShardSound(InsertNewShardBlock(p, b), top, shardKnown)
<1> DEFINE v == p.validPool
           l == p.latestValidHeight
           q == InsertNewShardBlock(p, b)
           r == [p EXCEPT !.pendingPool = p.pendingPool \union {b}]
<1>1. /\ p \in Pool /\ v \in Seq(Block) /\ Len(v) \in Nat /\ l \in Nat /\ p.pendingPool \in SUBSET Block
      /\ b.height \in Nat
      /\ OneBranch(v) /\ Covered(p, top, l) /\ LatestIsTip(p) /\ Confirmed(p, shardKnown) /\ Bounded(p)
  BY HeightType DEF ShardSound, Pool
<1>2. Bounded(r)
  BY <1>1, AddedPendingBounded
<1>3. CASE IsNext(p, b) /\ Continues(v, b) /\ q = [p EXCEPT !.validPool = Append(v, b), !.latestValidHeight = b.height]
  <2> DEFINE w == Append(v, b)
  <2>1. /\ w \in Seq(Block) /\ Len(w) = Len(v) + 1 /\ w # <<>>
        /\ w[Len(v) + 1] = b /\ \A i \in 1..Len(v) : w[i] = v[i]
    <3>1. v \in Seq(Block)
      BY <1>1
    <3> HIDE DEF v, l, q, r
    <3> QED BY <3>1, AppendOfBlocks
  <2> HIDE DEF w
  <2>2. Last(w) = b
    BY <2>1, LastOfSeq
  <2>3. b.height <= shardKnown /\ b.height = l + 1 /\ Len(v) < MaxValidBlock
    BY <1>3 DEF IsNext
  <2>4. /\ q \in Pool /\ q.validPool = w /\ q.latestValidHeight = l + 1
        /\ q.pendingPool = p.pendingPool
    BY <1>1, <1>3, <2>1, <2>3 DEF Pool, w
  <2> HIDE DEF q, v, l
  <2>5. OneBranch(w)
    <3> SUFFICES ASSUME NEW i \in 1..(Len(w) - 1) PROVE Parent[w[i + 1]] = w[i]
      BY DEF OneBranch
    <3>1. CASE i = Len(v)
      <4>1. v # <<>> /\ Last(v) = v[i] /\ i \in 1..Len(v)
        BY <1>1, <3>1, EmptySeq, LastOfSeq
      <4>2. Parent[b] = Last(v)
        BY <1>3, <4>1 DEF Continues
      <4> QED BY <2>1, <3>1, <4>1, <4>2
    <3>2. CASE i # Len(v)
      <4>1. i \in 1..Len(v) /\ i + 1 \in 1..Len(v) /\ i \in 1..(Len(v) - 1)
        BY <1>1, <2>1, <3>2
      <4>2. w[i] = v[i] /\ w[i + 1] = v[i + 1]
        BY <2>1, <4>1
      <4> QED BY <1>1, <4>1, <4>2 DEF OneBranch
    <3> QED BY <3>1, <3>2
  <2>6. Covered(q, top, l + 1)
    <3> SUFFICES ASSUME NEW i \in Nat, top < i, i <= l + 1 PROVE i \in HeightsOf(Range(w))
      BY <2>4 DEF Covered
    <3>1. CASE i <= l
      <4>1. i \in HeightsOf(Range(v))
        BY <1>1, <3>1 DEF Covered, v
      <4>2. PICK j \in 1..Len(v) : v[j].height = i
        BY <1>1, <4>1, HeightsOfSeq
      <4>3. j \in 1..Len(w) /\ w[j].height = i
        BY <1>1, <2>1, <4>2
      <4> QED BY <2>1, <4>3, HeightsOfSeq
    <3>2. CASE ~(i <= l)
      <4>1. i = l + 1 /\ Len(v) + 1 \in 1..Len(w)
        BY <1>1, <2>1, <3>2
      <4>2. w[Len(v) + 1].height = i
        BY <2>1, <2>3, <4>1
      <4> QED BY <2>1, <4>1, <4>2, HeightsOfSeq
    <3> QED BY <3>1, <3>2
  <2>7. LatestIsTip(q)
    <3>1. Last(w).height <= l + 1
      BY <1>1, <2>2, <2>3
    <3> QED BY <2>4, <3>1 DEF LatestIsTip
  <2>8. Confirmed(q, shardKnown)
    <3> SUFFICES ASSUME NEW i \in 1..Len(w) PROVE w[i].height <= shardKnown
      BY <2>4 DEF Confirmed
    <3>1. CASE i = Len(v) + 1
      BY <2>1, <2>3, <3>1
    <3>2. CASE i # Len(v) + 1
      <4>1. i \in 1..Len(v)
        BY <1>1, <2>1, <3>2
      <4>2. w[i] = v[i]
        BY <2>1, <4>1
      <4> QED BY <1>1, <4>1, <4>2 DEF Confirmed, v
    <3> QED BY <3>1, <3>2
  <2>9. Bounded(q)
    <3>1. Len(w) <= MaxValidBlock
      BY <1>1, <2>1, <2>3
    <3> QED BY <1>1, <2>4, <3>1 DEF Bounded
  <2> QED BY <2>4, <2>5, <2>6, <2>7, <2>8, <2>9 DEF ShardSound, q
<1>4. CASE ~Continues(v, b) /\ q = PushOutLast(p, b)
  BY <1>2, <1>4, PushOutLastKeepsSound
<1>5. CASE q = r
  <2>1. /\ r \in Pool /\ r.validPool = v /\ r.latestValidHeight = l
    BY <1>1 DEF Pool
  <2> HIDE DEF r
  <2>2. ShardSound(r, top, shardKnown)
    BY <1>1, <1>2, <2>1 DEF ShardSound, Covered, LatestIsTip, Confirmed
  <2> QED BY <1>5, <2>2
<1>6. CASE q = p
  BY <1>6
<1> QED BY <1>3, <1>4, <1>5, <1>6 DEF InsertNewShardBlock

\* removeBlock: m of the first blocks go, none of them above height, and the last
\* valid block is the same.
LEMMA RemovedShardBlockResult ==
  ASSUME NEW p \in Pool, NEW height \in Nat, shardBest.height \in Nat
  PROVE  LET q == RemovedShardBlock(p, height)
             v == p.validPool
         IN /\ q \in Pool
            /\ q.pendingPool = p.pendingPool
            /\ \E m \in 0..Len(v) :
                 /\ Len(q.validPool) = Len(v) - m
                 /\ \A i \in 1..(Len(v) - m) : q.validPool[i] = v[m + i]
                 /\ \A i \in 1..m : v[i].height <= height
            /\ q.validPool = <<>> => q.latestValidHeight = shardBest.height
            /\ q.validPool # <<>> => /\ v # <<>> /\ Last(q.validPool) = Last(v)
                                     /\ q.latestValidHeight = Last(v).height
<1> DEFINE v == p.validPool
           m == Len(v)
           above == {i \in DOMAIN v : v[i].height > height}
           n == IF above = {} THEN m ELSE Min(above) - 1
           w == SubSeq(v, n + 1, m)
           q == RemovedShardBlock(p, height)
<1>1. /\ v \in Seq(Block) /\ m \in Nat /\ DOMAIN v = 1..m /\ p.cache \in Seq(Block)
      /\ \A i \in 1..m : v[i].height \in Nat
  BY ElementOfSeq, HeightType, LenProperties DEF Pool
<1>2. q = [p EXCEPT !.validPool = w, !.latestValidHeight = LatestShardStateOf(w),
                    !.cache = CacheAddAll(p.cache, SubSeq(v, 1, n), CacheSize)]
  BY DEF RemovedShardBlock
<1> HIDE DEF v, q
<1>3. n \in 0..m /\ \A i \in 1..n : v[i].height <= height
  <2>1. CASE above = {}
    <3>1. n = m
      BY <2>1
    <3>2. \A j \in 1..m : ~(v[j].height > height)
      BY <1>1, <2>1
    <3> HIDE DEF above, n
    <3> QED BY <1>1, <3>1, <3>2
  <2>2. CASE above # {}
    <3> DEFINE k == Min(above)
    <3>1. above \in SUBSET Nat
      BY <1>1
    <3>2. n = k - 1
      BY <2>2
    <3> HIDE DEF above, n
    <3>3. k \in above /\ \A j \in above : k <= j
      <4>1. PICK x \in above : \A y \in above : x <= y
        BY <2>2, <3>1, LeastNatural
      <4> QED BY <4>1 DEF Min
    <3> HIDE DEF k
    <3>4. k \in 1..m
      BY <1>1, <3>3 DEF above
    <3>5. ASSUME NEW i \in 1..n PROVE v[i].height <= height
      <4>1. i \in 1..m /\ ~(k <= i)
        BY <1>1, <3>2, <3>4
      <4>2. i \notin above
        BY <3>3, <4>1
      <4> QED BY <1>1, <4>1, <4>2 DEF above
    <3>6. n \in 0..m
      BY <1>1, <3>2, <3>4
    <3> QED BY <3>5, <3>6
  <2> QED BY <2>1, <2>2
<1> HIDE DEF n, above
<1>a. m \in Nat /\ n \in Nat /\ n <= m
  BY <1>1, <1>3
<1>4. /\ w \in Seq(Block) /\ Len(w) = m - n
      /\ \A i \in 1..(m - n) : w[i] = v[n + i]
      /\ SubSeq(v, 1, n) \in Seq(Block)
  BY <1>1, <1>3, SplitOfBlocks
<1> HIDE DEF w
<1>5. w # <<>> => v # <<>> /\ Last(w) = Last(v) /\ Last(v).height \in Nat
  <2> SUFFICES ASSUME w # <<>> PROVE v # <<>> /\ Last(w) = Last(v) /\ Last(v).height \in Nat
    OBVIOUS
  <2>1. Len(w) \in Nat \ {0} /\ Last(w) = w[Len(w)]
    BY <1>4, LastOfSeq
  <2> HIDE DEF m
  <2>2. m # 0 /\ n + (m - n) = m /\ m - n \in 1..(m - n)
    BY <1>4, <1>a, <2>1
  <2>3. v # <<>> /\ Last(v) = v[m] /\ Last(v).height \in Nat
    BY <1>1, <2>2, EmptySeq, LastOfSeq DEF m
  <2>4. w[m - n] = v[m]
    BY <1>4, <2>2
  <2> QED BY <1>4, <2>1, <2>3, <2>4
<1>6. /\ CacheAddAll(p.cache, SubSeq(v, 1, n), CacheSize) \in Seq(Block)
      /\ LatestShardStateOf(w) \in Nat
      /\ w = <<>> => LatestShardStateOf(w) = shardBest.height
      /\ w # <<>> => LatestShardStateOf(w) = Last(v).height
  BY <1>1, <1>4, <1>5, CacheAddAllType DEF LatestShardStateOf
<1>7. /\ q \in Pool /\ q.validPool = w /\ q.latestValidHeight = LatestShardStateOf(w)
      /\ q.pendingPool = p.pendingPool
  BY <1>2, <1>4, <1>6 DEF Pool
<1>8. \E k \in 0..m : /\ Len(q.validPool) = m - k
                      /\ \A i \in 1..(m - k) : q.validPool[i] = v[k + i]
                      /\ \A i \in 1..k : v[i].height <= height
  BY <1>3, <1>4, <1>7
<1> HIDE DEF m
<1> QED BY <1>5, <1>6, <1>7, <1>8 DEF m, v, q

\* removeBlock, for a height that the chain has reached: the blocks above it stay.
LEMMA RemovedShardBlockKeepsSound ==
  ASSUME NEW top \in Nat, top = shardBest.height, NEW known, NEW p, ShardSound(p, top, known),
         NEW height \in Nat, height <= top
  PROVE  ShardSound(RemovedShardBlock(p, height), top, known)
<1> DEFINE v == p.validPool
           m == Len(v)
           q == RemovedShardBlock(p, height)
           w == q.validPool
<1>1. /\ p \in Pool /\ v \in Seq(Block) /\ m \in Nat /\ p.latestValidHeight \in Nat
      /\ OneBranch(v) /\ Covered(p, top, p.latestValidHeight) /\ LatestIsTip(p) /\ Confirmed(p, known) /\ Bounded(p)
  BY LenProperties DEF ShardSound, Pool
<1>2. /\ q \in Pool /\ q.pendingPool = p.pendingPool
      /\ \E n \in 0..m : /\ Len(w) = m - n
                         /\ \A i \in 1..(m - n) : w[i] = v[n + i]
                         /\ \A i \in 1..n : v[i].height <= height
      /\ w = <<>> => q.latestValidHeight = top
      /\ w # <<>> => v # <<>> /\ Last(w) = Last(v) /\ q.latestValidHeight = Last(v).height
  BY <1>1, RemovedShardBlockResult
<1> HIDE DEF q
<1>3. PICK n \in 0..m : /\ Len(w) = m - n
                        /\ \A i \in 1..(m - n) : w[i] = v[n + i]
                        /\ \A i \in 1..n : v[i].height <= height
  BY <1>2
<1>4. w \in Seq(Block) /\ q.latestValidHeight \in Nat
  BY <1>2 DEF Pool
<1>a. m \in Nat /\ n \in Nat /\ n <= m
  BY <1>1, <1>3
<1>5. OneBranch(w)
  <2> SUFFICES ASSUME NEW i \in 1..(Len(w) - 1) PROVE Parent[w[i + 1]] = w[i]
    BY DEF OneBranch
  <2>1. i \in 1..(m - n) /\ i + 1 \in 1..(m - n) /\ n + i \in 1..(m - 1) /\ n + (i + 1) = (n + i) + 1
    <3>1. i \in 1..((m - n) - 1)
      BY <1>3
    <3> HIDE DEF m, v
    <3> QED BY <1>a, <3>1, ShiftedNeighbours
  <2>2. w[i] = v[n + i] /\ w[i + 1] = v[n + (i + 1)]
    BY <1>3, <2>1
  <2>3. w[i + 1] = v[(n + i) + 1]
    BY <2>1, <2>2
  <2> QED BY <1>1, <2>1, <2>2, <2>3 DEF OneBranch
<1>6. Covered(q, top, q.latestValidHeight)
  <2> SUFFICES ASSUME NEW i \in Nat, top < i, i <= q.latestValidHeight PROVE i \in HeightsOf(Range(w))
    BY DEF Covered
  <2>1. w # <<>>
    BY <1>2
  <2>2. i <= p.latestValidHeight
    <3>1. Last(v).height <= p.latestValidHeight
      BY <1>1, <1>2, <2>1 DEF LatestIsTip
    <3>2. Last(v).height = q.latestValidHeight
      BY <1>2, <2>1
    <3> QED BY <1>1, <1>4, <3>1, <3>2
  <2>3. i \in HeightsOf(Range(v))
    BY <1>1, <2>2 DEF Covered
  <2>4. PICK j \in 1..m : v[j].height = i
    BY <1>1, <2>3, HeightsOfSeq
  <2> HIDE DEF v, w, m
  <2>5. j \notin 1..n
    BY <1>3, <2>4
  <2>6. j - n \in 1..(m - n) /\ n + (j - n) = j
    BY <1>a, <2>5
  <2>7. j - n \in 1..Len(w) /\ w[j - n].height = i
    BY <1>3, <2>4, <2>6
  <2> QED BY <1>4, <2>7, HeightsOfSeq
<1>7. LatestIsTip(q)
  BY <1>2, <1>4 DEF LatestIsTip
<1>8. Confirmed(q, known)
  <2> SUFFICES ASSUME NEW i \in 1..Len(w) PROVE w[i].height <= known
    BY DEF Confirmed
  <2> HIDE DEF v, w, m
  <2>1. n + i \in 1..m /\ w[i] = v[n + i]
    BY <1>3, <1>a
  <2> QED BY <1>1, <2>1 DEF Confirmed, v, m
<1>9. Bounded(q)
  <2>1. Len(w) <= m
    BY <1>1, <1>3
  <2> QED BY <1>1, <1>2, <1>4, <2>1 DEF Bounded
<1> QED BY <1>2, <1>5, <1>6, <1>7, <1>8, <1>9 DEF ShardSound, q

-----------------------------------------------------------------------------
\* The steps.

\* A pool of which only the cache and the conflicting blocks change.
LEMMA RejectedKeepsShardSound ==
  ASSUME NEW p, NEW q, NEW top, NEW known, ShardSound(p, top, known), q \in Pool, q.validPool = p.validPool,
         q.latestValidHeight = p.latestValidHeight, q.pendingPool = p.pendingPool
  PROVE  ShardSound(q, top, known)
  BY DEF ShardSound, Covered, LatestIsTip, Confirmed, Bounded

\* A chain and a beacon chain that grow ask less of the pool.
LEMMA GrowthKeepsShardSound ==
  ASSUME NEW p, NEW low \in Nat, NEW top \in Nat, low <= top, NEW k \in Nat, NEW known \in Nat, k <= known,
         ShardSound(p, low, k)
  PROVE  ShardSound(p, top, known)
<1>1. Covered(p, low, p.latestValidHeight) => Covered(p, top, p.latestValidHeight)
  BY DEF Covered
<1>2. ASSUME NEW i \in 1..Len(p.validPool) PROVE p.validPool[i].height <= known
  <2>1. p.validPool \in Seq(Block)
    BY DEF ShardSound, Pool
  <2>2. p.validPool[i] \in Block
    BY <2>1, ElementOfSeq
  <2>3. p.validPool[i].height \in Nat
    BY <2>2, HeightType
  <2>4. p.validPool[i].height <= k
    BY DEF ShardSound, Confirmed
  <2> QED BY <2>3, <2>4
<1>3. Confirmed(p, known)
  BY <1>2 DEF Confirmed
<1> QED BY <1>1, <1>3 DEF ShardSound

\* An empty pool, whatever the heights of the chains it starts at.
LEMMA EmptyShardPoolSound ==
  ASSUME NEW top \in Nat, NEW known
  PROVE  ShardSound([EmptyShardPool EXCEPT !.latestValidHeight = top], top, known)
<1> DEFINE q == [EmptyShardPool EXCEPT !.latestValidHeight = top]
<1>1. q \in Pool /\ q.validPool = <<>> /\ q.pendingPool = {} /\ q.latestValidHeight = top
  BY EmptySeq DEF EmptyShardPool, Pool
<1>2. IsFiniteSet({}) /\ Cardinality({}) = 0 /\ Len(<<>>) = 0
  BY FS_EmptySet, EmptySeq
<1> HIDE DEF q
<1>3. Bounded(q)
  BY <1>1, <1>2 DEF Bounded
<1>4. OneBranch(q.validPool) /\ Confirmed(q, known)
  BY <1>1, <1>2 DEF OneBranch, Confirmed
<1> QED BY <1>1, <1>3, <1>4 DEF ShardSound, Covered, LatestIsTip, q

\* The start of a node.
LEMMA InitShardPoolInv == ShardInit => ShardPoolInv
<1> SUFFICES ASSUME ShardInit PROVE ShardPoolInv
  OBVIOUS
<1>1. shardBest.height = 1
  BY BlockAssumption, Zenon DEF ShardInit
<1>2. shardPool = [EmptyShardPool EXCEPT !.latestValidHeight = 1]
  BY DEF ShardInit, EmptyShardPool
<1>3. ShardSound(shardPool, shardBest.height, shardKnown)
  BY <1>1, <1>2, EmptyShardPoolSound
<1> QED BY <1>3 DEF ShardInit, ShardPoolInv

\* OnBlockShardReceived, with a block that is taken or refused.
LEMMA ReceivedKeepsShardPoolInv ==
  ASSUME ShardPoolInv, NEW b \in Block, OnBlockShardReceived(b)
  PROVE  ShardPoolInv'
<1> DEFINE top == shardBest.height
<1>1. /\ top \in Nat /\ shardKnown \in Nat /\ UNCHANGED <<shardKnown, shardBest, shardStored, shardInsert>>
      /\ ShardSound(shardPool, top, shardKnown) /\ shardPool \in Pool
  BY HeightType DEF ShardPoolInv, ShardSound, OnBlockShardReceived, AcceptShardBlock, RejectShardBlock, shardChainVars
<1>2. CASE AcceptShardBlock(b)
  <2> DEFINE p == InsertNewShardBlock(shardPool, b)
  <2>1. ShardSound(p, top, shardKnown)
    BY <1>1, <1>2, InsertNewShardKeepsSound DEF AcceptShardBlock
  <2>2. ShardSound(PromotePendingShard(p), top, shardKnown)
    BY <1>1, <2>1, ShardPromotionKeepsSound
  <2>3. shardPool' \in {p, PromotePendingShard(p)} /\ shardLocked' \in BOOLEAN
    BY <1>2 DEF AcceptShardBlock, PromotionFindsConflicted
  <2>4. ShardSound(shardPool', top, shardKnown)
    BY <2>1, <2>2, <2>3
  <2> QED BY <1>1, <2>3, <2>4 DEF ShardPoolInv
<1>3. CASE RejectShardBlock(b)
  <2>1. CacheGet(shardPool.cache, b) \in Seq(Block)
    BY <1>1, CacheType DEF Pool
  <2>2. PICK c \in {shardPool.conflictedPool, shardPool.conflictedPool \union {b}} :
          shardPool' = [shardPool EXCEPT !.cache = CacheGet(shardPool.cache, b), !.conflictedPool = c]
    BY <1>3 DEF RejectShardBlock
  <2>3. /\ shardPool' \in Pool /\ shardPool'.validPool = shardPool.validPool
        /\ shardPool'.latestValidHeight = shardPool.latestValidHeight
        /\ shardPool'.pendingPool = shardPool.pendingPool
    BY <1>1, <2>1, <2>2 DEF Pool
  <2>4. ShardSound(shardPool', top, shardKnown)
    BY <1>1, <2>3, RejectedKeepsShardSound
  <2> QED BY <1>1, <1>3, <2>4 DEF ShardPoolInv, RejectShardBlock
<1> QED BY <1>2, <1>3 DEF OnBlockShardReceived

\* The ticker, with any height that the chain has had.
LEMMA TickerKeepsShardPoolInv ==
  ASSUME ShardPoolInv, TickRemoveShardBlock \/ TickPromotePendingShard
  PROVE  ShardPoolInv'
<1>1. /\ shardBest.height \in Nat /\ shardKnown \in Nat
      /\ UNCHANGED <<shardKnown, shardBest, shardStored, shardInsert>>
      /\ ShardSound(shardPool, shardBest.height, shardKnown)
  BY HeightType DEF ShardPoolInv, TickRemoveShardBlock, TickPromotePendingShard, shardChainVars
<1>2. CASE TickRemoveShardBlock
  <2>1. PICK height \in 1..shardBest.height : shardPool' = RemovedShardBlock(shardPool, height)
    BY <1>2 DEF TickRemoveShardBlock
  <2>2. height \in Nat /\ height <= shardBest.height
    BY <1>1
  <2>3. ShardSound(shardPool', shardBest.height, shardKnown)
    BY <1>1, <2>1, <2>2, RemovedShardBlockKeepsSound
  <2> QED BY <1>1, <1>2, <2>3 DEF ShardPoolInv, TickRemoveShardBlock
<1>3. CASE TickPromotePendingShard
  <2>1. ShardSound(shardPool', shardBest.height, shardKnown)
    BY <1>1, <1>3, ShardPromotionKeepsSound DEF TickPromotePendingShard
  <2>2. shardLocked' \in BOOLEAN
    BY <1>3 DEF TickPromotePendingShard, PromotionFindsConflicted
  <2> QED BY <1>1, <2>1, <2>2 DEF ShardPoolInv
<1> QED BY <1>2, <1>3

\* A beacon block that confirms more, and InsertShardBlock, step by step.
LEMMA InsertKeepsShardPoolInv ==
  ASSUME ShardPoolInv,
         ConfirmShardHeight \/ ShardInsertStep \/ InsertShardAborts \/ \E b \in Block : UpdateBestShardState(b)
  PROVE  ShardPoolInv'
<1>1. /\ shardBest.height \in Nat /\ shardKnown \in Nat
      /\ ShardSound(shardPool, shardBest.height, shardKnown) /\ shardPool \in Pool
  BY HeightType DEF ShardPoolInv, ShardSound
<1>2. CASE ConfirmShardHeight
  <2>1. PICK h \in (shardKnown + 1)..MaxKnown : shardKnown' = h
    BY <1>2 DEF ConfirmShardHeight
  <2>2. shardKnown' \in Nat /\ shardKnown <= shardKnown'
    BY <1>1, <2>1
  <2>3. ShardSound(shardPool, shardBest.height, shardKnown')
    BY <1>1, <2>2, GrowthKeepsShardSound
  <2> QED BY <1>2, <2>2, <2>3 DEF ShardPoolInv, ConfirmShardHeight
<1>3. CASE \E b \in Block : UpdateBestShardState(b)
  <2>1. PICK b \in Block : /\ Parent[b] = shardBest /\ shardBest' = b /\ shardInsert' = "updated"
                           /\ UNCHANGED <<shardPool, shardKnown, shardStored, shardLocked>>
    BY <1>3 DEF UpdateBestShardState
  <2>2. Parent[b].height = b.height - 1
    BY BlockAssumption, Zenon
  <2>3. shardBest.height <= b.height /\ b.height \in Nat
    BY <1>1, <2>1, <2>2, HeightType
  <2>4. ShardSound(shardPool, b.height, shardKnown)
    BY <1>1, <2>3, GrowthKeepsShardSound
  <2> QED BY <2>1, <2>4 DEF ShardPoolInv
<1>4. CASE SetShardState
  <2> DEFINE p == shardPool
             h == IF p.latestValidHeight < shardBest.height THEN shardBest.height ELSE p.latestValidHeight
             q == [p EXCEPT !.latestValidHeight = h]
  <2>1. shardPool' = q /\ shardInsert' = "set" /\ UNCHANGED <<shardKnown, shardBest, shardStored, shardLocked>>
    BY <1>4 DEF SetShardState
  <2>2. p.latestValidHeight \in Nat /\ h \in Nat /\ p.latestValidHeight <= h
        /\ (h = p.latestValidHeight \/ h = shardBest.height)
    BY <1>1 DEF Pool
  <2> HIDE DEF h
  <2>3. /\ q \in Pool /\ q.validPool = p.validPool /\ q.pendingPool = p.pendingPool
        /\ q.latestValidHeight = h
    BY <1>1, <2>2 DEF Pool
  <2> HIDE DEF q
  <2>4. Covered(q, shardBest.height, h)
    BY <1>1, <2>2, <2>3 DEF ShardSound, Covered
  <2>5. LatestIsTip(q)
    <3>1. p.validPool # <<>> => Last(p.validPool).height \in Nat
      BY <1>1, LastOfSeq DEF Pool
    <3> QED BY <1>1, <2>2, <2>3, <3>1 DEF ShardSound, LatestIsTip
  <2>6. ShardSound(q, shardBest.height, shardKnown)
    BY <1>1, <2>3, <2>4, <2>5 DEF ShardSound, Confirmed, Bounded
  <2> QED BY <2>1, <2>6 DEF ShardPoolInv
<1>5. CASE ProcessStoreShardBlock \/ InsertShardAborts
  BY <1>5 DEF ShardPoolInv, ProcessStoreShardBlock, InsertShardAborts
<1>6. CASE InsertRemoveShardBlock
  <2>1. ShardSound(RemovedShardBlock(shardPool, shardBest.height), shardBest.height, shardKnown)
    BY <1>1, RemovedShardBlockKeepsSound
  <2> QED BY <1>6, <2>1 DEF ShardPoolInv, InsertRemoveShardBlock
<1> QED BY <1>2, <1>3, <1>4, <1>5, <1>6 DEF ShardInsertStep

\* InitShardPool, after a restart.
LEMMA RestartKeepsShardPoolInv ==
  ASSUME ShardPoolInv, ShardRestart
  PROVE  ShardPoolInv'
<1>1. /\ shardPool' = [EmptyShardPool EXCEPT !.latestValidHeight = shardStored.height]
      /\ shardBest' = shardStored /\ shardStored' = shardStored /\ shardInsert' = "idle"
      /\ shardLocked' = FALSE /\ shardKnown' = shardKnown
  BY DEF ShardRestart
<1>2. shardStored.height \in Nat /\ shardStored \in Block \union {Genesis}
  BY HeightType DEF ShardPoolInv
<1>3. ShardSound(shardPool', shardStored.height, shardKnown)
  BY <1>1, <1>2, EmptyShardPoolSound
<1> QED BY <1>1, <1>2, <1>3 DEF ShardPoolInv

\* Every step keeps the invariant.
LEMMA NextShardPoolInv == ShardPoolInv /\ [ShardNext]_shardVars => ShardPoolInv'
<1> SUFFICES ASSUME ShardPoolInv, [ShardNext]_shardVars PROVE ShardPoolInv'
  OBVIOUS
<1>1. ASSUME NEW b \in Block, OnBlockShardReceived(b) PROVE ShardPoolInv'
  BY <1>1, ReceivedKeepsShardPoolInv
<1>2. CASE \/ ConfirmShardHeight \/ ShardInsertStep \/ InsertShardAborts
           \/ \E b \in Block : UpdateBestShardState(b)
  BY <1>2, InsertKeepsShardPoolInv
<1>3. CASE TickRemoveShardBlock \/ TickPromotePendingShard
  BY <1>3, TickerKeepsShardPoolInv
<1>4. CASE ShardRestart
  BY <1>4, RestartKeepsShardPoolInv
<1>5. CASE UNCHANGED shardVars
  BY <1>5 DEF shardVars, ShardPoolInv
<1> QED BY <1>1, <1>2, <1>3, <1>4, <1>5 DEF ShardNext, ShardPoolStep

-----------------------------------------------------------------------------
\* The valid blocks of the pool of shard blocks (mempool/shard_pool.go) are one
\* branch that skips no height above the chain, each of a height that the beacon
\* chain has confirmed, and the pool keeps to its sizes, whichever blocks are
\* pushed out, promoted, removed and received again and whenever the node is
\* restarted: for every block tree, fork and size.
THEOREM ValidBlocksAreOneBranch == ShardSpec => []ShardPoolIsSound
<1>1. ShardPoolInv => ShardPoolIsSound
  <2> SUFFICES ASSUME ShardPoolInv PROVE ShardPoolIsSound
    OBVIOUS
  <2>1. /\ ShardSound(shardPool, shardBest.height, shardKnown) /\ shardPool \in Pool
        /\ shardBest.height \in Nat /\ shardPool.latestValidHeight \in Nat
        /\ shardPool.validPool \in Seq(Block)
    BY HeightType DEF ShardPoolInv, ShardSound, Pool
  <2>2. ShardTypeOK
    BY <2>1 DEF ShardPoolInv, ShardTypeOK, Pool
  <2>3. ValidPoolIsOneBranch
    BY <2>1 DEF ValidPoolIsOneBranch, ShardSound, OneBranch
  <2>4. NoShardHeightIsSkipped
    BY <2>1 DEF NoShardHeightIsSkipped, ShardSound, Covered
  <2>5. ValidIsConfirmed
    BY <2>1 DEF ValidIsConfirmed, ShardSound, Confirmed, Range
  <2>6. ShardPoolsAreBounded
    BY <2>1 DEF ShardPoolsAreBounded, ShardSound, Bounded
  <2> QED BY <2>2, <2>3, <2>4, <2>5, <2>6 DEF ShardPoolIsSound
<1> QED BY <1>1, InitShardPoolInv, NextShardPoolInv, PTL DEF ShardSpec

-----------------------------------------------------------------------------
\* The pool of shard blocks, when the chain has no forks and grows from it only.

ShardFollowsPool == Leads(shardPool, shardBest.height)

\* The heights the pool holds above the chain.
ShardHeld == HeldIn(shardPool, shardBest.height)

\* The block after the last valid one continues it: nothing is pushed out.
LEMMA NextContinues ==
  ASSUME Unforked, NEW top, NEW known, NEW p, ShardSound(p, top, known), Leads(p, top),
         NEW b \in Block, b.height = p.latestValidHeight + 1
  PROVE  Continues(p.validPool, b)
<1> DEFINE v == p.validPool
           n == Len(v)
<1>1. v \in Seq(Block) /\ p.latestValidHeight \in Nat
  BY DEF ShardSound, Pool
<1> SUFFICES ASSUME v # <<>> PROVE Parent[b] = Last(v)
  BY DEF Continues
<1>2. n \in Nat \ {0} /\ Last(v) = v[n] /\ Last(v) \in Block
  BY <1>1, LastOfSeq
<1>3. \A i \in 1..n : v[i].height = p.latestValidHeight - n + i
  BY DEF Leads, Aligned
<1> HIDE DEF v, n
<1>4. Last(v).height = p.latestValidHeight
  <2>1. n \in 1..n
    BY <1>2
  <2>2. v[n].height = p.latestValidHeight - n + n
    BY <1>3, <2>1
  <2> QED BY <1>1, <1>2, <2>2
<1>5. Parent[b] \in Block \union {Genesis} /\ Parent[b].height = b.height - 1
  BY BlockAssumption
<1>6. Parent[b].height = Last(v).height
  BY <1>1, <1>4, <1>5
<1> QED BY <1>2, <1>5, <1>6 DEF Unforked

\* promotePendingPool.
LEMMA ShardPromotionKeepsHeld ==
  ASSUME Unforked, NEW top \in Nat, shardKnown \in Nat, NEW p, ShardSound(p, top, shardKnown), Leads(p, top)
  PROVE  HeldIn(PromotePendingShard(p), top) = HeldIn(p, top) /\ Leads(PromotePendingShard(p), top)
<1> DEFINE q == TakePending(p)
           e == ShardPromotedTo(p)
           l == p.latestValidHeight
           m == Len(p.validPool)
           n == e - l
           b == CHOOSE x \in StopsAt(q) : TRUE
<1>1. p \in Pool /\ l \in Nat /\ \A a, c \in p.pendingPool : a.height = c.height => a = c
  BY DEF ShardSound, Bounded, Pool
<1>2. /\ q \in Pool /\ n \in Nat /\ q.latestValidHeight = e
      /\ q.pendingPool = {c \in p.pendingPool : c.height \notin (l + 1)..e}
      /\ Len(q.validPool) = m + n
      /\ \A i \in 1..m : q.validPool[i] = p.validPool[i]
      /\ \A i \in 1..n : q.validPool[m + i] \in p.pendingPool /\ q.validPool[m + i].height = l + i
  BY <1>1, TakePendingResult
<1>3. e \in Nat
  BY <1>1, ShardPromotionEnds
<1>4. ShardSound(q, top, shardKnown)
  BY TakePendingKeepsSound
<1>5. PromotePendingShard(p) =
        IF StopsAt(q) = {} THEN q
        ELSE IF IsNext(q, b) /\ ~IsCached(q.cache, b) /\ ~Continues(q.validPool, b) THEN PushOutLast(q, b)
             ELSE [q EXCEPT !.cache = CacheGet(q.cache, b)]
  BY DEF PromotePendingShard
<1> HIDE DEF q, e
<1>6. e = l + n
  BY <1>1, <1>3
<1> HIDE DEF n
<1>7. HeldIn(q, top) = HeldIn(p, top) /\ Leads(q, top)
  <2>1. /\ q.latestValidHeight = l + n
        /\ q.pendingPool = {c \in p.pendingPool : c.height \notin (l + 1)..(l + n)}
    BY <1>2, <1>6
  <2>2. Moved(p, q, n)
    BY <1>2, <2>1 DEF Moved
  <2> QED BY <1>1, <1>2, <2>2, MovedKeepsHeld
<1>8. StopsAt(q) # {} => b \in Block /\ b.height = q.latestValidHeight + 1
  <2>1. q.pendingPool \in SUBSET Block
    BY <1>2 DEF Pool
  <2> QED BY <2>1 DEF StopsAt
<1> HIDE DEF b
<1>9. StopsAt(q) # {} => Continues(q.validPool, b)
  BY <1>4, <1>7, <1>8, NextContinues
<1>10. CASE PromotePendingShard(p) = q
  BY <1>7, <1>10
<1>11. CASE PromotePendingShard(p) = [q EXCEPT !.cache = CacheGet(q.cache, b)]
  <2>1. /\ PromotePendingShard(p).validPool = q.validPool
        /\ PromotePendingShard(p).pendingPool = q.pendingPool
        /\ PromotePendingShard(p).latestValidHeight = q.latestValidHeight
    BY <1>2, <1>11 DEF Pool
  <2> QED BY <1>7, <2>1 DEF HeldIn, Leads, Aligned
<1> QED BY <1>5, <1>9, <1>10, <1>11

\* insertNewShardBlockToPoolV2: a block that finds no room is dropped.
LEMMA InsertNewShardIsHeld ==
  ASSUME Unforked, NEW top \in Nat, top = shardBest.height, shardKnown \in Nat,
         NEW p, ShardSound(p, top, shardKnown), Leads(p, top),
         NEW b \in Block, ~IsRefusedShardBlock(p, b)
  PROVE  LET q == InsertNewShardBlock(p, b)
         IN /\ Leads(q, top)
            /\ \/ HeldIn(q, top) = HeldIn(p, top)
               \/ b.height > top /\ HeldIn(q, top) = HeldIn(p, top) \union {b.height}
<1> DEFINE q == InsertNewShardBlock(p, b)
<1>1. p \in Pool /\ p.latestValidHeight \in Nat /\ top <= p.latestValidHeight /\ b.height \in Nat
  BY HeightType DEF ShardSound, Pool, Leads
<1>2. q \in Pool
  BY InsertNewShardKeepsSound DEF ShardSound
<1>3. IsNext(p, b) => Continues(p.validPool, b)
  BY NextContinues DEF IsNext
<1>4. \/ /\ b.height = p.latestValidHeight + 1
         /\ q = [p EXCEPT !.validPool = Append(p.validPool, b), !.latestValidHeight = b.height]
      \/ q = [p EXCEPT !.pendingPool = p.pendingPool \union {b}]
      \/ q = p
  BY <1>3 DEF InsertNewShardBlock, IsNext
<1> HIDE DEF q
<1>5. CASE q = p
  BY <1>5 DEF q
<1>6. CASE q # p
  <2>1. Taken(p, q, b)
    BY <1>1, <1>4, <1>6 DEF Pool, Taken
  <2>2. CASE b.height > top
    <3>1. HeldIn(q, top) = HeldIn(p, top) \union {b.height} /\ Leads(q, top)
      BY <1>1, <1>2, <2>1, <2>2, TakenIsHeld
    <3> QED BY <2>2, <3>1 DEF q
  <2>3. CASE ~(b.height > top)
    <3>1. b.height # p.latestValidHeight + 1
      BY <1>1, <2>3
    <3>2. /\ q.validPool = p.validPool /\ q.latestValidHeight = p.latestValidHeight
          /\ q.pendingPool = p.pendingPool \union {b}
      BY <2>1, <3>1 DEF Taken
    <3>3. \A h : IsValidHeight(q, h) <=> IsValidHeight(p, h)
      BY <3>2 DEF IsValidHeight
    <3>4. \A h \in Nat : h > top => (IsPendingHeight(q, h) <=> IsPendingHeight(p, h))
      BY <2>3, <3>2 DEF IsPendingHeight
    <3>5. HeldIn(q, top) = HeldIn(p, top)
      BY <1>1, <1>2, <3>3, <3>4, SameHeld
    <3>6. Leads(q, top)
      BY <3>2 DEF Leads, Aligned
    <3> QED BY <3>5, <3>6 DEF q
  <2> QED BY <2>2, <2>3
<1> QED BY <1>5, <1>6

\* removeBlock, for a height that the chain has reached.
LEMMA RemovedShardKeepsHeld ==
  ASSUME NEW top \in Nat, top = shardBest.height, NEW known, NEW p, ShardSound(p, top, known), Leads(p, top),
         NEW height \in Nat, height <= top
  PROVE  HeldIn(RemovedShardBlock(p, height), top) = HeldIn(p, top) /\ Leads(RemovedShardBlock(p, height), top)
<1> DEFINE q == RemovedShardBlock(p, height)
           n == Len(p.validPool)
<1>1. p \in Pool /\ p.validPool \in Seq(Block) /\ n \in Nat
  BY LenProperties DEF ShardSound, Pool
<1>2. /\ q \in Pool /\ q.pendingPool = p.pendingPool
      /\ \E m \in 0..n : /\ Len(q.validPool) = n - m
                         /\ \A i \in 1..(n - m) : q.validPool[i] = p.validPool[m + i]
                         /\ \A i \in 1..m : p.validPool[i].height <= height
      /\ q.validPool = <<>> => q.latestValidHeight = top
      /\ q.validPool # <<>> => q.latestValidHeight = Last(p.validPool).height
  BY <1>1, RemovedShardBlockResult
<1>3. PICK m \in 0..n : /\ Len(q.validPool) = n - m
                        /\ \A i \in 1..(n - m) : q.validPool[i] = p.validPool[m + i]
                        /\ \A i \in 1..m : p.validPool[i].height <= height
  BY <1>2
<1> HIDE DEF q
<1>4. m \in Nat /\ m <= n
  BY <1>1
<1>5. \A i \in 1..m : p.validPool[i].height <= top
  <2> SUFFICES ASSUME NEW i \in 1..m PROVE p.validPool[i].height <= top
    OBVIOUS
  <2>1. p.validPool[i].height \in Nat
    BY <1>1, <1>4, ElementOfSeq, HeightType
  <2> QED BY <1>3, <2>1
<1>6. HeldIn(q, top) = HeldIn(p, top) /\ Leads(q, top)
  <2>1. Dropped(p, q, m, top)
    BY <1>2, <1>3, <1>4, <1>5 DEF Dropped
  <2> QED BY <1>1, <1>2, <1>4, <2>1, DroppedKeepsHeld
<1> QED BY <1>6 DEF q

\* OnBlockShardReceived: no block is lost, whatever is taken.
LEMMA ReceivedShardIsHeld ==
  ASSUME Unforked, ShardPoolInv, ShardFollowsPool, NEW b \in Block, OnBlockShardReceived(b)
  PROVE  /\ ShardFollowsPool'
         /\ shardBest' = shardBest
         /\ \/ ShardHeld' = ShardHeld
            \/ b.height > shardBest.height /\ ShardHeld' = ShardHeld \union {b.height}
<1> DEFINE top == shardBest.height
<1>1. /\ top \in Nat /\ shardKnown \in Nat /\ shardBest' = shardBest
      /\ ShardSound(shardPool, top, shardKnown) /\ shardPool \in Pool /\ Leads(shardPool, top)
  BY HeightType DEF ShardPoolInv, ShardSound, ShardFollowsPool, OnBlockShardReceived, AcceptShardBlock, RejectShardBlock,
                    shardChainVars
<1> SUFFICES /\ Leads(shardPool', top)
             /\ \/ HeldIn(shardPool', top) = HeldIn(shardPool, top)
                \/ b.height > top /\ HeldIn(shardPool', top) = HeldIn(shardPool, top) \union {b.height}
  BY <1>1 DEF ShardFollowsPool, ShardHeld
<1>2. CASE AcceptShardBlock(b)
  <2> DEFINE q == InsertNewShardBlock(shardPool, b)
  <2>1. ~IsRefusedShardBlock(shardPool, b) /\ shardPool' \in {q, PromotePendingShard(q)}
    BY <1>2 DEF AcceptShardBlock
  <2>2. /\ Leads(q, top)
        /\ \/ HeldIn(q, top) = HeldIn(shardPool, top)
           \/ b.height > top /\ HeldIn(q, top) = HeldIn(shardPool, top) \union {b.height}
    BY <1>1, <2>1, InsertNewShardIsHeld
  <2>3. ShardSound(q, top, shardKnown)
    BY <1>1, <2>1, InsertNewShardKeepsSound
  <2> HIDE DEF q, top
  <2>4. HeldIn(PromotePendingShard(q), top) = HeldIn(q, top) /\ Leads(PromotePendingShard(q), top)
    BY <1>1, <2>2, <2>3, ShardPromotionKeepsHeld
  <2>5. CASE shardPool' = q
    BY <2>2, <2>5
  <2>6. CASE shardPool' = PromotePendingShard(q)
    BY <2>2, <2>4, <2>6
  <2> QED BY <2>1, <2>5, <2>6
<1>3. CASE RejectShardBlock(b)
  <2>1. PICK c \in {shardPool.conflictedPool, shardPool.conflictedPool \union {b}} :
          shardPool' = [shardPool EXCEPT !.cache = CacheGet(shardPool.cache, b), !.conflictedPool = c]
    BY <1>3 DEF RejectShardBlock
  <2>2. /\ shardPool'.validPool = shardPool.validPool
        /\ shardPool'.latestValidHeight = shardPool.latestValidHeight
        /\ shardPool'.pendingPool = shardPool.pendingPool
    BY <1>1, <2>1 DEF Pool
  <2> QED BY <1>1, <2>2 DEF HeldIn, Leads, Aligned
<1> QED BY <1>2, <1>3 DEF OnBlockShardReceived

\* The ticker and the steps of InsertShardBlock after the best state in memory has
\* changed forget no block above the chain.
LEMMA ShardStepKeepsHeld ==
  ASSUME Unforked, ShardPoolInv, ShardFollowsPool,
         TickRemoveShardBlock \/ TickPromotePendingShard \/ ShardInsertStep
  PROVE  ShardFollowsPool' /\ shardBest' = shardBest /\ ShardHeld' = ShardHeld
<1> DEFINE top == shardBest.height
<1>1. /\ top \in Nat /\ shardKnown \in Nat /\ shardBest' = shardBest
      /\ ShardSound(shardPool, top, shardKnown) /\ shardPool \in Pool /\ Leads(shardPool, top)
  BY HeightType DEF ShardPoolInv, ShardSound, ShardFollowsPool, TickRemoveShardBlock, TickPromotePendingShard,
                    ShardInsertStep, SetShardState, ProcessStoreShardBlock, InsertRemoveShardBlock, shardChainVars
<1> SUFFICES HeldIn(shardPool', top) = HeldIn(shardPool, top) /\ Leads(shardPool', top)
  BY <1>1 DEF ShardFollowsPool, ShardHeld
<1>2. ASSUME NEW height \in 1..top, shardPool' = RemovedShardBlock(shardPool, height)
      PROVE  HeldIn(shardPool', top) = HeldIn(shardPool, top) /\ Leads(shardPool', top)
  <2>1. height \in Nat /\ height <= top
    BY <1>1
  <2> QED BY <1>1, <1>2, <2>1, RemovedShardKeepsHeld
<1>3. CASE TickRemoveShardBlock
  BY <1>2, <1>3 DEF TickRemoveShardBlock
<1>4. CASE TickPromotePendingShard
  <2>1. shardPool' = PromotePendingShard(shardPool)
    BY <1>4 DEF TickPromotePendingShard
  <2> QED BY <1>1, <2>1, ShardPromotionKeepsHeld
<1>5. CASE SetShardState
  <2>1. ~(shardPool.latestValidHeight < top)
    BY <1>1 DEF Leads, Pool
  <2>2. shardPool' = shardPool
    BY <1>1, <1>5, <2>1 DEF SetShardState, Pool
  <2> QED BY <1>1, <2>2
<1>6. CASE ProcessStoreShardBlock
  BY <1>1, <1>6 DEF ProcessStoreShardBlock
<1>7. CASE InsertRemoveShardBlock
  <2>1. shardPool' = RemovedShardBlock(shardPool, top)
    BY <1>7 DEF InsertRemoveShardBlock
  <2> QED BY <1>1, <2>1, RemovedShardKeepsHeld
<1> QED BY <1>3, <1>4, <1>5, <1>6, <1>7 DEF ShardInsertStep

\* InsertShardBlockFromPool: the block inserted is the next one and the beacon
\* chain has confirmed it.
LEMMA ShardHeadIsInserted ==
  ASSUME ShardPoolInv, ShardFollowsPool, shardPool.validPool # <<>>, UpdateBestShardState(Head(shardPool.validPool))
  PROVE  /\ ShardFollowsPool'
         /\ Head(shardPool.validPool) \in Block
         /\ shardBest'.height = shardBest.height + 1
         /\ shardBest.height + 1 \in ShardHeld
         /\ shardBest.height + 1 <= shardKnown
         /\ ShardHeld' = ShardHeld \ {shardBest.height + 1}
<1> DEFINE top == shardBest.height
           b == Head(shardPool.validPool)
<1>1. /\ top \in Nat /\ ShardSound(shardPool, top, shardKnown) /\ shardPool \in Pool /\ Leads(shardPool, top)
      /\ shardPool.validPool \in Seq(Block)
  BY HeightType DEF ShardPoolInv, ShardSound, ShardFollowsPool, Pool
<1>2. b \in Block /\ b.height <= shardKnown
  <2>1. Len(shardPool.validPool) \in Nat \ {0} /\ b = shardPool.validPool[1]
    BY <1>1, LastOfSeq
  <2>2. 1 \in 1..Len(shardPool.validPool)
    BY <2>1
  <2> QED BY <1>1, <2>1, <2>2, ElementOfSeq DEF ShardSound, Confirmed
<1>3. Parent[b] = shardBest /\ shardBest' = b /\ shardPool' = shardPool
  BY DEF UpdateBestShardState
<1> HIDE DEF b
<1>4. b.height = top + 1
  <2>1. Parent[b].height = b.height - 1 /\ b.height \in Nat
    BY <1>2, BlockAssumption, HeightType
  <2> QED BY <1>3, <2>1
<1>5. top + 1 \in HeldIn(shardPool, top) /\ Leads(shardPool, top + 1)
  BY <1>1, <1>4, HeadIsHeld DEF b
<1>6. HeldIn(shardPool, top + 1) = HeldIn(shardPool, top) \ {top + 1}
  BY <1>1, GrowthReleases
<1> QED BY <1>2, <1>3, <1>4, <1>5, <1>6 DEF ShardFollowsPool, ShardHeld, b

=============================================================================
