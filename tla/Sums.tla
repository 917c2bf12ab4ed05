-------------------------------- MODULE Sums --------------------------------
(***************************************************************************)
(* Sums of amounts over finite sets, and what the proofs need to reason    *)
(* about sums and recursive functions, since no backend applies the        *)
(* induction theorems: a function over numbers or over the subsets of a    *)
(* finite set is what it should be unless there is a least number, or a    *)
(* least subset, for which it is not.                                      *)
(***************************************************************************)
EXTENDS Integers, SequencesExt, FiniteSetsExt, FiniteSetTheorems, SequenceTheorems, WellFoundedInduction, TLAPS

\* The sum of the values of the function f on the finite set S.
SumOver(S, f) == MapThenSumSet(LAMBDA x : f[x], S)

-----------------------------------------------------------------------------
\* Recursive functions over numbers.

\* A non-empty set of natural numbers has a least element.
LEMMA LeastNatural ==
  ASSUME NEW T \in SUBSET Nat, T # {}
  PROVE  \E x \in T : \A y \in T : x <= y
<1> DEFINE R == OpToRel(<, Nat)
<1>1. IsWellFoundedOn(R, Nat)
  BY NatLessThanWellFounded
<1>2. PICK x \in T : \A y \in T : ~(<<y, x>> \in R)
  BY <1>1, WFMin, Zenon
<1>3. ASSUME NEW y \in T PROVE x <= y
  <2>1. ~(y < x)
    BY <1>2 DEF OpToRel
  <2> QED BY <2>1
<1> QED BY <1>3

\* A set that has 0 and with each number the next one has all up to n: the
\* least number left out would follow one that is not.
LEMMA AllUpTo ==
  ASSUME NEW n \in Nat, NEW G, 0 \in G, \A i \in 1..n : i - 1 \in G => i \in G
  PROVE  0..n \subseteq G
<1> DEFINE T == {i \in 0..n : i \notin G}
<1> SUFFICES ASSUME T # {} PROVE FALSE
  OBVIOUS
<1>1. PICK x \in T : \A y \in T : x <= y
  <2>1. T \in SUBSET Nat
    OBVIOUS
  <2> HIDE DEF T
  <2> QED BY <2>1, LeastNatural
<1>2. x # 0 /\ x \in 1..n
  OBVIOUS
<1>3. x - 1 \in 0..n /\ x - 1 \notin T
  BY <1>1, <1>2
<1> QED BY <1>2, <1>3

\* The function f starts from base and takes a step from each number to the next.
Iterates(f, T, n, base, step) ==
  f \in [0..n -> T] /\ f[0] = base /\ \A i \in 1..n : f[i] = step[i][f[i - 1]]

\* A step on a set T defines a function with values in T.
LEMMA RecursionExists ==
  ASSUME NEW T, NEW n \in Nat, NEW base \in T, NEW step, \A i \in 1..n : \A x \in T : step[i][x] \in T
  PROVE  \E f : Iterates(f, T, n, base, step)
<1> DEFINE E(m) == \E f \in [0..m -> T] : \A i \in 0..m : f[i] = IF i = 0 THEN base ELSE step[i][f[i - 1]]
           G == {m \in 0..n : E(m)}
<1>1. E(0)
  <2> DEFINE f == [i \in 0..0 |-> base]
  <2>1. f \in [0..0 -> T] /\ \A i \in 0..0 : f[i] = IF i = 0 THEN base ELSE step[i][f[i - 1]]
    OBVIOUS
  <2> QED BY <2>1
<1>2. ASSUME NEW m \in 1..n, E(m - 1) PROVE E(m)
  <2>1. PICK f \in [0..(m - 1) -> T] :
               \A i \in 0..(m - 1) : f[i] = IF i = 0 THEN base ELSE step[i][f[i - 1]]
    BY <1>2
  <2> DEFINE last == step[m][f[m - 1]]
             g == [i \in 0..m |-> IF i = m THEN last ELSE f[i]]
  <2>2. last \in T
    OBVIOUS
  <2>3. g \in [0..m -> T]
    <3> HIDE DEF last
    <3> QED BY <2>2
  <2>4. ASSUME NEW i \in 0..m PROVE g[i] = IF i = 0 THEN base ELSE step[i][g[i - 1]]
    <3>1. CASE i = m
      <4>1. g[i] = last /\ i # 0 /\ i - 1 = m - 1 /\ g[m - 1] = f[m - 1]
        BY <3>1
      <4> HIDE DEF g
      <4> QED BY <3>1, <4>1
    <3>2. CASE i # m
      <4>1. i \in 0..(m - 1) /\ g[i] = f[i] /\ (i # 0 => g[i - 1] = f[i - 1])
        BY <3>2
      <4> HIDE DEF g, last
      <4> QED BY <2>1, <4>1
    <3> QED BY <3>1, <3>2
  <2> HIDE DEF g, last
  <2> QED BY <2>3, <2>4
<1> HIDE DEF E
<1>3. 0 \in G /\ \A m \in 1..n : m - 1 \in G => m \in G
  BY <1>1, <1>2
<1>4. 0..n \subseteq G
  <2> HIDE DEF G
  <2> QED BY <1>3, AllUpTo, Zenon
<1>5. n \in G
  BY <1>4
<1>6. E(n)
  BY <1>5
<1>7. PICK f \in [0..n -> T] : \A i \in 0..n : f[i] = IF i = 0 THEN base ELSE step[i][f[i - 1]]
  BY <1>6 DEF E
<1> QED BY <1>7 DEF Iterates

-----------------------------------------------------------------------------
\* Sums over finite sets.

\* Induction over the subsets of a finite set: a set has all of them when it
\* has each of which it has the sets with one element less.
LEMMA AllSubsets ==
  ASSUME NEW U, IsFiniteSet(U), NEW G, \A s \in SUBSET U : (\A x \in s : s \ {x} \in G) => s \in G
  PROVE  SUBSET U \subseteq G
<1> DEFINE R == StrictSubsetOrdering(U)
           T == {s \in SUBSET U : s \notin G}
<1> SUFFICES ASSUME T # {} PROVE FALSE
  OBVIOUS
<1>1. IsWellFoundedOn(R, SUBSET U)
  <2>1. IsWellFoundedOn(R, FiniteSubsetsOf(U))
    BY FS_StrictSubsetOrderingWellFounded, Zenon
  <2>2. FiniteSubsetsOf(U) = SUBSET U
    BY FS_FiniteSubsetsOfFinite, Zenon
  <2> QED BY <2>1, <2>2, Zenon
<1>2. T \subseteq SUBSET U
  OBVIOUS
<1>3. PICK s \in T : \A y \in T : ~(<<y, s>> \in R)
  <2> HIDE DEF T, R
  <2> QED BY <1>1, <1>2, WFMin, Zenon
<1>4. ASSUME NEW x \in s PROVE s \ {x} \in G
  <2>1. <<s \ {x}, s>> \in R
    <3>1. s \in SUBSET U /\ s \ {x} \in SUBSET U /\ s \ {x} # s
      OBVIOUS
    <3> HIDE DEF T
    <3> QED BY <3>1 DEF StrictSubsetOrdering
  <2>2. s \ {x} \notin T /\ s \ {x} \in SUBSET U
    BY <1>3, <2>1
  <2> QED BY <2>2
<1> QED BY <1>4

\* The function g sums f over each subset of U, in any order.
Sums(g, U, f) ==
  /\ g \in [SUBSET U -> Nat]
  /\ g[{}] = 0
  /\ \A s \in SUBSET U : \A x \in s : g[s] = f[x] + g[s \ {x}]

HasSums(U, f) == \E g : Sums(g, U, f)

\* One more element.
LEMMA SumsStep ==
  ASSUME NEW U, NEW f, \A x \in U : f[x] \in Nat, NEW e \in U, HasSums(U \ {e}, f)
  PROVE  HasSums(U, f)
<1>1. PICK g : Sums(g, U \ {e}, f)
  BY DEF HasSums
<1> DEFINE h == [s \in SUBSET U |-> IF e \in s THEN f[e] + g[s \ {e}] ELSE g[s]]
<1>2. \A s \in SUBSET U : s \ {e} \in SUBSET (U \ {e}) /\ g[s \ {e}] \in Nat
  BY <1>1 DEF Sums
<1>3. \A s \in SUBSET U : e \notin s => s \in SUBSET (U \ {e}) /\ g[s] \in Nat
  BY <1>1 DEF Sums
<1>4. h \in [SUBSET U -> Nat] /\ h[{}] = 0
  <2>1. h[{}] = g[{}]
    OBVIOUS
  <2> QED BY <1>1, <1>2, <1>3, <2>1 DEF Sums
<1>5. ASSUME NEW s \in SUBSET U, NEW x \in s PROVE h[s] = f[x] + h[s \ {x}]
  <2>1. s \ {x} \in SUBSET U
    OBVIOUS
  <2>2. CASE x = e
    <3>1. h[s] = f[e] + g[s \ {e}] /\ h[s \ {x}] = g[s \ {e}]
      BY <2>1, <2>2
    <3> QED BY <2>2, <3>1
  <2>3. CASE x # e /\ e \notin s
    <3>1. h[s] = g[s] /\ h[s \ {x}] = g[s \ {x}]
      BY <2>1, <2>3
    <3> QED BY <1>1, <1>3, <2>3, <3>1 DEF Sums
  <2>4. CASE x # e /\ e \in s
    <3> DEFINE r == s \ {e}
    <3>1. (s \ {x}) \ {e} = r \ {x} /\ e \in s \ {x} /\ x \in r /\ r \in SUBSET (U \ {e})
      BY <2>4
    <3>2. h[s] = f[e] + g[r] /\ h[s \ {x}] = f[e] + g[r \ {x}]
      BY <2>1, <2>4, <3>1
    <3>3. g[r] = f[x] + g[r \ {x}] /\ g[r \ {x}] \in Nat
      <4>1. r \ {x} \in SUBSET (U \ {e})
        BY <3>1
      <4> HIDE DEF r
      <4> QED BY <1>1, <3>1, <4>1 DEF Sums
    <3>4. f[e] \in Nat /\ f[x] \in Nat
      OBVIOUS
    <3> HIDE DEF h, r
    <3> QED BY <3>2, <3>3, <3>4
  <2> QED BY <2>2, <2>3, <2>4
<1> HIDE DEF h
<1>6. Sums(h, U, f)
  BY <1>4, <1>5 DEF Sums
<1> QED BY <1>6 DEF HasSums

\* A function into Nat has sums over a finite set.
LEMMA SumsExist ==
  ASSUME NEW U, IsFiniteSet(U), NEW f, \A x \in U : f[x] \in Nat
  PROVE  HasSums(U, f)
<1> DEFINE G == {s \in SUBSET U : HasSums(s, f)}
<1>1. ASSUME NEW s \in SUBSET U, \A x \in s : s \ {x} \in G PROVE s \in G
  <2>1. CASE s = {}
    <3>1. Sums([r \in SUBSET {} |-> 0], {}, f)
      BY DEF Sums
    <3> QED BY <2>1, <3>1 DEF HasSums
  <2>2. CASE s # {}
    <3>1. PICK e \in s : TRUE
      BY <2>2
    <3>2. HasSums(s \ {e}, f)
      BY <1>1
    <3>3. \A x \in s : f[x] \in Nat
      OBVIOUS
    <3>4. HasSums(s, f)
      BY <3>2, <3>3, SumsStep, Zenon
    <3> QED BY <3>4
  <2> QED BY <2>1, <2>2
<1>2. SUBSET U \subseteq G
  <2> HIDE DEF G
  <2> QED BY <1>1, AllSubsets, Zenon
<1>3. U \in G
  BY <1>2
<1> QED BY <1>3

\* SumOver computes them.
LEMMA SumOverIs ==
  ASSUME NEW U, IsFiniteSet(U), NEW f, NEW g, Sums(g, U, f), NEW S \in SUBSET U
  PROVE  SumOver(S, f) = g[S]
<1> DEFINE Body(it, s) == IF s = {} THEN 0 ELSE f[CHOOSE x \in s : TRUE] + it[s \ {CHOOSE x \in s : TRUE}]
           iter == CHOOSE it : it = [s \in SUBSET S |-> Body(it, s)]
           k == [s \in SUBSET S |-> g[s]]
           G == {s \in SUBSET S : iter[s] = g[s]}
<1>1. ASSUME NEW s \in SUBSET S PROVE g[s] = Body(g, s)
  <2>1. CASE s = {}
    BY <2>1 DEF Sums
  <2>2. CASE s # {}
    <3>1. (CHOOSE x \in s : TRUE) \in s
      BY <2>2
    <3>2. s \in SUBSET U
      OBVIOUS
    <3> QED BY <2>2, <3>1, <3>2 DEF Sums
  <2> QED BY <2>1, <2>2
<1>2. \E it : it = [s \in SUBSET S |-> Body(it, s)]
  <2>1. ASSUME NEW s \in SUBSET S PROVE k[s] = Body(k, s)
    <3>1. CASE s = {}
      BY <1>1, <3>1
    <3>2. CASE s # {}
      <4>1. s \ {CHOOSE x \in s : TRUE} \in SUBSET S
        OBVIOUS
      <4>2. k[s] = g[s] /\ k[s \ {CHOOSE x \in s : TRUE}] = g[s \ {CHOOSE x \in s : TRUE}]
        BY <4>1
      <4> HIDE DEF k
      <4> QED BY <1>1, <3>2, <4>2
    <3> QED BY <3>1, <3>2
  <2>2. k = [s \in SUBSET S |-> k[s]]
    OBVIOUS
  <2>3. [s \in SUBSET S |-> k[s]] = [s \in SUBSET S |-> Body(k, s)]
    <3> HIDE DEF Body, k
    <3> QED BY <2>1
  <2> HIDE DEF Body, k
  <2> QED BY <2>2, <2>3, Zenon
<1>3. iter = [s \in SUBSET S |-> Body(iter, s)]
  BY <1>2, Zenon
<1>4. SumOver(S, f) = iter[S]
  BY DEF SumOver, MapThenSumSet, MapThenFoldSet
<1> HIDE DEF iter
<1>5. ASSUME NEW s \in SUBSET S PROVE iter[s] = Body(iter, s)
  <2> HIDE DEF Body
  <2> QED BY <1>3
<1>6. ASSUME NEW s \in SUBSET S, \A x \in s : s \ {x} \in G PROVE s \in G
  <2>1. CASE s = {}
    BY <1>1, <1>5, <2>1
  <2>2. CASE s # {}
    <3>1. (CHOOSE x \in s : TRUE) \in s
      BY <2>2
    <3>2. s \ {CHOOSE x \in s : TRUE} \in G
      BY <1>6, <3>1
    <3> QED BY <1>1, <1>5, <2>2, <3>2
  <2> QED BY <2>1, <2>2
<1>7. IsFiniteSet(S)
  BY FS_Subset
<1>8. SUBSET S \subseteq G
  <2> HIDE DEF G
  <2> QED BY <1>6, <1>7, AllSubsets, Zenon
<1>9. S \in G
  BY <1>8
<1> QED BY <1>4, <1>9

\* Sets over which f can be summed.
Summable(S, f) == IsFiniteSet(S) /\ \A x \in S : f[x] \in Nat

\* A sum over a finite set is a number and adds up over disjoint sets.
LEMMA SumOverUnion ==
  ASSUME NEW A, NEW B, NEW f, Summable(A, f), Summable(B, f), A \cap B = {}
  PROVE  /\ SumOver(A, f) \in Nat /\ SumOver(B, f) \in Nat
         /\ SumOver(A \cup B, f) = SumOver(A, f) + SumOver(B, f)
<1> DEFINE U == A \cup B
           G(g) == {s \in SUBSET B : g[A \cup s] = g[A] + g[s]}
<1>1. IsFiniteSet(U)
  BY FS_Union, Zenon DEF Summable
<1>0. \A x \in U : f[x] \in Nat
  BY DEF Summable
<1>2. PICK g : Sums(g, U, f)
  <2>1. HasSums(U, f)
    <3> HIDE DEF U
    <3> QED BY <1>0, <1>1, SumsExist, Zenon
  <2> QED BY <2>1 DEF HasSums
<1>3. A \in SUBSET U /\ B \in SUBSET U /\ U \in SUBSET U
  OBVIOUS
<1>4. SumOver(A, f) = g[A] /\ SumOver(B, f) = g[B] /\ SumOver(U, f) = g[U]
  <2> HIDE DEF U
  <2> QED BY <1>1, <1>2, <1>3, SumOverIs
<1>5. g[A] \in Nat /\ g[B] \in Nat
  BY <1>2, <1>3 DEF Sums
<1>6. ASSUME NEW s \in SUBSET B, \A x \in s : s \ {x} \in G(g) PROVE s \in G(g)
  <2>1. CASE s = {}
    BY <1>2, <1>5, <2>1 DEF Sums
  <2>2. CASE s # {}
    <3>1. PICK x \in s : TRUE
      BY <2>2
    <3>2. x \in A \cup s /\ (A \cup s) \ {x} = A \cup (s \ {x}) /\ A \cup s \in SUBSET U /\ s \in SUBSET U
           /\ s \ {x} \in SUBSET U
      OBVIOUS
    <3>3. g[A \cup s] = f[x] + g[A \cup (s \ {x})] /\ g[s] = f[x] + g[s \ {x}] /\ g[s \ {x}] \in Nat
      <4> HIDE DEF U
      <4> QED BY <1>2, <3>1, <3>2 DEF Sums
    <3>4. g[A \cup (s \ {x})] = g[A] + g[s \ {x}]
      BY <1>6
    <3>5. f[x] \in Nat
      BY <1>0
    <3>6. g[A \cup s] = g[A] + g[s]
      BY <1>5, <3>3, <3>4, <3>5
    <3> QED BY <3>6
  <2> QED BY <2>1, <2>2
<1>7. SUBSET B \subseteq G(g)
  <2>1. IsFiniteSet(B)
    BY DEF Summable
  <2> HIDE DEF G
  <2> QED BY <1>6, <2>1, AllSubsets, Zenon
<1>8. g[U] = g[A] + g[B]
  <2>1. B \in G(g)
    BY <1>7
  <2> QED BY <2>1
<1> QED BY <1>4, <1>5, <1>8

\* A sum sees no more of a function than its values on the set.
LEMMA SumOverSame ==
  ASSUME NEW S, NEW f, NEW h, Summable(S, f), \A x \in S : h[x] = f[x]
  PROVE  SumOver(S, h) = SumOver(S, f)
<1>1. PICK g : Sums(g, S, f)
  BY SumsExist, Zenon DEF HasSums, Summable
<1>2. Sums(g, S, h)
  BY <1>1 DEF Sums
<1>3. S \in SUBSET S
  OBVIOUS
<1>4. SumOver(S, f) = g[S] /\ SumOver(S, h) = g[S]
  BY <1>1, <1>2, <1>3, SumOverIs DEF Summable
<1> QED BY <1>4

\* A single element, and none.
LEMMA SumOverOne ==
  ASSUME NEW x, NEW f, f[x] \in Nat
  PROVE  SumOver({}, f) = 0 /\ SumOver({x}, f) = f[x]
<1>1. IsFiniteSet({x})
  BY FS_Singleton, Zenon
<1>2. PICK g : Sums(g, {x}, f)
  <2>1. \A y \in {x} : f[y] \in Nat
    OBVIOUS
  <2> QED BY <1>1, <2>1, SumsExist, Zenon DEF HasSums
<1>3. {} \in SUBSET {x} /\ {x} \in SUBSET {x} /\ {x} \ {x} = {}
  OBVIOUS
<1>4. SumOver({}, f) = g[{}] /\ SumOver({x}, f) = g[{x}]
  BY <1>1, <1>2, <1>3, SumOverIs
<1>5. g[{x}] = f[x] + g[{x} \ {x}] /\ g[{}] = 0
  BY <1>2, <1>3 DEF Sums
<1> QED BY <1>3, <1>4, <1>5

\* A part sums to no more than the whole.
LEMMA SumOverPart ==
  ASSUME NEW S, NEW f, Summable(S, f), NEW A \in SUBSET S
  PROVE  SumOver(A, f) <= SumOver(S, f) /\ SumOver(A, f) \in Nat /\ SumOver(S, f) \in Nat
<1> DEFINE B == S \ A
<1>1. IsFiniteSet(A) /\ IsFiniteSet(B)
  BY FS_Subset, FS_Difference, Zenon DEF Summable
<1>2. A \cap B = {} /\ A \cup B = S
  OBVIOUS
<1>3. /\ SumOver(A, f) \in Nat /\ SumOver(B, f) \in Nat
      /\ SumOver(A \cup B, f) = SumOver(A, f) + SumOver(B, f)
  <2>1. Summable(A, f) /\ Summable(B, f)
    BY <1>1 DEF Summable
  <2> HIDE DEF B
  <2> QED BY <1>2, <2>1, SumOverUnion, SMT
<1>4. SumOver(A \cup B, f) = SumOver(S, f)
  BY <1>2, Zenon
<1> HIDE DEF B
<1> QED BY <1>3, <1>4

\* Over no element any function sums to 0.
LEMMA SumOverNothing ==
  ASSUME NEW f
  PROVE  SumOver({}, f) = 0
<1>1. SumOver({}, [x \in {0} |-> 0]) = 0
  BY SumOverOne
<1>2. Summable({}, [x \in {0} |-> 0])
  BY FS_EmptySet DEF Summable
<1>3. SumOver({}, f) = SumOver({}, [x \in {0} |-> 0])
  BY <1>2, SumOverSame
<1> QED BY <1>1, <1>3

-----------------------------------------------------------------------------
\* The values of f on S.
ImageOf(f, S) == {f[x] : x \in S}

\* The image of a finite set is finite.
LEMMA FiniteImage ==
  ASSUME NEW S, IsFiniteSet(S), NEW f
  PROVE  IsFiniteSet(ImageOf(f, S))
<1> DEFINE T == {f[x] : x \in S}
           g == [x \in S |-> f[x]]
<1>1. g \in Surjection(S, T)
  BY DEF Surjection
<1> HIDE DEF g, T
<1>2. IsFiniteSet(T)
  BY <1>1, FS_Surjection, Zenon
<1> QED BY <1>2 DEF T, ImageOf

\* A sum over different things of the same amounts is the same.
LEMMA SumOverImage ==
  ASSUME NEW S, NEW f, NEW h, NEW g, Summable(S, f),
         \A x, y \in S : h[x] = h[y] => x = y, \A x \in S : g[h[x]] = f[x]
  PROVE  SumOver(ImageOf(h, S), g) = SumOver(S, f)
<1> DEFINE G == {s \in SUBSET S : SumOver(ImageOf(h, s), g) = SumOver(s, f)}
<1>1. ASSUME NEW s \in SUBSET S, \A x \in s : s \ {x} \in G PROVE s \in G
  <2>1. CASE s = {}
    <3>1. ImageOf(h, s) = {}
      BY <2>1 DEF ImageOf
    <3> QED BY <2>1, <3>1, SumOverNothing
  <2>2. CASE s # {}
    <3>1. PICK x \in s : TRUE
      BY <2>2
    <3> DEFINE t == s \ {x}
    <3>2. SumOver(ImageOf(h, t), g) = SumOver(t, f)
      BY <1>1, <3>1
    <3>3. ImageOf(h, s) = ImageOf(h, t) \cup {h[x]} /\ ImageOf(h, t) \cap {h[x]} = {}
      BY <3>1 DEF ImageOf
    <3>4. s = t \cup {x} /\ t \cap {x} = {} /\ t \in SUBSET S /\ {x} \in SUBSET S
      BY <3>1
    <3>5. Summable(t, f) /\ Summable({x}, f)
      <4>1. IsFiniteSet(t) /\ IsFiniteSet({x})
        <5> HIDE DEF t
        <5> QED BY <3>4, FS_Subset, Zenon DEF Summable
      <4> QED BY <4>1 DEF Summable
    <3>6. Summable(ImageOf(h, t), g) /\ Summable({h[x]}, g)
      <4>1. IsFiniteSet(ImageOf(h, t)) /\ IsFiniteSet({h[x]})
        <5> HIDE DEF t
        <5> QED BY <3>5, FiniteImage, FS_Singleton, Zenon DEF Summable
      <4>2. \A y \in ImageOf(h, t) : g[y] \in Nat
        BY DEF ImageOf, Summable
      <4>3. g[h[x]] \in Nat
        BY DEF Summable
      <4> HIDE DEF t
      <4> QED BY <4>1, <4>2, <4>3 DEF Summable
    <3>7. SumOver({x}, f) = SumOver({h[x]}, g)
      <4>1. g[h[x]] = f[x] /\ f[x] \in Nat
        BY DEF Summable
      <4> QED BY <4>1, SumOverOne
    <3> HIDE DEF t
    <3>8. SumOver(t \cup {x}, f) = SumOver(t, f) + SumOver({x}, f)
      BY <3>4, <3>5, SumOverUnion, SMT
    <3>9. SumOver(ImageOf(h, t) \cup {h[x]}, g) = SumOver(ImageOf(h, t), g) + SumOver({h[x]}, g)
      BY <3>3, <3>6, SumOverUnion, SMT
    <3> QED BY <3>2, <3>3, <3>4, <3>7, <3>8, <3>9
  <2> QED BY <2>1, <2>2
<1>2. SUBSET S \subseteq G
  <2>1. IsFiniteSet(S)
    BY DEF Summable
  <2> HIDE DEF G
  <2> QED BY <1>1, <2>1, AllSubsets, Zenon
<1>3. S \in G
  BY <1>2
<1> QED BY <1>3

-----------------------------------------------------------------------------
\* Joining sequences.

\* The function g joins the first i sequences of ss.
Flattens(g, X, n, ss) ==
  g \in [0..n -> Seq(X)] /\ g[0] = <<>> /\ \A i \in 1..n : g[i] = g[i - 1] \o ss[i]

CanFlatten(X, n, ss) == \E g : Flattens(g, X, n, ss)

\* Sequences can be joined.
LEMMA FlattensExists ==
  ASSUME NEW X, NEW n \in Nat, NEW ss, \A i \in 1..n : ss[i] \in Seq(X)
  PROVE  CanFlatten(X, n, ss)
<1> DEFINE step == [i \in 1..n |-> [s \in Seq(X) |-> s \o ss[i]]]
<1>1. \A i \in 1..n : \A s \in Seq(X) : step[i][s] = s \o ss[i] /\ step[i][s] \in Seq(X)
  OBVIOUS
<1>2. <<>> \in Seq(X)
  OBVIOUS
<1> HIDE DEF step
<1>3. PICK g : Iterates(g, Seq(X), n, <<>>, step)
  BY <1>1, <1>2, RecursionExists, Zenon
<1>4. g \in [0..n -> Seq(X)] /\ g[0] = <<>>
  BY <1>3 DEF Iterates
<1>5. ASSUME NEW i \in 1..n PROVE g[i] = g[i - 1] \o ss[i]
  <2>1. i - 1 \in 0..n
    OBVIOUS
  <2>2. g[i - 1] \in Seq(X) /\ g[i] = step[i][g[i - 1]]
    BY <1>3, <1>4, <2>1 DEF Iterates
  <2> QED BY <1>1, <2>2
<1>6. Flattens(g, X, n, ss)
  BY <1>4, <1>5 DEF Flattens
<1> QED BY <1>6 DEF CanFlatten

\* FlattenSeq joins all of them.
LEMMA FlattenIs ==
  ASSUME NEW X, NEW n \in Nat, NEW ss \in [1..n -> Seq(X)], NEW g, Flattens(g, X, n, ss)
  PROVE  FlattenSeq(ss) = g[n]
<1> DEFINE Body(f, i) == IF i = 1 THEN ss[i] ELSE f[i - 1] \o ss[i]
           flatten == CHOOSE f : f = [i \in 1..Len(ss) |-> Body(f, i)]
           k == [i \in 1..n |-> g[i]]
           G == {i \in 0..n : i = 0 \/ flatten[i] = g[i]}
<1>1. Len(ss) = n
  OBVIOUS
<1>2. CASE n = 0
  <2>1. ss = <<>> /\ FlattenSeq(ss) = ss
    BY <1>1, <1>2 DEF FlattenSeq
  <2> QED BY <1>2, <2>1 DEF Flattens
<1>3. CASE n # 0
  <2>1. ASSUME NEW i \in 1..n PROVE g[i] = Body(g, i)
    <3>1. CASE i = 1
      <4>1. ss[i] \in Seq(X)
        OBVIOUS
      <4>2. i - 1 = 0
        BY <3>1
      <4>3. g[i] = g[0] \o ss[i] /\ g[0] = <<>>
        BY <4>2, Zenon DEF Flattens
      <4>4. <<>> \o ss[i] = ss[i]
        BY <4>1
      <4>5. g[i] = ss[i]
        BY <4>3, <4>4
      <4> QED BY <3>1, <4>5
    <3>2. CASE i # 1
      BY <3>2 DEF Flattens
    <3> QED BY <3>1, <3>2
  <2>2. \E f : f = [i \in 1..Len(ss) |-> Body(f, i)]
    <3>1. ASSUME NEW i \in 1..n PROVE k[i] = Body(k, i)
      <4>1. CASE i = 1
        BY <2>1, <4>1
      <4>2. CASE i # 1
        <5>1. i - 1 \in 1..n /\ k[i] = g[i] /\ k[i - 1] = g[i - 1]
          BY <4>2
        <5> HIDE DEF k
        <5> QED BY <2>1, <4>2, <5>1
      <4> QED BY <4>1, <4>2
    <3>2. k = [i \in 1..n |-> k[i]]
      OBVIOUS
    <3>3. [i \in 1..n |-> k[i]] = [i \in 1..n |-> Body(k, i)]
      <4> HIDE DEF k, Body
      <4> QED BY <3>1
    <3> HIDE DEF k, Body
    <3> QED BY <1>1, <3>2, <3>3, Zenon
  <2>3. flatten = [i \in 1..Len(ss) |-> Body(flatten, i)]
    BY <2>2, Zenon
  <2>4. FlattenSeq(ss) = flatten[n]
    BY <1>1, <1>3 DEF FlattenSeq
  <2> HIDE DEF flatten
  <2>5. ASSUME NEW i \in 1..n PROVE flatten[i] = Body(flatten, i)
    <3> HIDE DEF Body
    <3> QED BY <1>1, <2>3
  <2>6. ASSUME NEW i \in 1..n, i - 1 \in G PROVE i \in G
    <3>1. CASE i = 1
      BY <2>1, <2>5, <3>1
    <3>2. CASE i # 1
      BY <2>1, <2>5, <2>6, <3>2
    <3> QED BY <3>1, <3>2
  <2>7. 0..n \subseteq G
    <3>1. 0 \in G
      OBVIOUS
    <3> HIDE DEF G
    <3> QED BY <2>6, <3>1, AllUpTo, Zenon
  <2>8. n \in G
    BY <2>7
  <2> QED BY <1>3, <2>4, <2>8
<1> QED BY <1>2, <1>3

\* The joined sequences are a sequence.
LEMMA FlattenType ==
  ASSUME NEW X, NEW ss \in Seq(Seq(X))
  PROVE  FlattenSeq(ss) \in Seq(X)
<1> DEFINE n == Len(ss)
<1>1. n \in Nat /\ ss \in [1..n -> Seq(X)]
  OBVIOUS
<1> HIDE DEF n
<1>2. PICK g : Flattens(g, X, n, ss)
  BY <1>1, FlattensExists DEF CanFlatten
<1>3. FlattenSeq(ss) = g[n] /\ n \in 0..n
  BY <1>1, <1>2, FlattenIs
<1> QED BY <1>2, <1>3 DEF Flattens

\* Three sequences are joined in any order.
InAnyOrder(a, b, c) == (a \o b) \o c = a \o (b \o c)

LEMMA JoinedInAnyOrder ==
  ASSUME NEW X, NEW a \in Seq(X), NEW b \in Seq(X), NEW c \in Seq(X)
  PROVE  InAnyOrder(a, b, c)
  BY DEF InAnyOrder

\* Two rows of sequences are joined one after the other.
LEMMA FlattenConcat ==
  ASSUME NEW X, NEW ss \in Seq(Seq(X)), NEW tt \in Seq(Seq(X))
  PROVE  FlattenSeq(ss \o tt) = FlattenSeq(ss) \o FlattenSeq(tt)
<1> DEFINE n == Len(ss)
           m == Len(tt)
           rr == ss \o tt
<1>1. /\ n \in Nat /\ m \in Nat /\ n + m \in Nat
      /\ ss \in [1..n -> Seq(X)] /\ tt \in [1..m -> Seq(X)] /\ rr \in [1..(n + m) -> Seq(X)]
      /\ \A i \in 1..n : rr[i] = ss[i]
      /\ \A i \in 1..m : rr[n + i] = tt[i]
  <2>1. /\ n \in Nat /\ m \in Nat /\ n + m \in Nat
        /\ ss \in [1..n -> Seq(X)] /\ tt \in [1..m -> Seq(X)]
    OBVIOUS
  <2>2. rr \in Seq(Seq(X)) /\ Len(rr) = n + m
    OBVIOUS
  <2>3. \A i \in 1..(n + m) : rr[i] = IF i <= n THEN ss[i] ELSE tt[i - n]
    OBVIOUS
  <2> HIDE DEF rr, n, m
  <2>4. rr \in [1..(n + m) -> Seq(X)]
    BY <2>2
  <2>5. ASSUME NEW i \in 1..n PROVE rr[i] = ss[i]
    BY <2>1, <2>3
  <2>6. ASSUME NEW i \in 1..m PROVE rr[n + i] = tt[i]
    <3>1. n + i \in 1..(n + m) /\ ~(n + i <= n) /\ (n + i) - n = i
      BY <2>1
    <3> QED BY <2>3, <3>1
  <2> QED BY <2>1, <2>4, <2>5, <2>6
<1> HIDE DEF n, m, rr
<1>2. PICK g : Flattens(g, X, n + m, rr)
  BY <1>1, FlattensExists DEF CanFlatten
<1>3. PICK h : Flattens(h, X, m, tt)
  BY <1>1, FlattensExists DEF CanFlatten
<1> DEFINE k == [i \in 0..n |-> g[i]]
           G == {i \in 0..m : g[n + i] = g[n] \o h[i]}
<1>4. Flattens(k, X, n, ss)
  <2>1. \A i \in 0..n : i \in 0..(n + m)
    BY <1>1
  <2>2. k \in [0..n -> Seq(X)] /\ k[0] = <<>>
    BY <1>1, <1>2, <2>1 DEF Flattens
  <2>3. ASSUME NEW i \in 1..n PROVE k[i] = k[i - 1] \o ss[i]
    <3>1. i \in 1..(n + m) /\ i \in 0..n /\ i - 1 \in 0..n
      BY <1>1
    <3>2. g[i] = g[i - 1] \o rr[i] /\ rr[i] = ss[i]
      BY <1>1, <1>2, <3>1 DEF Flattens
    <3> QED BY <3>1, <3>2
  <2> QED BY <2>2, <2>3 DEF Flattens
<1>5. FlattenSeq(ss) = g[n] /\ FlattenSeq(tt) = h[m] /\ FlattenSeq(rr) = g[n + m]
  <2>1. FlattenSeq(ss) = k[n]
    <3> HIDE DEF k
    <3> QED BY <1>1, <1>4, FlattenIs
  <2>2. k[n] = g[n]
    BY <1>1
  <2>3. FlattenSeq(tt) = h[m] /\ FlattenSeq(rr) = g[n + m]
    BY <1>1, <1>2, <1>3, FlattenIs
  <2> QED BY <2>1, <2>2, <2>3
<1>6. 0 \in G
  <2>1. g[n] \in Seq(X) /\ h[0] = <<>> /\ n + 0 = n
    BY <1>1, <1>2, <1>3 DEF Flattens
  <2>2. g[n] \o <<>> = g[n]
    BY <2>1
  <2>3. g[n + 0] = g[n] \o h[0] /\ 0 \in 0..m
    BY <1>1, <2>1, <2>2
  <2> QED BY <2>3
<1>7. ASSUME NEW i \in 1..m, i - 1 \in G PROVE i \in G
  <2>1. n + i \in 1..(n + m) /\ (n + i) - 1 = n + (i - 1) /\ n \in 0..(n + m) /\ i - 1 \in 0..m
    BY <1>1
  <2>2. g[n + i] = g[n + (i - 1)] \o tt[i]
    BY <1>1, <1>2, <2>1 DEF Flattens
  <2>3. g[n + (i - 1)] = g[n] \o h[i - 1] /\ h[i] = h[i - 1] \o tt[i]
    BY <1>3, <1>7 DEF Flattens
  <2>4. g[n] \in Seq(X) /\ h[i - 1] \in Seq(X) /\ tt[i] \in Seq(X)
    BY <1>1, <1>2, <1>3, <2>1 DEF Flattens
  <2>5. (g[n] \o h[i - 1]) \o tt[i] = g[n] \o (h[i - 1] \o tt[i])
    <3>1. InAnyOrder(g[n], h[i - 1], tt[i])
      <4> HIDE DEF k, G
      <4> QED BY <2>4, JoinedInAnyOrder, Zenon
    <3> QED BY <3>1, Zenon DEF InAnyOrder
  <2>6. g[n + i] = g[n] \o h[i] /\ i \in 0..m
    BY <2>2, <2>3, <2>5
  <2> QED BY <2>6
<1>8. 0..m \subseteq G
  <2> HIDE DEF G
  <2> QED BY <1>1, <1>6, <1>7, AllUpTo, Zenon
<1>9. m \in G
  <2>1. m \in 0..m
    BY <1>1
  <2> HIDE DEF G
  <2> QED BY <1>8, <2>1
<1>10. g[n + m] = g[n] \o h[m]
  BY <1>9
<1> QED BY <1>5, <1>10, Zenon DEF rr

\* A single sequence is what it is joined to.
LEMMA FlattenOne ==
  ASSUME NEW X, NEW s \in Seq(X)
  PROVE  FlattenSeq(<<s>>) = s
<1> DEFINE g == [i \in 0..1 |-> IF i = 0 THEN <<>> ELSE s]
           ss == <<s>>
<1>1. ss \in [1..1 -> Seq(X)] /\ ss[1] = s /\ <<>> \o s = s /\ <<>> \in Seq(X)
  OBVIOUS
<1>2. g \in [0..1 -> Seq(X)] /\ g[0] = <<>> /\ g[1] = s
  OBVIOUS
<1> HIDE DEF g, ss
<1>3. Flattens(g, X, 1, ss)
  <2>1. ASSUME NEW i \in 1..1 PROVE g[i] = g[i - 1] \o ss[i]
    BY <1>1, <1>2
  <2> QED BY <1>2, <2>1 DEF Flattens
<1>4. FlattenSeq(ss) = g[1]
  BY <1>1, <1>3, FlattenIs
<1> QED BY <1>2, <1>4 DEF ss

\* What F makes of each element of q.
Mapped(F, q) == [i \in DOMAIN q |-> F[q[i]]]

\* They are sequences.
LEMMA MappedType ==
  ASSUME NEW X, NEW Y, NEW F \in [X -> Seq(Y)], NEW q \in Seq(X)
  PROVE  Mapped(F, q) \in Seq(Seq(Y))
<1>1. DOMAIN q = 1..Len(q) /\ Len(q) \in Nat /\ \A i \in 1..Len(q) : q[i] \in X
  OBVIOUS
<1> DEFINE S == Seq(Y)
<1>2. \A x \in X : F[x] \in S
  OBVIOUS
<1> HIDE DEF S
<1>3. Mapped(F, q) \in [1..Len(q) -> S]
  BY <1>1, <1>2 DEF Mapped
<1> DEFINE n == Len(q)
           w == Mapped(F, q)
<1>4. n \in Nat /\ w \in [1..n -> S]
  BY <1>1, <1>3
<1> HIDE DEF n, w
<1>5. w \in Seq(S)
  BY <1>4
<1> QED BY <1>5 DEF S, w

\* The elements of two sequences are taken one after the other.
OneAfterTheOther(F, a, b) ==
  FlattenSeq(Mapped(F, a \o b)) = FlattenSeq(Mapped(F, a)) \o FlattenSeq(Mapped(F, b))

LEMMA MappedConcat ==
  ASSUME NEW X, NEW Y, NEW F \in [X -> Seq(Y)], NEW a \in Seq(X), NEW b \in Seq(X)
  PROVE  OneAfterTheOther(F, a, b)
<1> DEFINE S == Seq(Y)
           c == a \o b
           f == Mapped(F, a)
           g == Mapped(F, b)
           r == Mapped(F, c)
<1>1. c \in Seq(X) /\ Len(c) = Len(a) + Len(b) /\ Len(a) \in Nat /\ Len(b) \in Nat
  OBVIOUS
<1>2. /\ DOMAIN a = 1..Len(a) /\ DOMAIN b = 1..Len(b)
      /\ \A i \in 1..Len(c) : c[i] = IF i <= Len(a) THEN a[i] ELSE b[i - Len(a)]
  OBVIOUS
<1>3. DOMAIN c = 1..Len(c)
  BY <1>1
<1> HIDE DEF c
<1>4. /\ DOMAIN f = 1..Len(a) /\ DOMAIN g = 1..Len(b) /\ DOMAIN r = 1..Len(c)
      /\ \A i \in 1..Len(a) : f[i] = F[a[i]]
      /\ \A i \in 1..Len(b) : g[i] = F[b[i]]
      /\ \A i \in 1..Len(c) : r[i] = F[c[i]]
  BY <1>2, <1>3 DEF Mapped
<1>5. f \in Seq(S) /\ g \in Seq(S) /\ r \in Seq(S)
  BY <1>1, MappedType
<1> HIDE DEF f, g, r, S
<1>6. Len(f) = Len(a) /\ Len(g) = Len(b) /\ Len(r) = Len(c)
  BY <1>1, <1>4, <1>5
<1>7. ASSUME NEW i \in 1..Len(r) PROVE r[i] = IF i <= Len(f) THEN f[i] ELSE g[i - Len(f)]
  <2>1. CASE i <= Len(a)
    <3>1. i \in 1..Len(a) /\ i \in 1..Len(c)
      BY <1>1, <1>6, <2>1
    <3>2. c[i] = a[i]
      BY <1>2, <2>1, <3>1
    <3> QED BY <1>4, <1>6, <2>1, <3>1, <3>2
  <2>2. CASE ~(i <= Len(a))
    <3>1. i - Len(a) \in 1..Len(b) /\ i \in 1..Len(c)
      BY <1>1, <1>6, <2>2
    <3>2. c[i] = b[i - Len(a)]
      BY <1>2, <2>2, <3>1
    <3> QED BY <1>4, <1>6, <2>2, <3>1, <3>2
  <2> QED BY <2>1, <2>2
<1>8. r = f \o g
  <2>1. Len(r) = Len(f) + Len(g)
    BY <1>1, <1>6
  <2>2. f \o g \in Seq(S) /\ Len(f \o g) = Len(r)
    BY <1>5, <2>1
  <2>3. \A i \in 1..Len(r) : r[i] = (f \o g)[i]
    BY <1>5, <1>7, <2>1
  <2> DEFINE fg == f \o g
  <2> HIDE DEF fg
  <2>4. r = fg
    BY <1>5, <2>2, <2>3, SeqEqual DEF fg
  <2> QED BY <2>4 DEF fg
<1>9. FlattenSeq(f \o g) = FlattenSeq(f) \o FlattenSeq(g)
  BY <1>5, FlattenConcat DEF S
<1> QED BY <1>8, <1>9 DEF c, f, g, r, OneAfterTheOther
=============================================================================
