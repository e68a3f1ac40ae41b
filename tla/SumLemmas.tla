------------------------------ MODULE SumLemmas ------------------------------
(***************************************************************************)
(* What the proofs need to know of SumFunction, the sum that the counters   *)
(* of FileReceiver are compared with: it is a natural number if its terms   *)
(* are, and it changes by what one of its terms changes by.                 *)
(*                                                                         *)
(* SumFunction is a recursive function on the subsets of a finite domain,   *)
(* so this is induction over data.  The induction theorems of the library   *)
(* have an operator as a parameter, which the provers cannot instantiate.   *)
(* WFMin has not: it says that a set has a minimal element.  Induction is   *)
(* therefore stated here with the set of values for which a claim holds.    *)
(***************************************************************************)
EXTENDS Functions, Integers, FiniteSetTheorems, WellFoundedInduction, TLAPS

\* A nonempty set of natural numbers has a least element.
LEMMA LeastNat ==
    ASSUME NEW T, T \subseteq Nat, T # {}
    PROVE  \E x \in T : \A y \in T : x <= y
<1> DEFINE R == {ss \in Nat \X Nat : ss[1] < ss[2]}
<1>1. IsWellFoundedOn(R, Nat)
  BY NatLessThanWellFounded DEF OpToRel
<1>2. PICK x \in T : \A y \in T : ~(<<y, x>> \in R)
  <2> HIDE DEF R
  <2> QED BY <1>1, WFMin
<1>3. ASSUME NEW y \in T PROVE x <= y
  <2>1. x \in Nat /\ y \in Nat /\ ~(<<y, x>> \in R)
    BY <1>2
  <2>2. ~(y < x)
    BY <2>1
  <2>3. QED
    BY <2>1, <2>2
<1>4. QED
  BY <1>3

\* Induction on the natural numbers: G is the set of numbers that satisfy the claim.
LEMMA NatInduct ==
    ASSUME NEW G, 0 \in G, \A n \in Nat : n \in G => n + 1 \in G
    PROVE  Nat \subseteq G
<1> SUFFICES ASSUME Nat \ G # {} PROVE FALSE
  OBVIOUS
<1>1. PICK n \in Nat \ G : \A m \in Nat \ G : n <= m
  <2> DEFINE T == Nat \ G
  <2>1. T \subseteq Nat /\ T # {}
    OBVIOUS
  <2> HIDE DEF T
  <2>2. \E x \in T : \A y \in T : x <= y
    BY <2>1, LeastNat
  <2>3. QED
    BY <2>2 DEF T
<1>2. n - 1 \in Nat /\ n - 1 \in G
  BY <1>1
<1>3. QED
  BY <1>1, <1>2

\* The element of s that is added next.
PickOne(s) == CHOOSE x \in s : TRUE

\* The sum of f over s, if h is the sum over smaller sets.
SumStep(f, h, s) == IF s = {} THEN 0 ELSE f[PickOne(s)] + h[s \ {PickOne(s)}]

\* h solves the equation of the sum on the sets in D.
IsSum(f, h, D) == h = [s \in D |-> SumStep(f, h, s)]

\* SumFunction, with the definitions of the library expanded.
LEMMA SumIsChosen ==
    ASSUME NEW f
    PROVE  SumFunction(f) = (CHOOSE h : IsSum(f, h, SUBSET DOMAIN f))[DOMAIN f]
BY DEF SumFunction, SumFunctionOnSet, FoldFunctionOnSet, MapThenFoldSet, IsSum, SumStep, PickOne

\* The element that the sum takes next is an element.
LEMMA PickIn == ASSUME NEW s, s # {} PROVE PickOne(s) \in s
BY DEF PickOne

\* Subsets of S with at most n elements.
Upto(S, n) == {s \in SUBSET S : Cardinality(s) <= n}

\* Without the element taken next, a set is smaller.
LEMMA Smaller ==
    ASSUME NEW S, IsFiniteSet(S), NEW n \in Nat, NEW s \in Upto(S, n + 1), s # {}
    PROVE  s \ {PickOne(s)} \in Upto(S, n)
<1>1. IsFiniteSet(s)
  BY FS_Subset DEF Upto
<1>2. Cardinality(s \ {PickOne(s)}) = Cardinality(s) - 1 /\ Cardinality(s) \in Nat
  BY <1>1, PickIn, FS_RemoveElement, FS_CardinalityType
<1>3. QED
  BY <1>2 DEF Upto

\* The recursive equation of the sum has a solution on the subsets of a finite set: a
\* solution for the sets of n elements gives one for the sets of n + 1.
LEMMA SumExists ==
    ASSUME NEW S, IsFiniteSet(S), NEW f
    PROVE  \E h : IsSum(f, h, SUBSET S)
<1> DEFINE G == {n \in Nat : \E h : IsSum(f, h, Upto(S, n))}
<1>1. 0 \in G
  <2> DEFINE h == [s \in Upto(S, 0) |-> 0]
  <2>1. ASSUME NEW s \in Upto(S, 0) PROVE s = {}
    <3>1. IsFiniteSet(s) /\ Cardinality(s) \in Nat /\ Cardinality(s) <= 0
      BY FS_Subset, FS_CardinalityType DEF Upto
    <3>2. Cardinality(s) = 0
      BY <3>1
    <3>3. QED
      BY <3>1, <3>2, FS_EmptySet
  <2>2. IsSum(f, h, Upto(S, 0))
    BY <2>1 DEF IsSum, SumStep
  <2>3. QED
    BY <2>2
<1>2. ASSUME NEW n \in Nat, n \in G PROVE n + 1 \in G
  <2>1. PICK h : IsSum(f, h, Upto(S, n))
    BY <1>2
  <2> DEFINE D == Upto(S, n + 1)
  <2> DEFINE k == [s \in D |-> SumStep(f, h, s)]
  <2>2. ASSUME NEW t \in Upto(S, n) PROVE h[t] = SumStep(f, h, t) /\ t \in D
    <3>1. t \in D
      <4>1. IsFiniteSet(t) /\ Cardinality(t) \in Nat
        BY FS_Subset, FS_CardinalityType DEF Upto
      <4> QED BY <4>1 DEF Upto
    <3>2. QED BY <2>1, <3>1 DEF IsSum
  <2>3. ASSUME NEW s \in D PROVE SumStep(f, h, s) = SumStep(f, k, s)
    <3>1. CASE s = {}
      BY <3>1 DEF SumStep
    <3>2. CASE s # {}
      <4>1. s \ {PickOne(s)} \in Upto(S, n)
        BY <3>2, Smaller
      <4> DEFINE t == s \ {PickOne(s)}
      <4>2. k[t] = h[t]
        BY <4>1, <2>2
      <4> QED BY <4>2, <3>2 DEF SumStep
    <3>3. QED BY <3>1, <3>2
  <2>4. k = [s \in D |-> SumStep(f, k, s)]
    BY <2>3
  <2>5. IsSum(f, k, D)
    BY <2>4 DEF IsSum
  <2>6. QED
    BY <2>5
<1>3. Nat \subseteq G
  <2> HIDE DEF G
  <2> QED BY <1>1, <1>2, NatInduct
<1>4. Cardinality(S) \in Nat
  BY FS_CardinalityType
<1>5. Upto(S, Cardinality(S)) = SUBSET S
  BY FS_Subset DEF Upto
<1>6. QED
  BY <1>3, <1>4, <1>5

\* SumFunction is the value of a solution of its equation.
LEMMA SumIsWitnessed ==
    ASSUME NEW S, IsFiniteSet(S), NEW f, DOMAIN f = S
    PROVE  \E h : IsSum(f, h, SUBSET S) /\ SumFunction(f) = h[S]
<1>1. \E h : IsSum(f, h, SUBSET S)
  BY SumExists
<1>2. IsSum(f, CHOOSE h : IsSum(f, h, SUBSET S), SUBSET S)
  BY <1>1
<1>3. QED
  BY <1>2, SumIsChosen

\* Induction along the order in which the sum takes the elements of a finite set.
LEMMA SubsetInduction ==
    ASSUME NEW S, IsFiniteSet(S), NEW G, {} \in G,
           \A s \in SUBSET S : s # {} /\ s \ {PickOne(s)} \in G => s \in G
    PROVE  S \in G
<1> DEFINE H == {n \in Nat : Upto(S, n) \subseteq G}
<1>1. 0 \in H
  <2>1. ASSUME NEW s \in Upto(S, 0) PROVE s = {}
    <3>1. IsFiniteSet(s) /\ Cardinality(s) \in Nat /\ Cardinality(s) <= 0
      BY FS_Subset, FS_CardinalityType DEF Upto
    <3>2. Cardinality(s) = 0
      BY <3>1
    <3>3. QED
      BY <3>1, <3>2, FS_EmptySet
  <2>2. QED
    BY <2>1
<1>2. ASSUME NEW n \in Nat, n \in H PROVE n + 1 \in H
  <2>1. ASSUME NEW s \in Upto(S, n + 1), s # {} PROVE s \in G
    <3>1. s \ {PickOne(s)} \in Upto(S, n) /\ s \in SUBSET S
      BY <2>1, Smaller DEF Upto
    <3>2. QED
      BY <3>1, <2>1, <1>2
  <2>2. QED
    BY <2>1
<1>3. Nat \subseteq H
  <2> HIDE DEF H
  <2> QED BY <1>1, <1>2, NatInduct
<1>4. Cardinality(S) \in Nat /\ S \in Upto(S, Cardinality(S))
  BY FS_CardinalityType DEF Upto
<1>5. QED
  BY <1>3, <1>4

\* The value of a solution at a set, from its value at the smaller one.
LEMMA SumUnrolls ==
    ASSUME NEW S, NEW f, NEW h, IsSum(f, h, SUBSET S), NEW s \in SUBSET S
    PROVE  /\ s = {} => h[s] = 0
           /\ s # {} => h[s] = f[PickOne(s)] + h[s \ {PickOne(s)}]
BY DEF IsSum, SumStep

\* The sum over no element.
LEMMA SumOfNone ==
    ASSUME NEW S, NEW f, NEW h, IsSum(f, h, SUBSET S)
    PROVE  h[{}] = 0
<1>1. {} \in SUBSET S
  OBVIOUS
<1>2. h[{}] = SumStep(f, h, {})
  BY <1>1 DEF IsSum
<1>3. QED
  BY <1>2 DEF SumStep

\* A sum of zeros is zero: every counter is right when nothing is open.
LEMMA SumZero ==
    ASSUME NEW S, IsFiniteSet(S)
    PROVE  SumFunction([x \in S |-> 0]) = 0
<1> DEFINE f == [x \in S |-> 0]
<1>1. PICK h : IsSum(f, h, SUBSET S) /\ SumFunction(f) = h[S]
  <2> DOMAIN f = S OBVIOUS
  <2> HIDE DEF f
  <2> QED BY SumIsWitnessed
<1> DEFINE G == {s \in SUBSET S : h[s] = 0}
<1>2. {} \in G
  <2> HIDE DEF f
  <2>1. h[{}] = 0
    BY <1>1, SumOfNone
  <2>2. QED
    BY <2>1
<1>3. ASSUME NEW s \in SUBSET S, s # {}, s \ {PickOne(s)} \in G PROVE s \in G
  <2>1. f[PickOne(s)] = 0
    BY <1>3, PickIn
  <2>2. h[s] = f[PickOne(s)] + h[s \ {PickOne(s)}]
    <3> HIDE DEF f
    <3> QED BY <1>1, <1>3, SumUnrolls
  <2>3. QED
    BY <2>1, <2>2, <1>3
<1>4. S \in G
  <2> HIDE DEF G
  <2> QED BY <1>2, <1>3, SubsetInduction
<1>5. QED
  BY <1>1, <1>4

\* A sum of natural numbers is one: a counter that agrees with what it counts is never
\* negative.
LEMMA SumNat ==
    ASSUME NEW S, IsFiniteSet(S), NEW f \in [S -> Nat]
    PROVE  SumFunction(f) \in Nat
<1>1. PICK h : IsSum(f, h, SUBSET S) /\ SumFunction(f) = h[S]
  BY SumIsWitnessed
<1> DEFINE G == {s \in SUBSET S : h[s] \in Nat}
<1>2. {} \in G
  <2>1. h[{}] = 0
    BY <1>1, SumOfNone
  <2>2. QED
    BY <2>1
<1>3. ASSUME NEW s \in SUBSET S, s # {}, s \ {PickOne(s)} \in G PROVE s \in G
  <2>1. f[PickOne(s)] \in Nat
    BY <1>3, PickIn
  <2>2. h[s] = f[PickOne(s)] + h[s \ {PickOne(s)}]
    BY <1>1, <1>3, SumUnrolls
  <2>3. QED
    BY <2>1, <2>2, <1>3
<1>4. S \in G
  <2> HIDE DEF G
  <2> QED BY <1>2, <1>3, SubsetInduction
<1>5. QED
  BY <1>1, <1>4

\* When one term changes, the sum changes by as much: the counter of all connections
\* follows a change at one address.
LEMMA SumChange ==
    ASSUME NEW S, IsFiniteSet(S), NEW f \in [S -> Int], NEW g \in [S -> Int],
           NEW i \in S, \A x \in S \ {i} : g[x] = f[x]
    PROVE  SumFunction(g) = SumFunction(f) + g[i] - f[i]
<1>1. PICK h : IsSum(f, h, SUBSET S) /\ SumFunction(f) = h[S]
  BY SumIsWitnessed
<1>2. PICK k : IsSum(g, k, SUBSET S) /\ SumFunction(g) = k[S]
  BY SumIsWitnessed
<1> DEFINE D(s) == IF i \in s THEN g[i] - f[i] ELSE 0
<1> DEFINE G == {s \in SUBSET S : h[s] \in Int /\ k[s] = h[s] + D(s)}
<1>3. {} \in G
  <2>1. h[{}] = 0
    BY <1>1, SumOfNone
  <2>2. k[{}] = 0
    BY <1>2, SumOfNone
  <2>3. QED
    BY <2>1, <2>2
<1>4. ASSUME NEW s \in SUBSET S, s # {}, s \ {PickOne(s)} \in G PROVE s \in G
  <2> DEFINE x == PickOne(s)
  <2>1. x \in S /\ x \in s
    BY <1>4, PickIn
  <2>2. h[s] = f[x] + h[s \ {x}] /\ k[s] = g[x] + k[s \ {x}]
    <3>1. h[s] = f[x] + h[s \ {x}]
      BY <1>1, <1>4, SumUnrolls
    <3>2. k[s] = g[x] + k[s \ {x}]
      BY <1>2, <1>4, SumUnrolls
    <3>3. QED
      BY <3>1, <3>2
  <2>3. h[s \ {x}] \in Int /\ k[s \ {x}] = h[s \ {x}] + D(s \ {x})
    BY <1>4
  <2> HIDE DEF x
  <2>4. f[x] \in Int /\ g[x] \in Int /\ f[i] \in Int /\ g[i] \in Int
    BY <2>1
  <2>5. CASE x = i
    <3>1. D(s \ {x}) = 0 /\ D(s) = g[x] - f[x]
      BY <2>5, <2>1
    <3> HIDE DEF D
    <3>2. k[s] = h[s] + D(s) /\ h[s] \in Int
      BY <3>1, <2>2, <2>3, <2>4
    <3> QED BY <3>2
  <2>6. CASE x # i
    <3>1. D(s \ {x}) = D(s) /\ g[x] = f[x] /\ D(s) \in Int
      BY <2>6, <2>1, <2>4
    <3> HIDE DEF D
    <3>2. k[s] = h[s] + D(s) /\ h[s] \in Int
      BY <3>1, <2>2, <2>3, <2>4
    <3> QED BY <3>2
  <2>7. QED
    BY <2>5, <2>6
<1>5. S \in G
  <2> HIDE DEF G
  <2> QED BY <1>3, <1>4, SubsetInduction
<1>6. h[S] \in Int /\ k[S] = h[S] + (g[i] - f[i]) /\ g[i] \in Int /\ f[i] \in Int
  BY <1>5
<1>7. QED
  BY <1>1, <1>2, <1>6
=============================================================================
