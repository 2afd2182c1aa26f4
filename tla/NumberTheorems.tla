----------------------------- MODULE NumberTheorems ------------------------------
(***************************************************************************)
(* Natural numbers and sums.  Every non-empty set of numbers has a least   *)
(* element, and a set of numbers is all of them by induction: what the     *)
(* other proof modules use in place of the library's induction theorem,    *)
(* since the provers cannot instantiate one with a predicate.  With it,    *)
(* the sum of the community modules, a fold over a set in an order that    *)
(* nobody knows, is the sum that does not depend on an order.              *)
(***************************************************************************)
EXTENDS Integers, Functions, FiniteSetTheorems, WellFoundedInduction, TLAPS

\* A set of numbers has a least one, as the strict subset ordering on the
\* finite sets 0..n is well founded.
THEOREM LeastNumberPrinciple ==
  ASSUME NEW S \in SUBSET Nat, S # {}
  PROVE  \E m \in S : \A n \in S : m <= n
<1> DEFINE T == {0..n : n \in S}
<1>1. T \subseteq FiniteSubsetsOf(Nat) /\ T # {}
  <2>1. \A n \in S : IsFiniteSet(0..n) /\ 0..n \subseteq Nat
    BY FS_Interval
  <2> QED
    BY <2>1 DEF FiniteSubsetsOf
<1>2. PICK x \in T : \A y \in T : ~(<<y, x>> \in StrictSubsetOrdering(Nat))
  <2> HIDE DEF T
  <2> QED
    BY <1>1, FS_StrictSubsetOrderingWellFounded, WFMin
<1>3. PICK m \in S : x = 0..m
  OBVIOUS
<1>4. ASSUME NEW n \in S, n < m PROVE FALSE
  <2>1. 0..n \in T /\ 0..n \subseteq 0..m /\ 0..n # 0..m
    <3>1. m \in 0..m /\ m \notin 0..n
      BY <1>4
    <3> QED
      BY <1>4, <3>1
  <2>2. 0..n \in SUBSET Nat /\ 0..m \in SUBSET Nat
    OBVIOUS
  <2> QED
    BY <1>2, <1>3, <2>1, <2>2 DEF StrictSubsetOrdering
<1> QED
  BY <1>4

\* A set of numbers with 0 that has the successor of each of its numbers is the
\* set of all of them.
THEOREM Induction ==
  ASSUME NEW S \in SUBSET Nat, 0 \in S, \A n \in S : n + 1 \in S
  PROVE  S = Nat
<1> SUFFICES ASSUME Nat \ S # {} PROVE FALSE
  OBVIOUS
<1>1. PICK m \in Nat \ S : \A n \in Nat \ S : m <= n
  BY LeastNumberPrinciple
<1>2. m - 1 \in Nat /\ m - 1 \notin Nat \ S
  BY <1>1
<1>3. m - 1 \in S
  BY <1>2
<1>4. (m - 1) + 1 \in S
  BY <1>3
<1> QED
  BY <1>1, <1>4

\* Counting on in a ring of L places.
THEOREM NextInRing ==
  ASSUME NEW L \in Nat \ {0}, NEW c \in Nat
  PROVE  /\ c % L \in 0..(L - 1)
         /\ (c + 1) % L = IF c % L = L - 1 THEN 0 ELSE (c % L) + 1
<1> DEFINE q == c \div L
           r == c % L
           p == (c + 1) \div L
           s == (c + 1) % L
<1>1. /\ r \in 0..(L - 1) /\ q \in Int /\ c = L * q + r
      /\ s \in 0..(L - 1) /\ p \in Int /\ c + 1 = L * p + s
  OBVIOUS
<1> HIDE DEF q, r, p, s
<1>2. L * p + s = L * q + r + 1
  BY <1>1
<1>3. ASSUME p >= q + 2 PROVE FALSE
  <2>1. L * p >= L * q + 2 * L
    BY <1>1, <1>3
  <2> QED
    BY <1>1, <1>2, <2>1
<1>4. ASSUME p <= q - 1 PROVE FALSE
  <2>1. L * p <= L * q - L
    BY <1>1, <1>4
  <2> QED
    BY <1>1, <1>2, <2>1
<1>5. p = q \/ p = q + 1
  BY <1>1, <1>3, <1>4
<1>6. s = IF r = L - 1 THEN 0 ELSE r + 1
  <2>1. CASE p = q
    BY <1>1, <1>2, <2>1
  <2>2. CASE p = q + 1
    <3>1. L * p = L * q + L
      BY <1>1, <2>2
    <3> QED
      BY <1>1, <1>2, <3>1
  <2> QED
    BY <1>5, <2>1, <2>2
<1> QED
  BY <1>1, <1>6 DEF r, s

THEOREM WithinRing ==
  ASSUME NEW L \in Nat \ {0}, NEW c \in 0..(L - 1)
  PROVE  c % L = c
<1> DEFINE q == c \div L
           r == c % L
<1>1. r \in 0..(L - 1) /\ q \in Int /\ c = L * q + r
  OBVIOUS
<1> HIDE DEF q, r
<1>2. ASSUME q >= 1 PROVE FALSE
  <2>1. L * q >= L
    BY <1>1, <1>2
  <2> QED
    BY <1>1, <2>1
<1>3. ASSUME q <= -1 PROVE FALSE
  <2>1. L * q <= -L
    BY <1>1, <1>3
  <2> QED
    BY <1>1, <2>1
<1>4. q = 0
  BY <1>1, <1>2, <1>3
<1>5. r = c
  BY <1>1, <1>4
<1> QED
  BY <1>5 DEF r

-----------------------------------------------------------------------------
\* The choice of the next element that the folds make.
Pick(s) == CHOOSE x \in s : TRUE

SmallSets(S, n) == {s \in SUBSET S : Cardinality(s) <= n}

LEMMA WithoutOne ==
  ASSUME NEW s, IsFiniteSet(s), NEW x \in s
  PROVE  /\ IsFiniteSet(s \ {x}) /\ Cardinality(s \ {x}) = Cardinality(s) - 1
         /\ Cardinality(s) \in Nat
  BY FS_RemoveElement, FS_CardinalityType

LEMMA WithoutPick ==
  ASSUME NEW S, IsFiniteSet(S), NEW n \in Nat,
         NEW s \in SmallSets(S, n + 1), s # {}
  PROVE  /\ Pick(s) \in s /\ s \in SUBSET S
         /\ s \ {Pick(s)} \in SmallSets(S, n)
<1>1. Pick(s) \in s /\ s \in SUBSET S /\ Cardinality(s) <= n + 1 /\ IsFiniteSet(s)
  BY FS_Subset DEF Pick, SmallSets
<1>2. Cardinality(s \ {Pick(s)}) = Cardinality(s) - 1 /\ Cardinality(s) \in Nat
  BY <1>1, WithoutOne
<1> QED
  BY <1>1, <1>2 DEF SmallSets

LEMMA AllSmallSets ==
  ASSUME NEW S, IsFiniteSet(S)
  PROVE  /\ Cardinality(S) \in Nat /\ SmallSets(S, Cardinality(S)) = SUBSET S
         /\ \A s \in SmallSets(S, 0) : s = {}
         /\ \A n \in Nat : SmallSets(S, n) \subseteq SmallSets(S, n + 1)
<1>1. \A s \in SUBSET S : /\ IsFiniteSet(s) /\ Cardinality(s) \in Nat
                          /\ Cardinality(s) <= Cardinality(S)
  BY FS_Subset, FS_CardinalityType
<1> QED
  BY <1>1, FS_EmptySet DEF SmallSets

\* What holds for the empty set, and for a set if it holds for the set without
\* any one of its elements, holds for every subset of a finite set.
THEOREM SetInduction ==
  ASSUME NEW S, IsFiniteSet(S), NEW Q, {} \in Q,
         \A s \in SUBSET S : s # {} /\ (\A x \in s : s \ {x} \in Q) => s \in Q
  PROVE  \A s \in SUBSET S : s \in Q
<1> DEFINE N == {n \in Nat : SmallSets(S, n) \subseteq Q}
<1>1. 0 \in N
  BY AllSmallSets
<1>2. ASSUME NEW n \in N PROVE n + 1 \in N
  <2>1. n \in Nat /\ SmallSets(S, n) \subseteq Q
    OBVIOUS
  <2>2. ASSUME NEW s \in SmallSets(S, n + 1) PROVE s \in Q
    <3>1. CASE s = {}
      BY <3>1
    <3>2. CASE s # {}
      <4>1. s \in SUBSET S /\ IsFiniteSet(s) /\ Cardinality(s) <= n + 1
        BY FS_Subset DEF SmallSets
      <4>2. ASSUME NEW x \in s PROVE s \ {x} \in SmallSets(S, n)
        <5>1. Cardinality(s \ {x}) = Cardinality(s) - 1 /\ Cardinality(s) \in Nat
          BY <4>1, WithoutOne
        <5> QED
          BY <2>1, <4>1, <5>1 DEF SmallSets
      <4> QED
        BY <2>1, <3>2, <4>1, <4>2
    <3> QED
      BY <3>1, <3>2
  <2> QED
    BY <2>1, <2>2
<1>3. N \in SUBSET Nat
  OBVIOUS
<1>4. Cardinality(S) \in N
  <2> HIDE DEF N
  <2> QED
    BY <1>1, <1>2, <1>3, AllSmallSets, Induction
<1> QED
  BY <1>4, AllSmallSets

\* The same with the element that the folds choose first.
THEOREM SubsetInduction ==
  ASSUME NEW S, IsFiniteSet(S), NEW Q, {} \in Q,
         \A s \in SUBSET S : s # {} /\ s \ {Pick(s)} \in Q => s \in Q
  PROVE  \A s \in SUBSET S : s \in Q
<1>1. \A s \in SUBSET S : s # {} /\ (\A x \in s : s \ {x} \in Q) => s \in Q
  BY DEF Pick
<1> QED
  BY <1>1, SetInduction

\* h is the function of the subsets of S that R defines recursively.
Recursive(h, S, base, R) ==
  h = [s \in SUBSET S |->
         IF s = {} THEN base ELSE R[<<Pick(s), h[s \ {Pick(s)}]>>]]

\* There is such a function: a fold over a finite set is what its definition
\* says, although that is a choice among the functions of this kind.
THEOREM RecursionOnSubsets ==
  ASSUME NEW S, IsFiniteSet(S), NEW X, NEW base \in X, NEW R \in [S \X X -> X]
  PROVE  \E h \in [SUBSET S -> X] : Recursive(h, S, base, R)
<1> DEFINE Next(h, s) ==
             IF s = {} THEN base ELSE R[<<Pick(s), h[s \ {Pick(s)}]>>]
           On(h, n) == /\ h \in [SmallSets(S, n) -> X]
                       /\ \A s \in SmallSets(S, n) : h[s] = Next(h, s)
           N == {n \in Nat : \E h : On(h, n)}
<1>1. 0 \in N
  <2> DEFINE h == [s \in SmallSets(S, 0) |-> base]
  <2>1. On(h, 0)
    BY AllSmallSets
  <2> QED
    BY <2>1
<1>2. ASSUME NEW n \in N PROVE n + 1 \in N
  <2>1. n \in Nat
    OBVIOUS
  <2>2. PICK h : On(h, n)
    OBVIOUS
  <2> DEFINE k == [s \in SmallSets(S, n + 1) |-> Next(h, s)]
  <2>3. ASSUME NEW s \in SmallSets(S, n + 1), s # {}
        PROVE  /\ Pick(s) \in S /\ s \ {Pick(s)} \in SmallSets(S, n)
               /\ s \ {Pick(s)} \in SmallSets(S, n + 1)
    <3> HIDE DEF N
    <3>1. Pick(s) \in s /\ s \in SUBSET S /\ s \ {Pick(s)} \in SmallSets(S, n)
      BY <2>1, <2>3, WithoutPick
    <3> QED
      BY <2>1, <3>1, AllSmallSets
  <2>4. k \in [SmallSets(S, n + 1) -> X]
    BY <2>2, <2>3
  <2>5. \A s \in SmallSets(S, n) : k[s] = h[s]
    <3>1. SmallSets(S, n) \subseteq SmallSets(S, n + 1)
      BY <2>1, AllSmallSets
    <3> QED
      BY <2>2, <3>1
  <2>6. \A s \in SmallSets(S, n + 1) : k[s] = Next(k, s)
    BY <2>3, <2>5
  <2>7. n + 1 \in Nat
    BY <2>1
  <2> HIDE DEF k
  <2> QED
    BY <2>4, <2>6, <2>7
<1>3. Cardinality(S) \in N
  <2>1. N \in SUBSET Nat
    OBVIOUS
  <2> HIDE DEF N
  <2> QED
    BY <1>1, <1>2, <2>1, AllSmallSets, Induction
<1>4. PICK h : On(h, Cardinality(S))
  BY <1>3
<1>5. h \in [SUBSET S -> X] /\ \A s \in SUBSET S : h[s] = Next(h, s)
  BY <1>4, AllSmallSets
<1>6. Recursive(h, S, base, R)
  BY <1>5 DEF Recursive
<1> QED
  BY <1>5, <1>6

-----------------------------------------------------------------------------
\* h is the sum of g on every set of D.
SumsOn(h, D, g) ==
  h = [s \in D |-> IF s = {} THEN 0 ELSE g[Pick(s)] + h[s \ {Pick(s)}]]

LEMMA SumsExist ==
  ASSUME NEW S, IsFiniteSet(S), NEW g, \A x \in S : g[x] \in Nat
  PROVE  \E h \in [SUBSET S -> Nat] : SumsOn(h, SUBSET S, g)
<1> DEFINE R == [p \in S \X Nat |-> g[p[1]] + p[2]]
<1>1. R \in [S \X Nat -> Nat]
  OBVIOUS
<1>2. PICK h \in [SUBSET S -> Nat] : Recursive(h, S, 0, R)
  <2> HIDE DEF R
  <2> QED
    BY <1>1, RecursionOnSubsets
<1>3. ASSUME NEW s \in SUBSET S, s # {}
      PROVE  R[<<Pick(s), h[s \ {Pick(s)}]>>] = g[Pick(s)] + h[s \ {Pick(s)}]
  <2>1. <<Pick(s), h[s \ {Pick(s)}]>> \in S \X Nat
    BY <1>3 DEF Pick
  <2> QED
    BY <2>1
<1>4. SumsOn(h, SUBSET S, g)
  <2> HIDE DEF R
  <2> QED
    BY <1>2, <1>3 DEF Recursive, SumsOn
<1> QED
  BY <1>4

\* The equation has one solution, and it does not depend on the set.
Agree(T, g, f) == \A x \in T : g[x] = f[x]

LEMMA SumsAgree ==
  ASSUME NEW S, IsFiniteSet(S), NEW T \in SUBSET S, NEW g, NEW f, Agree(T, g, f),
         NEW h, SumsOn(h, SUBSET S, g), NEW k, SumsOn(k, SUBSET T, f)
  PROVE  Agree(SUBSET T, h, k)
<1> DEFINE Q == {s \in SUBSET T : h[s] = k[s]}
<1>1. {} \in Q
  BY DEF SumsOn
<1>2. ASSUME NEW s \in SUBSET T, s # {}, s \ {Pick(s)} \in Q PROVE s \in Q
  <2>1. h[s \ {Pick(s)}] = k[s \ {Pick(s)}] /\ g[Pick(s)] = f[Pick(s)]
    BY <1>2 DEF Pick, Agree
  <2>2. /\ h[s] = g[Pick(s)] + h[s \ {Pick(s)}]
        /\ k[s] = f[Pick(s)] + k[s \ {Pick(s)}]
    BY <1>2 DEF SumsOn
  <2> QED
    BY <2>1, <2>2
<1>3. IsFiniteSet(T)
  BY FS_Subset
<1>4. \A s \in SUBSET T : s \in Q
  <2> HIDE DEF Q
  <2> QED
    BY <1>1, <1>2, <1>3, SubsetInduction
<1> QED
  BY <1>4 DEF Agree

\* What the sum of the community modules is.
LEMMA SumUnfolds ==
  ASSUME NEW S, IsFiniteSet(S), NEW g, \A x \in S : g[x] \in Nat
  PROVE  \E h \in [SUBSET S -> Nat] :
            SumsOn(h, SUBSET S, g) /\ SumFunctionOnSet(g, S) = h[S]
<1> DEFINE H == CHOOSE h : SumsOn(h, SUBSET S, g)
<1>1. PICK i \in [SUBSET S -> Nat] : SumsOn(i, SUBSET S, g)
  BY SumsExist
<1>2. SumsOn(H, SUBSET S, g)
  BY <1>1
<1>3. SumFunctionOnSet(g, S) = H[S]
  BY DEF SumFunctionOnSet, FoldFunctionOnSet, MapThenFoldSet, SumsOn, Pick
<1> HIDE DEF H
<1>4. Agree(SUBSET S, i, H)
  <2>1. S \in SUBSET S /\ Agree(S, g, g)
    BY DEF Agree
  <2> QED
    BY <1>1, <1>2, <2>1, SumsAgree
<1> QED
  BY <1>1, <1>3, <1>4 DEF Agree

\* The sum over a set in terms of the sum without the element chosen first.
LEMMA SumOfPick ==
  ASSUME NEW S, IsFiniteSet(S), NEW g, \A x \in S : g[x] \in Nat
  PROVE  /\ SumFunctionOnSet(g, S) \in Nat
         /\ S = {} => SumFunctionOnSet(g, S) = 0
         /\ S # {} => /\ Pick(S) \in S
                      /\ SumFunctionOnSet(g, S) =
                           g[Pick(S)] + SumFunctionOnSet(g, S \ {Pick(S)})
<1>1. PICK h \in [SUBSET S -> Nat] :
         SumsOn(h, SUBSET S, g) /\ SumFunctionOnSet(g, S) = h[S]
  BY SumUnfolds
<1>2. S = {} => SumFunctionOnSet(g, S) = 0
  BY <1>1 DEF SumsOn
<1>3. ASSUME S # {}
      PROVE  /\ Pick(S) \in S
             /\ SumFunctionOnSet(g, S) =
                  g[Pick(S)] + SumFunctionOnSet(g, S \ {Pick(S)})
  <2> DEFINE T == S \ {Pick(S)}
  <2>1. Pick(S) \in S
    BY <1>3 DEF Pick
  <2>2. IsFiniteSet(T) /\ T \in SUBSET S
    BY FS_Subset
  <2> HIDE DEF T
  <2>3. PICK k \in [SUBSET T -> Nat] :
           SumsOn(k, SUBSET T, g) /\ SumFunctionOnSet(g, T) = k[T]
    BY <2>2, SumUnfolds
  <2>4. Agree(SUBSET T, h, k)
    <3>1. Agree(T, g, g)
      BY DEF Agree
    <3> QED
      BY <1>1, <2>2, <2>3, <3>1, SumsAgree
  <2>5. h[S] = g[Pick(S)] + h[T]
    BY <1>1, <1>3 DEF SumsOn, T
  <2> QED
    BY <1>1, <2>1, <2>3, <2>4, <2>5 DEF T, Agree
<1> QED
  BY <1>1, <1>2, <1>3

\* A sum of zeros.
LEMMA SumOfZeros ==
  ASSUME NEW S, IsFiniteSet(S), NEW g, \A x \in S : g[x] = 0
  PROVE  SumFunctionOnSet(g, S) = 0
<1> DEFINE z == [s \in SUBSET S |-> 0]
<1>1. PICK h \in [SUBSET S -> Nat] :
         SumsOn(h, SUBSET S, g) /\ SumFunctionOnSet(g, S) = h[S]
  <2>1. \A x \in S : g[x] \in Nat
    OBVIOUS
  <2> HIDE DEF z
  <2> QED
    BY <2>1, SumUnfolds
<1>2. SumsOn(z, SUBSET S, g)
  <2>1. ASSUME NEW s \in SUBSET S, s # {}
        PROVE  0 = g[Pick(s)] + z[s \ {Pick(s)}]
    <3>1. Pick(s) \in s
      BY <2>1 DEF Pick
    <3>2. g[Pick(s)] = 0 /\ z[s \ {Pick(s)}] = 0
      BY <3>1
    <3> QED
      BY <3>2
  <2>2. z = [s \in SUBSET S |->
               IF s = {} THEN 0 ELSE g[Pick(s)] + z[s \ {Pick(s)}]]
    BY <2>1
  <2> HIDE DEF z
  <2> QED
    BY <2>2 DEF SumsOn
<1>3. z[S] = 0
  OBVIOUS
<1> HIDE DEF z
<1>4. S \in SUBSET S /\ Agree(S, g, g)
  BY DEF Agree
<1>5. Agree(SUBSET S, h, z)
  BY <1>1, <1>2, <1>4, SumsAgree
<1> QED
  BY <1>1, <1>3, <1>5 DEF Agree

\* The sum does not depend on what the function is elsewhere.
LEMMA SumCongruence ==
  ASSUME NEW S, IsFiniteSet(S), NEW g, \A x \in S : g[x] \in Nat,
         NEW f, \A x \in S : f[x] = g[x]
  PROVE  SumFunctionOnSet(f, S) = SumFunctionOnSet(g, S)
<1>1. PICK h \in [SUBSET S -> Nat] :
         SumsOn(h, SUBSET S, g) /\ SumFunctionOnSet(g, S) = h[S]
  BY SumUnfolds
<1>2. PICK k \in [SUBSET S -> Nat] :
         SumsOn(k, SUBSET S, f) /\ SumFunctionOnSet(f, S) = k[S]
  BY SumUnfolds
<1>3. S \in SUBSET S /\ Agree(S, g, f)
  BY DEF Agree
<1>4. Agree(SUBSET S, h, k)
  BY <1>1, <1>2, <1>3, SumsAgree
<1> QED
  BY <1>1, <1>2, <1>4 DEF Agree

\* The sum over a set in terms of the sum without any one of its elements.
LEMMA SumWithoutOne ==
  ASSUME NEW S, IsFiniteSet(S), NEW g, \A x \in S : g[x] \in Nat, NEW x \in S
  PROVE  SumFunctionOnSet(g, S) = g[x] + SumFunctionOnSet(g, S \ {x})
<1> DEFINE Fine(T) == \A y \in T : SumFunctionOnSet(g, T) =
                                     g[y] + SumFunctionOnSet(g, T \ {y})
           N == {n \in Nat : \A T \in SmallSets(S, n) : Fine(T)}
<1>0. \A T \in SUBSET S : /\ IsFiniteSet(T) /\ Cardinality(T) \in Nat
                          /\ SumFunctionOnSet(g, T) \in Nat
  BY FS_Subset, FS_CardinalityType, SumOfPick
<1>1. 0 \in N
  <2>1. \A T \in SmallSets(S, 0) : T = {}
    BY <1>0, FS_EmptySet DEF SmallSets
  <2> QED
    BY <2>1
<1>2. ASSUME NEW n \in N, NEW T \in SmallSets(S, n + 1), NEW y \in T
      PROVE  SumFunctionOnSet(g, T) = g[y] + SumFunctionOnSet(g, T \ {y})
  <2> DEFINE p == Pick(T)
  <2>1. /\ n \in Nat /\ \A U \in SmallSets(S, n) : Fine(U)
        /\ T \in SUBSET S /\ IsFiniteSet(T) /\ Cardinality(T) <= n + 1
    BY <1>0 DEF SmallSets
  <2>2. p \in T /\ SumFunctionOnSet(g, T) = g[p] + SumFunctionOnSet(g, T \ {p})
    BY <2>1, SumOfPick
  <2> HIDE DEF p, Fine, N
  <2>3. CASE y = p
    BY <2>2, <2>3
  <2>4. CASE y # p
    <3>1. T \ {p} \in SmallSets(S, n) /\ T \ {y} \in SmallSets(S, n)
      <4>1. \A z \in T : Cardinality(T \ {z}) <= n
        BY <1>0, <2>1, WithoutOne
      <4> QED
        BY <2>1, <2>2, <4>1 DEF SmallSets
    <3>2. y \in T \ {p} /\ p \in T \ {y} /\ (T \ {p}) \ {y} = (T \ {y}) \ {p}
      BY <2>2, <2>4
    <3> DEFINE U == (T \ {p}) \ {y}
    <3>3. /\ SumFunctionOnSet(g, T \ {p}) = g[y] + SumFunctionOnSet(g, U)
          /\ SumFunctionOnSet(g, T \ {y}) = g[p] + SumFunctionOnSet(g, U)
      BY <2>1, <3>1, <3>2 DEF Fine
    <3>4. SumFunctionOnSet(g, U) \in Nat /\ g[p] \in Nat /\ g[y] \in Nat
      BY <1>0, <2>1, <2>2
    <3> HIDE DEF U
    <3> QED
      BY <2>2, <3>3, <3>4
  <2> QED
    BY <2>3, <2>4
<1>3. Cardinality(S) \in N
  <2>1. \A n \in N : \A T \in SmallSets(S, n + 1) : Fine(T)
    BY <1>2
  <2>2. N \in SUBSET Nat /\ \A n \in N : n + 1 \in N
    <3> HIDE DEF Fine
    <3> QED
      BY <2>1
  <2> HIDE DEF N
  <2> QED
    BY <1>0, <1>1, <2>2, Induction
<1>4. S \in SmallSets(S, Cardinality(S))
  BY <1>0 DEF SmallSets
<1> QED
  BY <1>3, <1>4

\* The sum over a part of a set of numbers.
LEMMA SumOfPart ==
  ASSUME NEW S, IsFiniteSet(S), NEW g, \A x \in S : g[x] \in Nat,
         NEW T \in SUBSET S
  PROVE  /\ SumFunctionOnSet(g, T) \in Nat /\ SumFunctionOnSet(g, S) \in Nat
         /\ SumFunctionOnSet(g, T) <= SumFunctionOnSet(g, S)
<1>1. \A U \in SUBSET S : IsFiniteSet(U) /\ SumFunctionOnSet(g, U) \in Nat
  BY FS_Subset, SumOfPick
<1> DEFINE Q == {U \in SUBSET (S \ T) :
                   SumFunctionOnSet(g, T) <= SumFunctionOnSet(g, T \cup U)}
<1>2. {} \in Q
  <2>1. T \cup {} = T /\ SumFunctionOnSet(g, T) \in Int
    BY <1>1
  <2> QED
    BY <2>1
<1>3. ASSUME NEW U \in SUBSET (S \ T), NEW x \in U, U \ {x} \in Q
      PROVE  U \in Q
  <2> DEFINE V == T \cup U
             W == T \cup (U \ {x})
  <2>1. V \in SUBSET S /\ W \in SUBSET S /\ x \in V /\ V \ {x} = W
    BY <1>3
  <2>2. SumFunctionOnSet(g, T) <= SumFunctionOnSet(g, W)
    BY <1>3
  <2> HIDE DEF V, W
  <2>3. SumFunctionOnSet(g, V) = g[x] + SumFunctionOnSet(g, W)
    BY <1>1, <2>1, SumWithoutOne
  <2>4. /\ SumFunctionOnSet(g, T) \in Nat /\ SumFunctionOnSet(g, V) \in Nat
        /\ SumFunctionOnSet(g, W) \in Nat /\ g[x] \in Nat
    BY <1>1, <2>1
  <2>5. SumFunctionOnSet(g, T) <= SumFunctionOnSet(g, V)
    BY <2>2, <2>3, <2>4
  <2> QED
    BY <2>5 DEF V
<1>4. \A U \in SUBSET (S \ T) : U \in Q
  <2>1. IsFiniteSet(S \ T)
    BY FS_Subset
  <2> HIDE DEF Q
  <2> DEFINE R == S \ T
  <2>2. IsFiniteSet(R)
    BY <2>1
  <2>3. \A U \in SUBSET R : U # {} /\ (\A x \in U : U \ {x} \in Q) => U \in Q
    BY <1>3
  <2> HIDE DEF R
  <2>4. \A U \in SUBSET R : U \in Q
    BY <1>2, <2>2, <2>3, SetInduction
  <2> QED
    BY <2>4 DEF R
<1>5. S \ T \in Q
  <2>1. S \ T \in SUBSET (S \ T)
    OBVIOUS
  <2> HIDE DEF Q
  <2> QED
    BY <1>4, <2>1
<1>6. T \cup (S \ T) = S
  OBVIOUS
<1>7. SumFunctionOnSet(g, T) <= SumFunctionOnSet(g, S)
  BY <1>5, <1>6
<1> QED
  BY <1>1, <1>7
=================================================================================
