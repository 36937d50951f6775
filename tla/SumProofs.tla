------------------------------ MODULE SumProofs ------------------------------
(***************************************************************************)
(* Induction over numbers and finite sets, and what follows from it: sums  *)
(* as MapThenSumSet of the community module FiniteSetsExt computes them,   *)
(* first elements, ranks.                                                  *)
(***************************************************************************)
EXTENDS Sums, FiniteSetTheorems, WellFoundedInduction, TLAPS

\* Induction over a set of numbers.
LEMMA NatSetInduction ==
  ASSUME NEW N \in SUBSET Nat, 0 \in N, \A n \in N : n + 1 \in N
  PROVE  N = Nat
<1> DEFINE T == Nat \ N
           R == OpToRel(<, Nat)
<1>1. SUFFICES ASSUME T # {} PROVE FALSE
  OBVIOUS
<1>2. IsWellFoundedOn(R, Nat)
  BY NatLessThanWellFounded
<1> HIDE DEF R
<1>3. PICK m \in T : \A n \in T : << n, m >> \notin R
  BY <1>1, <1>2, WFMin
<1>4. m \in Nat \ {0}
  OBVIOUS
<1>5. m - 1 \in T
  <2>1. m - 1 \in Nat /\ m = (m - 1) + 1
    BY <1>4
  <2> QED  BY <2>1
<1>6. << m - 1, m >> \in R
  BY <1>4, <1>5 DEF OpToRel, R
<1> QED  BY <1>3, <1>5, <1>6

\* Induction over the subsets of a finite set.
LEMMA SubsetInduction ==
  ASSUME NEW S, IsFiniteSet(S), NEW Q \in SUBSET SUBSET S, {} \in Q,
         \A T \in Q : \A x \in S \ T : T \cup {x} \in Q
  PROVE  Q = SUBSET S
<1> DEFINE N == {n \in Nat : \A T \in SUBSET S : Cardinality(T) = n => T \in Q}
<1>t. \A T \in SUBSET S : IsFiniteSet(T) /\ Cardinality(T) \in Nat
  BY FS_Subset, FS_CardinalityType
<1>1. 0 \in N
  BY <1>t, FS_EmptySet
<1>2. ASSUME NEW n \in N
      PROVE  n + 1 \in N
  <2> SUFFICES ASSUME NEW T \in SUBSET S, Cardinality(T) = n + 1 PROVE T \in Q
    OBVIOUS
  <2>1. T # {}
    BY FS_EmptySet
  <2>2. PICK x \in T : TRUE
    BY <2>1
  <2>3. Cardinality(T \ {x}) = n
    BY <1>t, FS_RemoveElement
  <2>4. T \ {x} \in Q /\ x \in S \ (T \ {x}) /\ (T \ {x}) \cup {x} = T
    BY <2>3
  <2> QED  BY <2>4
<1> HIDE DEF N
<1>3. N = Nat
  <2>1. N \in SUBSET Nat
    BY DEF N
  <2> QED  BY <1>1, <1>2, <2>1, NatSetInduction
<1> QED  BY <1>3, <1>t DEF N

-----------------------------------------------------------------------------
\* The equation of the recursive function in MapThenFoldSet.
Chosen(s) == CHOOSE x \in s : TRUE
SumBody(f, g, s) == IF s = {} THEN 0 ELSE f[Chosen(s)] + g[s \ {Chosen(s)}]
Summing(f, S, g) == g = [s \in SUBSET S |-> SumBody(f, g, s)]

LEMMA SumOfIs ==
  ASSUME NEW f, NEW S
  PROVE  SumOf(f, S) = (CHOOSE g : Summing(f, S, g))[S]
BY DEF SumOf, MapThenSumSet, MapThenFoldSet, SumBody, Summing, Chosen

LEMMA ChosenIn == ASSUME NEW s, s # {} PROVE Chosen(s) \in s
BY DEF Chosen

\* The equation has a solution: one for the subsets of less than n elements
\* extends to one for those of n elements.
LEMMA SummingExists ==
  ASSUME NEW f, NEW S, IsFiniteSet(S)
  PROVE  \E g : Summing(f, S, g)
<1> DEFINE Small(n) == {s \in SUBSET S : Cardinality(s) <= n}
           Solves(g, n) == g = [s \in Small(n) |-> SumBody(f, g, s)]
           N == {n \in Nat : \E g : Solves(g, n)}
<1>t. \A T \in SUBSET S : /\ IsFiniteSet(T) /\ Cardinality(T) \in Nat
                          /\ Cardinality(T) <= Cardinality(S)
  BY FS_Subset, FS_CardinalityType
<1>1. 0 \in N
  <2> DEFINE g == [s \in Small(0) |-> 0]
  <2>1. \A s \in Small(0) : s = {}
    BY <1>t, FS_EmptySet
  <2>2. Solves(g, 0)
    BY <2>1 DEF SumBody
  <2> QED  BY <2>2
<1>2. ASSUME NEW n \in N
      PROVE  n + 1 \in N
  <2>1. PICK g : Solves(g, n)
    OBVIOUS
  <2> DEFINE h == [s \in Small(n + 1) |-> SumBody(f, g, s)]
  <2>2. ASSUME NEW s \in Small(n + 1)
        PROVE  SumBody(f, g, s) = SumBody(f, h, s)
    <3>1. CASE s = {}
      BY <3>1 DEF SumBody
    <3>2. CASE s # {}
      <4> DEFINE r == s \ {Chosen(s)}
      <4>1. Chosen(s) \in s
        BY <3>2, ChosenIn
      <4>2. Cardinality(r) = Cardinality(s) - 1
        BY <1>t, <4>1, FS_RemoveElement
      <4>3. r \in Small(n) /\ r \in Small(n + 1)
        BY <1>t, <4>2
      <4>4. g[r] = SumBody(f, g, r) /\ h[r] = SumBody(f, g, r)
        <5> HIDE DEF r
        <5> QED  BY <2>1, <4>3
      <4> HIDE DEF h
      <4> QED  BY <3>2, <4>4 DEF SumBody
    <3> QED  BY <3>1, <3>2
  <2>3. Solves(h, n + 1)
    BY <2>2
  <2> HIDE DEF Solves, h
  <2> QED  BY <2>3
<1>3. N = Nat
  <2>1. N \in SUBSET Nat
    OBVIOUS
  <2> HIDE DEF N
  <2> QED  BY <1>1, <1>2, <2>1, NatSetInduction
<1>4. Cardinality(S) \in Nat /\ Small(Cardinality(S)) = SUBSET S
  BY <1>t
<1>5. PICK g : Solves(g, Cardinality(S))
  BY <1>3, <1>4
<1> QED  BY <1>4, <1>5 DEF Summing

\* Solutions agree where both are defined.
LEMMA SummingUnique ==
  ASSUME NEW f, NEW S, IsFiniteSet(S), NEW T \in SUBSET S,
         NEW g, Summing(f, S, g), NEW h, Summing(f, T, h)
  PROVE  \A s \in SUBSET T : g[s] = h[s]
<1> DEFINE N == {n \in Nat : \A s \in SUBSET T : Cardinality(s) <= n => g[s] = h[s]}
<1>t. \A s \in SUBSET T : IsFiniteSet(s) /\ Cardinality(s) \in Nat
  BY FS_Subset, FS_CardinalityType
<1>s. \A s \in SUBSET T : g[s] = SumBody(f, g, s) /\ h[s] = SumBody(f, h, s)
  BY DEF Summing
<1>1. 0 \in N
  <2> SUFFICES ASSUME NEW s \in SUBSET T, Cardinality(s) <= 0 PROVE g[s] = h[s]
    OBVIOUS
  <2>1. s = {}
    BY <1>t, FS_EmptySet
  <2> QED  BY <2>1, <1>s DEF SumBody
<1>2. ASSUME NEW n \in N
      PROVE  n + 1 \in N
  <2> SUFFICES ASSUME NEW s \in SUBSET T, Cardinality(s) <= n + 1 PROVE g[s] = h[s]
    OBVIOUS
  <2>1. CASE s = {}
    BY <2>1, <1>s DEF SumBody
  <2>2. CASE s # {}
    <3> DEFINE r == s \ {Chosen(s)}
    <3>1. Cardinality(r) = Cardinality(s) - 1
      BY <1>t, <2>2, ChosenIn, FS_RemoveElement
    <3>2. r \in SUBSET T /\ Cardinality(r) <= n
      BY <3>1, <1>t
    <3>3. g[r] = h[r]
      BY <3>2
    <3> QED  BY <2>2, <3>3, <1>s DEF SumBody
  <2> QED  BY <2>1, <2>2
<1>3. N = Nat
  <2>1. N \in SUBSET Nat
    OBVIOUS
  <2> HIDE DEF N
  <2> QED  BY <1>1, <1>2, <2>1, NatSetInduction
<1> QED  BY <1>3, <1>t

LEMMA SumUnfolds ==
  ASSUME NEW f, NEW S, IsFiniteSet(S)
  PROVE  /\ SumOf(f, {}) = 0
         /\ S # {} => SumOf(f, S) = f[Chosen(S)] + SumOf(f, S \ {Chosen(S)})
<1> DEFINE G(T) == CHOOSE g : Summing(f, T, g)
<1>1. ASSUME NEW T \in SUBSET S
      PROVE  Summing(f, T, G(T)) /\ SumOf(f, T) = G(T)[T] /\ G(S)[T] = G(T)[T]
  <2>1. IsFiniteSet(T)
    BY FS_Subset
  <2>2. Summing(f, T, G(T)) /\ Summing(f, S, G(S))
    BY <2>1, SummingExists
  <2>3. SumOf(f, T) = G(T)[T]
    BY SumOfIs
  <2> HIDE DEF G
  <2>4. G(S)[T] = G(T)[T]
    BY <2>2, SummingUnique
  <2> QED  BY <2>2, <2>3, <2>4
<1> HIDE DEF G
<1>2. \A T \in SUBSET S : SumOf(f, T) = SumBody(f, G(S), T)
  <2>1. Summing(f, S, G(S))
    BY <1>1
  <2>2. \A T \in SUBSET S : G(S)[T] = SumBody(f, G(S), T)
    BY <2>1 DEF Summing
  <2> QED  BY <1>1, <2>2
<1>3. SumOf(f, {}) = 0
  BY <1>2 DEF SumBody
<1>4. ASSUME S # {}
      PROVE  SumOf(f, S) = f[Chosen(S)] + SumOf(f, S \ {Chosen(S)})
  <2>1. G(S)[S \ {Chosen(S)}] = SumOf(f, S \ {Chosen(S)})
    BY <1>1
  <2> QED  BY <1>4, <1>2, <2>1 DEF SumBody
<1> QED  BY <1>3, <1>4

-----------------------------------------------------------------------------
LEMMA SumEmpty == ASSUME NEW f PROVE SumOf(f, {}) = 0
BY FS_EmptySet, SumUnfolds

LEMMA SumType ==
  ASSUME NEW f, NEW S, IsFiniteSet(S), \A x \in S : f[x] \in Nat
  PROVE  SumOf(f, S) \in Nat
<1> DEFINE N == {n \in Nat : \A T \in SUBSET S : Cardinality(T) = n => SumOf(f, T) \in Nat}
<1>t. \A T \in SUBSET S : IsFiniteSet(T) /\ Cardinality(T) \in Nat
  BY FS_Subset, FS_CardinalityType
<1>1. 0 \in N
  BY <1>t, FS_EmptySet, SumEmpty
<1>2. ASSUME NEW n \in N
      PROVE  n + 1 \in N
  <2> SUFFICES ASSUME NEW T \in SUBSET S, Cardinality(T) = n + 1 PROVE SumOf(f, T) \in Nat
    OBVIOUS
  <2> DEFINE r == T \ {Chosen(T)}
  <2>1. T # {} /\ Chosen(T) \in T
    BY FS_EmptySet, ChosenIn
  <2>2. Cardinality(r) = n /\ r \in SUBSET S
    <3>1. IsFiniteSet(T) /\ n \in Nat
      BY <1>t
    <3>2. Cardinality(r) = Cardinality(T) - 1
      BY <2>1, <3>1, FS_RemoveElement
    <3> QED  BY <3>1, <3>2
  <2>3. SumOf(f, T) = f[Chosen(T)] + SumOf(f, r)
    BY <1>t, <2>1, SumUnfolds
  <2> QED  BY <2>1, <2>2, <2>3
<1>3. N = Nat
  <2>1. N \in SUBSET Nat
    OBVIOUS
  <2> HIDE DEF N
  <2> QED  BY <1>1, <1>2, <2>1, NatSetInduction
<1> QED  BY <1>3, <1>t

\* The order of the summands does not matter.
LEMMA SumTakesOut ==
  ASSUME NEW f, NEW S, IsFiniteSet(S), \A x \in S : f[x] \in Nat, NEW x \in S
  PROVE  SumOf(f, S) = f[x] + SumOf(f, S \ {x})
<1> DEFINE N == {n \in Nat : \A T \in SUBSET S : Cardinality(T) = n =>
                   \A y \in T : SumOf(f, T) = f[y] + SumOf(f, T \ {y})}
<1>t. \A T \in SUBSET S : IsFiniteSet(T) /\ Cardinality(T) \in Nat /\ SumOf(f, T) \in Nat
  BY FS_Subset, FS_CardinalityType, SumType
<1>1. 0 \in N
  BY <1>t, FS_EmptySet
<1>2. ASSUME NEW n \in N
      PROVE  n + 1 \in N
  <2> SUFFICES ASSUME NEW T \in SUBSET S, Cardinality(T) = n + 1, NEW y \in T
               PROVE  SumOf(f, T) = f[y] + SumOf(f, T \ {y})
    OBVIOUS
  <2> DEFINE c == Chosen(T)
  <2>1. c \in T /\ SumOf(f, T) = f[c] + SumOf(f, T \ {c})
    BY <1>t, ChosenIn, SumUnfolds
  <2>2. CASE y = c
    BY <2>1, <2>2
  <2>3. CASE y # c
    <3>1. Cardinality(T \ {c}) = n /\ Cardinality(T \ {y}) = n
      BY <1>t, <2>1, FS_RemoveElement
    <3>2. y \in T \ {c} /\ c \in T \ {y} /\ (T \ {c}) \ {y} = (T \ {y}) \ {c}
      BY <2>1, <2>3
    <3> HIDE DEF c
    <3>3. SumOf(f, T \ {c}) = f[y] + SumOf(f, (T \ {c}) \ {y})
      BY <3>1, <3>2
    <3>4. SumOf(f, T \ {y}) = f[c] + SumOf(f, (T \ {y}) \ {c})
      BY <3>1, <3>2
    <3>5. f[c] \in Nat /\ f[y] \in Nat /\ SumOf(f, (T \ {c}) \ {y}) \in Nat
      BY <2>1, <1>t
    <3>6. SumOf(f, T \ {y}) = f[c] + SumOf(f, (T \ {c}) \ {y})
      BY <3>2, <3>4
    <3>7. SumOf(f, T) = f[c] + (f[y] + SumOf(f, (T \ {c}) \ {y}))
      BY <2>1, <3>3
    <3> QED  BY <3>5, <3>6, <3>7
  <2> QED  BY <2>2, <2>3
<1>3. N = Nat
  <2>1. N \in SUBSET Nat
    OBVIOUS
  <2> HIDE DEF N
  <2> QED  BY <1>1, <1>2, <2>1, NatSetInduction
<1> QED  BY <1>3, <1>t

LEMMA SumAddsElement ==
  ASSUME NEW f, NEW S, IsFiniteSet(S), \A y \in S : f[y] \in Nat,
         NEW x, x \notin S, f[x] \in Nat
  PROVE  SumOf(f, S \cup {x}) = f[x] + SumOf(f, S)
<1>1. IsFiniteSet(S \cup {x}) /\ (S \cup {x}) \ {x} = S
  BY FS_AddElement
<1> QED  BY <1>1, SumTakesOut

LEMMA SumSingleton ==
  ASSUME NEW f, NEW x, f[x] \in Nat
  PROVE  SumOf(f, {x}) = f[x]
<1>1. IsFiniteSet({x}) /\ {x} \ {x} = {}
  BY FS_Singleton
<1>2. SumOf(f, {x}) = f[x] + SumOf(f, {})
  BY <1>1, SumTakesOut
<1> QED  BY <1>2, SumEmpty

\* Sums of functions that are a sum on S.
LEMMA SumPlus ==
  ASSUME NEW f, NEW g, NEW h, NEW S, IsFiniteSet(S),
         \A x \in S : f[x] \in Nat /\ g[x] \in Nat /\ h[x] = f[x] + g[x]
  PROVE  SumOf(h, S) = SumOf(f, S) + SumOf(g, S)
<1> DEFINE Q == {T \in SUBSET S : SumOf(h, T) = SumOf(f, T) + SumOf(g, T)}
<1>1. {} \in Q
  BY SumEmpty
<1>2. ASSUME NEW T \in Q, NEW x \in S \ T
      PROVE  T \cup {x} \in Q
  <2>1. IsFiniteSet(T)
    BY FS_Subset
  <2>2. \A y \in T \cup {x} : f[y] \in Nat /\ g[y] \in Nat /\ h[y] \in Nat
    OBVIOUS
  <2>3. SumOf(f, T) \in Nat /\ SumOf(g, T) \in Nat
    BY <2>1, <2>2, SumType
  <2>4. /\ SumOf(f, T \cup {x}) = f[x] + SumOf(f, T)
        /\ SumOf(g, T \cup {x}) = g[x] + SumOf(g, T)
        /\ SumOf(h, T \cup {x}) = h[x] + SumOf(h, T)
    BY <2>1, <2>2, SumAddsElement
  <2>5. SumOf(h, T \cup {x}) = SumOf(f, T \cup {x}) + SumOf(g, T \cup {x})
    BY <2>2, <2>3, <2>4
  <2> QED  BY <2>5
<1> HIDE DEF Q
<1>3. Q = SUBSET S
  <2>1. Q \in SUBSET SUBSET S
    BY DEF Q
  <2> QED  BY <1>1, <1>2, <2>1, SubsetInduction
<1> QED  BY <1>3 DEF Q

LEMMA SumZero ==
  ASSUME NEW f, NEW S, IsFiniteSet(S), \A x \in S : f[x] = 0
  PROVE  SumOf(f, S) = 0
<1> DEFINE Q == {T \in SUBSET S : SumOf(f, T) = 0}
<1>1. {} \in Q
  BY SumEmpty
<1>2. ASSUME NEW T \in Q, NEW x \in S \ T
      PROVE  T \cup {x} \in Q
  <2>1. IsFiniteSet(T) /\ \A y \in T \cup {x} : f[y] \in Nat
    BY FS_Subset
  <2>2. SumOf(f, T \cup {x}) = f[x] + SumOf(f, T)
    BY <2>1, SumAddsElement
  <2> QED  BY <2>2
<1> HIDE DEF Q
<1>3. Q = SUBSET S
  <2>1. Q \in SUBSET SUBSET S
    BY DEF Q
  <2> QED  BY <1>1, <1>2, <2>1, SubsetInduction
<1> QED  BY <1>3 DEF Q

LEMMA SumSame ==
  ASSUME NEW f, NEW g, NEW S, IsFiniteSet(S),
         \A x \in S : f[x] \in Nat /\ g[x] = f[x]
  PROVE  SumOf(g, S) = SumOf(f, S)
<1> DEFINE z == [x \in S |-> 0]
<1>1. SumOf(z, S) = 0
  BY SumZero
<1>2. SumOf(f, S) \in Nat
  BY SumType
<1>3. SumOf(g, S) = SumOf(f, S) + SumOf(z, S)
  BY SumPlus
<1> QED  BY <1>1, <1>2, <1>3

LEMMA SumMonotone ==
  ASSUME NEW f, NEW g, NEW S, IsFiniteSet(S),
         \A x \in S : f[x] \in Nat /\ g[x] \in Nat /\ f[x] <= g[x]
  PROVE  SumOf(f, S) <= SumOf(g, S)
<1> DEFINE d == [x \in S |-> g[x] - f[x]]
<1>1. \A x \in S : d[x] \in Nat /\ g[x] = f[x] + d[x]
  OBVIOUS
<1> HIDE DEF d
<1>2. SumOf(f, S) \in Nat /\ SumOf(d, S) \in Nat
  BY <1>1, SumType
<1>3. SumOf(g, S) = SumOf(f, S) + SumOf(d, S)
  BY <1>1, SumPlus
<1> QED  BY <1>2, <1>3

\* Only e's summand grows, by k.
LEMMA SumGrowsAt ==
  ASSUME NEW f, NEW g, NEW S, IsFiniteSet(S), NEW e \in S, NEW k \in Nat,
         \A x \in S : f[x] \in Nat /\ g[x] = IF x = e THEN f[x] + k ELSE f[x]
  PROVE  SumOf(g, S) = SumOf(f, S) + k
<1>1. IsFiniteSet(S \ {e}) /\ \A x \in S : f[x] \in Nat /\ g[x] \in Nat
  BY FS_RemoveElement
<1>2. SumOf(f, S) = f[e] + SumOf(f, S \ {e}) /\ SumOf(g, S) = g[e] + SumOf(g, S \ {e})
  BY <1>1, SumTakesOut
<1>3. SumOf(g, S \ {e}) = SumOf(f, S \ {e})
  BY <1>1, SumSame
<1>4. SumOf(f, S \ {e}) \in Nat /\ f[e] \in Nat /\ g[e] = f[e] + k
  BY <1>1, SumType
<1> QED  BY <1>2, <1>3, <1>4

\* What is zero can be left out.
LEMMA SumDropsZeros ==
  ASSUME NEW f, NEW S, IsFiniteSet(S), NEW T \in SUBSET S,
         \A x \in T : f[x] \in Nat, \A x \in S \ T : f[x] = 0
  PROVE  SumOf(f, S) = SumOf(f, T)
<1> DEFINE Q == {U \in SUBSET S : SumOf(f, U) = SumOf(f, U \cap T)}
<1>1. {} \in Q
  <2>1. {} \cap T = {}
    OBVIOUS
  <2> QED  BY <2>1
<1>2. ASSUME NEW U \in Q, NEW x \in S \ U
      PROVE  U \cup {x} \in Q
  <2>1. /\ IsFiniteSet(U) /\ IsFiniteSet(U \cap T)
        /\ \A y \in U \cup {x} : f[y] \in Nat
    <3>1. IsFiniteSet(U) /\ IsFiniteSet(U \cap T)
      BY FS_Subset
    <3> QED  BY <3>1
  <2>2. SumOf(f, U) \in Nat /\ SumOf(f, U) = SumOf(f, U \cap T)
    BY <2>1, SumType
  <2>3. SumOf(f, U \cup {x}) = f[x] + SumOf(f, U)
    BY <2>1, SumAddsElement
  <2>4. CASE x \in T
    <3>1. (U \cup {x}) \cap T = (U \cap T) \cup {x}
      BY <2>4
    <3>2. SumOf(f, (U \cap T) \cup {x}) = f[x] + SumOf(f, U \cap T)
      BY <2>1, SumAddsElement
    <3> QED  BY <2>2, <2>3, <3>1, <3>2
  <2>5. CASE x \notin T
    <3>1. (U \cup {x}) \cap T = U \cap T /\ f[x] = 0
      BY <2>5
    <3>2. SumOf(f, U \cup {x}) = SumOf(f, U)
      BY <2>2, <2>3, <3>1
    <3>3. SumOf(f, (U \cup {x}) \cap T) = SumOf(f, U \cap T)
      BY <3>1
    <3>4. SumOf(f, U \cup {x}) = SumOf(f, (U \cup {x}) \cap T)
      BY <2>2, <3>2, <3>3
    <3> QED  BY <3>4
  <2> QED  BY <2>4, <2>5
<1> HIDE DEF Q
<1>3. Q = SUBSET S
  <2>1. Q \in SUBSET SUBSET S
    BY DEF Q
  <2> QED  BY <1>1, <1>2, <2>1, SubsetInduction
<1>4. S \in Q /\ S \cap T = T
  BY <1>3
<1> QED  BY <1>4 DEF Q

\* A sum over fewer elements is no larger.
LEMMA SumSubset ==
  ASSUME NEW f, NEW S, IsFiniteSet(S), \A x \in S : f[x] \in Nat, NEW T \in SUBSET S
  PROVE  SumOf(f, T) <= SumOf(f, S)
<1> DEFINE g == [x \in S |-> IF x \in T THEN f[x] ELSE 0]
<1>1. /\ \A x \in S : f[x] \in Nat /\ g[x] \in Nat /\ g[x] <= f[x]
      /\ \A x \in T : f[x] \in Nat /\ g[x] = f[x]
      /\ \A x \in S \ T : g[x] = 0
  OBVIOUS
<1> HIDE DEF g
<1>2. IsFiniteSet(T)
  BY FS_Subset
<1>3. SumOf(g, S) <= SumOf(f, S)
  BY <1>1, SumMonotone
<1>4. SumOf(g, S) = SumOf(g, T)
  BY <1>1, SumDropsZeros
<1>5. SumOf(g, T) = SumOf(f, T)
  BY <1>1, <1>2, SumSame
<1> QED  BY <1>3, <1>4, <1>5

-----------------------------------------------------------------------------
\* A finite set with a transitive relation that orders any two elements has a
\* first one.
LEMMA FirstExists ==
  ASSUME NEW S, IsFiniteSet(S), S # {}, NEW R,
         \A x, y, z \in S : << x, y >> \in R /\ << y, z >> \in R => << x, z >> \in R,
         \A x, y \in S : x # y => << x, y >> \in R \/ << y, x >> \in R
  PROVE  \E r \in S : \A s \in S \ {r} : << r, s >> \in R
<1> DEFINE First(r, T) == \A s \in T \ {r} : << r, s >> \in R
           Q == {T \in SUBSET S : T = {} \/ \E r \in T : First(r, T)}
<1>1. {} \in Q
  OBVIOUS
<1>2. ASSUME NEW T \in Q, NEW x \in S \ T
      PROVE  T \cup {x} \in Q
  <2>1. CASE T = {}
    <3>1. First(x, T \cup {x})
      BY <2>1
    <3> QED  BY <3>1
  <2>2. CASE T # {}
    <3>1. PICK r \in T : First(r, T)
      BY <2>2
    <3>2. CASE << r, x >> \in R
      <4>1. First(r, T \cup {x})
        BY <3>1, <3>2
      <4> QED  BY <4>1
    <3>3. CASE << r, x >> \notin R
      <4>1. << x, r >> \in R
        BY <3>3
      <4>2. First(x, T \cup {x})
        BY <3>1, <4>1
      <4> QED  BY <4>2
    <3> QED  BY <3>2, <3>3
  <2> QED  BY <2>1, <2>2
<1> HIDE DEF Q
<1>3. Q = SUBSET S
  <2>1. Q \in SUBSET SUBSET S
    BY DEF Q
  <2> QED  BY <1>1, <1>2, <2>1, SubsetInduction
<1>4. S \in Q
  BY <1>3
<1> QED  BY <1>4 DEF Q

-----------------------------------------------------------------------------
\* Number of elements of S below j.
Rank(S, j) == Cardinality({l \in S : l < j})

LEMMA RankType ==
  ASSUME NEW S \in SUBSET Nat, IsFiniteSet(S), NEW j \in S
  PROVE  Rank(S, j) \in 0 .. Cardinality(S) - 1
<1> DEFINE below == {l \in S : l < j}
<1>1. below \in SUBSET (S \ {j})
  OBVIOUS
<1>2. IsFiniteSet(S \ {j}) /\ Cardinality(S \ {j}) = Cardinality(S) - 1
  BY FS_RemoveElement
<1> HIDE DEF below
<1>3. IsFiniteSet(below) /\ Cardinality(below) <= Cardinality(S) - 1
  BY <1>1, <1>2, FS_Subset
<1>4. Cardinality(below) \in Nat /\ Cardinality(S) \in Nat
  BY <1>3, FS_CardinalityType
<1>5. QED
  BY <1>3, <1>4 DEF Rank, below

LEMMA RankIncreases ==
  ASSUME NEW S \in SUBSET Nat, IsFiniteSet(S), NEW i \in S, NEW j \in S, i < j
  PROVE  Rank(S, i) < Rank(S, j)
<1> DEFINE belowI == {l \in S : l < i}
           belowJ == {l \in S : l < j}
<1>1. belowI \in SUBSET S /\ belowJ \in SUBSET S /\ i \notin belowI
  OBVIOUS
<1>2. belowI \cup {i} \in SUBSET belowJ
  <2> SUFFICES ASSUME NEW l \in belowI \cup {i} PROVE l \in S /\ l < j
    OBVIOUS
  <2>1. l \in S /\ l \in Nat /\ i \in Nat /\ j \in Nat
    OBVIOUS
  <2>2. l < i \/ l = i
    OBVIOUS
  <2> HIDE DEF belowI
  <2> QED  BY <2>1, <2>2
<1> HIDE DEF belowI, belowJ
<1>3. IsFiniteSet(belowI) /\ IsFiniteSet(belowJ)
  BY <1>1, FS_Subset
<1>4. Cardinality(belowI \cup {i}) = Cardinality(belowI) + 1
  BY <1>1, <1>3, FS_AddElement
<1>5. Cardinality(belowI \cup {i}) <= Cardinality(belowJ)
  BY <1>2, <1>3, FS_Subset
<1>6. Cardinality(belowI) \in Nat /\ Cardinality(belowJ) \in Nat
  BY <1>3, FS_CardinalityType
<1>7. QED
  BY <1>4, <1>5, <1>6 DEF Rank, belowI, belowJ

LEMMA RankUnique ==
  ASSUME NEW S \in SUBSET Nat, IsFiniteSet(S), NEW i \in S, NEW j \in S, Rank(S, i) = Rank(S, j)
  PROVE  i = j
<1>1. Rank(S, i) \in Int /\ Rank(S, j) \in Int
  <2>1. Rank(S, i) \in 0 .. Cardinality(S) - 1 /\ Rank(S, j) \in 0 .. Cardinality(S) - 1
    BY RankType
  <2> QED  BY <2>1
<1>2. ~(Rank(S, i) < Rank(S, j)) /\ ~(Rank(S, j) < Rank(S, i))
  BY <1>1
<1>3. ~(i < j) /\ ~(j < i)
  BY <1>2, RankIncreases
<1>4. QED
  BY <1>3

\* Every rank below the number of elements is that of an element.
LEMMA RankOnto ==
  ASSUME NEW S \in SUBSET Nat, IsFiniteSet(S), NEW r \in 0 .. Cardinality(S) - 1
  PROVE  \E j \in S : Rank(S, j) = r
<1> DEFINE n == Cardinality(S)
           T == (0 .. n - 1) \ {r}
           f == [j \in S |-> Rank(S, j)]
<1>1. n \in Nat
  BY FS_CardinalityType
<1>2. IsFiniteSet(0 .. n - 1) /\ Cardinality(0 .. n - 1) = n
  BY <1>1, FS_Interval
<1>3. IsFiniteSet(T) /\ Cardinality(T) = n - 1
  BY <1>2, FS_RemoveElement
<1> SUFFICES ASSUME \A j \in S : Rank(S, j) # r PROVE FALSE
  OBVIOUS
<1>4. f \in [S -> T]
  BY RankType
<1> HIDE DEF T, n, f
<1>5. Cardinality(T) < Cardinality(S)
  BY <1>1, <1>3 DEF n
<1>6. PICK i \in S, j \in S : i # j /\ f[i] = f[j]
  BY <1>3, <1>4, <1>5, FS_PigeonHole
<1>7. Rank(S, i) = Rank(S, j)
  BY <1>6 DEF f
<1>8. QED
  BY <1>6, <1>7, RankUnique
=============================================================================
