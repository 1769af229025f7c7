----------------------------- MODULE FoldProofs -----------------------------
(***************************************************************************)
(* Folds, sums and counts over finite sets and sequences: the facts about  *)
(* FoldSet, SumFunctionOnSet and Cardinality that the proofs of the        *)
(* components rest on.                                                     *)
(***************************************************************************)
EXTENDS Integers, Sequences, FiniteSetsExt, FiniteSetTheorems, SequenceTheorems,
        WellFoundedInduction, TLAPS

\* Every nonempty set of numbers has a least element.
LEMMA LeastNumber ==
  ASSUME NEW T, T \subseteq Nat, T # {}
  PROVE  \E n \in T : \A m \in T : n <= m
<1> DEFINE R == OpToRel(<, Nat)
<1>1. IsWellFoundedOn(R, Nat)
  BY NatLessThanWellFounded
<1> HIDE DEF R
<1>2. PICK n \in T : \A m \in T : <<m, n>> \notin R
  BY <1>1, WFMin
<1>3. \A m \in T : ~(m < n)
  BY <1>2 DEF R, OpToRel
<1> QED BY <1>2, <1>3

\* The same of all of them.
LEMMA WellOrdered ==
  \A T \in SUBSET Nat : T # {} => \E n \in T : \A m \in T : n <= m
BY LeastNumber

\* A nonempty set of finite sets has a member none of whose proper subsets is
\* in it: induction over finite sets, stated without an operator.
LEMMA LeastSubset ==
  ASSUME NEW T, T # {}, \A s \in T : IsFiniteSet(s)
  PROVE  \E s \in T : \A x \in s : s \ {x} \notin T
<1> DEFINE N == {Cardinality(s) : s \in T}
<1>1. N \subseteq Nat /\ N # {}
  BY FS_CardinalityType
<1>2. PICK n \in N : \A m \in N : n <= m
  BY <1>1, LeastNumber
<1>3. PICK s \in T : n = Cardinality(s)
  BY <1>2
<1>4. ASSUME NEW x \in s, s \ {x} \in T
      PROVE  FALSE
  <2>1. Cardinality(s \ {x}) = Cardinality(s) - 1
    BY <1>3, FS_RemoveElement
  <2>2. Cardinality(s) <= Cardinality(s \ {x})
    BY <1>2, <1>3, <1>4
  <2> QED BY <1>1, <1>3, <2>1, <2>2
<1> QED BY <1>3, <1>4

\* Induction over the subsets of a finite set, for a property given as the set
\* P of the subsets that have it.
LEMMA SubsetInduction ==
  ASSUME NEW S, IsFiniteSet(S), NEW P, {} \in P,
         \A s \in SUBSET S : \A x \in s : s \ {x} \in P => s \in P
  PROVE  S \in P
<1> DEFINE Bad == (SUBSET S) \ P
<1> SUFFICES ASSUME S \notin P PROVE FALSE
  OBVIOUS
<1>1. Bad # {} /\ \A s \in Bad : IsFiniteSet(s)
  BY FS_Subset
<1>2. PICK s \in Bad : \A x \in s : s \ {x} \notin Bad
  <2> HIDE DEF Bad
  <2> QED BY <1>1, LeastSubset
<1>3. s # {}
  BY <1>2
<1>4. PICK x \in s : s \ {x} \in P
  BY <1>2, <1>3
<1> QED BY <1>2, <1>4

-----------------------------------------------------------------------------
\* The element a fold takes out of a set first.
Pick(s) == CHOOSE x \in s : TRUE

LEMMA PickIn == \A s : s # {} => Pick(s) \in s
  BY DEF Pick

\* h is the fold of F over the subsets of S.
IsFold(h, F, base, S) ==
  h = [s \in SUBSET S |-> IF s = {} THEN base ELSE F[<<Pick(s), h[s \ {Pick(s)}]>>]]

\* A fold over a finite set exists: the recursion of MapThenFoldSet defines a
\* function.  It is built up along the cardinality of the subsets.
LEMMA FoldExists ==
  ASSUME NEW S, IsFiniteSet(S), NEW B, NEW base \in B, NEW F \in [S \X B -> B]
  PROVE  \E h \in [SUBSET S -> B] : IsFold(h, F, base, S)
<1> DEFINE Small(n) == {s \in SUBSET S : Cardinality(s) <= n}
           Body(h, s) == IF s = {} THEN base ELSE F[<<Pick(s), h[s \ {Pick(s)}]>>]
           Upto(n) == \E h \in [Small(n) -> B] : \A s \in Small(n) : h[s] = Body(h, s)
           Bad == {n \in Nat : ~Upto(n)}
<1>1. \A s \in SUBSET S : IsFiniteSet(s) /\ Cardinality(s) \in Nat
  BY FS_Subset, FS_CardinalityType
<1>2. Upto(0)
  <2>1. Small(0) = {{}}
    BY <1>1, FS_EmptySet
  <2> DEFINE h == [s \in {{}} |-> base]
  <2>2. h \in [Small(0) -> B] /\ \A s \in Small(0) : h[s] = Body(h, s)
    BY <2>1
  <2> QED BY <2>2
<1>3. ASSUME NEW n \in Nat, Upto(n)
      PROVE  Upto(n + 1)
  <2>1. PICK g \in [Small(n) -> B] : \A s \in Small(n) : g[s] = Body(g, s)
    BY <1>3
  <2> DEFINE h == [s \in Small(n + 1) |-> IF s \in Small(n) THEN g[s] ELSE Body(g, s)]
  <2>2. ASSUME NEW s \in Small(n + 1), s # {}
        PROVE  Pick(s) \in S /\ s \ {Pick(s)} \in Small(n)
    <3>1. Pick(s) \in s
      BY <2>2, PickIn
    <3>2. Cardinality(s \ {Pick(s)}) = Cardinality(s) - 1
      BY <1>1, <3>1, FS_RemoveElement
    <3>3. Cardinality(s) \in Nat /\ Cardinality(s) <= n + 1
      BY <1>1
    <3>4. Cardinality(s \ {Pick(s)}) <= n
      BY <3>2, <3>3
    <3> QED BY <3>1, <3>4
  <2>3. ASSUME NEW s \in Small(n + 1)
        PROVE  Body(g, s) \in B
    <3>1. CASE s = {}
      BY <3>1
    <3>2. CASE s # {}
      <4>1. g[s \ {Pick(s)}] \in B
        BY <2>2, <3>2
      <4>2. <<Pick(s), g[s \ {Pick(s)}]>> \in S \X B
        BY <4>1, <2>2, <3>2
      <4> QED BY <4>2, <3>2
    <3> QED BY <3>1, <3>2
  <2>4. Small(n) \subseteq Small(n + 1)
    BY <1>1
  <2>5. h \in [Small(n + 1) -> B]
    BY <2>3
  <2>6. \A s \in Small(n) : h[s] = g[s]
    BY <2>4
  <2>7. \A s \in Small(n + 1) : h[s] = Body(g, s)
    BY <2>1
  <2>8. ASSUME NEW s \in Small(n + 1)
        PROVE  Body(h, s) = Body(g, s)
    <3> HIDE DEF h, Small
    <3> QED BY <2>2, <2>6
  <2> QED BY <2>5, <2>7, <2>8
<1>4. Bad = {}
  <2> SUFFICES ASSUME Bad # {} PROVE FALSE
    OBVIOUS
  <2> HIDE DEF Upto
  <2>1. PICK n \in Bad : \A m \in Bad : n <= m
    BY LeastNumber
  <2>2. n # 0 /\ n - 1 \in Nat /\ n - 1 \notin Bad
    BY <2>1, <1>2
  <2>3. Upto(n - 1)
    BY <2>2
  <2>4. Upto((n - 1) + 1)
    BY <2>2, <2>3, <1>3
  <2>5. (n - 1) + 1 = n
    BY <2>1
  <2> QED BY <2>1, <2>4, <2>5
<1>5. Cardinality(S) \in Nat /\ Small(Cardinality(S)) = SUBSET S
  BY <1>1, FS_Subset
<1>6. PICK h \in [SUBSET S -> B] : \A s \in SUBSET S : h[s] = Body(h, s)
  <2>1. Upto(Cardinality(S))
    <3> HIDE DEF Upto
    <3> QED BY <1>4, <1>5
  <2> QED BY <2>1, <1>5
<1>7. h = [s \in SUBSET S |-> Body(h, s)]
  BY <1>6
<1> QED BY <1>7 DEF IsFold

-----------------------------------------------------------------------------
(***************************************************************************)
(* Sums: what SumFunctionOnSet does with one element, and with all.        *)
(***************************************************************************)
\* Two functions that satisfy the recursion of a sum agree.
Summing(h, f, S) ==
  \A s \in SUBSET S : h[s] = IF s = {} THEN 0 ELSE f[Pick(s)] + h[s \ {Pick(s)}]

LEMMA SummingUnique ==
  ASSUME NEW S, IsFiniteSet(S), NEW T, NEW f, NEW g, NEW h,
         Summing(g, f, S), Summing(h, f, T)
  PROVE  \A s \in SUBSET (S \cap T) : g[s] = h[s]
<1> DEFINE Bad == {s \in SUBSET (S \cap T) : g[s] # h[s]}
<1> SUFFICES ASSUME Bad # {} PROVE FALSE
  OBVIOUS
<1>1. \A s \in Bad : IsFiniteSet(s)
  BY FS_Subset
<1>2. PICK s \in Bad : \A x \in s : s \ {x} \notin Bad
  BY <1>1, LeastSubset
<1>3. g[{}] = 0 /\ h[{}] = 0
  BY DEF Summing
<1>4. Pick(s) \in s /\ s # {}
  BY <1>2, <1>3, PickIn
<1>5. g[s \ {Pick(s)}] = h[s \ {Pick(s)}]
  BY <1>2, <1>4
<1> QED BY <1>2, <1>4, <1>5 DEF Summing

\* SumFunctionOnSet computes a sum.
LEMMA SumDefined ==
  ASSUME NEW S, IsFiniteSet(S), NEW f, \A x \in S : f[x] \in Int
  PROVE  \E h \in [SUBSET S -> Int] : Summing(h, f, S) /\ SumFunctionOnSet(f, S) = h[S]
<1> DEFINE F == [p \in S \X Int |-> f[p[1]] + p[2]]
           body(h) == [s \in SUBSET S |->
                         IF s = {} THEN 0
                         ELSE f[CHOOSE x \in s : TRUE] + h[s \ {CHOOSE x \in s : TRUE}]]
<1>1. F \in [S \X Int -> Int]
  OBVIOUS
<1>2. PICK h \in [SUBSET S -> Int] : IsFold(h, F, 0, S)
  <2> HIDE DEF F
  <2>1. 0 \in Int
    OBVIOUS
  <2> QED BY <1>1, <2>1, FoldExists
<1>3. ASSUME NEW s \in SUBSET S, s # {}
      PROVE  F[<<Pick(s), h[s \ {Pick(s)}]>>] = f[Pick(s)] + h[s \ {Pick(s)}]
  <2>1. Pick(s) \in S /\ h[s \ {Pick(s)}] \in Int
    BY <1>3, PickIn
  <2> QED BY <2>1
<1>4. h = body(h)
  BY <1>2, <1>3 DEF IsFold, Pick
<1> DEFINE g == CHOOSE g : g = body(g)
<1>5. g = body(g)
  BY <1>4
<1>6. SumFunctionOnSet(f, S) = g[S]
  BY DEF SumFunctionOnSet, FoldFunctionOnSet, MapThenFoldSet
<1> HIDE DEF g
<1>7. Summing(g, f, S)
  BY <1>5 DEF Summing, Pick
<1>8. Summing(h, f, S)
  BY <1>4 DEF Summing, Pick
<1>9. g[S] = h[S]
  BY <1>7, <1>8, SummingUnique
<1> QED BY <1>6, <1>8, <1>9

LEMMA SumType ==
  ASSUME NEW S, IsFiniteSet(S), NEW f, \A x \in S : f[x] \in Int
  PROVE  SumFunctionOnSet(f, S) \in Int
<1>1. PICK h \in [SUBSET S -> Int] : Summing(h, f, S) /\ SumFunctionOnSet(f, S) = h[S]
  BY SumDefined
<1> QED BY <1>1

LEMMA SumEmpty ==
  ASSUME NEW f
  PROVE  SumFunctionOnSet(f, {}) = 0
<1>1. PICK h \in [SUBSET {} -> Int] : Summing(h, f, {}) /\ SumFunctionOnSet(f, {}) = h[{}]
  BY SumDefined, FS_EmptySet
<1> QED BY <1>1 DEF Summing

\* Any element can be taken out of a sum first.
LEMMA SumRemove ==
  ASSUME NEW S, IsFiniteSet(S), NEW f, \A x \in S : f[x] \in Int, NEW x \in S
  PROVE  SumFunctionOnSet(f, S) = f[x] + SumFunctionOnSet(f, S \ {x})
<1>1. PICK h \in [SUBSET S -> Int] : Summing(h, f, S) /\ SumFunctionOnSet(f, S) = h[S]
  BY SumDefined
<1>2. ASSUME NEW s \in SUBSET S
      PROVE  SumFunctionOnSet(f, s) = h[s]
  <2>1. IsFiniteSet(s) /\ \A y \in s : f[y] \in Int
    BY FS_Subset
  <2>2. PICK g \in [SUBSET s -> Int] : Summing(g, f, s) /\ SumFunctionOnSet(f, s) = g[s]
    BY <2>1, SumDefined
  <2>3. g[s] = h[s]
    BY <1>1, <2>1, <2>2, SummingUnique
  <2> QED BY <2>2, <2>3
<1> DEFINE Bad == {s \in SUBSET S : \E y \in s : h[s] # f[y] + h[s \ {y}]}
<1>3. Bad = {}
  <2> SUFFICES ASSUME Bad # {} PROVE FALSE
    OBVIOUS
  <2>1. \A s \in Bad : IsFiniteSet(s)
    BY FS_Subset
  <2>2. PICK s \in Bad : \A y \in s : s \ {y} \notin Bad
    <3> HIDE DEF Bad
    <3> QED BY <2>1, LeastSubset
  <2>3. PICK y \in s : h[s] # f[y] + h[s \ {y}]
    BY <2>2
  <2> DEFINE p == Pick(s)
             t == (s \ {p}) \ {y}
  <2>4. p \in s /\ h[s] = f[p] + h[s \ {p}]
    BY <1>1, <2>2, <2>3, PickIn DEF Summing
  <2> HIDE DEF p
  <2>5. y # p
    BY <2>3, <2>4
  <2>6. h[s \ {p}] = f[y] + h[t]
    BY <2>2, <2>3, <2>4, <2>5
  <2>7. h[s \ {y}] = f[p] + h[(s \ {y}) \ {p}]
    BY <2>2, <2>3, <2>4, <2>5
  <2>8. (s \ {y}) \ {p} = t
    OBVIOUS
  <2>9. f[p] \in Int /\ f[y] \in Int /\ h[t] \in Int /\ h[s \ {y}] \in Int
    BY <2>2, <2>3, <2>4
  <2>10. h[s] = f[p] + (f[y] + h[t]) /\ h[s \ {y}] = f[p] + h[t]
    BY <2>4, <2>6, <2>7, <2>8
  <2>11. \A a, b, c \in Int : a + (b + c) = b + (a + c)
    OBVIOUS
  <2> HIDE DEF t, Bad
  <2>12. f[p] + (f[y] + h[t]) = f[y] + (f[p] + h[t])
    BY <2>9, <2>11
  <2> QED BY <2>3, <2>10, <2>12
<1>4. h[S] = f[x] + h[S \ {x}]
  BY <1>3
<1> QED BY <1>2, <1>4

\* Only the values on the set matter.
LEMMA SumCongruent ==
  ASSUME NEW S, IsFiniteSet(S), NEW f, NEW g,
         \A x \in S : f[x] \in Int /\ g[x] = f[x]
  PROVE  SumFunctionOnSet(g, S) = SumFunctionOnSet(f, S)
<1> DEFINE P == {s \in SUBSET S : SumFunctionOnSet(g, s) = SumFunctionOnSet(f, s)}
<1>1. {} \in P
  BY SumEmpty
<1>2. ASSUME NEW s \in SUBSET S, NEW x \in s, s \ {x} \in P
      PROVE  s \in P
  <2>1. IsFiniteSet(s) /\ \A y \in s : f[y] \in Int /\ g[y] \in Int /\ g[y] = f[y]
    BY FS_Subset
  <2>2. /\ SumFunctionOnSet(f, s) = f[x] + SumFunctionOnSet(f, s \ {x})
        /\ SumFunctionOnSet(g, s) = g[x] + SumFunctionOnSet(g, s \ {x})
    BY <2>1, SumRemove
  <2> QED BY <1>2, <2>1, <2>2
<1> HIDE DEF P
<1>3. S \in P
  BY <1>1, <1>2, SubsetInduction
<1> QED BY <1>3 DEF P

\* Changing the value at one element.
LEMMA SumUpdate ==
  ASSUME NEW S, IsFiniteSet(S), NEW f, NEW g, NEW x \in S,
         \A y \in S : f[y] \in Int, g[x] \in Int,
         \A y \in S \ {x} : g[y] = f[y]
  PROVE  SumFunctionOnSet(g, S) = SumFunctionOnSet(f, S) - f[x] + g[x]
<1> DEFINE T == S \ {x}
<1>1. IsFiniteSet(T) /\ \A y \in T : f[y] \in Int /\ g[y] = f[y]
  BY FS_RemoveElement
<1>2. SumFunctionOnSet(g, T) = SumFunctionOnSet(f, T) /\ SumFunctionOnSet(f, T) \in Int
  <2> HIDE DEF T
  <2> QED BY <1>1, SumCongruent, SumType
<1>3. \A y \in S : g[y] \in Int
  BY <1>1
<1>4. /\ SumFunctionOnSet(f, S) = f[x] + SumFunctionOnSet(f, T)
      /\ SumFunctionOnSet(g, S) = g[x] + SumFunctionOnSet(g, T)
  BY <1>3, SumRemove
<1>5. f[x] \in Int /\ g[x] \in Int
  OBVIOUS
<1> HIDE DEF T
<1> QED BY <1>2, <1>4, <1>5

\* A sum of natural numbers is one, and none of them exceeds it.
LEMMA SumNat ==
  ASSUME NEW S, IsFiniteSet(S), NEW f, \A x \in S : f[x] \in Nat
  PROVE  /\ SumFunctionOnSet(f, S) \in Nat
         /\ \A x \in S : f[x] <= SumFunctionOnSet(f, S)
<1> DEFINE P == {s \in SUBSET S : SumFunctionOnSet(f, s) \in Nat}
<1>1. {} \in P
  BY SumEmpty
<1>2. ASSUME NEW s \in SUBSET S, NEW x \in s, s \ {x} \in P
      PROVE  s \in P
  <2>1. IsFiniteSet(s) /\ \A y \in s : f[y] \in Int
    BY FS_Subset
  <2>2. SumFunctionOnSet(f, s) = f[x] + SumFunctionOnSet(f, s \ {x})
    BY <2>1, SumRemove
  <2>3. f[x] \in Nat /\ SumFunctionOnSet(f, s \ {x}) \in Nat
    BY <1>2
  <2> QED BY <2>2, <2>3
<1>3. \A T \in SUBSET S : SumFunctionOnSet(f, T) \in Nat
  <2> SUFFICES ASSUME NEW T \in SUBSET S PROVE SumFunctionOnSet(f, T) \in Nat
    OBVIOUS
  <2>1. IsFiniteSet(T)
    BY FS_Subset
  <2>2. \A s \in SUBSET T : \A x \in s : s \ {x} \in P => s \in P
    BY <1>2
  <2> HIDE DEF P
  <2>3. T \in P
    BY <1>1, <2>1, <2>2, SubsetInduction
  <2> QED BY <2>3 DEF P
<1>4. ASSUME NEW x \in S
      PROVE  f[x] <= SumFunctionOnSet(f, S)
  <2>1. SumFunctionOnSet(f, S) = f[x] + SumFunctionOnSet(f, S \ {x})
    <3>1. \A y \in S : f[y] \in Int
      OBVIOUS
    <3> QED BY <3>1, SumRemove
  <2>2. f[x] \in Nat /\ SumFunctionOnSet(f, S \ {x}) \in Nat
    BY <1>3
  <2> QED BY <2>1, <2>2
<1> QED BY <1>3, <1>4

\* Sums are added element by element.
LEMMA SumPlus ==
  ASSUME NEW S, IsFiniteSet(S), NEW f, NEW g, NEW h,
         \A x \in S : f[x] \in Int /\ g[x] \in Int /\ h[x] = f[x] + g[x]
  PROVE  SumFunctionOnSet(h, S) = SumFunctionOnSet(f, S) + SumFunctionOnSet(g, S)
<1> DEFINE P == {s \in SUBSET S : SumFunctionOnSet(h, s)
                                    = SumFunctionOnSet(f, s) + SumFunctionOnSet(g, s)}
<1>1. {} \in P
  BY SumEmpty
<1>2. ASSUME NEW s \in SUBSET S, NEW x \in s, s \ {x} \in P
      PROVE  s \in P
  <2> DEFINE t == s \ {x}
  <2>1. /\ IsFiniteSet(s) /\ IsFiniteSet(t)
        /\ \A y \in s : f[y] \in Int /\ g[y] \in Int /\ h[y] \in Int
    BY FS_Subset
  <2>2. /\ SumFunctionOnSet(f, s) = f[x] + SumFunctionOnSet(f, t)
        /\ SumFunctionOnSet(g, s) = g[x] + SumFunctionOnSet(g, t)
        /\ SumFunctionOnSet(h, s) = h[x] + SumFunctionOnSet(h, t)
    BY <2>1, SumRemove
  <2>3. SumFunctionOnSet(f, t) \in Int /\ SumFunctionOnSet(g, t) \in Int
    BY <2>1, SumType
  <2>4. /\ SumFunctionOnSet(h, t) = SumFunctionOnSet(f, t) + SumFunctionOnSet(g, t)
        /\ h[x] = f[x] + g[x] /\ f[x] \in Int /\ g[x] \in Int
    BY <1>2
  <2> HIDE DEF t
  <2>5. SumFunctionOnSet(h, s) = SumFunctionOnSet(f, s) + SumFunctionOnSet(g, s)
    BY <2>2, <2>3, <2>4
  <2> QED BY <2>5
<1> HIDE DEF P
<1>3. S \in P
  BY <1>1, <1>2, SubsetInduction
<1> QED BY <1>3 DEF P

\* A sum grows with its values.
LEMMA SumMonotone ==
  ASSUME NEW S, IsFiniteSet(S), NEW f, NEW g,
         \A x \in S : f[x] \in Int /\ g[x] \in Int /\ f[x] <= g[x]
  PROVE  SumFunctionOnSet(f, S) <= SumFunctionOnSet(g, S)
<1> DEFINE d == [x \in S |-> g[x] - f[x]]
<1>1. \A x \in S : d[x] \in Nat /\ g[x] = f[x] + d[x]
  OBVIOUS
<1> HIDE DEF d
<1>2. SumFunctionOnSet(d, S) \in Nat
  BY <1>1, SumNat
<1>3. SumFunctionOnSet(g, S) = SumFunctionOnSet(f, S) + SumFunctionOnSet(d, S)
  BY <1>1, SumPlus
<1>4. SumFunctionOnSet(f, S) \in Int
  BY SumType
<1> QED BY <1>2, <1>3, <1>4

\* If every value is at most c, the sum is at most c times the number of them.
LEMMA SumAtMost ==
  ASSUME NEW S, IsFiniteSet(S), NEW f, NEW c \in Int,
         \A x \in S : f[x] \in Int /\ f[x] <= c
  PROVE  SumFunctionOnSet(f, S) <= Cardinality(S) * c
<1> DEFINE P == {s \in SUBSET S : SumFunctionOnSet(f, s) <= Cardinality(s) * c}
<1>1. {} \in P
  BY SumEmpty, FS_EmptySet
<1>2. ASSUME NEW s \in SUBSET S, NEW x \in s, s \ {x} \in P
      PROVE  s \in P
  <2> DEFINE t == s \ {x}
             n == Cardinality(t)
  <2>1. /\ IsFiniteSet(s) /\ IsFiniteSet(t)
        /\ \A y \in s : f[y] \in Int
    BY FS_Subset
  <2>2. SumFunctionOnSet(f, s) = f[x] + SumFunctionOnSet(f, t)
    BY <2>1, SumRemove
  <2>3. n \in Nat /\ Cardinality(s) = n + 1
    BY <2>1, FS_CardinalityType, FS_RemoveElement
  <2>4. /\ SumFunctionOnSet(f, t) \in Int /\ SumFunctionOnSet(f, t) <= n * c
        /\ f[x] \in Int /\ f[x] <= c
    BY <1>2, <2>1, SumType
  <2> HIDE DEF t, n
  <2>5. n * c \in Int /\ (n + 1) * c = n * c + c
    BY <2>3
  <2>6. SumFunctionOnSet(f, s) <= (n + 1) * c
    BY <2>2, <2>4, <2>5
  <2> QED BY <2>3, <2>6
<1> HIDE DEF P
<1>3. S \in P
  BY <1>1, <1>2, SubsetInduction
<1> QED BY <1>3 DEF P

\* The sum over two disjoint sets.
LEMMA SumUnion ==
  ASSUME NEW S, IsFiniteSet(S), NEW T, IsFiniteSet(T), S \cap T = {},
         NEW f, \A x \in S \cup T : f[x] \in Int
  PROVE  SumFunctionOnSet(f, S \cup T) = SumFunctionOnSet(f, S) + SumFunctionOnSet(f, T)
<1> DEFINE P == {s \in SUBSET T : SumFunctionOnSet(f, S \cup s)
                                    = SumFunctionOnSet(f, S) + SumFunctionOnSet(f, s)}
<1>1. {} \in P
  <2>1. SumFunctionOnSet(f, S) \in Int /\ S \cup {} = S
    BY SumType
  <2> QED BY <2>1, SumEmpty
<1>2. ASSUME NEW s \in SUBSET T, NEW x \in s, s \ {x} \in P
      PROVE  s \in P
  <2> DEFINE t == s \ {x}
  <2>1. IsFiniteSet(s) /\ IsFiniteSet(t)
    BY FS_Subset
  <2>2. IsFiniteSet(S \cup s)
    BY <2>1, FS_Union
  <2>3. (S \cup s) \ {x} = S \cup t
    OBVIOUS
  <2>4. /\ SumFunctionOnSet(f, s) = f[x] + SumFunctionOnSet(f, t)
        /\ SumFunctionOnSet(f, S \cup s) = f[x] + SumFunctionOnSet(f, S \cup t)
    BY <2>1, <2>2, <2>3, SumRemove
  <2>5. /\ SumFunctionOnSet(f, S \cup t) = SumFunctionOnSet(f, S) + SumFunctionOnSet(f, t)
        /\ SumFunctionOnSet(f, S) \in Int /\ SumFunctionOnSet(f, t) \in Int /\ f[x] \in Int
    BY <1>2, <2>1, SumType
  <2> HIDE DEF t
  <2>6. SumFunctionOnSet(f, S \cup s) = SumFunctionOnSet(f, S) + SumFunctionOnSet(f, s)
    BY <2>4, <2>5
  <2> QED BY <2>6
<1> HIDE DEF P
<1>3. T \in P
  BY <1>1, <1>2, SubsetInduction
<1> QED BY <1>3 DEF P

\* A sum over disjoint parts is the sum of the sums over the parts.
LEMMA SumParts ==
  ASSUME NEW P, IsFiniteSet(P), NEW D, NEW f, NEW F,
         \A i \in P : /\ IsFiniteSet(D[i]) /\ F[i] = SumFunctionOnSet(f, D[i])
                      /\ \A x \in D[i] : f[x] \in Int,
         \A i, j \in P : i # j => D[i] \cap D[j] = {}
  PROVE  /\ IsFiniteSet(UNION {D[i] : i \in P})
         /\ SumFunctionOnSet(F, P) = SumFunctionOnSet(f, UNION {D[i] : i \in P})
<1> DEFINE U(Q) == UNION {D[i] : i \in Q}
           G == {Q \in SUBSET P : /\ IsFiniteSet(U(Q))
                                  /\ SumFunctionOnSet(F, Q) = SumFunctionOnSet(f, U(Q))}
<1>1. {} \in G
  <2>1. U({}) = {}
    OBVIOUS
  <2> QED BY <2>1, SumEmpty, FS_EmptySet
<1>2. ASSUME NEW Q \in SUBSET P, NEW i \in Q, Q \ {i} \in G
      PROVE  Q \in G
  <2> DEFINE R == Q \ {i}
  <2>1. U(Q) = U(R) \cup D[i] /\ U(R) \cap D[i] = {}
    OBVIOUS
  <2>2. /\ IsFiniteSet(U(R)) /\ IsFiniteSet(D[i]) /\ IsFiniteSet(Q)
        /\ SumFunctionOnSet(F, R) = SumFunctionOnSet(f, U(R))
    BY <1>2, FS_Subset
  <2>3. \A x \in U(R) \cup D[i] : f[x] \in Int
    OBVIOUS
  <2>4. \A j \in Q : F[j] \in Int
    BY SumType
  <2>5. SumFunctionOnSet(F, Q) = F[i] + SumFunctionOnSet(F, R)
    BY <2>2, <2>4, SumRemove
  <2>6. F[i] = SumFunctionOnSet(f, D[i])
    OBVIOUS
  <2> HIDE DEF U, R
  <2>7. IsFiniteSet(U(Q))
    <3>1. IsFiniteSet(U(R) \cup D[i])
      BY <2>2, FS_Union
    <3> QED BY <2>1, <3>1
  <2>8. SumFunctionOnSet(f, U(Q)) = SumFunctionOnSet(f, U(R)) + SumFunctionOnSet(f, D[i])
    BY <2>1, <2>2, <2>3, SumUnion
  <2>9. SumFunctionOnSet(f, U(R)) \in Int /\ SumFunctionOnSet(f, D[i]) \in Int
    BY <2>2, <2>3, SumType
  <2>10. SumFunctionOnSet(F, Q) = SumFunctionOnSet(f, U(Q))
    BY <2>2, <2>5, <2>6, <2>8, <2>9
  <2> QED BY <2>7, <2>10
<1> HIDE DEF G
<1>3. P \in G
  BY <1>1, <1>2, SubsetInduction
<1> QED BY <1>3 DEF G

\* The number of elements of a subset is the sum of its characteristic function.
LEMMA SumIndicator ==
  ASSUME NEW S, IsFiniteSet(S), NEW T \in SUBSET S, NEW f,
         \A x \in S : f[x] = IF x \in T THEN 1 ELSE 0
  PROVE  SumFunctionOnSet(f, S) = Cardinality(T)
<1> DEFINE P == {s \in SUBSET S : SumFunctionOnSet(f, s) = Cardinality(T \cap s)}
<1>1. {} \in P
  BY SumEmpty, FS_EmptySet
<1>2. ASSUME NEW s \in SUBSET S, NEW x \in s, s \ {x} \in P
      PROVE  s \in P
  <2> DEFINE r == s \ {x}
  <2>1. IsFiniteSet(s) /\ IsFiniteSet(T \cap s) /\ IsFiniteSet(T \cap r)
    BY FS_Subset
  <2>2. \A y \in s : f[y] \in Int
    OBVIOUS
  <2>3. SumFunctionOnSet(f, s) = f[x] + SumFunctionOnSet(f, r)
    BY <2>1, <2>2, SumRemove
  <2>4. SumFunctionOnSet(f, r) = Cardinality(T \cap r) /\ Cardinality(T \cap r) \in Nat
    BY <1>2, <2>1, FS_CardinalityType
  <2> HIDE DEF r
  <2>5. CASE x \in T
    <3>1. T \cap s = (T \cap r) \cup {x} /\ x \notin T \cap r
      BY <2>5 DEF r
    <3>2. Cardinality(T \cap s) = Cardinality(T \cap r) + 1
      BY <2>1, <3>1, FS_AddElement
    <3>3. f[x] = 1
      BY <2>5
    <3> QED BY <2>3, <2>4, <3>2, <3>3
  <2>6. CASE x \notin T
    <3>1. T \cap s = T \cap r
      BY <2>6 DEF r
    <3>2. f[x] = 0
      BY <2>6
    <3> QED BY <2>3, <2>4, <3>1, <3>2
  <2> QED BY <2>5, <2>6
<1> HIDE DEF P
<1>3. S \in P
  BY <1>1, <1>2, SubsetInduction
<1>4. T \cap S = T
  OBVIOUS
<1> QED BY <1>3, <1>4 DEF P

-----------------------------------------------------------------------------
(***************************************************************************)
(* Counts: how many places of a sequence hold an element of a set.         *)
(***************************************************************************)
Places(q, M) == {k \in DOMAIN q : q[k] \in M}
Count(q, M) == Cardinality(Places(q, M))

\* A one-to-one correspondence between finite sets.
LEMMA SameSize ==
  ASSUME NEW S, IsFiniteSet(S), NEW T, NEW g \in [S -> T],
         \A a, b \in S : g[a] = g[b] => a = b, \A y \in T : \E x \in S : g[x] = y
  PROVE  IsFiniteSet(T) /\ Cardinality(T) = Cardinality(S)
<1>1. g \in Bijection(S, T)
  BY DEF Bijection, Injection, IsInjective, Surjection
<1>2. ExistsBijection(S, T)
  BY <1>1 DEF ExistsBijection
<1> QED BY <1>2, FS_Bijection

LEMMA CountType ==
  ASSUME NEW S, NEW q \in Seq(S), NEW M
  PROVE  IsFiniteSet(Places(q, M)) /\ Count(q, M) \in Nat
<1>1. Len(q) \in Nat /\ Places(q, M) \subseteq 1 .. Len(q)
  BY DEF Places
<1>2. IsFiniteSet(1 .. Len(q))
  BY <1>1, FS_Interval
<1>3. IsFiniteSet(Places(q, M))
  BY <1>1, <1>2, FS_Subset
<1> QED BY <1>3, FS_CardinalityType DEF Count

\* g takes the places of r that count to the numbers of B, one to one.
Corresponds(g, r, M, B) ==
  /\ \A i, j \in 1 .. Len(r) : g[i] = g[j] => i = j
  /\ \A j \in 1 .. Len(r) : r[j] \in M => g[j] \in B
  /\ \A y \in B : \E j \in 1 .. Len(r) : r[j] \in M /\ g[j] = y

LEMMA CountVia ==
  ASSUME NEW S, NEW r \in Seq(S), NEW M, NEW B, NEW g, Corresponds(g, r, M, B)
  PROVE  Count(r, M) = Cardinality(B)
<1> USE DEF Corresponds
<1> DEFINE A == Places(r, M)
           h == [k \in A |-> g[k]]
<1>1. IsFiniteSet(A) /\ A = {k \in 1 .. Len(r) : r[k] \in M}
  <2>1. IsFiniteSet(A)
    BY CountType
  <2>2. DOMAIN r = 1 .. Len(r)
    OBVIOUS
  <2> QED BY <2>1, <2>2 DEF Places
<1>2. h \in [A -> B]
  BY <1>1
<1>3. \A a, b \in A : h[a] = h[b] => a = b
  BY <1>1
<1>4. \A y \in B : \E x \in A : h[x] = y
  BY <1>1
<1> HIDE DEF A, h
<1>5. Cardinality(B) = Cardinality(A)
  BY ONLY <1>1, <1>2, <1>3, <1>4, SameSize
<1> QED BY <1>5 DEF A, Count

LEMMA CountAppend ==
  ASSUME NEW S, NEW q \in Seq(S), NEW e \in S, NEW M
  PROVE  Count(Append(q, e), M) = Count(q, M) + (IF e \in M THEN 1 ELSE 0)
<1> DEFINE r == Append(q, e)
           n == Len(q)
<1>1. /\ n \in Nat /\ Len(r) = n + 1 /\ DOMAIN r = 1 .. n + 1 /\ DOMAIN q = 1 .. n
      /\ r[n + 1] = e /\ \A k \in 1 .. n : r[k] = q[k]
  OBVIOUS
<1>2. IsFiniteSet(Places(q, M)) /\ Count(q, M) \in Nat
  BY CountType
<1> HIDE DEF r, n
<1>3. CASE e \in M
  <2>1. Places(r, M) = Places(q, M) \cup {n + 1} /\ n + 1 \notin Places(q, M)
    BY <1>1, <1>3 DEF Places
  <2>2. Cardinality(Places(r, M)) = Cardinality(Places(q, M)) + 1
    BY <1>2, <2>1, FS_AddElement
  <2> QED BY <1>3, <2>2 DEF Count, r
<1>4. CASE e \notin M
  <2>1. Places(r, M) = Places(q, M)
    BY <1>1, <1>4 DEF Places
  <2> QED BY <1>2, <1>4, <2>1 DEF Count, r
<1> QED BY <1>3, <1>4

\* Without one place.
LEMMA CountBut ==
  ASSUME NEW S, NEW q \in Seq(S), NEW M, NEW k \in 1 .. Len(q)
  PROVE  Count(q, M) = Cardinality({j \in (1 .. Len(q)) \ {k} : q[j] \in M})
                       + (IF q[k] \in M THEN 1 ELSE 0)
<1> DEFINE A == Places(q, M)
           B == {j \in (1 .. Len(q)) \ {k} : q[j] \in M}
<1>1. IsFiniteSet(A) /\ Cardinality(A) \in Nat
  BY CountType DEF Count
<1>2. B = A \ {k} /\ (k \in A <=> q[k] \in M)
  BY DEF Places
<1> HIDE DEF A, B
<1>3. Cardinality(B) = IF k \in A THEN Cardinality(A) - 1 ELSE Cardinality(A)
  BY <1>1, <1>2, FS_RemoveElement
<1>4. Cardinality(A) = Cardinality(B) + (IF q[k] \in M THEN 1 ELSE 0)
  BY <1>1, <1>2, <1>3
<1> QED BY <1>4 DEF A, B, Count

LEMMA CountTail ==
  ASSUME NEW S, NEW q \in Seq(S), q # <<>>, NEW M
  PROVE  Count(q, M) = Count(Tail(q), M) + (IF Head(q) \in M THEN 1 ELSE 0)
<1> DEFINE r == Tail(q)
           n == Len(q)
           g == [k \in 1 .. n - 1 |-> k + 1]
           B == {k \in (1 .. n) \ {1} : q[k] \in M}
<1>1. /\ r \in Seq(S) /\ Len(r) = n - 1 /\ n \in Nat \ {0} /\ Head(q) = q[1]
      /\ \A k \in 1 .. n - 1 : r[k] = q[k + 1]
  BY HeadTailProperties, EmptySeq
<1>2. Count(q, M) = Cardinality(B) + (IF q[1] \in M THEN 1 ELSE 0)
  <2>1. 1 \in 1 .. Len(q)
    BY <1>1
  <2> QED BY <2>1, CountBut
<1> HIDE DEF r, n
<1>3. \A j, k \in 1 .. Len(r) : g[j] = g[k] => j = k
  BY <1>1
<1>4. \A k \in 1 .. Len(r) : r[k] \in M => g[k] \in B
  BY <1>1
<1>5. ASSUME NEW y \in B
      PROVE  \E k \in 1 .. Len(r) : r[k] \in M /\ g[k] = y
  <2>1. y - 1 \in 1 .. Len(r) /\ r[y - 1] = q[(y - 1) + 1] /\ (y - 1) + 1 = y
        /\ g[y - 1] = y
    BY <1>1
  <2> QED BY <2>1
<1> HIDE DEF g, B
<1>6. Count(r, M) = Cardinality(B)
  <2>1. Corresponds(g, r, M, B)
    BY <1>3, <1>4, <1>5 DEF Corresponds
  <2>2. r \in Seq(S)
    BY <1>1
  <2> QED BY ONLY <2>1, <2>2, CountVia
<1> QED BY <1>1, <1>2, <1>6 DEF r

LEMMA CountConcat ==
  ASSUME NEW S, NEW q \in Seq(S), NEW r \in Seq(S), NEW M
  PROVE  Count(q \o r, M) = Count(q, M) + Count(r, M)
<1> DEFINE s == q \o r
           n == Len(q)
           m == Len(r)
           g == [k \in 1 .. m |-> n + k]
           B == {k \in n + 1 .. n + m : s[k] \in M}
<1>1. /\ n \in Nat /\ m \in Nat /\ s \in Seq(S) /\ Len(s) = n + m
      /\ DOMAIN q = 1 .. n /\ DOMAIN s = 1 .. n + m
      /\ \A k \in 1 .. n : s[k] = q[k]
      /\ \A k \in 1 .. m : s[n + k] = r[k]
  OBVIOUS
<1>a. m = Len(r)
  OBVIOUS
<1> HIDE DEF s, n, m
<1>2. \A j, k \in 1 .. m : g[j] = g[k] => j = k
  BY <1>1
<1>3. \A k \in 1 .. m : r[k] \in M => g[k] \in B
  BY <1>1
<1>4. ASSUME NEW y \in B
      PROVE  \E k \in 1 .. m : r[k] \in M /\ g[k] = y
  <2>1. y - n \in 1 .. m /\ s[n + (y - n)] = r[y - n] /\ n + (y - n) = y /\ g[y - n] = y
    BY <1>1
  <2> QED BY <2>1
<1>5. Places(s, M) = Places(q, M) \cup B /\ Places(q, M) \cap B = {}
  <2>1. \A k \in 1 .. n + m : k \in 1 .. n \/ k \in n + 1 .. n + m
    BY <1>1
  <2>2. \A k \in 1 .. n : k \in 1 .. n + m /\ k \notin n + 1 .. n + m
    BY <1>1
  <2>3. \A k \in n + 1 .. n + m : k \in 1 .. n + m
    BY <1>1
  <2> QED BY <1>1, <2>1, <2>2, <2>3, Zenon DEF Places
<1> HIDE DEF g, B
<1>6. Count(r, M) = Cardinality(B)
  <2>1. Corresponds(g, r, M, B)
    BY <1>2, <1>3, <1>4, <1>a DEF Corresponds
  <2>2. r \in Seq(S)
    OBVIOUS
  <2> QED BY ONLY <2>1, <2>2, CountVia
<1>7. IsFiniteSet(Places(q, M)) /\ IsFiniteSet(Places(s, M))
  BY <1>1, CountType
<1>8. IsFiniteSet(B)
  BY <1>5, <1>7, FS_Subset
<1>9. Cardinality(Places(s, M)) = Cardinality(Places(q, M)) + Cardinality(B)
  <2>1. Cardinality(Places(s, M)) = Cardinality(Places(q, M)) + Cardinality(B)
                                     - Cardinality(Places(q, M) \cap B)
    BY <1>5, <1>7, <1>8, FS_Union
  <2>2. Cardinality(Places(q, M) \cap B) = 0
    BY <1>5, FS_EmptySet
  <2>3. Cardinality(Places(q, M)) \in Nat /\ Cardinality(B) \in Nat
    BY <1>7, <1>8, FS_CardinalityType
  <2> QED BY <2>1, <2>2, <2>3
<1> QED BY <1>6, <1>9 DEF Count, s


\* Counting up to n, for a property given as the set P of the numbers that have it.
LEMMA CountUp ==
  ASSUME NEW n \in Nat, NEW P, 0 \in P, \A k \in 1 .. n : k-1 \in P => k \in P
  PROVE  n \in P
<1> DEFINE Bad == {k \in 0 .. n : k \notin P}
<1> SUFFICES ASSUME n \notin P PROVE FALSE
  OBVIOUS
<1>1. Bad \subseteq Nat /\ Bad # {}
  OBVIOUS
<1>2. PICK k \in Bad : \A j \in Bad : k <= j
  <2> HIDE DEF Bad
  <2> QED BY <1>1, LeastNumber
<1>3. k \in 1 .. n /\ k-1 \in 0 .. n
  OBVIOUS
<1>4. k-1 \notin Bad
  BY <1>2, <1>3
<1> QED BY <1>2, <1>3, <1>4

\* B orders S: of two different elements one comes before the other.
Orders(B, S) ==
  /\ \A x, y, z \in S : <<x, y>> \in B /\ <<y, z>> \in B => <<x, z>> \in B
  /\ \A x \in S : <<x, x>> \notin B
  /\ \A x, y \in S : x # y => <<x, y>> \in B \/ <<y, x>> \in B

\* How many elements of S come before x.
Place(x, S, B) == Cardinality({y \in S : <<y, x>> \in B})

\* q is the finite set S in the order B: what has k-1 elements before it is in place k.
InOrder(q, S, B) ==
  /\ q = [k \in 1 .. Cardinality(S) |-> q[k]]
  /\ \A k \in 1 .. Cardinality(S), x \in S :
       Place(x, S, B) = k-1 => q[k] \in S /\ Place(q[k], S, B) = k-1

LEMMA OrderedSet ==
  ASSUME NEW S, IsFiniteSet(S), NEW B, Orders(B, S), NEW q, InOrder(q, S, B)
  PROVE  /\ q \in Seq(S) /\ Len(q) = Cardinality(S)
         /\ \A x \in S : \E k \in 1 .. Cardinality(S) : q[k] = x
         /\ \A j, k \in 1 .. Cardinality(S) : j < k => <<q[j], q[k]>> \in B
<1> DEFINE n == Cardinality(S)
           under(x) == {y \in S : <<y, x>> \in B}
           rank == [x \in S |-> Cardinality(under(x))]
<1>0. n \in Nat
  BY FS_CardinalityType
<1>1. ASSUME NEW x \in S
      PROVE  IsFiniteSet(under(x)) /\ rank[x] \in 0 .. n-1
  <2>0. rank[x] = Cardinality(under(x))
    OBVIOUS
  <2>1. under(x) \subseteq S \ {x}
    BY DEF Orders
  <2>2. IsFiniteSet(S \ {x}) /\ Cardinality(S \ {x}) = n - 1
    BY FS_RemoveElement
  <2>3. IsFiniteSet(under(x)) /\ Cardinality(under(x)) <= n - 1
    <3> DEFINE T == S \ {x}
    <3>1. IsFiniteSet(T) /\ Cardinality(T) = n - 1 /\ under(x) \in SUBSET T
      BY <2>1, <2>2
    <3> HIDE DEF T, under
    <3>2. IsFiniteSet(under(x)) /\ Cardinality(under(x)) <= Cardinality(T)
      BY ONLY <3>1, FS_Subset
    <3> QED BY <3>1, <3>2
  <2>4. Cardinality(under(x)) \in Nat
    BY <2>3, FS_CardinalityType
  <2> HIDE DEF under, rank
  <2> QED BY <1>0, <2>0, <2>3, <2>4
<1>2. ASSUME NEW x \in S, NEW y \in S, <<x, y>> \in B
      PROVE  rank[x] < rank[y]
  <2>0. rank[x] = Cardinality(under(x)) /\ rank[y] = Cardinality(under(y))
    OBVIOUS
  <2>1. under(x) \cup {x} \subseteq under(y) /\ x \notin under(x)
    BY <1>2 DEF Orders
  <2>2. IsFiniteSet(under(x)) /\ IsFiniteSet(under(y))
    BY <1>1
  <2> HIDE DEF under
  <2>3. Cardinality(under(x) \cup {x}) = Cardinality(under(x)) + 1
    BY <2>1, <2>2, FS_AddElement
  <2>4. Cardinality(under(x) \cup {x}) <= Cardinality(under(y))
    BY <2>1, <2>2, FS_Subset
  <2>5. Cardinality(under(x)) \in Nat /\ Cardinality(under(y)) \in Nat
    BY <2>2, FS_CardinalityType
  <2> HIDE DEF rank
  <2> QED BY <2>0, <2>3, <2>4, <2>5
<1>3. \A x \in S : rank[x] = Place(x, S, B) /\ rank[x] \in Int
  BY <1>1 DEF Place
<1>4. \A k \in 1 .. n, x \in S : rank[x] = k-1 => q[k] \in S /\ rank[q[k]] = k-1
  <2> HIDE DEF rank
  <2> QED BY <1>3 DEF InOrder
<1> HIDE DEF rank, under
<1>5. ASSUME NEW x \in S, NEW y \in S, rank[x] = rank[y]
      PROVE  x = y
  <2>1. CASE <<x, y>> \in B
    BY <1>2, <1>3, <1>5, <2>1
  <2>2. CASE <<y, x>> \in B
    BY <1>2, <1>3, <1>5, <2>2
  <2> QED BY <2>1, <2>2 DEF Orders
<1>6. rank \in Surjection(S, 0 .. n-1)
  <2>1. rank \in [S -> 0 .. n-1]
    BY <1>1 DEF rank
  <2>2. rank \in Injection(S, 0 .. n-1)
    BY <1>5, <2>1 DEF Injection, IsInjective
  <2>3. IsFiniteSet(0 .. n-1) /\ Cardinality(0 .. n-1) = n
    <3>1. 0 \in Int /\ n-1 \in Int
      BY <1>0
    <3>2. IsFiniteSet(0 .. n-1) /\ Cardinality(0 .. n-1) = IF 0 > n-1 THEN 0 ELSE n-1-0+1
      BY ONLY <3>1, FS_Interval
    <3> QED BY <1>0, <3>2
  <2> QED BY <2>2, <2>3, FS_Injection
<1>7. ASSUME NEW k \in 1 .. n
      PROVE  q[k] \in S /\ rank[q[k]] = k - 1
  <2>1. k - 1 \in 0 .. n-1
    BY <1>0
  <2>2. \E x \in S : rank[x] = k - 1
    BY <1>6, <2>1 DEF Surjection
  <2> QED BY <1>4, <2>2
<1>8. q \in Seq(S) /\ Len(q) = n
  <2>1. q \in [1 .. n -> S]
    BY <1>7 DEF InOrder
  <2> QED BY <1>0, <2>1
<1>9. ASSUME NEW x \in S
      PROVE  \E k \in 1 .. n : q[k] = x
  <2>1. rank[x] + 1 \in 1 .. n /\ (rank[x] + 1) - 1 = rank[x]
    BY <1>0, <1>1
  <2>2. q[rank[x] + 1] = x
    BY <1>5, <1>7, <2>1
  <2> QED BY <2>1, <2>2
<1>10. ASSUME NEW j \in 1 .. n, NEW k \in 1 .. n, j < k
       PROVE  <<q[j], q[k]>> \in B
  <2>1. q[j] \in S /\ q[k] \in S /\ rank[q[j]] = j - 1 /\ rank[q[k]] = k - 1
    BY <1>7
  <2>2. q[j] # q[k] /\ ~(rank[q[k]] < rank[q[j]])
    BY <1>10, <2>1
  <2> QED BY <1>2, <2>1, <2>2 DEF Orders
<1> QED BY <1>8, <1>9, <1>10
=============================================================================
