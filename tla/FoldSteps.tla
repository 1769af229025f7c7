----------------------------- MODULE FoldSteps -----------------------------
(***************************************************************************)
(* Folds over sequences, one step at a time: FoldLeft of an operator       *)
(* Op(a, s, x), what the state s becomes at the element x.  The provers    *)
(* cannot instantiate a theorem about every operator; a module that folds  *)
(* an operator of its own instantiates this one with it instead, and cites *)
(* the lemma of the instance.  That nonempty sets of numbers have a least  *)
(* element is a hypothesis of the lemmas here (WellOrdered of FoldProofs): *)
(* an instance would bring along every theorem it is proved from.          *)
(***************************************************************************)
EXTENDS Integers, Sequences, TLAPS

CONSTANT Op(_, _, _)

\* FoldLeft of Op, expanded.
LeftFold(a, base, q) ==
  LET iter[s \in SUBSET DOMAIN q] ==
        IF s = {} THEN base
        ELSE Op(a, iter[s \ {CHOOSE x \in s : \A y \in s : x >= y}],
                q[CHOOSE x \in s : \A y \in s : x >= y])
  IN  iter[DOMAIN q]

Greatest(s) == CHOOSE x \in s : \A y \in s : x >= y

\* h is what the recursion of LeftFold defines on the subsets of 1 .. n.
Runs(h, a, base, q, n) ==
  h = [s \in SUBSET (1 .. n) |->
         IF s = {} THEN base ELSE Op(a, h[s \ {Greatest(s)}], q[Greatest(s)])]

\* Every nonempty set of numbers has a least element.
Ordered == \A T \in SUBSET Nat : T # {} => \E n \in T : \A m \in T : n <= m

\* The greatest of some of the first n numbers.
LEMMA GreatestOf ==
  ASSUME Ordered,
         NEW n \in Nat, NEW s \in SUBSET (1 .. n), s # {}
  PROVE  Greatest(s) \in s /\ \A y \in s : y <= Greatest(s)
<1> DEFINE T == {n - y : y \in s}
<1>1. T \subseteq Nat /\ T # {}
  <2>1. \A y \in s : y \in Int /\ y <= n
    OBVIOUS
  <2>2. PICK y \in s : TRUE
    OBVIOUS
  <2> QED BY <2>1, <2>2
<1>2. PICK m \in T : \A k \in T : m <= k
  <2> HIDE DEF T
  <2> QED BY <1>1 DEF Ordered
<1>3. PICK x \in s : m = n - x
  OBVIOUS
<1>4. \A y \in s : x >= y
  <2> TAKE y \in s
  <2>1. m <= n - y
    BY <1>2
  <2> QED BY <1>3, <2>1
<1>5. \A y \in s : Greatest(s) >= y /\ Greatest(s) \in s
  BY <1>4 DEF Greatest
<1> QED BY <1>5

\* The recursion defines a function, whatever Op is.
LEMMA StepsExist ==
  ASSUME Ordered,
         NEW a, NEW base, NEW q, NEW N \in Nat
  PROVE  \E h : Runs(h, a, base, q, N)
<1> DEFINE Small(n) == SUBSET (1 .. n)
           Body(h, s) == IF s = {} THEN base ELSE Op(a, h[s \ {Greatest(s)}], q[Greatest(s)])
           Upto(n) == \E h : h = [s \in Small(n) |-> Body(h, s)]
           Bad == {n \in Nat : ~Upto(n)}
<1>1. Upto(0)
  <2>1. Small(0) = {{}}
    OBVIOUS
  <2> DEFINE h == [s \in {{}} |-> base]
  <2>2. h = [s \in Small(0) |-> Body(h, s)]
    BY <2>1
  <2> QED BY <2>2
<1>2. ASSUME NEW n \in Nat, Upto(n)
      PROVE  Upto(n + 1)
  <2>1. PICK g : g = [s \in Small(n) |-> Body(g, s)]
    BY <1>2
  <2> DEFINE h == [s \in Small(n + 1) |-> Body(g, s)]
  <2>2. ASSUME NEW s \in Small(n + 1), s # {}
        PROVE  s \ {Greatest(s)} \in Small(n)
    <3>1. Greatest(s) \in s /\ \A y \in s : y <= Greatest(s)
      BY <2>2, n + 1 \in Nat, GreatestOf
    <3> HIDE DEF Small
    <3>2. ASSUME NEW y \in s \ {Greatest(s)} PROVE y \in 1 .. n
      <4>1. s \subseteq 1 .. n + 1
        BY DEF Small
      <4>2. y \in Int /\ 1 <= y /\ y <= Greatest(s) /\ y # Greatest(s)
        BY <3>1, <4>1
      <4>3. Greatest(s) \in 1 .. n + 1
        BY <3>1, <4>1
      <4> QED BY <4>2, <4>3
    <3> QED BY <3>2 DEF Small
  <2>3. \A s \in Small(n) : s \in Small(n + 1)
    OBVIOUS
  <2>4. \A s \in Small(n) : h[s] = g[s]
    <3> TAKE s \in Small(n)
    <3>1. g[s] = Body(g, s)
      <4> HIDE DEF Body
      <4> QED BY <2>1
    <3>2. h[s] = Body(g, s)
      <4> HIDE DEF Body
      <4> QED BY <2>3
    <3> QED BY <3>1, <3>2
  <2>5. ASSUME NEW s \in Small(n + 1)
        PROVE  Body(h, s) = Body(g, s)
    <3> HIDE DEF h, Small
    <3> QED BY <2>2, <2>4
  <2>6. h = [s \in Small(n + 1) |-> Body(h, s)]
    <3>1. \A s \in Small(n + 1) : h[s] = Body(g, s)
      OBVIOUS
    <3> HIDE DEF Body
    <3>2. \A s \in Small(n + 1) : h[s] = Body(h, s)
      <4> HIDE DEF h
      <4> QED BY <2>5, <3>1
    <3> QED BY <2>5
  <2> HIDE DEF h, Body
  <2> QED BY <2>6
<1>3. Bad = {}
  <2> SUFFICES ASSUME Bad # {} PROVE FALSE
    OBVIOUS
  <2> HIDE DEF Upto
  <2>1. PICK n \in Bad : \A m \in Bad : n <= m
    <3>1. Bad \in SUBSET Nat
      OBVIOUS
    <3> HIDE DEF Bad
    <3> QED BY <3>1 DEF Ordered
  <2>2. n # 0 /\ n - 1 \in Nat /\ n - 1 \notin Bad
    BY <2>1, <1>1
  <2>3. Upto(n - 1)
    BY <2>2
  <2>4. Upto((n - 1) + 1)
    BY <2>2, <2>3, <1>2
  <2>5. (n - 1) + 1 = n
    BY <2>1
  <2> QED BY <2>1, <2>4, <2>5
<1>4. Upto(N)
  <2> HIDE DEF Upto
  <2> QED BY <1>3
<1> QED BY <1>4 DEF Runs

\* A fold over a sequence goes from state to state: h[k] is the state after k
\* elements.
LEMMA FoldLeftSteps ==
  ASSUME Ordered,
         NEW a, NEW base, NEW S, NEW q \in Seq(S)
  PROVE  \E h : /\ LeftFold(a, base, q) = h[Len(q)]
                /\ h[0] = base
                /\ \A k \in 1 .. Len(q) : h[k] = Op(a, h[k - 1], q[k])
<1> DEFINE n == Len(q)
           D == 1 .. n
           body(g) == [s \in SUBSET D |->
                         IF s = {} THEN base ELSE Op(a, g[s \ {Greatest(s)}], q[Greatest(s)])]
           iter == CHOOSE g : g = body(g)
<1>1. n \in Nat /\ DOMAIN q = D
  OBVIOUS
<1>2. iter = body(iter)
  <2>1. PICK g : Runs(g, a, base, q, n)
    BY <1>1, StepsExist
  <2>2. g = body(g)
    BY <2>1 DEF Runs
  <2> HIDE DEF body
  <2> QED BY <2>2
<1>3. LeftFold(a, base, q) = iter[D]
  BY <1>1 DEF LeftFold, Greatest
<1> HIDE DEF iter
<1> DEFINE h == [k \in 0 .. n |-> iter[1 .. k]]
<1>4. h[n] = iter[D] /\ h[0] = iter[1 .. 0]
  BY <1>1
<1>5. h[0] = base
  <2>1. 1 .. 0 = {} /\ {} \in SUBSET D
    OBVIOUS
  <2>2. iter[{}] = base
    BY <1>2, <2>1
  <2> QED BY <1>4, <2>1, <2>2
<1>6. ASSUME NEW k \in 1 .. n
      PROVE  h[k] = Op(a, h[k - 1], q[k])
  <2> DEFINE s == 1 .. k
  <2>1. s \in SUBSET D /\ s # {} /\ k \in s
    <3>1. k \in Int /\ 1 <= k /\ k <= n
      BY <1>1
    <3>2. \A j \in s : j \in D
      BY <1>1, <3>1
    <3>3. k \in s
      BY <3>1
    <3> HIDE DEF s, D
    <3> QED BY <3>2, <3>3
  <2>2. Greatest(s) = k
    <3>1. Greatest(s) \in s /\ k <= Greatest(s)
      BY <1>1, <2>1, GreatestOf
    <3> QED BY <3>1
  <2>3. s \ {k} = 1 .. (k - 1)
    BY <1>1
  <2>4. iter[s] = Op(a, iter[s \ {Greatest(s)}], q[Greatest(s)])
    <3> HIDE DEF s, D
    <3> QED BY <1>2, <2>1
  <2>5. h[k] = iter[s] /\ h[k - 1] = iter[1 .. (k - 1)]
    BY <1>1
  <2> QED BY <2>2, <2>3, <2>4, <2>5
<1> HIDE DEF h
<1> QED BY <1>3, <1>4, <1>5, <1>6
=============================================================================
