-------------------------- MODULE AllocatorsProofs --------------------------
(***************************************************************************)
(* Theorems about Allocators: whatever the ports, the requests and the     *)
(* iterations, what an allocator returns is a matching of requested pairs. *)
(***************************************************************************)
EXTENDS Allocators, FoldProofs

\* The steps of the folds of Allocators.
IslipStep(a, s, iter)  == IslipIteration(s, iter)
SelectStep(a, s, iter) == SelectIteration(s, iter)
PimStep(r, ms, iter)   == UNION {PimIteration(m, r) : m \in ms}

Islipping == INSTANCE FoldSteps WITH Op <- IslipStep
Selecting == INSTANCE FoldSteps WITH Op <- SelectStep
Pimming   == INSTANCE FoldSteps WITH Op <- PimStep

\* The hypothesis of FoldLeftSteps, for each instance.
LEMMA IterationsOrdered ==
  /\ Islipping!Ordered /\ Selecting!Ordered /\ Pimming!Ordered
BY WellOrdered DEF Islipping!Ordered, Selecting!Ordered, Pimming!Ordered

-----------------------------------------------------------------------------
(***************************************************************************)
(* Rounds and priorities.                                                  *)
(***************************************************************************)
\* Going round from p one meets a member of S.
LEMMA FirstFromIn ==
  ASSUME NEW n \in Nat \ {0}, NEW p \in Int, NEW S, S \subseteq 0 .. n-1, S # {}
  PROVE  FirstFrom(p, S, n) \in S
<1> DEFINE D == {Distance(x, p, n) : x \in S}
<1>1. D \subseteq Nat /\ D # {}
  <2>1. ASSUME NEW x \in S PROVE Distance(x, p, n) \in Nat
    <3>1. x - p + n \in Int
      OBVIOUS
    <3> QED BY <3>1 DEF Distance
  <2> QED BY <2>1
<1>2. PICK d \in D : \A e \in D : d <= e
  <2> HIDE DEF D
  <2> QED BY <1>1, LeastNumber
<1>3. PICK x \in S : d = Distance(x, p, n)
  OBVIOUS
<1>4. \A y \in S : Distance(x, p, n) <= Distance(y, p, n)
  BY <1>2, <1>3
<1> QED BY <1>4 DEF FirstFrom

\* One of finitely many priorities is the highest.
LEMMA HighestOf ==
  ASSUME NEW S, IsFiniteSet(S), S # {}, NEW f, \A x \in S : f[x] \in Int
  PROVE  \E x \in S : \A y \in S : f[y] <= f[x]
<1> DEFINE P == {s \in SUBSET S : s # {} => \E x \in s : \A y \in s : f[y] <= f[x]}
<1>1. {} \in P
  OBVIOUS
<1>2. ASSUME NEW s \in SUBSET S, NEW x \in s, s \ {x} \in P
      PROVE  s \in P
  <2>1. CASE s \ {x} = {}
    <3>1. \A y \in s : y = x
      BY <2>1
    <3> QED BY <3>1
  <2>2. CASE s \ {x} # {}
    <3>1. PICK z \in s \ {x} : \A y \in s \ {x} : f[y] <= f[z]
      BY <1>2, <2>2
    <3>2. CASE f[z] <= f[x]
      <4>1. \A y \in s : f[y] <= f[x]
        BY <3>1, <3>2
      <4> QED BY <4>1
    <3>3. CASE f[x] <= f[z]
      <4>1. \A y \in s : f[y] <= f[z]
        BY <3>1, <3>3
      <4> QED BY <3>1, <4>1
    <3> QED BY <3>1, <3>2, <3>3
  <2> QED BY <2>1, <2>2
<1>3. S \in P
  <2> HIDE DEF P
  <2> QED BY <1>1, <1>2, SubsetInduction
<1> QED BY <1>3

\* The ports of one side of an allocator of size n.
LEMMA PortsFinite ==
  ASSUME NEW n \in Nat, NEW S, S \subseteq 0 .. n-1
  PROVE  IsFiniteSet(S)
<1>1. IsFiniteSet(0 .. n-1)
  BY FS_Interval, 0 \in Int, n-1 \in Int
<1> QED BY <1>1, FS_Subset

\* pri gives a priority to some of n inputs.
Asked(pri, n) == DOMAIN pri # {} /\ DOMAIN pri \subseteq 0 .. n-1 /\ \A x \in DOMAIN pri : pri[x] \in Int

LEMMA TopExists ==
  ASSUME NEW n \in Nat, NEW pri, Asked(pri, n)
  PROVE  Top(pri) # {}
<1>1. IsFiniteSet(DOMAIN pri)
  BY PortsFinite DEF Asked
<1> QED BY <1>1, HighestOf DEF Asked, Top

-----------------------------------------------------------------------------
(***************************************************************************)
(* Arbiters.                                                               *)
(***************************************************************************)
RoundRobins == [type : {"round_robin"}, size : Nat \ {0}, pointer : Nat]
Matrices    == [type : {"matrix"}, size : Nat \ {0}, beats : SUBSET (Nat \X Nat)]

\* The inputs of a matrix arbiter stand in an order: `beats' compares their ranks.
Ranked(beats, n) ==
  \E T \in Nat : \E rank \in [0 .. n-1 -> 0 .. T] :
    beats = {p \in (0 .. n-1) \X (0 .. n-1) : rank[p[1]] < rank[p[2]]}

LeafOK(a) ==
  \/ a \in RoundRobins /\ a.pointer < a.size
  \/ a \in Matrices /\ Ranked(a.beats, a.size)

TreeOK(a) ==
  /\ a.global.size \in Nat
  /\ a \in [type : {"tree"}, size : Nat \ {0}, span : Nat \ {0},
            group : [0 .. a.global.size-1 -> RoundRobins \cup Matrices],
            global : RoundRobins \cup Matrices]
  /\ a.size = a.global.size * a.span /\ LeafOK(a.global)
  /\ \A g \in 0 .. a.global.size-1 : LeafOK(a.group[g]) /\ a.group[g].size = a.span

ArbiterOK(a) == LeafOK(a) \/ TreeOK(a)

\* A round-robin or matrix arbiter selects a request of the highest priority.
LEMMA LeafPicks ==
  ASSUME NEW a, LeafOK(a), NEW pri, Asked(pri, a.size)
  PROVE  LeafArbitrate(a, pri) \in Top(pri)
<1>0. a.size \in Nat \ {0} /\ Top(pri) \subseteq 0 .. a.size-1 /\ Top(pri) # {}
  <2>1. a.size \in Nat \ {0}
    BY DEF LeafOK, RoundRobins, Matrices
  <2> QED BY <2>1, TopExists DEF Top, Asked
<1>1. CASE a \in RoundRobins
  <2>1. a.type = "round_robin" /\ a.pointer \in Int
    BY <1>1 DEF RoundRobins
  <2>2. LeafArbitrate(a, pri) = FirstFrom(a.pointer, Top(pri), a.size)
    BY <1>0, <2>1 DEF LeafArbitrate
  <2> QED BY <1>0, <2>1, <2>2, FirstFromIn
<1>2. CASE a \in Matrices /\ Ranked(a.beats, a.size)
  <2>1. a.type = "matrix"
    BY <1>2 DEF Matrices
  <2>2. PICK T \in Nat : \E rank \in [0 .. a.size-1 -> 0 .. T] :
          a.beats = {p \in (0 .. a.size-1) \X (0 .. a.size-1) : rank[p[1]] < rank[p[2]]}
    BY <1>2 DEF Ranked
  <2>3. PICK rank \in [0 .. a.size-1 -> 0 .. T] :
          a.beats = {p \in (0 .. a.size-1) \X (0 .. a.size-1) : rank[p[1]] < rank[p[2]]}
    BY <2>2
  <2> DEFINE R == {rank[x] : x \in Top(pri)}
  <2>4. R \subseteq Nat /\ R # {}
    BY <1>0
  <2>5. PICK m \in R : \A k \in R : m <= k
    <3> HIDE DEF R
    <3> QED BY <2>4, LeastNumber
  <2>6. PICK i \in Top(pri) : m = rank[i]
    OBVIOUS
  <2>7. ASSUME NEW j \in Top(pri) PROVE <<j, i>> \notin a.beats
    <3>1. rank[i] <= rank[j] /\ rank[i] \in Int /\ rank[j] \in Int
      BY <1>0, <2>5, <2>6
    <3> QED BY <2>3, <3>1
  <2>8. Unbeaten(a, pri) # {} /\ Unbeaten(a, pri) \subseteq Top(pri)
    BY <2>6, <2>7 DEF Unbeaten
  <2>9. LeafArbitrate(a, pri) = FirstFrom(0, Unbeaten(a, pri), a.size)
    BY <2>1, <2>8 DEF LeafArbitrate
  <2> QED BY <1>0, <2>8, <2>9, FirstFromIn
<1> QED BY <1>1, <1>2 DEF LeafOK

\* Number x of g groups of s is number x % s of group x \div s.
LEMMA GroupOf ==
  ASSUME NEW g \in Nat, NEW s \in Nat \ {0}, NEW x \in 0 .. g*s - 1
  PROVE  /\ x \div s \in 0 .. g-1 /\ x % s \in 0 .. s-1
         /\ (x \div s) * s + (x % s) = x
<1>1. x \in Nat /\ x < g*s
  BY DEF Nat
<1>2. x \div s \in Nat /\ x % s \in 0 .. s-1 /\ x = s * (x \div s) + (x % s)
  BY <1>1
<1>3. x \div s < g
  <2> DEFINE q == x \div s
  <2> SUFFICES ASSUME q >= g PROVE FALSE
    BY <1>2
  <2>1. q * s >= g * s
    BY <1>2
  <2> QED BY <1>1, <1>2, <2>1
<1> QED BY <1>2, <1>3

\* A tree selects a request of the highest priority.
LEMMA TreePicks ==
  ASSUME NEW a, TreeOK(a), NEW pri, Asked(pri, a.size)
  PROVE  TreeArbitrate(a, pri) \in Top(pri)
<1> DEFINE G == a.global.size
           asking    == {i \div a.span : i \in DOMAIN pri}
           within(g) == [k \in {i % a.span : i \in {x \in DOMAIN pri : x \div a.span = g}}
                           |-> pri[g * a.span + k]]
           winner    == [g \in asking |-> LeafArbitrate(a.group[g], within(g))]
           glob      == [g \in asking |-> within(g)[winner[g]]]
           best      == LeafArbitrate(a.global, glob)
<1>0. /\ G \in Nat /\ a.span \in Nat \ {0} /\ a.size = G * a.span
      /\ LeafOK(a.global) /\ \A g \in 0 .. G-1 : LeafOK(a.group[g]) /\ a.group[g].size = a.span
  BY DEF TreeOK
<1>1. ASSUME NEW i \in DOMAIN pri
      PROVE  i \div a.span \in 0 .. G-1 /\ i % a.span \in 0 .. a.span-1
             /\ (i \div a.span) * a.span + (i % a.span) = i /\ pri[i] \in Int
  <2>1. i \in 0 .. G * a.span - 1 /\ pri[i] \in Int
    BY <1>0 DEF Asked
  <2>2. G \in Nat /\ a.span \in Nat \ {0}
    BY <1>0
  <2> QED BY ONLY <2>1, <2>2, GroupOf
<1>2. ASSUME NEW g \in asking
      PROVE  Asked(within(g), a.span)
  <2>1. PICK i \in DOMAIN pri : g = i \div a.span
    OBVIOUS
  <2>2. i % a.span \in DOMAIN within(g)
    BY <2>1
  <2>3. ASSUME NEW k \in DOMAIN within(g)
        PROVE  k \in 0 .. a.span-1 /\ within(g)[k] \in Int
    <3>1. PICK j \in DOMAIN pri : j \div a.span = g /\ k = j % a.span
      OBVIOUS
    <3>2. within(g)[k] = pri[g * a.span + k]
      OBVIOUS
    <3> QED BY <1>1, <3>1, <3>2
  <2> QED BY <2>2, <2>3 DEF Asked
<1>3. ASSUME NEW g \in asking
      PROVE  winner[g] \in Top(within(g))
  <2>1. g \in 0 .. G-1
    BY <1>1
  <2>2. winner[g] = LeafArbitrate(a.group[g], within(g))
    OBVIOUS
  <2> HIDE DEF winner, within, asking
  <2> QED BY <1>0, <1>2, <2>1, <2>2, LeafPicks
<1>4. Asked(glob, G)
  <2>1. \A g \in asking : glob[g] \in Int
    <3> TAKE g \in asking
    <3>1. winner[g] \in DOMAIN within(g)
      BY <1>3 DEF Top
    <3>2. glob[g] = within(g)[winner[g]]
      OBVIOUS
    <3> HIDE DEF glob, within, winner, asking
    <3> QED BY <1>2, <3>1, <3>2 DEF Asked
  <2>2. asking \subseteq 0 .. G-1 /\ asking # {}
    BY <1>1 DEF Asked
  <2>3. DOMAIN glob = asking
    OBVIOUS
  <2> HIDE DEF glob, asking
  <2> QED BY <2>1, <2>2, <2>3 DEF Asked
<1>5. best \in Top(glob)
  <2> HIDE DEF glob
  <2> QED BY <1>0, <1>4, LeafPicks
<1>6. best \in asking /\ \A g \in asking : glob[g] <= glob[best]
  <2>1. DOMAIN glob = asking
    OBVIOUS
  <2> HIDE DEF glob, asking, best
  <2> QED BY <1>5, <2>1 DEF Top
<1>7. TreeArbitrate(a, pri) = best * a.span + winner[best]
  BY DEF TreeArbitrate
<1>8. PICK i \in DOMAIN pri : i \div a.span = best /\ winner[best] = i % a.span
  <2>1. winner[best] \in DOMAIN within(best)
    BY <1>3, <1>6 DEF Top
  <2> HIDE DEF best, winner
  <2> QED BY <2>1
<1>9. TreeArbitrate(a, pri) = i
  <2> HIDE DEF best, winner
  <2> QED BY <1>1, <1>7, <1>8
<1>10. pri[i] = glob[best]
  <2>1. glob[best] = within(best)[winner[best]]
    <3> HIDE DEF best, within, winner
    <3> QED BY <1>6
  <2>2. within(best)[winner[best]] = pri[best * a.span + winner[best]]
    <3>1. winner[best] \in DOMAIN within(best)
      BY <1>3, <1>6 DEF Top
    <3> HIDE DEF best, winner
    <3> QED BY <3>1
  <2> QED BY <1>7, <1>9, <2>1, <2>2
<1>11. ASSUME NEW j \in DOMAIN pri
       PROVE  pri[j] <= pri[i]
  <2> DEFINE g == j \div a.span
             k == j % a.span
  <2>1. g \in asking /\ k \in DOMAIN within(g) /\ within(g)[k] = pri[g * a.span + k]
    OBVIOUS
  <2>2. within(g)[k] = pri[j]
    BY <1>1, <2>1
  <2>3. glob[g] = within(g)[winner[g]]
    BY <2>1
  <2>4. within(g)[k] <= within(g)[winner[g]]
    <3> HIDE DEF within, winner, k, g
    <3> QED BY <1>3, <2>1 DEF Top
  <2>5. glob[g] <= glob[best]
    BY <1>6, <2>1
  <2>6. glob[g] = within(g)[winner[g]] /\ pri[j] <= glob[g]
    BY <2>2, <2>3, <2>4
  <2>7. pri[j] \in Int /\ glob[g] \in Int /\ glob[best] \in Int
    <3> HIDE DEF glob, best, g
    <3>1. DOMAIN glob = asking
      BY DEF glob
    <3> QED BY <1>1, <1>4, <1>6, <2>1, <3>1 DEF Asked
  <2>8. pri[i] \in Int /\ pri[i] = glob[best]
    BY <1>1, <1>10
  <2>9. pri[j] <= glob[g]
    BY <2>6
  <2> HIDE DEF glob, g, best
  <2> QED BY ONLY <2>5, <2>7, <2>8, <2>9
<1> QED BY <1>9, <1>11 DEF Top

\* An arbiter selects a request of the highest priority.
LEMMA ArbiterPicks ==
  ASSUME NEW a, ArbiterOK(a), NEW pri, Asked(pri, a.size)
  PROVE  Arbitrate(a, pri) \in Top(pri)
<1>1. DOMAIN pri # {}
  BY DEF Asked
<1>2. CASE LeafOK(a)
  <2>1. a.type # "tree"
    BY <1>2 DEF LeafOK, RoundRobins, Matrices
  <2> QED BY <1>1, <1>2, <2>1, LeafPicks DEF Arbitrate
<1>3. CASE TreeOK(a)
  <2>1. a.type = "tree"
    BY <1>3 DEF TreeOK
  <2> QED BY <1>1, <1>3, <2>1, TreePicks DEF Arbitrate
<1> QED BY <1>2, <1>3 DEF ArbiterOK

\* A round-robin or matrix arbiter is updated to one.
LEMMA LeafUpdated ==
  ASSUME NEW a, LeafOK(a), NEW x \in 0 .. a.size-1
  PROVE  LeafOK(LeafUpdate(a, x)) /\ LeafUpdate(a, x).size = a.size
<1>1. CASE a \in RoundRobins
  <2>1. a.type = "round_robin" /\ a.size \in Nat \ {0}
    BY <1>1 DEF RoundRobins
  <2>2. LeafUpdate(a, x) = [a EXCEPT !.pointer = (x + 1) % a.size]
    BY <2>1 DEF LeafUpdate
  <2>3. (x + 1) % a.size \in 0 .. a.size-1
    BY <2>1
  <2> QED BY <1>1, <2>2, <2>3 DEF LeafOK, RoundRobins
<1>2. CASE a \in Matrices /\ Ranked(a.beats, a.size)
  <2> DEFINE P == 0 .. a.size-1
             beats == {p \in a.beats : p[1] # x} \cup {<<i, x>> : i \in P \ {x}}
  <2>1. a.type = "matrix" /\ a.size \in Nat \ {0}
    BY <1>2 DEF Matrices
  <2>2. LeafUpdate(a, x) = [a EXCEPT !.beats = beats]
    BY <2>1 DEF LeafUpdate
  <2>3. PICK T \in Nat : \E rank \in [P -> 0 .. T] :
          a.beats = {p \in P \X P : rank[p[1]] < rank[p[2]]}
    BY <1>2 DEF Ranked
  <2>4. PICK rank \in [P -> 0 .. T] : a.beats = {p \in P \X P : rank[p[1]] < rank[p[2]]}
    BY <2>3
  <2> DEFINE last == [rank EXCEPT ![x] = T + 1]
  <2>5. T + 1 \in Nat /\ last \in [P -> 0 .. T + 1]
    BY <2>1
  <2>6. ASSUME NEW i \in P, NEW j \in P
        PROVE  <<i, j>> \in beats <=> last[i] < last[j]
    <3>1. rank[i] \in 0 .. T /\ rank[j] \in 0 .. T
      BY <2>4
    <3>2. <<i, j>> \in a.beats <=> rank[i] < rank[j]
      BY <2>4
    <3>3. last[i] = (IF i = x THEN T + 1 ELSE rank[i]) /\ last[j] = (IF j = x THEN T + 1 ELSE rank[j])
      BY <2>4
    <3>4. <<i, j>> \in beats <=> (<<i, j>> \in a.beats /\ i # x) \/ (j = x /\ i # x)
      OBVIOUS
    <3> HIDE DEF beats, last
    <3> QED BY <3>1, <3>2, <3>3, <3>4
  <2>7. beats = {p \in P \X P : last[p[1]] < last[p[2]]}
    <3>1. beats \subseteq P \X P
      <4>1. \A p \in a.beats : p \in P \X P
        BY <2>4
      <4> QED BY <4>1
    <3>2. \A p \in P \X P : p \in beats <=> last[p[1]] < last[p[2]]
      <4> TAKE p \in P \X P
      <4>1. p = <<p[1], p[2]>> /\ p[1] \in P /\ p[2] \in P
        OBVIOUS
      <4> HIDE DEF beats, last, P
      <4> QED BY <2>6, <4>1
    <3> HIDE DEF beats, last
    <3> QED BY <3>1, <3>2
  <2>8. beats \subseteq Nat \X Nat
    <3> HIDE DEF beats
    <3> QED BY <2>1, <2>7
  <2>9. Ranked(beats, a.size)
    <3> HIDE DEF last, beats
    <3> QED BY <2>5, <2>7 DEF Ranked
  <2> HIDE DEF beats
  <2>10. LeafUpdate(a, x) \in Matrices /\ LeafUpdate(a, x).beats = beats /\ LeafUpdate(a, x).size = a.size
    BY <1>2, <2>2, <2>8 DEF Matrices
  <2> QED BY <2>9, <2>10 DEF LeafOK
<1> QED BY <1>1, <1>2 DEF LeafOK

\* UpdateState keeps an arbiter one.
LEMMA ArbiterUpdated ==
  ASSUME NEW a, ArbiterOK(a), NEW x \in 0 .. a.size-1
  PROVE  ArbiterOK(UpdateState(a, x)) /\ UpdateState(a, x).size = a.size
<1>1. CASE LeafOK(a)
  <2>1. a.type # "tree"
    BY <1>1 DEF LeafOK, RoundRobins, Matrices
  <2> QED BY <1>1, <2>1, LeafUpdated DEF UpdateState, ArbiterOK
<1>2. CASE TreeOK(a)
  <2> DEFINE g == x \div a.span
             new == LeafUpdate(a.group[g], x % a.span)
             top == LeafUpdate(a.global, g)
             b == [a EXCEPT !.group[g] = new, !.global = top]
             G == a.global.size
  <2>1. /\ G \in Nat /\ a.span \in Nat \ {0} /\ a.size = G * a.span /\ a.type = "tree"
        /\ LeafOK(a.global) /\ \A h \in 0 .. G-1 : LeafOK(a.group[h]) /\ a.group[h].size = a.span
    BY <1>2 DEF TreeOK
  <2>2. g \in 0 .. G-1 /\ x % a.span \in 0 .. a.span-1
    BY <2>1, GroupOf
  <2>3. LeafOK(new) /\ new.size = a.span
    BY <2>1, <2>2, LeafUpdated
  <2>4. LeafOK(top) /\ top.size = G
    BY <2>1, <2>2, LeafUpdated
  <2>5. UpdateState(a, x) = b
    BY <2>1 DEF UpdateState
  <2>6. new \in RoundRobins \cup Matrices /\ top \in RoundRobins \cup Matrices
    BY <2>3, <2>4 DEF LeafOK
  <2> HIDE DEF new, top, g
  <2>7. /\ b.type = "tree" /\ b.size = a.size /\ b.span = a.span /\ b.global = top
        /\ b.group = [a.group EXCEPT ![g] = new]
        /\ b \in [type : {"tree"}, size : Nat \ {0}, span : Nat \ {0},
                  group : [0 .. G-1 -> RoundRobins \cup Matrices],
                  global : RoundRobins \cup Matrices]
    BY <1>2, <2>2, <2>6 DEF TreeOK
  <2> HIDE DEF b
  <2>8. \A h \in 0 .. G-1 : LeafOK(b.group[h]) /\ b.group[h].size = a.span
    <3>1. a.group \in [0 .. G-1 -> RoundRobins \cup Matrices]
      BY <1>2 DEF TreeOK
    <3>2. \A h \in 0 .. G-1 : b.group[h] = IF h = g THEN new ELSE a.group[h]
      BY <2>7, <3>1
    <3> QED BY <2>1, <2>3, <3>2
  <2>9. TreeOK(b)
    BY <2>1, <2>4, <2>7, <2>8 DEF TreeOK
  <2> QED BY <2>5, <2>7, <2>9 DEF ArbiterOK
<1> QED BY <1>1, <1>2 DEF ArbiterOK

\* The arbiters an allocator starts with.
LEMMA ArbiterNew ==
  ASSUME NEW n \in Nat \ {0}, NEW form \in {"round_robin", "matrix", "tree"},
         form = "tree" => n % 2 = 0
  PROVE  ArbiterOK(NewArbiter(form, n)) /\ NewArbiter(form, n).size = n
<1>1. ASSUME NEW k \in Nat \ {0}
      PROVE  RoundRobin(k) \in RoundRobins /\ LeafOK(RoundRobin(k)) /\ RoundRobin(k).size = k
  BY DEF RoundRobin, RoundRobins, LeafOK
<1>2. CASE form = "round_robin"
  BY <1>1, <1>2 DEF NewArbiter, ArbiterOK
<1>3. CASE form = "matrix"
  <2> DEFINE P == 0 .. n-1
             beats == {p \in P \X P : p[2] < p[1]}
             rank == [i \in P |-> n - i]
  <2>1. NewArbiter(form, n) = [type |-> "matrix", size |-> n, beats |-> beats]
    BY <1>3 DEF NewArbiter, Matrix
  <2>2. rank \in [P -> 0 .. n]
    OBVIOUS
  <2>3. beats = {p \in P \X P : rank[p[1]] < rank[p[2]]}
    <3>1. \A p \in P \X P : p[2] < p[1] <=> rank[p[1]] < rank[p[2]]
      <4> TAKE p \in P \X P
      <4>1. p[1] \in P /\ p[2] \in P /\ p[1] \in Int /\ p[2] \in Int
        OBVIOUS
      <4>2. rank[p[1]] = n - p[1] /\ rank[p[2]] = n - p[2]
        BY <4>1
      <4> QED BY <4>1, <4>2
    <3> HIDE DEF rank
    <3> QED BY <3>1
  <2>4. Ranked(beats, n)
    <3> HIDE DEF rank, beats
    <3> QED BY <2>2, <2>3 DEF Ranked
  <2>5. beats \subseteq Nat \X Nat
    OBVIOUS
  <2> HIDE DEF beats
  <2>6. NewArbiter(form, n) \in Matrices /\ NewArbiter(form, n).beats = beats /\ NewArbiter(form, n).size = n
    BY <2>1, <2>5 DEF Matrices
  <2> QED BY <2>4, <2>6 DEF LeafOK, ArbiterOK
<1>4. CASE form = "tree"
  <2> DEFINE s == n \div 2
             a == Tree("round_robin", n, 2)
  <2>1. s \in Nat \ {0} /\ n = 2 * s
    BY <1>4
  <2>2. NewArbiter(form, n) = a
    BY <1>4 DEF NewArbiter
  <2> HIDE DEF s
  <2>3. a = [type |-> "tree", size |-> n, span |-> s,
             group |-> [g \in 0 .. 2-1 |-> RoundRobin(s)], global |-> RoundRobin(2)]
    BY DEF Tree, Leaf, s
  <2> HIDE DEF a
  <2>4. /\ RoundRobin(2) \in RoundRobins /\ LeafOK(RoundRobin(2)) /\ RoundRobin(2).size = 2
        /\ RoundRobin(s) \in RoundRobins /\ LeafOK(RoundRobin(s)) /\ RoundRobin(s).size = s
    BY <1>1, <2>1
  <2>5. a.global = RoundRobin(2) /\ a.group = [g \in 0 .. 2-1 |-> RoundRobin(s)] /\ a.size = n /\ a.span = s
    BY <2>3
  <2>6. TreeOK(a)
    BY <2>1, <2>3, <2>4, <2>5 DEF TreeOK
  <2> QED BY <2>2, <2>5, <2>6 DEF ArbiterOK
<1> QED BY <1>2, <1>3, <1>4
-----------------------------------------------------------------------------
(***************************************************************************)
(* Matchings.                                                              *)
(***************************************************************************)
Sides(n) == n.inputs \in Nat \ {0} /\ n.outputs \in Nat \ {0}
InPorts(n)  == 0 .. n.inputs-1
OutPorts(n) == 0 .. n.outputs-1
Grid(n)  == InPorts(n) \X OutPorts(n)

Tables(n) == [in  : [InPorts(n) -> OutPorts(n) \cup {None}], out : [OutPorts(n) -> InPorts(n) \cup {None}]]

\* m matches inputs to outputs, both sides agree, and only pairs of R.
Matched(n, m, R) ==
  /\ m \in Tables(n)
  /\ \A i \in InPorts(n), o \in OutPorts(n) : m.in[i] = o <=> m.out[o] = i
  /\ \A i \in InPorts(n), o \in OutPorts(n) : m.in[i] = o => <<i, o>> \in R

\* No two pairs of A share an end.
Pairing(A) == \A c, d \in A : c[1] = d[1] <=> c[2] = d[2]

\* The ends of the pairs of A are free.
Idle(m, A) == \A c \in A : m.in[c[1]] = None /\ m.out[c[2]] = None

\* g is m with the pairs of A granted.
GrantedTo(n, m, A, g) ==
  /\ \A c \in A : g.in[c[1]] = c[2] /\ g.out[c[2]] = c[1]
  /\ \A i \in InPorts(n) : i \notin Ins(A) => g.in[i] = m.in[i]
  /\ \A o \in OutPorts(n) : o \notin Outs(A) => g.out[o] = m.out[o]

LEMMA NothingMatched ==
  ASSUME NEW n, NEW R
  PROVE  Matched(n, Unmatched(n), R)
BY DEF Unmatched, Matched, Tables, InPorts, OutPorts, None

\* Granting pairs of free ends.
LEMMA GrantMatched ==
  ASSUME NEW n, NEW R, R \subseteq Grid(n), NEW m, Matched(n, m, R), NEW A, A \subseteq R, Pairing(A),
         Idle(m, A)
  PROVE  Matched(n, Grant(m, A), R) /\ GrantedTo(n, m, A, Grant(m, A))
<1> DEFINE g == Grant(m, A)
<1>1. \A c \in A : c = <<c[1], c[2]>> /\ c[1] \in InPorts(n) /\ c[2] \in OutPorts(n)
  BY DEF Grid
<1>2. ASSUME NEW c \in A
      PROVE  OutOf(A, c[1]) = c[2] /\ InOf(A, c[2]) = c[1]
  BY DEF OutOf, InOf, Pairing
<1>3. DOMAIN m.in = InPorts(n) /\ DOMAIN m.out = OutPorts(n)
  BY DEF Matched, Tables
<1>4. /\ g.in = [i \in InPorts(n) |-> IF i \in Ins(A) THEN OutOf(A, i) ELSE m.in[i]]
      /\ g.out = [o \in OutPorts(n) |-> IF o \in Outs(A) THEN InOf(A, o) ELSE m.out[o]]
      /\ g = [in |-> g.in, out |-> g.out]
  BY <1>3 DEF Grant
<1> HIDE DEF g
<1>5. ASSUME NEW c \in A
      PROVE  g.in[c[1]] = c[2] /\ g.out[c[2]] = c[1]
  <2>1. c[1] \in Ins(A) /\ c[2] \in Outs(A)
    BY DEF Ins, Outs
  <2> QED BY <1>1, <1>2, <1>4, <2>1
<1>6. \A i \in InPorts(n) : i \notin Ins(A) => g.in[i] = m.in[i]
  BY <1>4
<1>7. \A o \in OutPorts(n) : o \notin Outs(A) => g.out[o] = m.out[o]
  BY <1>4
<1>8. ASSUME NEW i \in InPorts(n), i \in Ins(A)
      PROVE  \E c \in A : i = c[1] /\ g.in[i] = c[2]
  BY <1>5, <1>8 DEF Ins
<1>9. ASSUME NEW o \in OutPorts(n), o \in Outs(A)
      PROVE  \E c \in A : o = c[2] /\ g.out[o] = c[1]
  BY <1>5, <1>9 DEF Outs
<1>10. g \in Tables(n)
  <2>1. \A i \in InPorts(n) : g.in[i] \in OutPorts(n) \cup {None}
    BY <1>1, <1>6, <1>8 DEF Matched, Tables
  <2>2. \A o \in OutPorts(n) : g.out[o] \in InPorts(n) \cup {None}
    BY <1>1, <1>7, <1>9 DEF Matched, Tables
  <2>3. g.in \in [InPorts(n) -> OutPorts(n) \cup {None}] /\ g.out \in [OutPorts(n) -> InPorts(n) \cup {None}]
    BY <1>4, <2>1, <2>2
  <2> QED BY <1>4, <2>3 DEF Tables
<1>11. ASSUME NEW i \in InPorts(n), NEW o \in OutPorts(n)
       PROVE  (g.in[i] = o <=> g.out[o] = i) /\ (g.in[i] = o => <<i, o>> \in R)
  <2>0. o # None /\ i # None
    BY DEF InPorts, OutPorts, None
  <2>1. CASE i \in Ins(A)
    <3>1. PICK c \in A : i = c[1] /\ g.in[i] = c[2]
      BY <1>8, <2>1
    <3>2. g.in[i] = o => g.out[o] = i /\ <<i, o>> \in R
      BY <1>1, <1>5, <3>1
    <3>3. ASSUME g.out[o] = i PROVE o = c[2]
      <4>1. CASE o \in Outs(A)
        <5>1. PICK d \in A : o = d[2] /\ g.out[o] = d[1]
          BY <1>9, <4>1
        <5> QED BY <3>1, <3>3, <5>1 DEF Pairing
      <4>2. CASE o \notin Outs(A)
        <5>1. m.out[o] = i
          BY <1>7, <3>3, <4>2
        <5>2. m.in[i] = o
          BY <5>1 DEF Matched
        <5> QED BY <2>0, <3>1, <5>2 DEF Idle
      <4> QED BY <4>1, <4>2
    <3> QED BY <3>1, <3>2, <3>3
  <2>2. CASE i \notin Ins(A)
    <3>1. g.in[i] = m.in[i]
      BY <1>6, <2>2
    <3>2. CASE o \in Outs(A)
      <4>1. PICK d \in A : o = d[2] /\ g.out[o] = d[1]
        BY <1>9, <3>2
      <4>2. g.out[o] # i
        BY <2>2, <4>1 DEF Ins
      <4>3. m.in[i] # o
        BY <2>0, <4>1 DEF Matched, Idle
      <4> QED BY <3>1, <4>2, <4>3
    <3>3. CASE o \notin Outs(A)
      <4>1. g.out[o] = m.out[o]
        BY <1>7, <3>3
      <4> QED BY <3>1, <4>1 DEF Matched
    <3> QED BY <3>2, <3>3
  <2> QED BY <2>1, <2>2
<1>12. Matched(n, g, R)
  BY <1>10, <1>11 DEF Matched
<1> QED BY <1>5, <1>6, <1>7, <1>12 DEF g, GrantedTo

\* The inputs that have an output.
Busy(m) == {i \in DOMAIN m.in : m.in[i] # None}

\* Either every request has an end that is taken, or k grants have been made.
Rounds(m, r, k) == Free(m, r) = {} \/ Cardinality(Busy(m)) >= k

LEMMA BusyFinite ==
  ASSUME NEW n, Sides(n), NEW m, m \in Tables(n)
  PROVE  IsFiniteSet(Busy(m)) /\ Cardinality(Busy(m)) \in Nat
<1>1. Busy(m) \subseteq 0 .. n.inputs-1
  BY DEF Busy, Tables, InPorts
<1>2. IsFiniteSet(Busy(m))
  BY <1>1, PortsFinite DEF Sides
<1> QED BY <1>2, FS_CardinalityType

\* One round that grants free pairs, and some if there are any.
LEMMA RoundMatched ==
  ASSUME NEW n, Sides(n), NEW r, DOMAIN r \subseteq Grid(n), NEW m, Matched(n, m, DOMAIN r),
         NEW A, A \subseteq Free(m, r), Pairing(A), A = {} => Free(m, r) = {},
         NEW k \in Nat, Rounds(m, r, k)
  PROVE  Matched(n, Grant(m, A), DOMAIN r) /\ Rounds(Grant(m, A), r, k + 1)
<1>1. A \subseteq DOMAIN r /\ Idle(m, A)
  BY DEF Free, Idle
<1>2. Matched(n, Grant(m, A), DOMAIN r) /\ GrantedTo(n, m, A, Grant(m, A))
  BY <1>1, GrantMatched
<1> DEFINE g == Grant(m, A)
<1>3. m \in Tables(n) /\ g \in Tables(n)
  BY <1>2 DEF Matched
<1> HIDE DEF g
<1>4. CASE A = {}
  <2>1. Ins(A) = {} /\ Outs(A) = {}
    BY <1>4 DEF Ins, Outs
  <2>2. ASSUME NEW c \in Free(g, r) PROVE FALSE
    <3>1. c \in DOMAIN r /\ c[1] \in InPorts(n) /\ c[2] \in OutPorts(n)
      BY DEF Free, Grid
    <3>2. g.in[c[1]] = m.in[c[1]] /\ g.out[c[2]] = m.out[c[2]]
      BY <1>2, <2>1, <3>1 DEF g, GrantedTo
    <3>3. c \in Free(m, r)
      BY <3>1, <3>2 DEF Free
    <3> QED BY <1>4, <3>3
  <2>3. Free(g, r) = {}
    BY <2>2
  <2> QED BY <1>2, <2>3 DEF Rounds, g
<1>5. CASE A # {}
  <2>1. PICK c \in A : TRUE
    BY <1>5
  <2>2. c[1] \in InPorts(n) /\ c[2] \in OutPorts(n) /\ c \in Free(m, r)
    BY <1>1 DEF Grid
  <2>3. Cardinality(Busy(m)) >= k
    BY <2>2 DEF Rounds
  <2>4. c[1] \notin Busy(m)
    BY <2>2 DEF Busy, Free
  <2>5. Busy(m) \cup {c[1]} \subseteq Busy(g)
    <3>1. DOMAIN m.in = InPorts(n) /\ DOMAIN g.in = InPorts(n)
      BY <1>3 DEF Tables
    <3>2. g.in[c[1]] # None
      BY <1>2, <2>2 DEF g, GrantedTo, OutPorts, None
    <3>3. ASSUME NEW i \in Busy(m) PROVE g.in[i] # None
      <4>1. i \in InPorts(n) /\ m.in[i] # None
        BY <3>1 DEF Busy
      <4>2. i \notin Ins(A)
        BY <1>1, <4>1 DEF Ins, Idle
      <4> QED BY <1>2, <4>1, <4>2 DEF g, GrantedTo
    <3> QED BY <2>2, <3>1, <3>2, <3>3 DEF Busy
  <2>6. /\ IsFiniteSet(Busy(m)) /\ Cardinality(Busy(m)) \in Nat
        /\ IsFiniteSet(Busy(g)) /\ Cardinality(Busy(g)) \in Nat
    BY <1>3, BusyFinite
  <2>7. Cardinality(Busy(m) \cup {c[1]}) = Cardinality(Busy(m)) + 1
    BY <2>4, <2>6, FS_AddElement
  <2>8. Cardinality(Busy(m) \cup {c[1]}) <= Cardinality(Busy(g))
    BY <2>5, <2>6, FS_Subset
  <2>9. Cardinality(Busy(g)) >= k + 1
    BY <2>3, <2>6, <2>7, <2>8
  <2> QED BY <1>2, <2>9 DEF Rounds, g
<1> QED BY <1>4, <1>5

-----------------------------------------------------------------------------
(***************************************************************************)
(* Grants and accepts.                                                     *)
(***************************************************************************)
\* f is a number on S.
Numbers(f, S) == \A x \in S : f[x] \in Int

\* Every output with a free requester grants one of the best.
LEMMA GrantingPicks ==
  ASSUME Sides(inst), NEW free, free \subseteq Grid(inst),
         NEW p, Numbers(p, OutPorts(inst)),
         NEW rank, Numbers(rank, free)
  PROVE  /\ Granting(free, p, rank) \subseteq free
         /\ \A c, d \in Granting(free, p, rank) : c[2] = d[2] => c = d
         /\ \A d \in free : \E c \in Granting(free, p, rank) : c[2] = d[2] /\ rank[d] <= rank[c]
<1> DEFINE best(o) == Best({c \in free : c[2] = o}, rank)
           pick(o) == FirstFrom(p[o], Ins(best(o)), inst.inputs)
           G == Granting(free, p, rank)
<1>0. G = {<<pick(o), o>> : o \in Outs(free)}
  BY DEF Granting
<1>1. ASSUME NEW o \in Outs(free)
      PROVE  /\ <<pick(o), o>> \in free
             /\ \A d \in free : d[2] = o => rank[d] <= rank[<<pick(o), o>>]
  <2> DEFINE S == {c \in free : c[2] = o}
  <2>1. S # {} /\ o \in OutPorts(inst)
    BY DEF Outs, Grid
  <2>2. IsFiniteSet(S)
    <3>1. IsFiniteSet(InPorts(inst)) /\ IsFiniteSet(OutPorts(inst))
      BY PortsFinite DEF Sides, InPorts, OutPorts
    <3>2. IsFiniteSet(Grid(inst))
      BY <3>1, FS_Product DEF Grid
    <3> QED BY <3>2, FS_Subset
  <2>3. PICK c \in S : \A d \in S : rank[d] <= rank[c]
    <3> HIDE DEF S
    <3>1. \A x \in S : rank[x] \in Int
      BY DEF S, Numbers
    <3> QED BY <2>1, <2>2, <3>1, HighestOf
  <2>4. best(o) = {x \in S : \A d \in S : rank[d] <= rank[x]}
    BY DEF Best
  <2> HIDE DEF best
  <2>5. c \in best(o) /\ best(o) \subseteq S
    BY <2>3, <2>4
  <2>6. Ins(best(o)) # {} /\ Ins(best(o)) \subseteq InPorts(inst)
    BY <2>5 DEF Ins, Grid
  <2>7. pick(o) \in Ins(best(o))
    <3>1. p[o] \in Int /\ inst.inputs \in Nat \ {0}
      BY <2>1 DEF Sides, Numbers
    <3> QED BY <2>6, <3>1, FirstFromIn DEF InPorts
  <2> HIDE DEF pick
  <2>8. PICK x \in best(o) : pick(o) = x[1]
    BY <2>7 DEF Ins
  <2>9. x = <<pick(o), o>> /\ x \in S
    BY <2>5, <2>8 DEF Grid
  <2>10. \A d \in S : rank[d] <= rank[x]
    BY <2>4
  <2> QED BY <2>9, <2>10
<1> HIDE DEF pick
<1>2. G \subseteq free
  BY <1>0, <1>1
<1>3. \A c, d \in G : c[2] = d[2] => c = d
  BY <1>0
<1>4. ASSUME NEW d \in free
      PROVE  \E c \in G : c[2] = d[2] /\ rank[d] <= rank[c]
  <2>1. d[2] \in Outs(free)
    BY DEF Outs
  <2>2. <<pick(d[2]), d[2]>> \in G
    BY <1>0, <2>1
  <2> QED BY <1>1, <2>1, <2>2
<1> QED BY <1>2, <1>3, <1>4

\* Every input that is granted accepts one of the best.
LEMMA AcceptingPicks ==
  ASSUME Sides(inst), NEW grants, grants \subseteq Grid(inst),
         NEW p, Numbers(p, InPorts(inst)),
         NEW rank, Numbers(rank, grants)
  PROVE  /\ Accepting(grants, p, rank) \subseteq grants
         /\ \A c, d \in Accepting(grants, p, rank) : c[1] = d[1] => c = d
         /\ \A d \in grants : \E c \in Accepting(grants, p, rank) : c[1] = d[1] /\ rank[d] <= rank[c]
<1> DEFINE best(i) == Best({c \in grants : c[1] = i}, rank)
           pick(i) == FirstFrom(p[i], Outs(best(i)), inst.outputs)
           A == Accepting(grants, p, rank)
<1>0. A = {<<i, pick(i)>> : i \in Ins(grants)}
  BY DEF Accepting
<1>1. ASSUME NEW i \in Ins(grants)
      PROVE  /\ <<i, pick(i)>> \in grants
             /\ \A d \in grants : d[1] = i => rank[d] <= rank[<<i, pick(i)>>]
  <2> DEFINE S == {c \in grants : c[1] = i}
  <2>1. S # {} /\ i \in InPorts(inst)
    BY DEF Ins, Grid
  <2>2. IsFiniteSet(S)
    <3>1. IsFiniteSet(InPorts(inst)) /\ IsFiniteSet(OutPorts(inst))
      BY PortsFinite DEF Sides, InPorts, OutPorts
    <3>2. IsFiniteSet(Grid(inst))
      BY <3>1, FS_Product DEF Grid
    <3> QED BY <3>2, FS_Subset
  <2>3. PICK c \in S : \A d \in S : rank[d] <= rank[c]
    <3> HIDE DEF S
    <3>1. \A x \in S : rank[x] \in Int
      BY DEF S, Numbers
    <3> QED BY <2>1, <2>2, <3>1, HighestOf
  <2>4. best(i) = {x \in S : \A d \in S : rank[d] <= rank[x]}
    BY DEF Best
  <2> HIDE DEF best
  <2>5. c \in best(i) /\ best(i) \subseteq S
    BY <2>3, <2>4
  <2>6. Outs(best(i)) # {} /\ Outs(best(i)) \subseteq OutPorts(inst)
    BY <2>5 DEF Outs, Grid
  <2>7. pick(i) \in Outs(best(i))
    <3>1. p[i] \in Int /\ inst.outputs \in Nat \ {0}
      BY <2>1 DEF Sides, Numbers
    <3> QED BY <2>6, <3>1, FirstFromIn DEF OutPorts
  <2> HIDE DEF pick
  <2>8. PICK x \in best(i) : pick(i) = x[2]
    BY <2>7 DEF Outs
  <2>9. x = <<i, pick(i)>> /\ x \in S
    BY <2>5, <2>8 DEF Grid
  <2>10. \A d \in S : rank[d] <= rank[x]
    BY <2>4
  <2> QED BY <2>9, <2>10
<1> HIDE DEF pick
<1>2. A \subseteq grants
  BY <1>0, <1>1
<1>3. \A c, d \in A : c[1] = d[1] => c = d
  BY <1>0
<1>4. ASSUME NEW d \in grants
      PROVE  \E c \in A : c[1] = d[1] /\ rank[d] <= rank[c]
  <2>1. d[1] \in Ins(grants)
    BY DEF Ins
  <2>2. <<d[1], pick(d[1])>> \in A
    BY <1>0, <2>1
  <2> QED BY <1>1, <2>1, <2>2
<1> QED BY <1>2, <1>3, <1>4
\* Of the requests R that agree with c on side x (1 for inputs, 2 for outputs) none
\* ranks above it.
Leading(R, pri, x, c) == \A d \in R : d[x] = c[x] => pri[d] <= pri[c]

\* A is what is left of R after side x has passed on requests that lead by near
\* and side y has kept of those one that none exceeds by far.
Settled(R, near, far, x, y, A) ==
  /\ \A c \in A : Leading(R, near, x, c)
  /\ \A c \in R : \E d \in R, e \in A :
       d[x] = c[x] /\ Leading(R, near, x, d) /\ e[y] = d[y] /\ far[d] <= far[e]

\* What a round accepts: free pairs, settled between outputs and inputs.
LEMMA AcceptedPairs ==
  ASSUME Sides(inst), NEW free, free \subseteq Grid(inst),
         NEW g, Numbers(g, OutPorts(inst)),
         NEW a, Numbers(a, InPorts(inst)),
         NEW near, Numbers(near, free), NEW far, Numbers(far, free),
         NEW A, A = Accepting(Granting(free, g, near), a, far)
  PROVE  /\ A \subseteq free /\ Pairing(A)
         /\ Settled(free, near, far, 2, 1, A)
<1> DEFINE G == Granting(free, g, near)
<1>1. /\ G \subseteq free
      /\ \A c, d \in G : c[2] = d[2] => c = d
      /\ \A d \in free : \E c \in G : c[2] = d[2] /\ near[d] <= near[c]
  BY GrantingPicks
<1> HIDE DEF G
<1>2. G \subseteq Grid(inst) /\ Numbers(far, G)
  BY <1>1 DEF Numbers
<1>3. /\ A \subseteq G
      /\ \A c, d \in A : c[1] = d[1] => c = d
      /\ \A d \in G : \E c \in A : c[1] = d[1] /\ far[d] <= far[c]
  <2>1. A = Accepting(G, a, far)
    BY DEF G
  <2> QED BY <1>2, <2>1, AcceptingPicks
<1>4. Pairing(A)
  BY <1>1, <1>3 DEF Pairing
<1>5. ASSUME NEW c \in G
      PROVE  Leading(free, near, 2, c)
  <2> SUFFICES ASSUME NEW d \in free, d[2] = c[2]
               PROVE  near[d] <= near[c]
    BY DEF Leading
  <2>1. PICK e \in G : e[2] = d[2] /\ near[d] <= near[e]
    BY <1>1
  <2>2. e = c
    BY <1>1, <2>1
  <2> QED BY <2>1, <2>2
<1>6. ASSUME NEW c \in free
      PROVE  \E d \in free, e \in A :
               d[2] = c[2] /\ Leading(free, near, 2, d) /\ e[1] = d[1] /\ far[d] <= far[e]
  <2>1. PICK d \in G : d[2] = c[2]
    BY <1>1
  <2>2. PICK e \in A : e[1] = d[1] /\ far[d] <= far[e]
    BY <1>3
  <2> QED BY <1>1, <1>5, <2>1, <2>2
<1> QED BY <1>1, <1>3, <1>4, <1>5, <1>6 DEF Settled

-----------------------------------------------------------------------------
(***************************************************************************)
(* The iterative allocators.                                               *)
(***************************************************************************)
SquareOf(n) == IF n.inputs > n.outputs THEN n.inputs ELSE n.outputs

Pointers(n) == [grant  : [OutPorts(n) -> InPorts(n)],
                accept : [InPorts(n) -> OutPorts(n)], pri : 0 .. SquareOf(n)-1]

\* The requests r are for pairs of ports, with a priority on either side.
Requests(n, r) == DOMAIN r \subseteq Grid(n) /\ \A c \in DOMAIN r : r[c] \in [in : Int, out : Int]

LEMMA PrioritiesNumbers ==
  ASSUME NEW n, NEW r, Requests(n, r)
  PROVE  /\ DOMAIN InPri(r) = DOMAIN r /\ Numbers(InPri(r), DOMAIN r)
         /\ DOMAIN OutPri(r) = DOMAIN r /\ Numbers(OutPri(r), DOMAIN r)
BY DEF Requests, Numbers, InPri, OutPri

LEMMA PointersMoved ==
  ASSUME Sides(inst), NEW p \in Pointers(inst), NEW A, A \subseteq Grid(inst), NEW iter
  PROVE  MovePointers(p, A, iter) \in Pointers(inst)
<1>1. ASSUME NEW o \in OutPorts(inst), o \in Outs(A)
      PROVE  (InOf(A, o) + 1) % inst.inputs \in InPorts(inst)
  <2>1. PICK c \in A : c[2] = o
    BY <1>1 DEF Outs
  <2>2. InOf(A, o) \in InPorts(inst)
    <3>1. (CHOOSE d \in A : d[2] = o) \in A
      BY <2>1
    <3> QED BY <3>1 DEF InOf, Grid
  <2> QED BY <2>2 DEF Sides, InPorts
<1>2. ASSUME NEW i \in InPorts(inst), i \in Ins(A)
      PROVE  (OutOf(A, i) + 1) % inst.outputs \in OutPorts(inst)
  <2>1. PICK c \in A : c[1] = i
    BY <1>2 DEF Ins
  <2>2. OutOf(A, i) \in OutPorts(inst)
    <3>1. (CHOOSE d \in A : d[1] = i) \in A
      BY <2>1
    <3> QED BY <3>1 DEF OutOf, Grid
  <2> QED BY <2>2 DEF Sides, OutPorts
<1> DEFINE g == [o \in Outputs |-> IF o \in Outs(A) THEN (InOf(A, o) + 1) % inst.inputs ELSE p.grant[o]]
           a == [i \in Inputs |-> IF i \in Ins(A) THEN (OutOf(A, i) + 1) % inst.outputs ELSE p.accept[i]]
<1>3. g \in [OutPorts(inst) -> InPorts(inst)]
  BY <1>1 DEF Outputs, OutPorts, Pointers
<1>4. a \in [InPorts(inst) -> OutPorts(inst)]
  BY <1>2 DEF Inputs, InPorts, Pointers
<1>5. MovePointers(p, A, iter) = IF iter # 1 THEN p ELSE [p EXCEPT !.grant = g, !.accept = a]
  BY DEF MovePointers, Pointers
<1> HIDE DEF g, a
<1> QED BY <1>3, <1>4, <1>5 DEF Pointers

LEMMA PointersNumbers ==
  ASSUME Sides(inst), NEW p \in Pointers(inst)
  PROVE  Numbers(p.grant, OutPorts(inst)) /\ Numbers(p.accept, InPorts(inst))
<1>1. p.grant \in [OutPorts(inst) -> InPorts(inst)] /\ p.accept \in [InPorts(inst) -> OutPorts(inst)]
  BY DEF Pointers
<1>2. InPorts(inst) \subseteq Int /\ OutPorts(inst) \subseteq Int
  BY DEF InPorts, OutPorts
<1> QED BY <1>1, <1>2 DEF Numbers

\* Where the iterations of an allocator are after k rounds.
Going(n, r, s, k) ==
  /\ s \in [match : Tables(n), ptr : Pointers(n), req : {r}, grants : SUBSET Grid(n)]
  /\ Matched(n, s.match, DOMAIN r)
  /\ Rounds(s.match, r, k)

LEMMA Starts ==
  ASSUME NEW r, ptr \in Pointers(inst)
  PROVE  Going(inst, r, Start(r), 0)
<1>1. Matched(inst, Unmatched(inst), DOMAIN r)
  BY NothingMatched
<1>2. Busy(Unmatched(inst)) = {}
  BY DEF Busy, Unmatched
<1>3. Rounds(Unmatched(inst), r, 0)
  BY <1>2, FS_EmptySet DEF Rounds
<1> QED BY <1>1, <1>3 DEF Going, Start, Matched

\* One round of an iterative allocator whose grants rank the requests by near and
\* whose accepts by far.
LEMMA RoundGoes ==
  ASSUME Sides(inst), NEW r, Requests(inst, r), NEW s, NEW k \in Nat, Going(inst, r, s, k),
         NEW near, Numbers(near, DOMAIN r), NEW far, Numbers(far, DOMAIN r), NEW iter,
         NEW A, A = Accepting(Granting(Free(s.match, r), s.ptr.grant, near), s.ptr.accept, far),
         NEW G \in SUBSET Grid(inst), NEW t,
         t = [s EXCEPT !.match = Grant(s.match, A), !.ptr = MovePointers(s.ptr, A, iter), !.grants = G]
  PROVE  Going(inst, r, t, k + 1)
<1> DEFINE free == Free(s.match, r)
<1>1. /\ s \in [match : Tables(inst), ptr : Pointers(inst), req : {r}, grants : SUBSET Grid(inst)]
      /\ Matched(inst, s.match, DOMAIN r) /\ Rounds(s.match, r, k)
  BY DEF Going
<1>2. free \subseteq DOMAIN r /\ free \subseteq Grid(inst) /\ Numbers(near, free) /\ Numbers(far, free)
  BY DEF Free, Requests, Numbers
<1>3. Numbers(s.ptr.grant, OutPorts(inst)) /\ Numbers(s.ptr.accept, InPorts(inst))
  <2>1. s.ptr \in Pointers(inst)
    BY <1>1
  <2> QED BY <2>1, PointersNumbers
<1> HIDE DEF free
<1>4. A \subseteq free /\ Pairing(A) /\ Settled(free, near, far, 2, 1, A)
  <2>1. A = Accepting(Granting(free, s.ptr.grant, near), s.ptr.accept, far)
    BY DEF free
  <2> QED BY <1>2, <1>3, <2>1, AcceptedPairs
<1>5. A = {} => free = {}
  BY <1>4 DEF Settled
<1>6. Matched(inst, Grant(s.match, A), DOMAIN r) /\ Rounds(Grant(s.match, A), r, k + 1)
  <2>1. DOMAIN r \subseteq Grid(inst)
    BY DEF Requests
  <2> QED BY <1>1, <1>4, <1>5, <2>1, RoundMatched DEF free
<1>7. MovePointers(s.ptr, A, iter) \in Pointers(inst)
  <2>1. s.ptr \in Pointers(inst) /\ A \subseteq Grid(inst)
    BY <1>1, <1>2, <1>4
  <2> QED BY <2>1, PointersMoved
<1> DEFINE m == Grant(s.match, A)
           p == MovePointers(s.ptr, A, iter)
<1>8. m \in Tables(inst)
  BY <1>6 DEF Matched
<1> HIDE DEF m, p
<1>9. t = [s EXCEPT !.match = m, !.ptr = p, !.grants = G]
  BY DEF m, p
<1>10. t \in [match : Tables(inst), ptr : Pointers(inst), req : {r}, grants : SUBSET Grid(inst)] /\ t.match = m
  BY <1>1, <1>7, <1>8, <1>9 DEF p
<1> QED BY <1>6, <1>10 DEF Going, m

LEMMA IslipRound ==
  ASSUME Sides(inst), NEW r, Requests(inst, r), NEW s, NEW k \in Nat, Going(inst, r, s, k), NEW iter
  PROVE  Going(inst, r, IslipIteration(s, iter), k + 1)
<1> DEFINE equal == [c \in DOMAIN r |-> 0]
           A == Accepting(Granting(Free(s.match, r), s.ptr.grant, equal), s.ptr.accept, equal)
           t == [s EXCEPT !.match = Grant(s.match, A), !.ptr = MovePointers(s.ptr, A, iter), !.grants = s.grants]
<1>1. s \in [match : Tables(inst), ptr : Pointers(inst), req : {r}, grants : SUBSET Grid(inst)]
  BY DEF Going
<1>2. s.req = r /\ s.grants \in SUBSET Grid(inst)
  BY <1>1
<1>3. IslipIteration(s, iter) = t
  <2>1. IslipIteration(s, iter)
          = [s EXCEPT !.match = Grant(s.match, A), !.ptr = MovePointers(s.ptr, A, iter)]
    BY <1>1, <1>2 DEF IslipIteration
  <2> HIDE DEF A
  <2> QED BY <1>1, <2>1
<1>4. Numbers(equal, DOMAIN r)
  BY DEF Numbers
<1> HIDE DEF equal
<1>5. A = Accepting(Granting(Free(s.match, r), s.ptr.grant, equal), s.ptr.accept, equal)
  OBVIOUS
<1>6. t = [s EXCEPT !.match = Grant(s.match, A), !.ptr = MovePointers(s.ptr, A, iter), !.grants = s.grants]
  OBVIOUS
<1> HIDE DEF A, t
<1>7. Going(inst, r, t, k + 1)
  BY ONLY Sides(inst), Requests(inst, r), k \in Nat, Going(inst, r, s, k), <1>2, <1>4, <1>5, <1>6, RoundGoes
<1> QED BY <1>3, <1>7

\* The first round of select, which has no grants of an earlier one.
LEMMA SelectRound ==
  ASSUME Sides(inst), NEW r, Requests(inst, r), NEW s, NEW k \in Nat, Going(inst, r, s, k), s.grants = {},
         NEW iter
  PROVE  Going(inst, r, SelectIteration(s, iter), k + 1)
<1> DEFINE G == Granting(Free(s.match, r), s.ptr.grant, OutPri(r))
           A == Accepting(G, s.ptr.accept, InPri(r))
           t == [s EXCEPT !.match = Grant(s.match, A), !.ptr = MovePointers(s.ptr, A, iter), !.grants = G]
<1>1. s \in [match : Tables(inst), ptr : Pointers(inst), req : {r}, grants : SUBSET Grid(inst)]
  BY DEF Going
<1>2. s.req = r
  BY <1>1
<1>3. SelectIteration(s, iter) = t
  <2>1. G \cup {c \in s.grants : c[2] \notin Outs(G)} = G
    <3> HIDE DEF G
    <3> QED OBVIOUS
  <2>2. SelectIteration(s, iter)
          = LET grants == G \cup {c \in s.grants : c[2] \notin Outs(G)}
                B == Accepting(grants, s.ptr.accept, InPri(r))
            IN  [s EXCEPT !.match = Grant(s.match, B), !.ptr = MovePointers(s.ptr, B, iter), !.grants = grants]
    BY <1>1, <1>2 DEF SelectIteration
  <2> QED BY <2>1, <2>2
<1>4. Numbers(OutPri(r), DOMAIN r) /\ Numbers(InPri(r), DOMAIN r)
  BY PrioritiesNumbers
<1>5. G \in SUBSET Grid(inst)
  <2> DEFINE free == Free(s.match, r)
  <2>1. free \subseteq Grid(inst) /\ Numbers(OutPri(r), free)
    BY <1>4 DEF Free, Requests, Numbers
  <2>2. Numbers(s.ptr.grant, OutPorts(inst))
    <3>1. s.ptr \in Pointers(inst)
      BY <1>1
    <3> QED BY <3>1, PointersNumbers
  <2>3. Granting(free, s.ptr.grant, OutPri(r)) \subseteq free
    <3> HIDE DEF free
    <3> QED BY <2>1, <2>2, GrantingPicks
  <2> QED BY <2>1, <2>3
<1>6. A = Accepting(Granting(Free(s.match, r), s.ptr.grant, OutPri(r)), s.ptr.accept, InPri(r))
  OBVIOUS
<1>7. t = [s EXCEPT !.match = Grant(s.match, A), !.ptr = MovePointers(s.ptr, A, iter), !.grants = G]
  OBVIOUS
<1> HIDE DEF A, G, t
<1>8. Going(inst, r, t, k + 1)
  BY ONLY Sides(inst), Requests(inst, r), k \in Nat, Going(inst, r, s, k), <1>4, <1>5, <1>6, <1>7, RoundGoes
<1> QED BY <1>3, <1>8
LEMMA IterationsSeq ==
  ASSUME inst.iters \in Nat \ {0}
  PROVE  Iterations \in Seq(Nat) /\ Len(Iterations) = inst.iters
BY DEF Iterations

\* All the iterations of iSLIP.
LEMMA IslipMatched ==
  ASSUME Sides(inst), inst.iters \in Nat \ {0}, ptr \in Pointers(inst), NEW r, Requests(inst, r),
         NEW s, s = FoldLeft(IslipIteration, Start(r), Iterations)
  PROVE  Going(inst, r, s, inst.iters)
<1>1. Islipping!LeftFold(0, Start(r), Iterations) = FoldLeft(IslipIteration, Start(r), Iterations)
  BY DEF IslipStep, FoldLeft, MapThenFoldSet, Max, Islipping!LeftFold
<1>2. PICK h : /\ Islipping!LeftFold(0, Start(r), Iterations) = h[Len(Iterations)]
               /\ h[0] = Start(r)
               /\ \A k \in 1 .. Len(Iterations) : h[k] = IslipStep(0, h[k - 1], Iterations[k])
  BY IterationsSeq, Islipping!FoldLeftSteps, IterationsOrdered
<1> DEFINE n == inst.iters
           P == {k \in 0 .. n : Going(inst, r, h[k], k)}
<1>3. n \in Nat /\ Len(Iterations) = n
  BY IterationsSeq
<1>4. 0 \in P
  BY <1>2, <1>3, Starts
<1>5. ASSUME NEW k \in 1 .. n, k-1 \in P
      PROVE  k \in P
  <2>1. k-1 \in Nat /\ Going(inst, r, h[k-1], k-1) /\ (k-1) + 1 = k
    BY <1>5
  <2>2. Going(inst, r, IslipIteration(h[k-1], Iterations[k]), (k-1) + 1)
    BY <2>1, IslipRound
  <2>3. h[k] = IslipIteration(h[k-1], Iterations[k])
    BY <1>2, <1>3 DEF IslipStep
  <2> QED BY <1>3, <2>1, <2>2, <2>3
<1>6. n \in P
  <2> HIDE DEF P
  <2> QED BY <1>3, <1>4, <1>5, CountUp
<1> QED BY <1>1, <1>2, <1>3, <1>6

\* The one iteration of select.
LEMMA SelectMatched ==
  ASSUME Sides(inst), inst.iters = 1, ptr \in Pointers(inst), NEW r, Requests(inst, r),
         NEW s, s = FoldLeft(SelectIteration, Start(r), Iterations)
  PROVE  s = SelectIteration(Start(r), 1) /\ Going(inst, r, s, 1)
<1>1. Selecting!LeftFold(0, Start(r), Iterations) = FoldLeft(SelectIteration, Start(r), Iterations)
  BY DEF SelectStep, FoldLeft, MapThenFoldSet, Max, Selecting!LeftFold
<1>2. PICK h : /\ Selecting!LeftFold(0, Start(r), Iterations) = h[Len(Iterations)]
               /\ h[0] = Start(r)
               /\ \A k \in 1 .. Len(Iterations) : h[k] = SelectStep(0, h[k - 1], Iterations[k])
  BY IterationsSeq, Selecting!FoldLeftSteps, IterationsOrdered
<1>3. Len(Iterations) = 1 /\ Iterations[1] = 1
  BY IterationsSeq DEF Iterations
<1>4. s = SelectIteration(Start(r), 1)
  <2>1. 1 \in 1 .. Len(Iterations) /\ 1 - 1 = 0
    BY <1>3
  <2>2. h[1] = SelectStep(0, h[1 - 1], Iterations[1])
    BY <1>2, <2>1
  <2>3. h[1] = SelectStep(0, Start(r), 1)
    BY <1>2, <1>3, <2>1, <2>2
  <2> QED BY <1>1, <1>2, <1>3, <2>3 DEF SelectStep
<1>5. Start(r).grants = {} /\ Going(inst, r, Start(r), 0)
  BY Starts DEF Start
<1>6. Going(inst, r, SelectIteration(Start(r), 1), 0 + 1)
  BY <1>5, SelectRound
<1> QED BY <1>4, <1>6

\* One iteration of PIM.
LEMMA PimRound ==
  ASSUME Sides(inst), NEW r, Requests(inst, r), NEW m, Matched(inst, m, DOMAIN r),
         NEW k \in Nat, Rounds(m, r, k), NEW t \in PimIteration(m, r)
  PROVE  Matched(inst, t, DOMAIN r) /\ Rounds(t, r, k + 1)
<1> DEFINE free == Free(m, r)
           grants == {{<<g[o], o>> : o \in Outs(free)} :
                   g \in {h \in [Outs(free) -> Inputs] : \A o \in Outs(free) : <<h[o], o>> \in free}}
           accepts(G) == {{<<i, f[i]>> : i \in Ins(G)} :
                       f \in {h \in [Ins(G) -> Outputs] : \A i \in Ins(G) : <<i, h[i]>> \in G}}
<1>1. PICK G \in grants : \E A \in accepts(G) : t = Grant(m, A)
  BY DEF PimIteration
<1>8. PICK A \in accepts(G) : t = Grant(m, A)
  BY <1>1
<1>2. PICK g \in [Outs(free) -> Inputs] :
        (\A o \in Outs(free) : <<g[o], o>> \in free) /\ G = {<<g[o], o>> : o \in Outs(free)}
  OBVIOUS
<1>3. PICK f \in [Ins(G) -> Outputs] :
        (\A i \in Ins(G) : <<i, f[i]>> \in G) /\ A = {<<i, f[i]>> : i \in Ins(G)}
  OBVIOUS
<1> HIDE DEF free
<1>4. G \subseteq free /\ \A c, d \in G : c[2] = d[2] => c = d
  BY <1>2
<1>5. A \subseteq G /\ \A c, d \in A : c[1] = d[1] => c = d
  BY <1>3
<1>6. Pairing(A) /\ A \subseteq free
  BY <1>4, <1>5 DEF Pairing
<1>7. ASSUME A = {}, NEW c \in free PROVE FALSE
  <2>1. <<g[c[2]], c[2]>> \in G
    BY <1>2 DEF Outs
  <2>2. g[c[2]] \in Ins(G)
    BY <2>1 DEF Ins
  <2>3. <<g[c[2]], f[g[c[2]]]>> \in A
    BY <1>3, <2>2
  <2> QED BY <1>7, <2>3
<1>9. A = {} => free = {}
  BY <1>7
<1> QED BY <1>6, <1>8, <1>9, RoundMatched DEF free, Requests

\* All the iterations of PIM.
LEMMA PimMatched ==
  ASSUME Sides(inst), inst.iters \in Nat \ {0}, NEW r, Requests(inst, r), NEW t \in PimMatches(r)
  PROVE  Matched(inst, t, DOMAIN r) /\ Rounds(t, r, inst.iters)
<1> DEFINE first == {Unmatched(inst)}
<1>1. Pimming!LeftFold(r, first, Iterations) = PimMatches(r)
  BY DEF PimStep, PimMatches, FoldLeft, MapThenFoldSet, Max, Pimming!LeftFold
<1>2. PICK h : /\ Pimming!LeftFold(r, first, Iterations) = h[Len(Iterations)]
               /\ h[0] = first
               /\ \A k \in 1 .. Len(Iterations) : h[k] = PimStep(r, h[k - 1], Iterations[k])
  BY IterationsSeq, Pimming!FoldLeftSteps, IterationsOrdered
<1> DEFINE n == inst.iters
           P == {k \in 0 .. n : \A m \in h[k] : Matched(inst, m, DOMAIN r) /\ Rounds(m, r, k)}
<1>3. n \in Nat /\ Len(Iterations) = n
  BY IterationsSeq
<1>4. 0 \in P
  <2>1. Matched(inst, Unmatched(inst), DOMAIN r)
    BY NothingMatched
  <2>2. Busy(Unmatched(inst)) = {}
    BY DEF Busy, Unmatched
  <2>3. Rounds(Unmatched(inst), r, 0)
    BY <2>2, FS_EmptySet DEF Rounds
  <2> QED BY <1>2, <1>3, <2>1, <2>3
<1>5. ASSUME NEW k \in 1 .. n, k-1 \in P
      PROVE  k \in P
  <2>1. h[k] = UNION {PimIteration(m, r) : m \in h[k-1]}
    BY <1>2, <1>3 DEF PimStep
  <2>2. ASSUME NEW x \in h[k] PROVE Matched(inst, x, DOMAIN r) /\ Rounds(x, r, k)
    <3>1. PICK m \in h[k-1] : x \in PimIteration(m, r)
      BY <2>1
    <3>2. k-1 \in Nat /\ Matched(inst, m, DOMAIN r) /\ Rounds(m, r, k-1) /\ (k-1) + 1 = k
      BY <1>5
    <3>3. Rounds(x, r, (k-1) + 1) /\ Matched(inst, x, DOMAIN r)
      BY <3>1, <3>2, PimRound
    <3> QED BY <3>2, <3>3
  <2> QED BY <1>3, <2>2
<1>6. n \in P
  <2> HIDE DEF P
  <2> QED BY <1>3, <1>4, <1>5, CountUp
<1> QED BY <1>1, <1>2, <1>3, <1>6

-----------------------------------------------------------------------------
(***************************************************************************)
(* LOA.                                                                    *)
(***************************************************************************)
LEMMA LoaPairs ==
  ASSUME Sides(inst), ptr \in Pointers(inst), NEW r, Requests(inst, r)
  PROVE  /\ LoaGrants(r) \subseteq DOMAIN r /\ Pairing(LoaGrants(r))
         /\ LoaGrants(r) = {} => DOMAIN r = {}
<1> DEFINE asks(o) == {i \in Inputs : Lonely(r, i) = o}
           pick(o) == FirstFrom(ptr.grant[o], asks(o), inst.inputs)
           A == LoaGrants(r)
<1>0. Inputs = InPorts(inst) /\ Outputs = OutPorts(inst)
  BY DEF Inputs, Outputs, InPorts, OutPorts
<1>1. A = {<<pick(o), o>> : o \in {p \in Outputs : asks(p) # {}}}
  BY DEF LoaGrants
<1>2. Numbers(ptr.grant, OutPorts(inst)) /\ Numbers(ptr.accept, InPorts(inst))
  BY PointersNumbers
<1>3. ASSUME NEW i \in Inputs
      PROVE  \/ Lonely(r, i) = None /\ \A o \in Outputs : <<i, o>> \notin DOMAIN r
             \/ Lonely(r, i) \in Outputs /\ <<i, Lonely(r, i)>> \in DOMAIN r
  <2> DEFINE wanted   == {o \in Outputs : <<i, o>> \in DOMAIN r}
             count(o) == Cardinality({j \in Inputs : <<j, o>> \in DOMAIN r})
             lonely   == {o \in wanted : \A p \in wanted : count(o) <= count(p)}
  <2>1. Lonely(r, i) = IF wanted = {} THEN None ELSE FirstFrom(ptr.accept[i], lonely, inst.outputs)
    BY DEF Lonely
  <2>2. CASE wanted = {}
    BY <2>1, <2>2
  <2>3. CASE wanted # {}
    <3>1. ASSUME NEW o \in Outputs PROVE count(o) \in Nat
      <4>1. IsFiniteSet({j \in Inputs : <<j, o>> \in DOMAIN r})
        BY PortsFinite DEF Inputs, Sides
      <4> QED BY <4>1, FS_CardinalityType
    <3> HIDE DEF count
    <3> DEFINE N == {count(o) : o \in wanted}
    <3>2. N \subseteq Nat /\ N # {}
      BY <2>3, <3>1
    <3>3. PICK m \in N : \A k \in N : m <= k
      <4> HIDE DEF N
      <4> QED BY <3>2, LeastNumber
    <3>4. lonely # {} /\ lonely \subseteq 0 .. inst.outputs-1 /\ lonely \subseteq wanted
      <4>1. PICK o \in wanted : m = count(o)
        OBVIOUS
      <4>2. \A p \in wanted : count(p) \in N
        OBVIOUS
      <4>3. \A p \in wanted : count(o) <= count(p)
        BY <3>3, <4>1, <4>2
      <4>4. o \in lonely
        BY <4>3
      <4> QED BY <4>4 DEF Outputs
    <3>5. ptr.accept[i] \in Int /\ inst.outputs \in Nat \ {0}
      BY <1>0, <1>2 DEF Numbers, Sides
    <3> HIDE DEF lonely
    <3>6. FirstFrom(ptr.accept[i], lonely, inst.outputs) \in lonely
      BY <3>4, <3>5, FirstFromIn
    <3> QED BY <2>1, <2>3, <3>4, <3>6
  <2> QED BY <2>2, <2>3
<1>4. ASSUME NEW o \in Outputs, asks(o) # {}
      PROVE  pick(o) \in Inputs /\ Lonely(r, pick(o)) = o /\ <<pick(o), o>> \in DOMAIN r
  <2>1. asks(o) \subseteq 0 .. inst.inputs-1
    BY DEF Inputs
  <2>2. ptr.grant[o] \in Int /\ inst.inputs \in Nat \ {0}
    BY <1>0, <1>2 DEF Numbers, Sides
  <2>3. pick(o) \in asks(o)
    <3> HIDE DEF asks
    <3> QED BY <1>4, <2>1, <2>2, FirstFromIn
  <2>4. pick(o) \in Inputs /\ Lonely(r, pick(o)) = o
    BY <2>3
  <2>5. o # None
    BY DEF Outputs, None
  <2> HIDE DEF pick
  <2> QED BY <1>3, <2>4, <2>5
<1> HIDE DEF pick
<1>5. A \subseteq DOMAIN r
  BY <1>1, <1>4
<1>6. Pairing(A)
  <2>1. \A c \in A : c[2] \in Outputs /\ c = <<pick(c[2]), c[2]>> /\ Lonely(r, c[1]) = c[2]
    BY <1>1, <1>4
  <2> HIDE DEF A
  <2>2. \A c, d \in A : c[1] = d[1] <=> c[2] = d[2]
    BY <2>1
  <2> QED BY <2>2 DEF Pairing
<1>7. ASSUME A = {} PROVE DOMAIN r = {}
  <2>1. \A o \in Outputs : asks(o) = {}
    BY <1>1, <1>7
  <2>2. ASSUME NEW c \in DOMAIN r PROVE FALSE
    <3>1. c[1] \in Inputs /\ c[2] \in Outputs /\ c = <<c[1], c[2]>>
      BY <1>0 DEF Requests, Grid
    <3>2. Lonely(r, c[1]) \in Outputs
      BY <1>3, <3>1
    <3> QED BY <2>1, <3>1, <3>2
  <2> QED BY <2>2
<1> QED BY <1>5, <1>6, <1>7

LEMMA LoaPointersMoved ==
  ASSUME Sides(inst), ptr \in Pointers(inst), NEW A, A \subseteq Grid(inst)
  PROVE  LoaPointers(A) \in Pointers(inst)
<1> DEFINE g == [o \in Outputs |-> IF o \in Outs(A) THEN (ptr.grant[o] + 1) % inst.inputs ELSE ptr.grant[o]]
           a == [i \in Inputs |-> IF i \in Ins(A) THEN (ptr.accept[i] + 1) % inst.outputs ELSE ptr.accept[i]]
<1>1. ptr.grant \in [OutPorts(inst) -> InPorts(inst)] /\ ptr.accept \in [InPorts(inst) -> OutPorts(inst)]
  BY DEF Pointers
<1>2. g \in [OutPorts(inst) -> InPorts(inst)]
  <2>1. \A o \in OutPorts(inst) : (ptr.grant[o] + 1) % inst.inputs \in InPorts(inst)
    BY <1>1 DEF InPorts, Sides
  <2> QED BY <1>1, <2>1 DEF Outputs, OutPorts
<1>3. a \in [InPorts(inst) -> OutPorts(inst)]
  <2>1. \A i \in InPorts(inst) : (ptr.accept[i] + 1) % inst.outputs \in OutPorts(inst)
    BY <1>1 DEF OutPorts, Sides
  <2> QED BY <1>1, <2>1 DEF Inputs, InPorts
<1>4. LoaPointers(A) = [ptr EXCEPT !.grant = g, !.accept = a]
  BY DEF LoaPointers, Pointers
<1> HIDE DEF g, a
<1> QED BY <1>2, <1>3, <1>4 DEF Pointers

\* A single pass that grants what pairs it finds.
LEMMA PassMatched ==
  ASSUME NEW n, Sides(n), NEW r, Requests(n, r), NEW A, A \subseteq DOMAIN r, Pairing(A),
         A = {} => DOMAIN r = {}
  PROVE  /\ Matched(n, Grant(Unmatched(n), A), DOMAIN r)
         /\ Rounds(Grant(Unmatched(n), A), r, 1)
<1> DEFINE m == Unmatched(n)
<1>1. Matched(n, m, DOMAIN r)
  BY NothingMatched
<1>2. Free(m, r) = DOMAIN r
  BY DEF Free, Unmatched, Requests, Grid, InPorts, OutPorts
<1>3. Busy(m) = {}
  BY DEF Busy, Unmatched
<1>4. Rounds(m, r, 0)
  BY <1>3, FS_EmptySet DEF Rounds
<1> HIDE DEF m
<1>5. Matched(n, Grant(m, A), DOMAIN r) /\ Rounds(Grant(m, A), r, 0 + 1)
  BY <1>1, <1>2, <1>4, RoundMatched DEF Requests
<1> QED BY <1>5 DEF m
-----------------------------------------------------------------------------
(***************************************************************************)
(* The wavefront allocators.                                               *)
(***************************************************************************)
\* Of numbers less than n apart only equal ones leave the same remainder.
LEMMA SameRemainder ==
  ASSUME NEW n \in Nat \ {0}, NEW x \in Int, NEW y \in Int, x - y < n, y - x < n, x % n = y % n
  PROVE  x = y
<1> DEFINE a == x \div n
           b == y \div n
<1>1. a \in Int /\ b \in Int /\ x = n * a + (x % n) /\ y = n * b + (y % n)
  OBVIOUS
<1> HIDE DEF a, b
<1>2. x - y = n * (a - b)
  <2>1. n * a - n * b = n * (a - b)
    BY <1>1
  <2>2. x % n \in Int
    OBVIOUS
  <2> QED BY <1>1, <2>1, <2>2
<1>3. CASE a - b >= 1
  <2>1. n * (a - b) >= n
    BY <1>1, <1>3
  <2> QED BY <1>2, <2>1
<1>4. CASE b - a >= 1
  <2>1. n * (b - a) >= n /\ n * (b - a) = -(n * (a - b))
    BY <1>1, <1>4
  <2> QED BY <1>2, <2>1
<1>5. CASE a = b
  BY <1>1, <1>2, <1>5
<1> QED BY <1>1, <1>3, <1>4, <1>5

DiagonalOf(c) == Distance(c[1] + c[2], ptr.pri, Square)

\* The order of the pairs of priorities is a strict and total one.
LEMMA AboveOrders ==
  /\ \A p \in [in : Int, out : Int] : ~Above(p, p)
  /\ \A p, q \in [in : Int, out : Int] : Above(p, q) \/ Above(q, p) \/ p = q
  /\ \A p, q \in [in : Int, out : Int] : ~(Above(p, q) /\ Above(q, p))
  /\ \A p, q, t \in [in : Int, out : Int] : Above(p, q) /\ Above(q, t) => Above(p, t)
BY DEF Above

\* The pairs of requests of which the first goes before the second.
Precedes(r) ==
  {p \in (DOMAIN r) \X (DOMAIN r) :
     \/ Above(r[p[1]], r[p[2]])
     \/ r[p[1]] = r[p[2]] /\ DiagonalOf(p[1]) < DiagonalOf(p[2])
     \/ r[p[1]] = r[p[2]] /\ DiagonalOf(p[1]) = DiagonalOf(p[2]) /\ p[1][2] < p[2][2]}

LEMMA WaveOrdered ==
  ASSUME Sides(inst), ptr \in Pointers(inst), NEW r, Requests(inst, r)
  PROVE  IsFiniteSet(DOMAIN r) /\ Orders(Precedes(r), DOMAIN r) /\ InOrder(WaveOrder(r), DOMAIN r, Precedes(r))
<1> DEFINE S == DOMAIN r
           B == Precedes(r)
<1>1. IsFiniteSet(S)
  <2>1. IsFiniteSet(InPorts(inst)) /\ IsFiniteSet(OutPorts(inst))
    BY PortsFinite DEF Sides, InPorts, OutPorts
  <2>2. IsFiniteSet(Grid(inst))
    BY <2>1, FS_Product DEF Grid
  <2> QED BY <2>2, FS_Subset DEF Requests
<1>2. Square \in Nat \ {0} /\ inst.inputs <= Square /\ inst.outputs <= Square /\ ptr.pri \in Int
  BY DEF Sides, Square, Pointers
<1>3. ASSUME NEW c \in S
      PROVE  /\ r[c] \in [in : Int, out : Int] /\ c = <<c[1], c[2]>>
             /\ c[1] \in 0 .. inst.inputs-1 /\ c[2] \in 0 .. inst.outputs-1
             /\ DiagonalOf(c) \in Int
  <2>1. r[c] \in [in : Int, out : Int] /\ c = <<c[1], c[2]>> /\ c[1] \in 0 .. inst.inputs-1 /\ c[2] \in 0 .. inst.outputs-1
    BY DEF Requests, Grid, InPorts, OutPorts
  <2>2. ((c[1] + c[2]) - ptr.pri) + Square \in Int
    BY <1>2, <2>1
  <2>3. (((c[1] + c[2]) - ptr.pri) + Square) % Square \in Int
    BY <1>2, <2>2
  <2>4. DiagonalOf(c) = (((c[1] + c[2]) - ptr.pri) + Square) % Square
    BY DEF DiagonalOf, Distance
  <2>5. DiagonalOf(c) \in Int
    BY <2>3, <2>4
  <2> QED BY <2>1, <2>5
<1>4. ASSUME NEW c \in S, NEW d \in S
      PROVE  <<c, d>> \in B <=> \/ Above(r[c], r[d])
                                \/ r[c] = r[d] /\ DiagonalOf(c) < DiagonalOf(d)
                                \/ r[c] = r[d] /\ DiagonalOf(c) = DiagonalOf(d) /\ c[2] < d[2]
  BY DEF Precedes
<1>5. ASSUME NEW c \in S, NEW d \in S, DiagonalOf(c) = DiagonalOf(d), c[2] = d[2]
      PROVE  c = d
  <2> DEFINE x == ((c[1] + c[2]) - ptr.pri) + Square
             y == ((d[1] + d[2]) - ptr.pri) + Square
  <2>0. /\ c[1] \in 0 .. inst.inputs-1 /\ d[1] \in 0 .. inst.inputs-1
        /\ c[2] \in Int /\ d[2] \in Int /\ inst.inputs \in Int /\ Square \in Int
    BY <1>2, <1>3 DEF Sides
  <2>1. x \in Int /\ y \in Int /\ x - y < Square /\ y - x < Square
    BY <1>2, <1>5, <2>0
  <2>2. x % Square = y % Square
    <3>1. DiagonalOf(c) = x % Square /\ DiagonalOf(d) = y % Square
      BY DEF DiagonalOf, Distance
    <3> HIDE DEF x, y
    <3> QED BY <1>5, <3>1
  <2>3. x = y
    <3> HIDE DEF x, y
    <3> QED BY <1>2, <2>1, <2>2, SameRemainder
  <2>4. c[1] = d[1]
    BY <1>2, <1>3, <1>5, <2>3
  <2> QED BY <1>3, <1>5, <2>4
<1>6. Orders(B, S)
  <2>1. ASSUME NEW x \in S, NEW y \in S, NEW z \in S, <<x, y>> \in B, <<y, z>> \in B
        PROVE  <<x, z>> \in B
    <3>1. /\ r[x] \in [in : Int, out : Int] /\ r[y] \in [in : Int, out : Int] /\ r[z] \in [in : Int, out : Int]
          /\ DiagonalOf(x) \in Int /\ DiagonalOf(y) \in Int /\ DiagonalOf(z) \in Int
          /\ x[2] \in Int /\ y[2] \in Int /\ z[2] \in Int
      BY <1>3
    <3> HIDE DEF B
    <3>2. Above(r[x], r[y]) \/ r[x] = r[y]
      BY <1>4, <2>1
    <3>3. Above(r[y], r[z]) \/ r[y] = r[z]
      BY <1>4, <2>1
    <3>4. CASE Above(r[x], r[z])
      BY <1>4, <3>4
    <3>5. CASE ~Above(r[x], r[z])
      <4>1. r[x] = r[y] /\ r[y] = r[z]
        BY <3>1, <3>2, <3>3, <3>5, AboveOrders
      <4>2. ~Above(r[x], r[y]) /\ ~Above(r[y], r[z])
        BY <3>1, <4>1, AboveOrders
      <4> QED BY <1>4, <2>1, <3>1, <4>1, <4>2
    <3> QED BY <3>4, <3>5
  <2>2. ASSUME NEW x \in S PROVE <<x, x>> \notin B
    <3>1. r[x] \in [in : Int, out : Int] /\ DiagonalOf(x) \in Int /\ x[2] \in Int
      BY <1>3
    <3> HIDE DEF B
    <3> QED BY <1>4, <3>1, AboveOrders
  <2>3. ASSUME NEW x \in S, NEW y \in S, x # y PROVE <<x, y>> \in B \/ <<y, x>> \in B
    <3>1. /\ r[x] \in [in : Int, out : Int] /\ r[y] \in [in : Int, out : Int]
          /\ DiagonalOf(x) \in Int /\ DiagonalOf(y) \in Int /\ x[2] \in Int /\ y[2] \in Int
      BY <1>3
    <3>2. ~(DiagonalOf(x) = DiagonalOf(y) /\ x[2] = y[2])
      BY <1>5, <2>3
    <3> HIDE DEF B
    <3>3. Above(r[x], r[y]) \/ Above(r[y], r[x]) \/ r[x] = r[y]
      BY <3>1, AboveOrders
    <3> QED BY <1>4, <3>1, <3>2, <3>3
  <2> QED BY <2>1, <2>2, <2>3 DEF Orders
<1>7. InOrder(WaveOrder(r), S, B)
  <2> DEFINE under(c) == {d \in S : <<d, c>> \in B}
             rank(c) == Cardinality({d \in S : \/ Above(r[d], r[c])
                                               \/ r[d] = r[c] /\ DiagonalOf(d) < DiagonalOf(c)
                                               \/ r[d] = r[c] /\ DiagonalOf(d) = DiagonalOf(c) /\ d[2] < c[2]})
             q == WaveOrder(r)
  <2>1. q = [k \in 1 .. Cardinality(S) |-> CHOOSE c \in S : rank(c) = k - 1]
    BY DEF WaveOrder, DiagonalOf
  <2>2. ASSUME NEW c \in S PROVE rank(c) = Place(c, S, B)
    <3>1. \A d \in S : <<d, c>> \in B <=> \/ Above(r[d], r[c])
                                          \/ r[d] = r[c] /\ DiagonalOf(d) < DiagonalOf(c)
                                          \/ r[d] = r[c] /\ DiagonalOf(d) = DiagonalOf(c) /\ d[2] < c[2]
      BY <1>4
    <3> HIDE DEF B, S
    <3>2. {d \in S : <<d, c>> \in B}
            = {d \in S : \/ Above(r[d], r[c])
                         \/ r[d] = r[c] /\ DiagonalOf(d) < DiagonalOf(c)
                         \/ r[d] = r[c] /\ DiagonalOf(d) = DiagonalOf(c) /\ d[2] < c[2]}
      BY <3>1
    <3> QED BY <3>2 DEF Place
  <2> HIDE DEF rank, q, B, S
  <2>3. ASSUME NEW k \in 1 .. Cardinality(S), NEW x \in S, Place(x, S, B) = k-1
        PROVE  q[k] \in S /\ Place(q[k], S, B) = k-1
    <3>1. q[k] = CHOOSE c \in S : rank(c) = k - 1
      BY <2>1
    <3>2. rank(x) = k - 1
      BY <2>2, <2>3
    <3>3. q[k] \in S /\ rank(q[k]) = k - 1
      BY <3>1, <3>2
    <3> QED BY <2>2, <3>3
  <2>4. q = [k \in 1 .. Cardinality(S) |-> q[k]]
    BY <2>1
  <2>5. InOrder(q, S, B)
    BY <2>3, <2>4 DEF InOrder
  <2> QED BY <2>5 DEF q
<1> QED BY <1>1, <1>6, <1>7

\* The requests in wave order: each occurs, and of higher priority first.
LEMMA WaveSorted ==
  ASSUME Sides(inst), ptr \in Pointers(inst), NEW r, Requests(inst, r)
  PROVE  /\ WaveOrder(r) \in Seq(DOMAIN r)
         /\ \A c \in DOMAIN r : \E k \in 1 .. Len(WaveOrder(r)) : WaveOrder(r)[k] = c
         /\ \A j, k \in 1 .. Len(WaveOrder(r)) : j < k => ~Above(r[WaveOrder(r)[k]], r[WaveOrder(r)[j]])
<1> DEFINE S == DOMAIN r
           B == Precedes(r)
           q == WaveOrder(r)
<1>1. IsFiniteSet(S) /\ Orders(B, S) /\ InOrder(q, S, B)
  BY WaveOrdered
<1>2. \A c, d \in S : <<c, d>> \in B => ~Above(r[d], r[c])
  BY AboveOrders DEF Precedes, Requests
<1> HIDE DEF S, B, q
<1>3. /\ q \in Seq(S) /\ Len(q) = Cardinality(S)
      /\ \A x \in S : \E k \in 1 .. Cardinality(S) : q[k] = x
      /\ \A j, k \in 1 .. Cardinality(S) : j < k => <<q[j], q[k]>> \in B
  BY <1>1, OrderedSet
<1>4. \A k \in 1 .. Len(q) : q[k] \in S
  BY <1>3
<1>5. \A j, k \in 1 .. Len(q) : j < k => ~Above(r[q[k]], r[q[j]])
  BY <1>2, <1>3, <1>4
<1> QED BY <1>3, <1>5 DEF S, q

LEMMA WavePointer ==
  ASSUME Sides(inst), ptr \in Pointers(inst), NEW r, Requests(inst, r)
  PROVE  [ptr EXCEPT !.pri = WavePri(r)] \in Pointers(inst)
<1>1. Square \in Nat \ {0} /\ SquareOf(inst) = Square /\ ptr.pri \in 0 .. Square-1
  BY DEF Sides, Square, SquareOf, Pointers
<1>2. WavePri(r) \in 0 .. Square-1
  <2>1. CASE DOMAIN r = {}
    BY <1>1, <2>1 DEF WavePri
  <2>2. CASE DOMAIN r # {}
    <3> DEFINE first == Head(WaveOrder(r))
    <3>1. PICK k \in 1 .. Len(WaveOrder(r)) : TRUE
      BY <2>2, WaveSorted
    <3>2. first \in DOMAIN r
      BY <3>1, WaveSorted
    <3>3. first[1] + first[2] \in Int
      BY <3>2 DEF Requests, Grid, InPorts, OutPorts
    <3>4. \A x \in Int : (x + 1) % Square \in 0 .. Square-1
      BY <1>1
    <3> HIDE DEF first
    <3> DEFINE x == IF inst.type = "rr_wavefront" THEN first[1] + first[2] ELSE ptr.pri
    <3>5. WavePri(r) = (x + 1) % Square
      BY <2>2 DEF WavePri, first
    <3>6. x \in Int
      BY <1>1, <3>3
    <3> HIDE DEF x
    <3> QED BY <3>4, <3>5, <3>6
  <2> QED BY <2>1, <2>2
<1> QED BY <1>1, <1>2 DEF Pointers

\* One step of the wave.
WaveStep(r, m, c) == IF c \in Free(m, r) THEN Grant(m, {c}) ELSE m

Waving == INSTANCE FoldSteps WITH Op <- WaveStep

\* The hypothesis of FoldLeftSteps, for each instance.
LEMMA WavingOrdered ==
  Waving!Ordered
BY WellOrdered DEF Waving!Ordered

\* A granted pair shares an end with c, which is not above it.
Beaten(m, r, c) ==
  \E d \in DOMAIN r : m.in[d[1]] = d[2] /\ (d[1] = c[1] \/ d[2] = c[2]) /\ ~Above(r[c], r[d])

\* The pairs granted are among the first k of q, which are granted or beaten.
Waved(m, r, q, k) ==
  /\ Matched(inst, m, DOMAIN r)
  /\ \A i \in InPorts(inst) : m.in[i] # None => \E j \in 1 .. k : q[j] = <<i, m.in[i]>>
  /\ \A j \in 1 .. k : Beaten(m, r, q[j])

LEMMA WaveStepWaves ==
  ASSUME Sides(inst), NEW r, Requests(inst, r), NEW q \in Seq(DOMAIN r),
         \A j, k \in 1 .. Len(q) : j < k => ~Above(r[q[k]], r[q[j]]),
         NEW k \in 1 .. Len(q), NEW m, Waved(m, r, q, k-1)
  PROVE  Waved(WaveStep(r, m, q[k]), r, q, k)
<1> DEFINE c == q[k]
           t == WaveStep(r, m, c)
<1>1. c \in DOMAIN r /\ c = <<c[1], c[2]>> /\ c[1] \in InPorts(inst) /\ c[2] \in OutPorts(inst) /\ r[c] \in [in : Int, out : Int]
  BY DEF Requests, Grid
<1>2. k \in Nat /\ \A j \in 1 .. k : j = k \/ j \in 1 .. k-1
  OBVIOUS
<1>3. Matched(inst, m, DOMAIN r)
  BY DEF Waved
<1>4. \A i \in InPorts(inst) : m.in[i] # None => m.in[i] \in OutPorts(inst) /\ <<i, m.in[i]>> \in DOMAIN r
  BY <1>3 DEF Matched, Tables
<1>5. CASE c \in Free(m, r)
  <2>1. t = Grant(m, {c})
    BY <1>5 DEF WaveStep
  <2>2. Matched(inst, t, DOMAIN r) /\ GrantedTo(inst, m, {c}, t)
    <3>1. Pairing({c}) /\ Idle(m, {c}) /\ {c} \subseteq DOMAIN r /\ DOMAIN r \subseteq Grid(inst)
      BY <1>5 DEF Free, Pairing, Idle, Requests
    <3> HIDE DEF c, t
    <3> QED BY <1>3, <2>1, <3>1, GrantMatched
  <2>3. t.in[c[1]] = c[2] /\ \A i \in InPorts(inst) : i # c[1] => t.in[i] = m.in[i]
    BY <2>2 DEF GrantedTo, Ins
  <2>4. m.in[c[1]] = None
    BY <1>5 DEF Free
  <2> HIDE DEF t
  <2>5. ASSUME NEW i \in InPorts(inst), t.in[i] # None
        PROVE  \E j \in 1 .. k : q[j] = <<i, t.in[i]>>
    <3>1. CASE i = c[1]
      <4>1. q[k] = <<i, t.in[i]>> /\ k \in 1 .. k
        BY <1>1, <1>2, <2>3, <3>1
      <4> QED BY <4>1
    <3>2. CASE i # c[1]
      <4>1. PICK j \in 1 .. k-1 : q[j] = <<i, m.in[i]>>
        BY <2>3, <2>5, <3>2 DEF Waved
      <4>2. j \in 1 .. k
        BY <1>2
      <4> QED BY <2>3, <3>2, <4>1, <4>2
    <3> QED BY <3>1, <3>2
  <2>6. ASSUME NEW j \in 1 .. k
        PROVE  Beaten(t, r, q[j])
    <3>1. CASE j = k
      <4>1. ~Above(r[c], r[c]) /\ t.in[c[1]] = c[2]
        BY <1>1, <2>3, AboveOrders
      <4> QED BY <1>1, <3>1, <4>1 DEF Beaten
    <3>2. CASE j \in 1 .. k-1
      <4>1. PICK d \in DOMAIN r : m.in[d[1]] = d[2] /\ (d[1] = q[j][1] \/ d[2] = q[j][2]) /\ ~Above(r[q[j]], r[d])
        BY <3>2 DEF Waved, Beaten
      <4>2. d[1] \in InPorts(inst) /\ d[2] # None
        BY DEF Requests, Grid, OutPorts, None
      <4>3. t.in[d[1]] = d[2]
        BY <2>3, <2>4, <4>1, <4>2
      <4> QED BY <4>1, <4>3 DEF Beaten
    <3> QED BY <1>2, <3>1, <3>2
  <2> QED BY <2>2, <2>5, <2>6 DEF Waved, t
<1>6. CASE c \notin Free(m, r)
  <2>1. t = m
    BY <1>6 DEF WaveStep
  <2>2. m.in[c[1]] # None \/ m.out[c[2]] # None
    BY <1>1, <1>6 DEF Free
  <2>3. PICK d \in DOMAIN r : m.in[d[1]] = d[2] /\ (d[1] = c[1] \/ d[2] = c[2]) /\ d[1] \in InPorts(inst)
                              /\ d = <<d[1], d[2]>> /\ d[2] # None
    <3>1. CASE m.in[c[1]] # None
      <4>1. <<c[1], m.in[c[1]]>> \in DOMAIN r
        BY <1>1, <1>4, <3>1
      <4> QED BY <1>1, <3>1, <4>1
    <3>2. CASE m.out[c[2]] # None
      <4>1. m.out[c[2]] \in InPorts(inst)
        BY <1>1, <1>3, <3>2 DEF Matched, Tables
      <4>2. m.in[m.out[c[2]]] = c[2] /\ <<m.out[c[2]], c[2]>> \in DOMAIN r
        BY <1>1, <1>3, <4>1 DEF Matched
      <4>3. c[2] # None
        BY <1>1 DEF OutPorts, None
      <4> QED BY <4>1, <4>2, <4>3
    <3> QED BY <2>2, <3>1, <3>2
  <2>4. PICK j \in 1 .. k-1 : q[j] = d
    BY <2>3 DEF Waved
  <2>5. ~Above(r[c], r[d])
    <3>1. j \in 1 .. Len(q) /\ j < k
      OBVIOUS
    <3> QED BY <2>4, <3>1
  <2>6. Beaten(m, r, c)
    BY <2>3, <2>5 DEF Beaten
  <2>7. ASSUME NEW l \in 1 .. k PROVE Beaten(m, r, q[l])
    BY <1>2, <2>6 DEF Waved
  <2>8. ASSUME NEW i \in InPorts(inst), m.in[i] # None
        PROVE  \E l \in 1 .. k : q[l] = <<i, m.in[i]>>
    <3>1. PICK l \in 1 .. k-1 : q[l] = <<i, m.in[i]>>
      BY <2>8 DEF Waved
    <3>2. l \in 1 .. k
      BY <1>2
    <3> QED BY <3>1, <3>2
  <2> HIDE DEF t
  <2> QED BY <1>3, <2>1, <2>7, <2>8 DEF Waved, t
<1> QED BY <1>5, <1>6

\* The wave leaves every request granted or beaten.
LEMMA WaveMatched ==
  ASSUME Sides(inst), ptr \in Pointers(inst), NEW r, Requests(inst, r)
  PROVE  Matched(inst, WaveMatch(r), DOMAIN r) /\ \A c \in DOMAIN r : Beaten(WaveMatch(r), r, c)
<1> DEFINE q == WaveOrder(r)
           m0 == Unmatched(inst)
<1>1. /\ q \in Seq(DOMAIN r)
      /\ \A c \in DOMAIN r : \E k \in 1 .. Len(q) : q[k] = c
      /\ \A j, k \in 1 .. Len(q) : j < k => ~Above(r[q[k]], r[q[j]])
  BY WaveSorted
<1>2. Waving!LeftFold(r, m0, q) = WaveMatch(r)
  BY DEF WaveStep, WaveMatch, FoldLeft, MapThenFoldSet, Max, Waving!LeftFold
<1> HIDE DEF q, m0
<1>3. PICK h : /\ Waving!LeftFold(r, m0, q) = h[Len(q)]
               /\ h[0] = m0
               /\ \A k \in 1 .. Len(q) : h[k] = WaveStep(r, h[k - 1], q[k])
  BY <1>1, Waving!FoldLeftSteps, WavingOrdered
<1> DEFINE n == Len(q)
           P == {k \in 0 .. n : Waved(h[k], r, q, k)}
<1>4. n \in Nat
  BY <1>1
<1>5. 0 \in P
  <2>1. Waved(m0, r, q, 0)
    <3>1. Matched(inst, m0, DOMAIN r)
      BY NothingMatched DEF m0
    <3>2. \A i \in InPorts(inst) : m0.in[i] = None
      BY DEF m0, Unmatched, InPorts
    <3> QED BY <3>1, <3>2 DEF Waved
  <2> QED BY <1>3, <1>4, <2>1
<1>6. ASSUME NEW k \in 1 .. n, k-1 \in P
      PROVE  k \in P
  <2>1. Waved(h[k-1], r, q, k-1)
    BY <1>6
  <2>2. Waved(WaveStep(r, h[k-1], q[k]), r, q, k)
    BY <1>1, <2>1, WaveStepWaves
  <2> QED BY <1>3, <1>4, <2>2
<1>7. n \in P
  <2> HIDE DEF P, n
  <2> QED BY <1>4, <1>5, <1>6, CountUp
<1>8. Waved(WaveMatch(r), r, q, n)
  BY <1>2, <1>3, <1>7
<1> QED BY <1>1, <1>8 DEF Waved
-----------------------------------------------------------------------------
(***************************************************************************)
(* The separable allocators.                                               *)
(***************************************************************************)
\* The arbiters of n ends, each for the size ends of the other side.
Staffed(arbs, n, size) ==
  /\ DOMAIN arbs = 0 .. n-1
  /\ \A x \in 0 .. n-1 : ArbiterOK(arbs[x]) /\ arbs[x].size = size

\* What remains of the picks of both sides is a matching, settled between the sides.
LEMMA SeparablePicks ==
  ASSUME NEW n \in Nat \ {0}, NEW k \in Nat \ {0}, NEW near, Staffed(near, n, k),
         NEW far, Staffed(far, k, n),
         NEW R, R \subseteq (0 .. n-1) \X (0 .. k-1),
         NEW nearPri, DOMAIN nearPri = R, Numbers(nearPri, R),
         NEW farPri, DOMAIN farPri = R, Numbers(farPri, R)
  PROVE  /\ SeparablePairs(near, far, nearPri, farPri) \subseteq R
         /\ Pairing(SeparablePairs(near, far, nearPri, farPri))
         /\ Settled(R, nearPri, farPri, 1, 2, SeparablePairs(near, far, nearPri, farPri))
<1> DEFINE wants(x) == {c[2] : c \in {d \in DOMAIN nearPri : d[1] = x}}
           asked(x) == [f \in wants(x) |-> nearPri[<<x, f>>]]
           pick     == [x \in DOMAIN near |-> Arbitrate(near[x], asked(x))]
           who(f)   == {x \in DOMAIN near : pick[x] = f}
           offer(f) == [x \in who(f) |-> farPri[<<x, f>>]]
           winner   == [f \in DOMAIN far |-> Arbitrate(far[f], offer(f))]
           A == SeparablePairs(near, far, nearPri, farPri)
<1>1. A = {<<winner[f], f>> : f \in {g \in DOMAIN far : winner[g] # NoInput}}
  BY DEF SeparablePairs
<1>2. \A c \in R : c = <<c[1], c[2]>> /\ c[1] \in 0 .. n-1 /\ c[2] \in 0 .. k-1
  OBVIOUS
<1>3. DOMAIN near = 0 .. n-1 /\ DOMAIN far = 0 .. k-1
  BY DEF Staffed
<1>4. ASSUME NEW x \in 0 .. n-1, NEW f
      PROVE  f \in wants(x) <=> <<x, f>> \in R
  BY <1>2
<1>5. ASSUME NEW x \in 0 .. n-1
      PROVE  \/ wants(x) = {} /\ pick[x] = NoInput
             \/ pick[x] \in wants(x) /\ \A f \in wants(x) : nearPri[<<x, f>>] <= nearPri[<<x, pick[x]>>]
  <2>1. pick[x] = Arbitrate(near[x], asked(x))
    BY <1>3
  <2>2. DOMAIN asked(x) = wants(x) /\ \A f \in wants(x) : asked(x)[f] = nearPri[<<x, f>>]
    OBVIOUS
  <2>3. wants(x) \subseteq 0 .. k-1
    BY <1>2
  <2>4. \A f \in wants(x) : nearPri[<<x, f>>] \in Int
    BY <1>4 DEF Numbers
  <2> HIDE DEF pick, asked, wants
  <2>5. CASE wants(x) = {}
    BY <2>1, <2>2, <2>5 DEF Arbitrate
  <2>6. CASE wants(x) # {}
    <3>1. Asked(asked(x), k)
      BY <2>2, <2>3, <2>4, <2>6 DEF Asked
    <3>2. ArbiterOK(near[x]) /\ near[x].size = k
      BY DEF Staffed
    <3>3. pick[x] \in Top(asked(x))
      BY <2>1, <3>1, <3>2, ArbiterPicks
    <3> QED BY <2>2, <3>3 DEF Top
  <2> QED BY <2>5, <2>6
<1> HIDE DEF pick
<1>6. ASSUME NEW f \in 0 .. k-1, NEW x \in who(f)
      PROVE  x \in 0 .. n-1 /\ <<x, f>> \in R
  <2>1. x \in 0 .. n-1 /\ pick[x] = f /\ f # NoInput
    BY <1>3 DEF NoInput
  <2>2. f \in wants(x)
    BY <1>5, <2>1
  <2> QED BY <1>4, <2>1, <2>2
<1>7. ASSUME NEW f \in 0 .. k-1
      PROVE  \/ who(f) = {} /\ winner[f] = NoInput
             \/ winner[f] \in who(f) /\ \A x \in who(f) : farPri[<<x, f>>] <= farPri[<<winner[f], f>>]
  <2>1. winner[f] = Arbitrate(far[f], offer(f))
    BY <1>3
  <2>2. DOMAIN offer(f) = who(f) /\ \A x \in who(f) : offer(f)[x] = farPri[<<x, f>>]
    OBVIOUS
  <2>3. who(f) \subseteq 0 .. n-1 /\ \A x \in who(f) : farPri[<<x, f>>] \in Int
    BY <1>6 DEF Numbers
  <2> HIDE DEF winner, offer, who
  <2>5. CASE who(f) = {}
    BY <2>1, <2>2, <2>5 DEF Arbitrate
  <2>6. CASE who(f) # {}
    <3>1. Asked(offer(f), n)
      BY <2>2, <2>3, <2>6 DEF Asked
    <3>2. ArbiterOK(far[f]) /\ far[f].size = n
      BY DEF Staffed
    <3>3. winner[f] \in Top(offer(f))
      BY <2>1, <3>1, <3>2, ArbiterPicks
    <3> QED BY <2>2, <3>3 DEF Top
  <2> QED BY <2>5, <2>6
<1> HIDE DEF winner
<1>8. ASSUME NEW c \in A
      PROVE  c[2] \in 0 .. k-1 /\ c = <<winner[c[2]], c[2]>> /\ c[1] \in who(c[2])
  <2>1. PICK f \in 0 .. k-1 : c = <<winner[f], f>> /\ winner[f] # NoInput
    BY <1>1, <1>3
  <2>2. winner[f] \in who(f)
    BY <1>7, <2>1
  <2> HIDE DEF A, who
  <2> QED BY <2>1, <2>2
<1>9. A \subseteq R
  BY <1>6, <1>8
<1>10. Pairing(A)
  <2>1. \A c \in A : pick[c[1]] = c[2]
    BY <1>8
  <2> HIDE DEF A, who
  <2> QED BY <1>8, <2>1 DEF Pairing
<1>11. ASSUME NEW c \in R, pick[c[1]] = c[2]
       PROVE  Leading(R, nearPri, 1, c)
  <2>1. c[1] \in 0 .. n-1 /\ c[2] \in wants(c[1]) /\ c = <<c[1], c[2]>>
    BY <1>2, <1>4
  <2>2. \A f \in wants(c[1]) : nearPri[<<c[1], f>>] <= nearPri[<<c[1], c[2]>>]
    BY <1>5, <1>11, <2>1
  <2>3. \A d \in R : d[1] = c[1] => d[2] \in wants(c[1]) /\ d = <<c[1], d[2]>>
    BY <1>2, <1>4, <2>1
  <2> HIDE DEF wants
  <2> QED BY <2>1, <2>2, <2>3 DEF Leading
<1>12. \A c \in A : Leading(R, nearPri, 1, c)
  <2>1. \A c \in A : pick[c[1]] = c[2]
    BY <1>8
  <2> HIDE DEF A
  <2> QED BY <1>9, <1>11, <2>1
<1>13. ASSUME NEW c \in R
       PROVE  \E d \in R, e \in A :
                d[1] = c[1] /\ Leading(R, nearPri, 1, d) /\ e[2] = d[2] /\ farPri[d] <= farPri[e]
  <2>1. c[1] \in 0 .. n-1 /\ c[2] \in wants(c[1])
    BY <1>2, <1>4
  <2> DEFINE x == c[1]
             f == pick[x]
             d == <<x, f>>
  <2>2. f \in wants(x)
    BY <1>5, <2>1
  <2>3. d \in R /\ f \in 0 .. k-1 /\ x \in who(f)
    BY <1>2, <1>3, <1>4, <2>1, <2>2
  <2>4. Leading(R, nearPri, 1, d)
    BY <1>11, <2>3
  <2> HIDE DEF f
  <2>5. winner[f] \in who(f) /\ farPri[<<x, f>>] <= farPri[<<winner[f], f>>]
    BY <1>7, <2>3
  <2>6. winner[f] # NoInput
    <3>1. winner[f] \in 0 .. n-1
      BY <1>3, <2>5
    <3> QED BY <3>1 DEF NoInput
  <2>7. <<winner[f], f>> \in A
    BY <1>1, <1>3, <2>3, <2>6
  <2> HIDE DEF A, who, wants
  <2> QED BY <2>3, <2>4, <2>5, <2>7
<1>14. Settled(R, nearPri, farPri, 1, 2, A)
  <2> HIDE DEF A
  <2> QED BY <1>12, <1>13 DEF Settled
<1> QED BY <1>9, <1>10, <1>14

\* The arbiters of a separable allocator; the others have none.
ArbitersOK(n, a) ==
  IF n.type \in Separable
  THEN /\ a \in [in : [InPorts(n) -> {a.in[i] : i \in InPorts(n)}],
                 out : [OutPorts(n) -> {a.out[o] : o \in OutPorts(n)}]]
       /\ Staffed(a.in, n.inputs, n.outputs) /\ Staffed(a.out, n.outputs, n.inputs)
  ELSE a = [in |-> <<>>, out |-> <<>>]
-----------------------------------------------------------------------------
(***************************************************************************)
(* The search of max_size for an augmenting path.                          *)
(***************************************************************************)
\* The steps of the folds of the search, of the way back and of the augmentations.
EdgeStep(a, b, j)    == Reach(a.m, a.r, a.i, b, j)
NodeStep(a, b, i)    == Visit(a.m, a.r, b, i)
LevelStep(a, b, k)   == Level(a.m, a.r, b)
SourceStep(m, q, i)  == IF m.in[i] = None THEN Append(q, i) ELSE q
BackStep(b, w, k)    == Back(b, w)
AugmentStep(r, m, k) == Augment(m, r)

Edges      == INSTANCE FoldSteps WITH Op <- EdgeStep
Nodes      == INSTANCE FoldSteps WITH Op <- NodeStep
Levels     == INSTANCE FoldSteps WITH Op <- LevelStep
Sources    == INSTANCE FoldSteps WITH Op <- SourceStep
GoingBack  == INSTANCE FoldSteps WITH Op <- BackStep
Augmenting == INSTANCE FoldSteps WITH Op <- AugmentStep

\* The hypothesis of FoldLeftSteps, for each instance.
LEMMA SearchOrdered ==
  /\ Edges!Ordered /\ Nodes!Ordered /\ Levels!Ordered
  /\ Sources!Ordered /\ GoingBack!Ordered /\ Augmenting!Ordered
BY WellOrdered DEF Edges!Ordered, Nodes!Ordered, Levels!Ordered, Sources!Ordered,
                   GoingBack!Ordered, Augmenting!Ordered

\* The search resets `from' for as many outputs as there are inputs, and never
\* reaches or matches another.
Low(m) == \A o \in OutPorts(inst) : m.out[o] # None => o < inst.inputs

Searchable(m, r) ==
  Sides(inst) /\ Requests(inst, r) /\ Matched(inst, m, DOMAIN r) /\ Low(m)

Reached(b, o) == o < inst.inputs /\ b.from[o] # None

\* Input x was on the first stack, or its output was reached at depth d or before.
Near(m, b, dep, x, d) == m.in[x] = None \/ (Reached(b, m.in[x]) /\ dep[m.in[x]] <= d)

\* Output o was reached, at depth d, along a request from an input nearer by one.
Rooted(m, r, b, dep, o, d) ==
  /\ dep[o] = d /\ <<b.from[o], o>> \in DOMAIN r
  /\ Near(m, b, dep, b.from[o], d - 1)

\* A search of depth K: dep is where the outputs were reached, the end is an
\* unmatched one, and there is an end if an unmatched one was reached.
Found(m, r, b, dep, K) ==
  /\ b \in [from  : [OutPorts(inst) -> InPorts(inst) \cup {None}],
            stack : Seq(InPorts(inst)), end : OutPorts(inst) \cup {None}]
  /\ dep \in [OutPorts(inst) -> Nat]
  /\ \A o \in OutPorts(inst) : o >= inst.inputs => b.from[o] # None
  /\ \A o \in OutPorts(inst) :
       Reached(b, o) => \E d \in 1 .. K : Rooted(m, r, b, dep, o, d)
  /\ \A o \in OutPorts(inst) : Reached(b, o) /\ m.out[o] = None => b.end # None
  /\ b.end # None => Reached(b, b.end) /\ m.out[b.end] = None
  /\ \A k \in 1 .. Len(b.stack) : Near(m, b, dep, b.stack[k], K)

\* What was near before is near now.
StayNear(m, b, dep, b2, dep2) ==
  \A x \in InPorts(inst), d \in Int : Near(m, b, dep, x, d) => Near(m, b2, dep2, x, d)

\* The search b2 goes on where b was.
Grown(b, b2) ==
  /\ b.end # None => b2.end # None
  /\ \A o \in OutPorts(inst) : b.from[o] # None => b2.from[o] # None

\* The search has looked at the edge from i to j.
Tried(m, r, b, i, j) ==
  \/ b.end # None
  \/ <<i, j>> \notin DOMAIN r
  \/ m.in[i] = j
  \/ b.from[j] # None

LEMMA GrownTried ==
  ASSUME NEW m, NEW r, NEW b, NEW b2, Grown(b, b2), NEW i, NEW j \in OutPorts(inst), Tried(m, r, b, i, j)
  PROVE  Tried(m, r, b2, i, j)
BY DEF Grown, Tried

\* One edge.
LEMMA ReachFound ==
  ASSUME NEW m, NEW r, Searchable(m, r), NEW K \in Nat \ {0}, NEW b, NEW dep, Found(m, r, b, dep, K),
         NEW i \in InPorts(inst), Near(m, b, dep, i, K - 1), NEW j \in OutPorts(inst)
  PROVE  /\ \E dep2 : /\ Found(m, r, Reach(m, r, i, b, j), dep2, K)
                      /\ StayNear(m, b, dep, Reach(m, r, i, b, j), dep2)
         /\ Grown(b, Reach(m, r, i, b, j))
         /\ Tried(m, r, Reach(m, r, i, b, j), i, j)
<1> DEFINE b2 == Reach(m, r, i, b, j)
           stop == b.end # None \/ <<i, j>> \notin DOMAIN r \/ m.in[i] = j \/ b.from[j] # None
<1>1. CASE stop
  <2>1. b2 = b
    BY <1>1 DEF Reach
  <2>2. StayNear(m, b, dep, b, dep)
    BY DEF StayNear
  <2>3. Grown(b, b)
    BY DEF Grown
  <2>4. Tried(m, r, b, i, j)
    BY <1>1 DEF Tried
  <2> HIDE DEF b2
  <2> QED BY <2>1, <2>2, <2>3, <2>4 DEF b2
<1>2. CASE ~stop
  <2> DEFINE dep2 == [dep EXCEPT ![j] = K]
             x == m.out[j]
  <2>0. /\ b \in [from  : [OutPorts(inst) -> InPorts(inst) \cup {None}],
                  stack : Seq(InPorts(inst)), end : OutPorts(inst) \cup {None}]
        /\ dep \in [OutPorts(inst) -> Nat]
        /\ b.end = None /\ <<i, j>> \in DOMAIN r /\ b.from[j] = None /\ j < inst.inputs
    <3>1. j \in Int /\ inst.inputs \in Int
      BY DEF OutPorts, Searchable, Sides
    <3> QED BY <1>2, <3>1 DEF Found
  <2>1. /\ m \in Tables(inst)
        /\ \A y \in InPorts(inst), o \in OutPorts(inst) : m.in[y] = o <=> m.out[o] = y
    BY DEF Searchable, Matched
  <2>2. /\ b2.from = [b.from EXCEPT ![j] = i]
        /\ x = None => b2.end = j /\ b2.stack = b.stack
        /\ x # None => b2.end = None /\ b2.stack = Append(b.stack, x)
        /\ b2 \in [from  : [OutPorts(inst) -> InPorts(inst) \cup {None}],
                   stack : Seq(InPorts(inst)), end : OutPorts(inst) \cup {None}]
    <3> DEFINE T == [from  : [OutPorts(inst) -> InPorts(inst) \cup {None}],
                     stack : Seq(InPorts(inst)), end : OutPorts(inst) \cup {None}]
               f == [b.from EXCEPT ![j] = i]
    <3>1. f \in [OutPorts(inst) -> InPorts(inst) \cup {None}]
      BY <2>0
    <3>2. CASE x = None
      <4>1. b2 = [b EXCEPT !.from[j] = i, !.end = j]
        BY <1>2, <3>2 DEF Reach
      <4> HIDE DEF x, b2
      <4>2. b2 = [from |-> f, stack |-> b.stack, end |-> j]
        BY <2>0, <4>1
      <4> HIDE DEF f
      <4>3. b2.from = f /\ b2.stack = b.stack /\ b2.end = j /\ b2 \in T
        BY <2>0, <3>1, <4>2
      <4> QED BY <3>2, <4>3 DEF f
    <3>3. CASE x # None
      <4>1. b2 = [b EXCEPT !.from[j] = i, !.stack = Append(b.stack, x)]
        BY <1>2, <2>0, <3>3 DEF Reach
      <4>2. x \in InPorts(inst)
        BY <2>1, <3>3 DEF Tables
      <4> HIDE DEF x, b2
      <4>3. b2 = [from |-> f, stack |-> Append(b.stack, x), end |-> None]
        BY <2>0, <4>1
      <4> HIDE DEF f
      <4>4. Append(b.stack, x) \in Seq(InPorts(inst))
        BY <2>0, <4>2
      <4> DEFINE q == Append(b.stack, x)
      <4> HIDE DEF q
      <4>5. b2.from = f /\ b2.stack = q /\ b2.end = None /\ b2 \in T
        BY <3>1, <4>3, <4>4 DEF q
      <4> QED BY <3>3, <4>5 DEF f, q
    <3> QED BY <3>2, <3>3
  <2> HIDE DEF b2
  <2>3. \A o \in OutPorts(inst) : b2.from[o] = IF o = j THEN i ELSE b.from[o]
    BY <2>0, <2>2
  <2>4. i # None /\ K \in Nat
    BY DEF InPorts, None
  <2>5. \A o \in OutPorts(inst) : Reached(b2, o) <=> o = j \/ Reached(b, o)
    BY <2>0, <2>3, <2>4 DEF Reached
  <2>6. dep2 \in [OutPorts(inst) -> Nat] /\ \A o \in OutPorts(inst) : dep2[o] = IF o = j THEN K ELSE dep[o]
    BY <2>0, <2>4
  <2>7. ~Reached(b, j)
    BY <2>0 DEF Reached
  <2>8. \A y \in InPorts(inst) : m.in[y] # None => m.in[y] \in OutPorts(inst)
    BY <2>1 DEF Tables
  <2> HIDE DEF dep2
  <2>9. StayNear(m, b, dep, b2, dep2)
    <3> SUFFICES ASSUME NEW y \in InPorts(inst), NEW d \in Int, Near(m, b, dep, y, d)
                 PROVE  Near(m, b2, dep2, y, d)
      BY DEF StayNear
    <3> QED BY <2>5, <2>6, <2>7, <2>8 DEF Near
  <2>10. ASSUME NEW o \in OutPorts(inst), Reached(b2, o)
         PROVE  \E d \in 1 .. K : Rooted(m, r, b2, dep2, o, d)
    <3>1. CASE o = j
      <4>1. Near(m, b2, dep2, i, K - 1)
        BY <2>4, <2>9 DEF StayNear
      <4>2. Rooted(m, r, b2, dep2, o, K)
        BY <2>0, <2>3, <2>6, <3>1, <4>1 DEF Rooted
      <4> QED BY <4>2
    <3>2. CASE o # j
      <4>1. PICK d \in 1 .. K : Rooted(m, r, b, dep, o, d)
        BY <2>5, <2>10, <3>2 DEF Found
      <4>2. b.from[o] \in InPorts(inst)
        BY <2>0, <2>5, <2>10, <3>2 DEF Reached
      <4>3. d - 1 \in Int /\ Near(m, b, dep, b.from[o], d - 1)
        BY <4>1 DEF Rooted
      <4>4. Near(m, b2, dep2, b.from[o], d - 1)
        BY <2>9, <4>2, <4>3 DEF StayNear
      <4> QED BY <2>3, <2>6, <3>2, <4>1, <4>4 DEF Rooted
    <3> QED BY <3>1, <3>2
  <2>11. ASSUME NEW k \in 1 .. Len(b2.stack)
         PROVE  Near(m, b2, dep2, b2.stack[k], K)
    <3>1. CASE k \in 1 .. Len(b.stack) /\ b2.stack[k] = b.stack[k]
      <4>1. b.stack[k] \in InPorts(inst) /\ Near(m, b, dep, b.stack[k], K)
        BY <2>0, <3>1 DEF Found
      <4> QED BY <2>4, <2>9, <3>1, <4>1 DEF StayNear
    <3>2. CASE x # None /\ b2.stack[k] = x
      <4>1. x \in InPorts(inst) /\ m.in[x] = j
        BY <2>1, <3>2 DEF Tables
      <4>2. Reached(b2, j) /\ dep2[j] <= K
        BY <2>4, <2>5, <2>6
      <4> QED BY <3>2, <4>1, <4>2 DEF Near
    <3>3. b2.stack = b.stack \/ (b2.stack = Append(b.stack, x) /\ x # None)
      BY <2>2
    <3>4. b.stack \in Seq(InPorts(inst))
      BY <2>0
    <3> HIDE DEF x
    <3> QED BY <3>1, <3>2, <3>3, <3>4
  <2>12. \A o \in OutPorts(inst) : Reached(b2, o) /\ m.out[o] = None => b2.end # None
    <3>1. j # None
      BY DEF OutPorts, None
    <3> QED BY <2>0, <2>2, <2>5, <3>1 DEF Found
  <2>13. b2.end # None => Reached(b2, b2.end) /\ m.out[b2.end] = None
    BY <2>2, <2>5
  <2>14. \A o \in OutPorts(inst) : o >= inst.inputs => b2.from[o] # None
    BY <2>3, <2>4 DEF Found
  <2>15. Found(m, r, b2, dep2, K)
    BY <2>2, <2>6, <2>10, <2>11, <2>12, <2>13, <2>14 DEF Found
  <2>16. Grown(b, b2)
    BY <2>0, <2>3, <2>4 DEF Grown
  <2>17. Tried(m, r, b2, i, j)
    BY <2>3, <2>4 DEF Tried
  <2> QED BY <2>9, <2>15, <2>16, <2>17 DEF b2
<1> QED BY <1>1, <1>2

\* The search has come to input x.
Entered(m, b, x) == m.in[x] = None \/ Reached(b, m.in[x])

\* Since b0 the search has come to the inputs of its stack, and to no others.
Pushed(m, b0, b) ==
  /\ \A x \in InPorts(inst) :
       Entered(m, b, x) => Entered(m, b0, x) \/ \E e \in 1 .. Len(b.stack) : b.stack[e] = x
  /\ \A e \in 1 .. Len(b.stack) : Entered(m, b, b.stack[e]) /\ ~Entered(m, b0, b.stack[e])

LEMMA ReachPushed ==
  ASSUME NEW m, NEW r, Searchable(m, r), NEW K \in Nat, NEW b, NEW dep, Found(m, r, b, dep, K),
         NEW b0, Grown(b0, b), Pushed(m, b0, b), NEW i \in InPorts(inst), NEW j \in OutPorts(inst)
  PROVE  Pushed(m, b0, Reach(m, r, i, b, j))
<1> DEFINE b2 == Reach(m, r, i, b, j)
           stop == b.end # None \/ <<i, j>> \notin DOMAIN r \/ m.in[i] = j \/ b.from[j] # None
           x == m.out[j]
<1>1. CASE stop
  BY <1>1 DEF Reach
<1>2. CASE ~stop
  <2>0. /\ b.from \in [OutPorts(inst) -> InPorts(inst) \cup {None}]
        /\ b.stack \in Seq(InPorts(inst))
        /\ b = [from |-> b.from, stack |-> b.stack, end |-> b.end]
        /\ b.from[j] = None
    BY <1>2 DEF Found
  <2>1. /\ m \in Tables(inst)
        /\ \A y \in InPorts(inst), o \in OutPorts(inst) : m.in[y] = o <=> m.out[o] = y
    BY DEF Searchable, Matched
  <2>2. b2.from = [b.from EXCEPT ![j] = i] /\ b2.stack = IF x = None THEN b.stack ELSE Append(b.stack, x)
    <3>1. CASE x = None
      <4>1. b2 = [b EXCEPT !.from[j] = i, !.end = j]
        BY <1>2, <3>1 DEF Reach
      <4> HIDE DEF x, b2
      <4> QED BY <2>0, <3>1, <4>1
    <3>2. CASE x # None
      <4>1. b2 = [b EXCEPT !.from[j] = i, !.stack = Append(b.stack, x)]
        BY <1>2, <2>0, <3>2 DEF Reach
      <4> HIDE DEF x, b2
      <4> QED BY <2>0, <3>2, <4>1
    <3> QED BY <3>1, <3>2
  <2> HIDE DEF b2
  <2>3. \A o \in OutPorts(inst) : b2.from[o] = IF o = j THEN i ELSE b.from[o]
    BY <2>0, <2>2
  <2>4. i # None /\ j # None
    BY DEF InPorts, OutPorts, None
  <2>5. \A o \in OutPorts(inst) : Reached(b2, o) => o = j \/ Reached(b, o)
    BY <2>3 DEF Reached
  <2>6. \A o \in OutPorts(inst) : Reached(b, o) => Reached(b2, o)
    BY <2>3, <2>4 DEF Reached
  <2>7. \A y \in InPorts(inst) : m.in[y] # None => m.in[y] \in OutPorts(inst)
    BY <2>1 DEF Tables
  <2>8. ~Reached(b0, j)
    BY <2>0 DEF Reached, Grown
  <2>9. x # None => x \in InPorts(inst) /\ m.in[x] = j
    BY <2>1 DEF Tables
  <2>10. \A y \in InPorts(inst) : Entered(m, b, y) => Entered(m, b2, y)
    BY <2>6, <2>7 DEF Entered
  <2>11. j < inst.inputs => Reached(b2, j)
    BY <2>3, <2>4 DEF Reached
  <2>12. j < inst.inputs
    <3>1. j \in Int /\ inst.inputs \in Int
      BY DEF OutPorts, Searchable, Sides
    <3> QED BY <2>0, <3>1 DEF Found
  <2>13. \A k \in 1 .. Len(b.stack) : b2.stack[k] = b.stack[k] /\ b.stack[k] \in InPorts(inst)
    <3> HIDE DEF x
    <3> QED BY <2>0, <2>2
  <2>14. ASSUME NEW y \in InPorts(inst), Entered(m, b2, y)
         PROVE  Entered(m, b0, y) \/ \E e \in 1 .. Len(b2.stack) : b2.stack[e] = y
    <3>1. CASE m.in[y] = j
      <4>1. x = y /\ x # None
        <5>1. None \notin InPorts(inst)
          BY DEF InPorts, None
        <5> QED BY <2>1, <3>1, <5>1
      <4>2. Len(b2.stack) \in 1 .. Len(b2.stack) /\ b2.stack[Len(b2.stack)] = x
        <5> HIDE DEF x
        <5> QED BY <2>0, <2>2, <4>1
      <4> QED BY <4>1, <4>2
    <3>2. CASE m.in[y] # j
      <4>1. Entered(m, b, y)
        BY <2>5, <2>7, <2>14, <3>2 DEF Entered
      <4>2. CASE \E e \in 1 .. Len(b.stack) : b.stack[e] = y
        <5>1. PICK e \in 1 .. Len(b.stack) : b.stack[e] = y
          BY <4>2
        <5>2. e \in 1 .. Len(b2.stack)
          <6> HIDE DEF x
          <6> QED BY <2>0, <2>2
        <5> QED BY <2>13, <5>1, <5>2
      <4> QED BY <4>1, <4>2 DEF Pushed
    <3> QED BY <3>1, <3>2
  <2>15. ASSUME NEW e \in 1 .. Len(b2.stack)
         PROVE  Entered(m, b2, b2.stack[e]) /\ ~Entered(m, b0, b2.stack[e])
    <3>1. CASE e \in 1 .. Len(b.stack)
      <4>1. Entered(m, b, b.stack[e]) /\ ~Entered(m, b0, b.stack[e])
        BY <3>1 DEF Pushed
      <4> QED BY <2>10, <2>13, <3>1, <4>1
    <3>2. CASE e \notin 1 .. Len(b.stack)
      <4>1. x # None /\ b2.stack[e] = x
        <5> HIDE DEF x
        <5> QED BY <2>0, <2>2, <3>2
      <4>2. m.in[x] = j
        BY <2>9, <4>1
      <4> QED BY <2>4, <2>8, <2>11, <2>12, <4>1, <4>2 DEF Entered
    <3> QED BY <3>1, <3>2
  <2>16. Pushed(m, b0, b2)
    BY <2>14, <2>15 DEF Pushed
  <2> QED BY <2>16 DEF b2
<1> QED BY <1>1, <1>2

\* The search at depth K, while it goes through the stack s of the depth before.
InLevel(m, r, b, K, s) ==
  \E dep : Found(m, r, b, dep, K) /\ \A e \in 1 .. Len(s) : Near(m, b, dep, s[e], K - 1)

LEMMA ReachInLevel ==
  ASSUME NEW m, NEW r, Searchable(m, r), NEW K \in Nat \ {0}, NEW s \in Seq(InPorts(inst)),
         NEW b, InLevel(m, r, b, K, s), NEW e \in 1 .. Len(s), NEW j \in OutPorts(inst),
         NEW b0, Grown(b0, b), Pushed(m, b0, b)
  PROVE  /\ InLevel(m, r, Reach(m, r, s[e], b, j), K, s)
         /\ Pushed(m, b0, Reach(m, r, s[e], b, j))
         /\ Grown(b, Reach(m, r, s[e], b, j))
         /\ Tried(m, r, Reach(m, r, s[e], b, j), s[e], j)
<1>1. PICK dep : Found(m, r, b, dep, K) /\ \A f \in 1 .. Len(s) : Near(m, b, dep, s[f], K - 1)
  BY DEF InLevel
<1>2. s[e] \in InPorts(inst) /\ Near(m, b, dep, s[e], K - 1)
  BY <1>1
<1> DEFINE b2 == Reach(m, r, s[e], b, j)
<1>3. /\ \E dep2 : Found(m, r, b2, dep2, K) /\ StayNear(m, b, dep, b2, dep2)
      /\ Grown(b, b2) /\ Tried(m, r, b2, s[e], j)
  BY <1>1, <1>2, ReachFound
<1>7. Pushed(m, b0, b2)
  BY <1>1, <1>2, ReachPushed
<1> HIDE DEF b2
<1>4. PICK dep2 : Found(m, r, b2, dep2, K) /\ StayNear(m, b, dep, b2, dep2)
  BY <1>3
<1>5. ASSUME NEW f \in 1 .. Len(s) PROVE Near(m, b2, dep2, s[f], K - 1)
  <2>1. s[f] \in InPorts(inst) /\ K - 1 \in Int
    OBVIOUS
  <2> QED BY <1>1, <1>4, <2>1 DEF StayNear
<1>6. InLevel(m, r, b2, K, s)
  BY <1>4, <1>5 DEF InLevel
<1> QED BY <1>3, <1>6, <1>7 DEF b2

LEMMA GrownTrans ==
  ASSUME NEW a, NEW b, NEW c, Grown(a, b), Grown(b, c)
  PROVE  Grown(a, c)
BY DEF Grown

\* One input, with all its edges.
LEMMA VisitInLevel ==
  ASSUME NEW m, NEW r, Searchable(m, r), NEW K \in Nat \ {0}, NEW s \in Seq(InPorts(inst)),
         NEW b, InLevel(m, r, b, K, s), NEW e \in 1 .. Len(s),
         NEW b0, Grown(b0, b), Pushed(m, b0, b)
  PROVE  /\ InLevel(m, r, Visit(m, r, b, s[e]), K, s)
         /\ Pushed(m, b0, Visit(m, r, b, s[e]))
         /\ Grown(b, Visit(m, r, b, s[e]))
         /\ \A j \in OutPorts(inst) : Tried(m, r, Visit(m, r, b, s[e]), s[e], j)
<1> DEFINE a == [m |-> m, r |-> r, i |-> s[e]]
           q == [k \in 1 .. inst.outputs |-> k - 1]
           n == inst.outputs
<1>0. n \in Nat /\ q \in Seq(Int) /\ Len(q) = n
  BY DEF Searchable, Sides
<1>1. Edges!LeftFold(a, b, q) = Visit(m, r, b, s[e])
  BY DEF EdgeStep, Visit, FoldLeft, MapThenFoldSet, Max, Edges!LeftFold
<1>2. \A k \in 1 .. n : q[k] = k - 1
  OBVIOUS
<1>3. \A z, j : EdgeStep(a, z, j) = Reach(m, r, s[e], z, j)
  BY DEF EdgeStep
<1> HIDE DEF q, a
<1>4. PICK h : /\ Edges!LeftFold(a, b, q) = h[Len(q)]
               /\ h[0] = b
               /\ \A k \in 1 .. Len(q) : h[k] = EdgeStep(a, h[k - 1], q[k])
  <2> DEFINE S == Int
  <2>1. q \in Seq(S)
    BY <1>0
  <2> HIDE DEF S
  <2>2. \E h : /\ Edges!LeftFold(a, b, q) = h[Len(q)]
               /\ h[0] = b
               /\ \A k \in 1 .. Len(q) : h[k] = EdgeStep(a, h[k - 1], q[k])
    BY ONLY <2>1, Edges!FoldLeftSteps, SearchOrdered, SMTT(40)
  <2> QED BY <2>2
<1> DEFINE P == {k \in 0 .. n : /\ InLevel(m, r, h[k], K, s) /\ Grown(b, h[k]) /\ Pushed(m, b0, h[k])
                                /\ \A j \in 0 .. k-1 : Tried(m, r, h[k], s[e], j)}
<1>5. 0 \in P
  BY <1>0, <1>4 DEF Grown
<1>6. ASSUME NEW k \in 1 .. n, k-1 \in P
      PROVE  k \in P
  <2>1. /\ InLevel(m, r, h[k-1], K, s) /\ Grown(b, h[k-1]) /\ Pushed(m, b0, h[k-1])
        /\ \A j \in 0 .. (k-1)-1 : Tried(m, r, h[k-1], s[e], j)
    BY <1>6
  <2>7. Grown(b0, h[k-1])
    BY <2>1, GrownTrans
  <2>2. h[k] = Reach(m, r, s[e], h[k-1], k-1)
    BY <1>0, <1>2, <1>3, <1>4
  <2>3. k-1 \in OutPorts(inst)
    BY <1>0 DEF OutPorts
  <2>4. /\ InLevel(m, r, h[k], K, s) /\ Grown(h[k-1], h[k]) /\ Tried(m, r, h[k], s[e], k-1)
        /\ Pushed(m, b0, h[k])
    BY <2>1, <2>2, <2>3, <2>7, ReachInLevel
  <2>5. ASSUME NEW j \in 0 .. k-1 PROVE Tried(m, r, h[k], s[e], j)
    <3>1. CASE j = k-1
      BY <2>4, <3>1
    <3>2. CASE j # k-1
      <4>1. j \in OutPorts(inst) /\ j \in 0 .. (k-1)-1
        BY <1>0, <3>2 DEF OutPorts
      <4> QED BY <2>1, <2>4, <4>1, GrownTried
    <3> QED BY <3>1, <3>2
  <2>6. Grown(b, h[k])
    BY <2>1, <2>4, GrownTrans
  <2> QED BY <1>0, <2>4, <2>5, <2>6
<1>7. n \in P
  <2> HIDE DEF P, n
  <2> QED BY <1>0, <1>5, <1>6, CountUp
<1>8. OutPorts(inst) = 0 .. n-1
  BY DEF OutPorts
<1> QED BY <1>0, <1>1, <1>4, <1>7, <1>8

\* A near input stays near when the bound grows.
LEMMA NearLater ==
  ASSUME NEW m, NEW r, Searchable(m, r), NEW b, NEW dep \in [OutPorts(inst) -> Nat],
         NEW x \in InPorts(inst), NEW d \in Int, NEW e \in Int, d <= e, Near(m, b, dep, x, d)
  PROVE  Near(m, b, dep, x, e)
<1>1. CASE m.in[x] = None
  BY <1>1 DEF Near
<1>2. CASE m.in[x] # None
  <2>1. m.in[x] \in OutPorts(inst)
    BY <1>2 DEF Searchable, Matched, Tables
  <2>2. Reached(b, m.in[x]) /\ dep[m.in[x]] <= d /\ dep[m.in[x]] \in Nat
    BY <1>2, <2>1 DEF Near
  <2>3. dep[m.in[x]] <= e
    BY <2>2
  <2> QED BY <2>2, <2>3 DEF Near
<1> QED BY <1>1, <1>2

\* The end of a level is a search of the next depth, whose stack is empty.
LEMMA NextLevel ==
  ASSUME NEW m, NEW r, Searchable(m, r), NEW K \in Nat, NEW b, NEW dep, Found(m, r, b, dep, K)
  PROVE  /\ Found(m, r, b, dep, K + 1)
         /\ Found(m, r, [b EXCEPT !.stack = <<>>], dep, K + 1)
         /\ \A e \in 1 .. Len(b.stack) : Near(m, [b EXCEPT !.stack = <<>>], dep, b.stack[e], (K + 1) - 1)
<1> DEFINE T == [from  : [OutPorts(inst) -> InPorts(inst) \cup {None}],
                 stack : Seq(InPorts(inst)), end : OutPorts(inst) \cup {None}]
           c == [b EXCEPT !.stack = <<>>]
<1>1. b \in T /\ dep \in [OutPorts(inst) -> Nat]
  BY DEF Found
<1>2. c.from = b.from /\ c.end = b.end /\ c.stack = <<>> /\ c \in T
  <2>1. <<>> \in Seq(InPorts(inst))
    OBVIOUS
  <2>2. c = [from |-> b.from, stack |-> <<>>, end |-> b.end]
    BY <1>1
  <2> HIDE DEF c
  <2> QED BY <1>1, <2>1, <2>2
<1> HIDE DEF c, T
<1>3. ASSUME NEW o \in OutPorts(inst), Reached(b, o)
      PROVE  \E d \in 1 .. K + 1 : Rooted(m, r, b, dep, o, d)
  <2>1. PICK d \in 1 .. K : Rooted(m, r, b, dep, o, d)
    BY <1>3 DEF Found
  <2>2. d \in 1 .. K + 1
    OBVIOUS
  <2> QED BY <2>1, <2>2
<1>4. ASSUME NEW k \in 1 .. Len(b.stack)
      PROVE  Near(m, b, dep, b.stack[k], K) /\ Near(m, b, dep, b.stack[k], K + 1)
  <2>1. Near(m, b, dep, b.stack[k], K)
    BY DEF Found
  <2>2. b.stack[k] \in InPorts(inst)
    BY <1>1 DEF T
  <2>3. K + 1 \in Int /\ K <= K + 1 /\ K \in Int
    OBVIOUS
  <2>4. Near(m, b, dep, b.stack[k], K + 1)
    BY <1>1, <2>1, <2>2, <2>3, NearLater
  <2> QED BY <2>1, <2>4
<1>5. /\ \A o \in OutPorts(inst) : o >= inst.inputs => b.from[o] # None
      /\ \A o \in OutPorts(inst) : Reached(b, o) /\ m.out[o] = None => b.end # None
      /\ b.end # None => Reached(b, b.end) /\ m.out[b.end] = None
  BY DEF Found
<1>6. \A o : Reached(c, o) <=> Reached(b, o)
  BY <1>2 DEF Reached
<1>7. \A x, d : Near(m, c, dep, x, d) <=> Near(m, b, dep, x, d)
  BY <1>6 DEF Near
<1>8. \A o, d : Rooted(m, r, c, dep, o, d) <=> Rooted(m, r, b, dep, o, d)
  BY <1>2, <1>7 DEF Rooted
<1>9. Found(m, r, b, dep, K + 1)
  BY <1>1, <1>3, <1>4, <1>5 DEF Found, T
<1>10. 1 .. Len(c.stack) = {}
  BY <1>2
<1>11. Found(m, r, c, dep, K + 1)
  <2>1. \A o \in OutPorts(inst) : Reached(c, o) => \E d \in 1 .. K + 1 : Rooted(m, r, c, dep, o, d)
    BY <1>3, <1>6, <1>8
  <2>2. /\ \A o \in OutPorts(inst) : o >= inst.inputs => c.from[o] # None
        /\ \A o \in OutPorts(inst) : Reached(c, o) /\ m.out[o] = None => c.end # None
        /\ c.end # None => Reached(c, c.end) /\ m.out[c.end] = None
    BY <1>2, <1>5, <1>6
  <2>3. \A k \in 1 .. Len(c.stack) : Near(m, c, dep, c.stack[k], K + 1)
    BY <1>10
  <2> QED BY <1>1, <1>2, <2>1, <2>2, <2>3 DEF Found, T
<1>12. (K + 1) - 1 = K
  OBVIOUS
<1> QED BY <1>4, <1>7, <1>9, <1>11, <1>12 DEF c

\* One level.
LEMMA LevelFound ==
  ASSUME NEW m, NEW r, Searchable(m, r), NEW K \in Nat, NEW b,
         \E dep : Found(m, r, b, dep, K)
  PROVE  /\ \E dep : Found(m, r, Level(m, r, b), dep, K + 1)
         /\ Grown(b, Level(m, r, b))
         /\ \A e \in 1 .. Len(b.stack), j \in OutPorts(inst) :
              Tried(m, r, Level(m, r, b), b.stack[e], j)
         /\ b.end = None => Pushed(m, b, Level(m, r, b))
         /\ b.stack = <<>> => Level(m, r, b).stack = <<>>
<1>1. PICK dep : Found(m, r, b, dep, K)
  OBVIOUS
<1>2. CASE b.end # None
  <2>1. Level(m, r, b) = b
    BY <1>2 DEF Level
  <2>2. Found(m, r, b, dep, K + 1)
    BY <1>1, NextLevel
  <2>3. Grown(b, b) /\ \A i, j : Tried(m, r, b, i, j)
    BY <1>2 DEF Grown, Tried
  <2> QED BY <1>2, <2>1, <2>2, <2>3
<1>3. CASE b.end = None
  <2> DEFINE a == [m |-> m, r |-> r]
             s == b.stack
             n == Len(s)
             c == [b EXCEPT !.stack = <<>>]
  <2>0. b \in [from  : [OutPorts(inst) -> InPorts(inst) \cup {None}],
               stack : Seq(InPorts(inst)), end : OutPorts(inst) \cup {None}]
    BY <1>1 DEF Found
  <2>1. s \in Seq(InPorts(inst)) /\ n \in Nat /\ c.from = b.from /\ c.end = b.end
    BY <2>0
  <2>2. Nodes!LeftFold(a, c, s) = Level(m, r, b)
    BY <1>3 DEF NodeStep, Level, FoldLeft, MapThenFoldSet, Max, Nodes!LeftFold
  <2>3. \A c0, i : NodeStep(a, c0, i) = Visit(m, r, c0, i)
    BY DEF NodeStep
  <2> HIDE DEF a
  <2>4. InLevel(m, r, c, K + 1, s)
    BY <1>1, NextLevel DEF InLevel
  <2>5. Grown(b, c) /\ Pushed(m, b, c) /\ c.stack = <<>>
    <3>1. c.stack = <<>> /\ 1 .. Len(c.stack) = {}
      BY <2>0
    <3>2. \A x \in InPorts(inst) : Entered(m, c, x) => Entered(m, b, x)
      BY <2>1 DEF Entered, Reached
    <3> HIDE DEF c
    <3> QED BY <2>1, <3>1, <3>2 DEF Grown, Pushed
  <2> HIDE DEF c, s
  <2>6. PICK h : /\ Nodes!LeftFold(a, c, s) = h[Len(s)]
                 /\ h[0] = c
                 /\ \A k \in 1 .. Len(s) : h[k] = NodeStep(a, h[k - 1], s[k])
    BY <2>1, Nodes!FoldLeftSteps, SearchOrdered
  <2> DEFINE P == {k \in 0 .. n : /\ InLevel(m, r, h[k], K + 1, s) /\ Grown(b, h[k]) /\ Pushed(m, b, h[k])
                                  /\ \A e \in 1 .. k, j \in OutPorts(inst) : Tried(m, r, h[k], s[e], j)}
  <2>7. 0 \in P
    BY <2>1, <2>4, <2>5, <2>6
  <2>8. ASSUME NEW k \in 1 .. n, k - 1 \in P
        PROVE  k \in P
    <3>1. /\ InLevel(m, r, h[k-1], K + 1, s) /\ Grown(b, h[k-1]) /\ Pushed(m, b, h[k-1])
          /\ \A e \in 1 .. k-1, j \in OutPorts(inst) : Tried(m, r, h[k-1], s[e], j)
      BY <2>8
    <3>2. h[k] = Visit(m, r, h[k-1], s[k])
      BY <2>1, <2>3, <2>6
    <3>3. /\ InLevel(m, r, h[k], K + 1, s) /\ Grown(h[k-1], h[k]) /\ Pushed(m, b, h[k])
          /\ \A j \in OutPorts(inst) : Tried(m, r, h[k], s[k], j)
      <4>1. K + 1 \in Nat \ {0} /\ k \in 1 .. Len(s)
        OBVIOUS
      <4> QED BY <2>1, <3>1, <3>2, <4>1, VisitInLevel
    <3>4. Grown(b, h[k])
      BY <3>1, <3>3, GrownTrans
    <3>5. ASSUME NEW e \in 1 .. k, NEW j \in OutPorts(inst)
          PROVE  Tried(m, r, h[k], s[e], j)
      <4>1. CASE e = k
        BY <3>3, <4>1
      <4>2. CASE e # k
        <5>1. e \in 1 .. k-1
          BY <2>1, <4>2
        <5> QED BY <3>1, <3>3, <5>1, GrownTried
      <4> QED BY <4>1, <4>2
    <3> QED BY <2>1, <3>3, <3>4, <3>5
  <2>9. n \in P
    <3> HIDE DEF P, n
    <3> QED BY <2>1, <2>7, <2>8, CountUp
  <2>10. /\ InLevel(m, r, Level(m, r, b), K + 1, s) /\ Grown(b, Level(m, r, b))
         /\ \A e \in 1 .. Len(s), j \in OutPorts(inst) : Tried(m, r, Level(m, r, b), s[e], j)
         /\ Pushed(m, b, Level(m, r, b))
    BY <2>2, <2>6, <2>9
  <2>11. s = <<>> => Level(m, r, b).stack = <<>>
    <3>1. s = <<>> => Len(s) = 0
      BY <2>1
    <3> QED BY <2>2, <2>5, <2>6, <3>1
  <2> QED BY <2>10, <2>11 DEF InLevel, s
<1> QED BY <1>2, <1>3

\* Every edge of an input the search has come to has been looked at, or will be
\* from the stack; K levels that did not end the search came to an input each.
Settling(m, r, b, K) ==
  b.end = None =>
    /\ \A x \in InPorts(inst) :
         Entered(m, b, x) => \/ \E e \in 1 .. Len(b.stack) : b.stack[e] = x
                            \/ \A j \in OutPorts(inst) : Tried(m, r, b, x, j)
    /\ b.stack # <<>> => Cardinality({x \in InPorts(inst) : Entered(m, b, x)}) >= K + 1

LEMMA InputsFinite ==
  ASSUME Sides(inst), NEW S, S \subseteq InPorts(inst)
  PROVE  IsFiniteSet(S) /\ Cardinality(S) \in Nat /\ Cardinality(S) <= inst.inputs
         /\ Cardinality(InPorts(inst)) = inst.inputs /\ IsFiniteSet(InPorts(inst))
<1> DEFINE n == inst.inputs
<1>1. n \in Nat \ {0}
  BY DEF Sides
<1>2. IsFiniteSet(InPorts(inst)) /\ Cardinality(InPorts(inst)) = n
  <2>1. InPorts(inst) = 0 .. n-1
    BY DEF InPorts
  <2> HIDE DEF n
  <2>2. 0 \in Int /\ n-1 \in Int /\ (n-1) - 0 + 1 = n /\ ~(0 > n-1)
    BY <1>1
  <2> QED BY <2>1, <2>2, FS_Interval
<1> QED BY <1>2, FS_Subset, FS_CardinalityType

LEMMA LevelSettles ==
  ASSUME NEW m, NEW r, Searchable(m, r), NEW K \in Nat, NEW b,
         \E dep : Found(m, r, b, dep, K), Settling(m, r, b, K)
  PROVE  Settling(m, r, Level(m, r, b), K + 1)
<1> DEFINE c == Level(m, r, b)
           V(a) == {x \in InPorts(inst) : Entered(m, a, x)}
<1>1. /\ \E dep : Found(m, r, c, dep, K + 1)
      /\ Grown(b, c)
      /\ \A e \in 1 .. Len(b.stack), j \in OutPorts(inst) : Tried(m, r, c, b.stack[e], j)
      /\ b.end = None => Pushed(m, b, c)
      /\ b.stack = <<>> => c.stack = <<>>
  BY LevelFound
<1> HIDE DEF c
<1> SUFFICES ASSUME c.end = None PROVE Settling(m, r, c, K + 1)
  BY DEF Settling, c
<1>2. b.end = None /\ Pushed(m, b, c)
  BY <1>1 DEF Grown
<1>3. ASSUME NEW x \in InPorts(inst), Entered(m, c, x), ~\E e \in 1 .. Len(c.stack) : c.stack[e] = x,
             NEW j \in OutPorts(inst)
      PROVE  Tried(m, r, c, x, j)
  <2>1. Entered(m, b, x)
    BY <1>2, <1>3 DEF Pushed
  <2>2. CASE \E e \in 1 .. Len(b.stack) : b.stack[e] = x
    BY <1>1, <2>2
  <2>3. CASE Tried(m, r, b, x, j)
    BY <1>1, <2>3, GrownTried
  <2> QED BY <1>2, <2>1, <2>2, <2>3 DEF Settling
<1>4. ASSUME c.stack # <<>> PROVE Cardinality(V(c)) >= (K + 1) + 1
  <2>1. Cardinality(V(b)) >= K + 1
    BY <1>1, <1>2, <1>4 DEF Settling
  <2>2. c.stack \in Seq(InPorts(inst))
    BY <1>1 DEF Found
  <2>3. 1 \in 1 .. Len(c.stack) /\ c.stack[1] \in InPorts(inst)
    BY <1>4, <2>2
  <2> DEFINE x == c.stack[1]
  <2>4. x \in V(c) /\ x \notin V(b)
    BY <1>2, <2>3 DEF Pushed
  <2>5. V(b) \subseteq V(c)
    <3>1. \A y \in InPorts(inst) : m.in[y] # None => m.in[y] \in OutPorts(inst)
      BY DEF Searchable, Matched, Tables
    <3> QED BY <1>1, <3>1 DEF Entered, Reached, Grown
  <2>6. Sides(inst) /\ V(b) \subseteq InPorts(inst) /\ V(c) \subseteq InPorts(inst)
    BY DEF Searchable
  <2> HIDE DEF V, x
  <2>7. /\ IsFiniteSet(V(b)) /\ Cardinality(V(b)) \in Nat
        /\ IsFiniteSet(V(c)) /\ Cardinality(V(c)) \in Nat
    BY <2>6, InputsFinite
  <2>8. Cardinality(V(b) \cup {x}) = Cardinality(V(b)) + 1
    BY <2>4, <2>7, FS_AddElement
  <2>9. V(b) \cup {x} \subseteq V(c)
    BY <2>4, <2>5
  <2>10. Cardinality(V(b) \cup {x}) <= Cardinality(V(c))
    BY <2>7, <2>9, FS_Subset
  <2> QED BY <2>1, <2>7, <2>8, <2>10
<1> QED BY <1>3, <1>4 DEF Settling

\* Going round from _prio meets every input.
LEMMA RotatedAll ==
  ASSUME Sides(inst), ptr.pri \in Int
  PROVE  /\ Rotated \in Seq(InPorts(inst)) /\ Len(Rotated) = inst.inputs
         /\ \A x \in InPorts(inst) : \E k \in 1 .. inst.inputs : Rotated[k] = x
<1> DEFINE n == inst.inputs
           p == ptr.pri
<1>1. n \in Nat \ {0} /\ p \in Int
  BY DEF Sides
<1>2. Rotated = [k \in 1 .. n |-> (k - 1 + p) % n]
  BY DEF Rotated
<1>3. InPorts(inst) = 0 .. n-1
  BY DEF InPorts
<1> HIDE DEF n, p
<1>4. \A k \in 1 .. n : (k - 1 + p) % n \in 0 .. n-1
  BY <1>1
<1>5. Rotated \in Seq(0 .. n-1) /\ Len(Rotated) = n
  BY <1>1, <1>2, <1>4
<1>6. ASSUME NEW x \in 0 .. n-1
      PROVE  \E k \in 1 .. n : Rotated[k] = x
  <2> DEFINE y == (x - p) % n
             a == (x - p) \div n
             z == (y + p) % n
             c == (y + p) \div n
  <2>1. y \in 0 .. n-1 /\ a \in Int /\ x - p = n * a + y
    BY <1>1
  <2> HIDE DEF y, a
  <2>2. z \in 0 .. n-1 /\ c \in Int /\ y + p = n * c + z
    BY <1>1, <2>1
  <2> HIDE DEF z, c
  <2>3. x - z = n * (a + c)
    <3>1. n * a + n * c = n * (a + c) /\ n * a \in Int /\ n * c \in Int
      BY <1>1, <2>1, <2>2
    <3> QED BY <1>1, <2>1, <2>2, <3>1
  <2>4. CASE a + c >= 1
    <3>1. n * (a + c) >= n
      BY <1>1, <2>1, <2>2, <2>4
    <3> QED BY <1>1, <2>2, <2>3, <3>1
  <2>5. CASE a + c <= -1
    <3>1. n * (a + c) <= -n
      BY <1>1, <2>1, <2>2, <2>5
    <3> QED BY <1>1, <2>2, <2>3, <3>1
  <2>6. CASE a + c = 0
    <3>1. z = x
      BY <1>1, <2>2, <2>3, <2>6
    <3>2. y + 1 \in 1 .. n /\ ((y + 1) - 1) + p = y + p
      BY <1>1, <2>1
    <3>3. Rotated[y + 1] = z
      BY <1>1, <1>2, <3>2 DEF z
    <3> QED BY <3>1, <3>2, <3>3
  <2> QED BY <2>1, <2>2, <2>4, <2>5, <2>6
<1> QED BY <1>3, <1>5, <1>6 DEF n

\* The stack the search starts from.
Sources0(m) == FoldLeft(LAMBDA q, i : IF m.in[i] = None THEN Append(q, i) ELSE q, <<>>, Rotated)

\* q holds the inputs without an output, those of the first k of Rotated at least.
Unserved(m, q, k) ==
  /\ q \in Seq(InPorts(inst))
  /\ \A e \in 1 .. Len(q) : m.in[q[e]] = None
  /\ \A j \in 1 .. k : m.in[Rotated[j]] = None => \E e \in 1 .. Len(q) : q[e] = Rotated[j]

LEMMA UnservedAll ==
  ASSUME Sides(inst), ptr.pri \in Int, NEW m
  PROVE  Unserved(m, Sources0(m), inst.inputs)
<1> DEFINE n == inst.inputs
<1>1. n \in Nat /\ Rotated \in Seq(InPorts(inst)) /\ Len(Rotated) = n
  BY RotatedAll DEF Sides
<1>2. Sources!LeftFold(m, <<>>, Rotated) = Sources0(m)
  BY DEF SourceStep, Sources0, FoldLeft, MapThenFoldSet, Max, Sources!LeftFold
<1>3. PICK h : /\ Sources!LeftFold(m, <<>>, Rotated) = h[Len(Rotated)]
               /\ h[0] = <<>>
               /\ \A k \in 1 .. Len(Rotated) : h[k] = SourceStep(m, h[k - 1], Rotated[k])
  <2> DEFINE q == Rotated
  <2>1. q \in Seq(InPorts(inst))
    BY <1>1
  <2> HIDE DEF q
  <2>2. \E h : /\ Sources!LeftFold(m, <<>>, q) = h[Len(q)]
               /\ h[0] = <<>>
               /\ \A k \in 1 .. Len(q) : h[k] = SourceStep(m, h[k - 1], q[k])
    BY ONLY <2>1, Sources!FoldLeftSteps, SearchOrdered
  <2> QED BY <2>2 DEF q
<1> DEFINE P == {k \in 0 .. n : Unserved(m, h[k], k)}
<1>4. 0 \in P
  <2>1. Unserved(m, <<>>, 0)
    BY DEF Unserved
  <2> QED BY <1>1, <1>3, <2>1
<1>5. ASSUME NEW k \in 1 .. n, k - 1 \in P
      PROVE  k \in P
  <2> DEFINE q == h[k-1]
             x == Rotated[k]
  <2>1. Unserved(m, q, k-1) /\ x \in InPorts(inst)
    BY <1>1, <1>5
  <2>2. h[k] = IF m.in[x] = None THEN Append(q, x) ELSE q
    BY <1>1, <1>3 DEF SourceStep
  <2> HIDE DEF q
  <2>3. CASE m.in[x] # None
    <3>1. h[k] = q
      BY <2>2, <2>3
    <3>2. \A j \in 1 .. k : m.in[Rotated[j]] = None => j \in 1 .. k-1
      BY <1>1, <2>3
    <3>3. Unserved(m, q, k)
      BY <2>1, <3>2 DEF Unserved
    <3> QED BY <1>1, <3>1, <3>3
  <2>4. CASE m.in[x] = None
    <3> DEFINE s == h[k]
    <3>0. q \in Seq(InPorts(inst)) /\ Len(q) \in Nat
      BY <2>1 DEF Unserved
    <3>1. s = Append(q, x)
      BY <2>2, <2>4
    <3>2. /\ s \in Seq(InPorts(inst)) /\ Len(s) = Len(q) + 1 /\ s[Len(q) + 1] = x
          /\ \A e \in 1 .. Len(q) : s[e] = q[e]
      BY <2>1, <3>0, <3>1
    <3> HIDE DEF s, x
    <3>3. \A e \in 1 .. Len(s) : m.in[s[e]] = None
      <4> TAKE e \in 1 .. Len(s)
      <4>1. CASE e = Len(q) + 1
        BY <2>4, <3>2, <4>1
      <4>2. CASE e # Len(q) + 1
        <5>1. e \in 1 .. Len(q)
          BY <3>0, <3>2, <4>2
        <5> QED BY <2>1, <3>2, <5>1 DEF Unserved
      <4> QED BY <4>1, <4>2
    <3>4. ASSUME NEW j \in 1 .. k, m.in[Rotated[j]] = None
          PROVE  \E e \in 1 .. Len(s) : s[e] = Rotated[j]
      <4>1. CASE j = k
        <5>1. Len(q) + 1 \in 1 .. Len(s)
          BY <3>0, <3>2
        <5> QED BY <3>2, <4>1, <5>1 DEF x
      <4>2. CASE j # k
        <5>1. j \in 1 .. k-1
          BY <1>1, <4>2
        <5>2. PICK e \in 1 .. Len(q) : q[e] = Rotated[j]
          BY <2>1, <3>4, <5>1 DEF Unserved
        <5>3. e \in 1 .. Len(s)
          BY <3>0, <3>2
        <5> QED BY <3>2, <5>2, <5>3
      <4> QED BY <4>1, <4>2
    <3>5. Unserved(m, s, k)
      BY <3>2, <3>3, <3>4 DEF Unserved
    <3> QED BY <1>1, <3>5 DEF s
  <2> QED BY <2>3, <2>4
<1>6. n \in P
  <2> HIDE DEF P, n
  <2> QED BY <1>1, <1>4, <1>5, CountUp
<1> QED BY <1>1, <1>2, <1>3, <1>6

\* Of an input the search has come to every edge has been looked at.
Exhausted(m, r, b) ==
  \A x \in InPorts(inst), j \in OutPorts(inst) : Entered(m, b, x) => Tried(m, r, b, x, j)

\* The whole search.  As many levels as there are inputs exhaust it.
LEMMA SearchFound ==
  ASSUME NEW m, NEW r, Searchable(m, r), ptr.pri \in Int
  PROVE  /\ \E dep : Found(m, r, Search(m, r), dep, inst.inputs)
         /\ Search(m, r).end = None => Exhausted(m, r, Search(m, r))
<1> DEFINE n == inst.inputs
           a == [m |-> m, r |-> r]
           s == Sources0(m)
           c == [from |-> [o \in Outputs |-> IF o < inst.inputs THEN None ELSE 0], stack |-> s, end |-> None]
<1>0. Sides(inst)
  BY DEF Searchable
<1>1. n \in Nat \ {0} /\ Rotated \in Seq(InPorts(inst)) /\ Len(Rotated) = n
      /\ \A x \in InPorts(inst) : \E k \in 1 .. n : Rotated[k] = x
  BY <1>0, RotatedAll DEF Sides
<1>2. Unserved(m, s, n)
  BY <1>0, UnservedAll
<1>3. Levels!LeftFold(a, c, Rotated) = Search(m, r)
  BY DEF LevelStep, Search, Sources0, FoldLeft, MapThenFoldSet, Max, Levels!LeftFold
<1>4. \A b, k : LevelStep(a, b, k) = Level(m, r, b)
  BY DEF LevelStep
<1> HIDE DEF a, s
<1>5. \E dep : Found(m, r, c, dep, 0)
  <2> DEFINE dep == [o \in OutPorts(inst) |-> 0]
             f == [o \in OutPorts(inst) |-> IF o < inst.inputs THEN None ELSE 0]
  <2>1. c = [from |-> f, stack |-> s, end |-> None]
    BY DEF Outputs, OutPorts
  <2> HIDE DEF c
  <2>2. f \in [OutPorts(inst) -> InPorts(inst) \cup {None}] /\ dep \in [OutPorts(inst) -> Nat]
    BY <1>1 DEF InPorts
  <2>3. \A o \in OutPorts(inst) : f[o] = IF o < inst.inputs THEN None ELSE 0
    OBVIOUS
  <2> HIDE DEF f, dep
  <2>4. c.from = f /\ c.stack = s /\ c.end = None
    BY <2>1
  <2>5. s \in Seq(InPorts(inst))
    BY <1>2 DEF Unserved
  <2>6. c \in [from  : [OutPorts(inst) -> InPorts(inst) \cup {None}],
               stack : Seq(InPorts(inst)), end : OutPorts(inst) \cup {None}]
    BY <2>1, <2>2, <2>5
  <2>7. \A o \in OutPorts(inst) : o >= inst.inputs => c.from[o] # None
    <3>1. \A o \in OutPorts(inst) : o \in Int
      BY DEF OutPorts
    <3> QED BY <1>1, <2>3, <2>4, <3>1 DEF None
  <2>8. \A o \in OutPorts(inst) : ~Reached(c, o)
    BY <2>3, <2>4 DEF Reached
  <2>9. \A k \in 1 .. Len(c.stack) : Near(m, c, dep, c.stack[k], 0)
    BY <1>2, <2>4 DEF Near, Unserved
  <2>10. Found(m, r, c, dep, 0)
    BY <2>2, <2>4, <2>6, <2>7, <2>8, <2>9 DEF Found
  <2> QED BY <2>10
<1>6. c.stack = s
  OBVIOUS
<1>11. Settling(m, r, c, 0)
  <2>1. \A x \in InPorts(inst) : Entered(m, c, x) => m.in[x] = None
    <3>1. \A o \in OutPorts(inst) : ~Reached(c, o)
      BY DEF Reached, Outputs, OutPorts
    <3>2. \A y \in InPorts(inst) : m.in[y] # None => m.in[y] \in OutPorts(inst)
      BY DEF Searchable, Matched, Tables
    <3> QED BY <3>1, <3>2 DEF Entered
  <2> HIDE DEF c
  <2>2. ASSUME NEW x \in InPorts(inst), Entered(m, c, x)
        PROVE  \E e \in 1 .. Len(s) : s[e] = x
    <3>1. PICK k \in 1 .. n : Rotated[k] = x
      BY <1>1
    <3> QED BY <1>2, <2>1, <2>2, <3>1 DEF Unserved
  <2>3. ASSUME s # <<>> PROVE Cardinality({x \in InPorts(inst) : Entered(m, c, x)}) >= 0 + 1
    <3> DEFINE V == {x \in InPorts(inst) : Entered(m, c, x)}
    <3>1. s \in Seq(InPorts(inst))
      BY <1>2 DEF Unserved
    <3>2. 1 \in 1 .. Len(s) /\ s[1] \in InPorts(inst)
      BY <2>3, <3>1
    <3>3. m.in[s[1]] = None
      BY <1>2, <3>2 DEF Unserved
    <3>4. V # {}
      BY <3>2, <3>3 DEF Entered
    <3>5. V \subseteq InPorts(inst)
      OBVIOUS
    <3> HIDE DEF V
    <3>6. IsFiniteSet(V) /\ Cardinality(V) \in Nat
      BY <1>0, <3>5, InputsFinite
    <3>7. Cardinality(V) # 0
      BY <3>4, <3>6, FS_EmptySet
    <3> QED BY <3>6, <3>7 DEF V
  <2> QED BY <1>6, <2>2, <2>3 DEF Settling
<1> HIDE DEF c
<1>7. PICK h : /\ Levels!LeftFold(a, c, Rotated) = h[Len(Rotated)]
               /\ h[0] = c
               /\ \A k \in 1 .. Len(Rotated) : h[k] = LevelStep(a, h[k - 1], Rotated[k])
  <2> DEFINE q == Rotated
  <2>1. q \in Seq(InPorts(inst))
    BY <1>1
  <2> HIDE DEF q
  <2>2. \E h : /\ Levels!LeftFold(a, c, q) = h[Len(q)]
               /\ h[0] = c
               /\ \A k \in 1 .. Len(q) : h[k] = LevelStep(a, h[k - 1], q[k])
    <3> DEFINE S == InPorts(inst)
    <3>1. q \in Seq(S)
      BY <2>1
    <3> HIDE DEF S
    <3> QED BY ONLY <3>1, Levels!FoldLeftSteps, SearchOrdered
  <2> QED BY <2>2 DEF q
<1> DEFINE P == {k \in 0 .. n : (\E dep : Found(m, r, h[k], dep, k)) /\ Settling(m, r, h[k], k)}
<1>8. 0 \in P
  BY <1>1, <1>5, <1>7, <1>11
<1>9. ASSUME NEW k \in 1 .. n, k-1 \in P
      PROVE  k \in P
  <2>1. k-1 \in Nat /\ (k-1) + 1 = k /\ (\E dep : Found(m, r, h[k-1], dep, k-1))
    BY <1>9
  <2>2. h[k] = Level(m, r, h[k-1])
    BY <1>1, <1>4, <1>7
  <2>3. /\ \E dep : Found(m, r, Level(m, r, h[k-1]), dep, (k-1) + 1)
        /\ Settling(m, r, Level(m, r, h[k-1]), (k-1) + 1)
    BY <1>9, <2>1, LevelFound, LevelSettles
  <2> QED BY <1>1, <2>1, <2>2, <2>3
<1>10. n \in P
  <2> HIDE DEF P, n
  <2> QED BY <1>1, <1>8, <1>9, CountUp
<1> DEFINE b == Search(m, r)
<1>12. (\E dep : Found(m, r, b, dep, n)) /\ Settling(m, r, b, n)
  <2>1. b = h[n]
    BY <1>1, <1>3, <1>7
  <2> HIDE DEF b
  <2> QED BY <1>1, <1>10, <2>1
<1> HIDE DEF b
<1>13. ASSUME b.end = None PROVE Exhausted(m, r, b)
  <2> DEFINE V == {x \in InPorts(inst) : Entered(m, b, x)}
  <2>1. V \subseteq InPorts(inst)
    OBVIOUS
  <2>2. b.stack # <<>> => Cardinality(V) >= n + 1
    BY <1>12, <1>13 DEF Settling
  <2>3. Cardinality(V) \in Nat /\ Cardinality(V) <= n
    <3> HIDE DEF V
    <3> QED BY <1>0, <2>1, InputsFinite
  <2>4. b.stack = <<>>
    <3> HIDE DEF V
    <3> QED BY <1>1, <2>2, <2>3
  <2>5. 1 .. Len(b.stack) = {}
    BY <2>4
  <2> QED BY <1>12, <1>13, <2>5 DEF Settling, Exhausted
<1> QED BY <1>12, <1>13 DEF b

\* No matching of the requests is larger than m.
Largest(m, r) ==
  \A M \in SUBSET DOMAIN r :
    (\A c, d \in M : c # d => c[1] # d[1] /\ c[2] # d[2]) => Cardinality(M) <= Cardinality(Busy(m))

\* When the search comes to no end, every request is for an output it has reached
\* or from an input it has not come to.  These outputs and inputs are as many as
\* the matched pairs, and a matching has no two pairs at any of them.
LEMMA ExhaustedLargest ==
  ASSUME NEW m, NEW r, Searchable(m, r), inst.outputs <= inst.inputs, ptr.pri \in Int,
         Search(m, r).end = None
  PROVE  Free(m, r) = {} /\ Largest(m, r)
<1> DEFINE b == Search(m, r)
<1>0. /\ Sides(inst) /\ m \in Tables(inst)
      /\ \A y \in InPorts(inst), o \in OutPorts(inst) : m.in[y] = o <=> m.out[o] = y
      /\ \A c \in DOMAIN r : c = <<c[1], c[2]>> /\ c[1] \in InPorts(inst) /\ c[2] \in OutPorts(inst)
  BY DEF Searchable, Matched, Requests, Grid
<1>1. (\E dep : Found(m, r, b, dep, inst.inputs)) /\ Exhausted(m, r, b) /\ b.end = None
  BY SearchFound
<1> HIDE DEF b
<1>2. \A o \in OutPorts(inst) : o # None /\ o < inst.inputs
  BY <1>0 DEF OutPorts, None, Sides
<1>3. \A o \in OutPorts(inst) : Reached(b, o) => m.out[o] \in InPorts(inst) /\ m.in[m.out[o]] = o
  BY <1>0, <1>1 DEF Found, Tables
<1>4. ASSUME NEW c \in DOMAIN r, Entered(m, b, c[1])
      PROVE  Reached(b, c[2])
  <2>1. Tried(m, r, b, c[1], c[2])
    BY <1>0, <1>1, <1>4 DEF Exhausted
  <2>2. CASE m.in[c[1]] = c[2]
    BY <1>0, <1>2, <1>4, <2>2 DEF Entered
  <2>3. CASE b.from[c[2]] # None
    BY <1>0, <1>2, <2>3 DEF Reached
  <2> QED BY <1>0, <1>1, <2>1, <2>2, <2>3 DEF Tried
<1>5. Free(m, r) = {}
  <2> SUFFICES ASSUME NEW c \in Free(m, r) PROVE FALSE
    OBVIOUS
  <2>1. c \in DOMAIN r /\ m.in[c[1]] = None /\ m.out[c[2]] = None
    BY DEF Free
  <2>2. Reached(b, c[2])
    BY <1>4, <2>1 DEF Entered
  <2>3. m.out[c[2]] \in InPorts(inst) /\ None \notin InPorts(inst)
    BY <1>0, <1>3, <2>1, <2>2 DEF InPorts, None
  <2> QED BY <2>1, <2>3
<1>6. ASSUME NEW M \in SUBSET DOMAIN r, \A c, d \in M : c # d => c[1] # d[1] /\ c[2] # d[2]
      PROVE  Cardinality(M) <= Cardinality(Busy(m))
  <2> DEFINE f == [c \in M |-> IF Entered(m, b, c[1]) THEN m.out[c[2]] ELSE c[1]]
  <2>1. ASSUME NEW c \in M
        PROVE  /\ f[c] \in Busy(m)
               /\ Entered(m, b, c[1]) => f[c] = m.out[c[2]] /\ m.in[f[c]] = c[2] /\ Entered(m, b, f[c])
               /\ ~Entered(m, b, c[1]) => f[c] = c[1] /\ ~Entered(m, b, f[c])
    <3>1. c \in DOMAIN r /\ c[1] \in InPorts(inst) /\ c[2] \in OutPorts(inst)
      BY <1>0
    <3>2. \A x \in InPorts(inst) : m.in[x] # None => x \in Busy(m)
      BY <1>0 DEF Busy, Tables
    <3>3. CASE Entered(m, b, c[1])
      <4>1. f[c] = m.out[c[2]] /\ Reached(b, c[2])
        BY <1>4, <3>1, <3>3
      <4>2. f[c] \in InPorts(inst) /\ m.in[f[c]] = c[2]
        BY <1>3, <3>1, <4>1
      <4> HIDE DEF f
      <4> QED BY <1>2, <3>1, <3>2, <3>3, <4>1, <4>2 DEF Entered
    <3>4. CASE ~Entered(m, b, c[1])
      <4>1. f[c] = c[1] /\ m.in[c[1]] # None
        BY <3>4 DEF Entered
      <4> HIDE DEF f
      <4> QED BY <3>1, <3>2, <3>4, <4>1
    <3> QED BY <3>3, <3>4
  <2>2. f \in [M -> Busy(m)]
    BY <2>1
  <2> HIDE DEF f
  <2>3. ASSUME NEW c \in M, NEW d \in M, f[c] = f[d]
        PROVE  c = d
    <3>1. CASE Entered(m, b, c[1]) /\ Entered(m, b, d[1])
      <4>1. c[2] = d[2]
        BY <2>1, <2>3, <3>1
      <4> QED BY <1>6, <4>1
    <3>2. CASE ~Entered(m, b, c[1]) /\ ~Entered(m, b, d[1])
      <4>1. c[1] = d[1]
        BY <2>1, <2>3, <3>2
      <4> QED BY <1>6, <4>1
    <3> QED BY <2>1, <2>3, <3>1, <3>2
  <2>4. f \in Injection(M, Busy(m))
    BY <2>2, <2>3 DEF Injection, IsInjective
  <2>5. IsFiniteSet(Busy(m))
    BY <1>0, BusyFinite
  <2> QED BY <2>4, <2>5, FS_Injection
<1> QED BY <1>5, <1>6 DEF Largest

-----------------------------------------------------------------------------
(***************************************************************************)
(* The way back along the path, and the augmentations.                     *)
(***************************************************************************)
\* On the way back from the end of the search b of m, k steps done: all is
\* matched but the output w.at, which no input has any more, and what is nearer
\* than w.at is as it was.
Walking(m, r, b, dep, k, w) ==
  /\ w \in [m : Tables(inst), at : OutPorts(inst) \cup {None}]
  /\ Low(w.m)
  /\ \A x \in InPorts(inst), y \in OutPorts(inst) :
       /\ w.m.in[x] = y => <<x, y>> \in DOMAIN r
       /\ y # w.at => (w.m.in[x] = y <=> w.m.out[y] = x)
  /\ w.at = None => \E i \in InPorts(inst) \ Busy(m) : Busy(w.m) = Busy(m) \cup {i}
  /\ w.at # None =>
       /\ Reached(b, w.at) /\ dep[w.at] <= inst.inputs - k
       /\ \A x \in InPorts(inst) : w.m.in[x] # w.at
       /\ \A x \in InPorts(inst) : Near(m, b, dep, x, dep[w.at] - 1) => w.m.in[x] = m.in[x]
       /\ Busy(w.m) = Busy(m)

LEMMA BackWalks ==
  ASSUME NEW m, NEW r, Searchable(m, r), NEW b, NEW dep, Found(m, r, b, dep, inst.inputs),
         NEW k \in Nat, NEW w, Walking(m, r, b, dep, k, w)
  PROVE  Walking(m, r, b, dep, k + 1, Back(b, w))
<1>0. inst.inputs \in Nat
  BY DEF Searchable, Sides
<1>1. CASE w.at = None
  <2>1. Back(b, w) = w
    BY <1>1 DEF Back
  <2>2. Walking(m, r, b, dep, k + 1, w)
    BY <1>1 DEF Walking
  <2> QED BY <2>1, <2>2
<1>2. CASE w.at # None
  <2> DEFINE o == w.at
             i == b.from[o]
             p == w.m.in[i]
             t == w.m
             in == [t.in EXCEPT ![i] = o]
             out == [t.out EXCEPT ![o] = i]
             v == [m |-> [in |-> in, out |-> out], at |-> p]
  <2>1. /\ w \in [m : Tables(inst), at : OutPorts(inst) \cup {None}]
        /\ t \in Tables(inst) /\ o \in OutPorts(inst) /\ Low(t)
    BY <1>2 DEF Walking
  <2>2. /\ \A x \in InPorts(inst), y \in OutPorts(inst) : t.in[x] = y => <<x, y>> \in DOMAIN r
        /\ \A x \in InPorts(inst), y \in OutPorts(inst) : y # o => (t.in[x] = y <=> t.out[y] = x)
        /\ Reached(b, o) /\ dep[o] <= inst.inputs - k
        /\ \A x \in InPorts(inst) : t.in[x] # o
        /\ \A x \in InPorts(inst) : Near(m, b, dep, x, dep[o] - 1) => t.in[x] = m.in[x]
        /\ Busy(t) = Busy(m)
    BY <1>2 DEF Walking
  <2>3. /\ b.from \in [OutPorts(inst) -> InPorts(inst) \cup {None}]
        /\ dep \in [OutPorts(inst) -> Nat]
    BY DEF Found
  <2>4. i \in InPorts(inst)
    BY <2>1, <2>2, <2>3 DEF Reached
  <2>5. <<i, o>> \in DOMAIN r /\ Near(m, b, dep, i, dep[o] - 1)
    <3>1. PICK d \in 1 .. inst.inputs : Rooted(m, r, b, dep, o, d)
      BY <2>1, <2>2 DEF Found
    <3> QED BY <3>1 DEF Rooted
  <2>6. p = m.in[i]
    BY <2>2, <2>4, <2>5
  <2>7. m.in \in [InPorts(inst) -> OutPorts(inst) \cup {None}]
    BY DEF Searchable, Matched, Tables
  <2>8. Back(b, w) = v
    <3>1. Back(b, w) = [m |-> [w.m EXCEPT !.in[i] = o, !.out[o] = i], at |-> p]
      BY <1>2 DEF Back
    <3>2. [t EXCEPT !.in[i] = o, !.out[o] = i] = [in |-> in, out |-> out]
      <4>1. t \in [in : [InPorts(inst) -> OutPorts(inst) \cup {None}],
                   out : [OutPorts(inst) -> InPorts(inst) \cup {None}]]
        BY <2>1 DEF Tables
      <4> HIDE DEF t, i, o
      <4>2. [t EXCEPT !.in[i] = o, !.out[o] = i] = [[t EXCEPT !.in[i] = o] EXCEPT !.out[o] = i]
        OBVIOUS
      <4> DEFINE s == [t EXCEPT !.in[i] = o]
                 f == [t.in EXCEPT ![i] = o]
                 g == t.out
      <4>3. s = [in |-> f, out |-> g]
        BY <4>1
      <4> HIDE DEF s, f, g
      <4>4. [s EXCEPT !.out[o] = i] = [in |-> f, out |-> [g EXCEPT ![o] = i]]
        BY <4>3
      <4> QED BY <4>2, <4>4 DEF s, f, g
    <3> QED BY <3>1, <3>2
  <2>9. /\ in \in [InPorts(inst) -> OutPorts(inst) \cup {None}]
        /\ out \in [OutPorts(inst) -> InPorts(inst) \cup {None}]
        /\ \A x \in InPorts(inst) : in[x] = IF x = i THEN o ELSE t.in[x]
        /\ \A y \in OutPorts(inst) : out[y] = IF y = o THEN i ELSE t.out[y]
    <3> HIDE DEF t, o, i
    <3> QED BY <2>1, <2>4 DEF Tables
  <2>10. p \in OutPorts(inst) \cup {None} /\ o # p
    BY <2>2, <2>4, <2>6, <2>7
  <2>11. /\ i \in Int /\ i # None /\ o # None /\ dep[o] \in Int
    BY <2>1, <2>3, <2>4 DEF InPorts, OutPorts, None
  <2> HIDE DEF in, out, p, i, o, t
  <2>12. v \in [m : Tables(inst), at : OutPorts(inst) \cup {None}]
    BY <2>9, <2>10 DEF Tables
  <2>13. v.m.in = in /\ v.m.out = out /\ v.at = p
    OBVIOUS
  <2>14. Low(v.m)
    <3>1. o < inst.inputs
      BY <2>2 DEF Reached
    <3> QED BY <2>1, <2>9, <2>13, <3>1 DEF Low
  <2>15. ASSUME NEW x \in InPorts(inst), NEW y \in OutPorts(inst)
         PROVE  /\ in[x] = y => <<x, y>> \in DOMAIN r
                /\ y # p => (in[x] = y <=> out[y] = x)
    <3>1. y # None
      BY DEF OutPorts, None
    <3>2. t.in[i] = p
      BY DEF p, t, i
    <3> QED BY <2>2, <2>4, <2>5, <2>9, <2>10, <3>1, <3>2
  <2>16. t.in[i] = p
    BY DEF p, t, i
  <2>17. DOMAIN m.in = InPorts(inst) /\ DOMAIN t.in = InPorts(inst) /\ DOMAIN in = InPorts(inst)
    BY <2>1, <2>7, <2>9 DEF Tables
  <2>18. Busy(v.m) = Busy(t) \cup {i}
    BY <2>4, <2>9, <2>11, <2>13, <2>17 DEF Busy
  <2>19. CASE p = None
    <3>1. i \in InPorts(inst) \ Busy(m)
      BY <2>4, <2>6, <2>19 DEF Busy
    <3>2. Busy(v.m) = Busy(m) \cup {i}
      BY <2>2, <2>18
    <3> HIDE DEF v
    <3>3. \E x \in InPorts(inst) \ Busy(m) : Busy(v.m) = Busy(m) \cup {x}
      BY <3>1, <3>2
    <3> QED BY <2>8, <2>12, <2>13, <2>14, <2>15, <2>19, <3>3 DEF Walking
  <2>20. CASE p # None
    <3>1. p \in OutPorts(inst) /\ m.in[i] = p
      BY <2>6, <2>10, <2>20
    <3>2. Reached(b, p) /\ dep[p] <= dep[o] - 1
      BY <2>5, <2>20, <3>1 DEF Near
    <3>3. dep[p] \in Nat /\ dep[p] - 1 \in Int /\ dep[o] - 1 \in Int
      BY <2>3, <2>11, <3>1
    <3>4. dep[p] <= inst.inputs - (k + 1)
      BY <1>0, <2>2, <2>11, <3>2, <3>3
    <3>5. \A x \in InPorts(inst) : in[x] # p
      BY <2>2, <2>4, <2>9, <2>10, <2>16, <3>1
    <3>6. ASSUME NEW x \in InPorts(inst), Near(m, b, dep, x, dep[p] - 1)
          PROVE  in[x] = m.in[x]
      <4>1. x # i
        BY <2>20, <3>1, <3>3, <3>6 DEF Near
      <4>2. dep[p] - 1 <= dep[o] - 1
        BY <2>11, <3>2, <3>3
      <4>3. Near(m, b, dep, x, dep[o] - 1)
        BY <2>3, <3>3, <3>6, <4>2, NearLater
      <4> QED BY <2>2, <2>9, <4>1, <4>3
    <3>7. Busy(v.m) = Busy(m)
      <4>1. i \in Busy(t)
        BY <2>4, <2>16, <2>17, <2>20 DEF Busy
      <4> QED BY <2>2, <2>18, <4>1
    <3> HIDE DEF v
    <3> QED BY <2>8, <2>12, <2>13, <2>14, <2>15, <2>20, <3>2, <3>4, <3>5, <3>6, <3>7 DEF Walking
  <2> QED BY <2>19, <2>20
<1> QED BY <1>1, <1>2

\* One augmentation gives one more input an output, if the search has an end.
LEMMA AugmentGrows ==
  ASSUME NEW m, NEW r, Searchable(m, r), ptr.pri \in Int
  PROVE  /\ Searchable(Augment(m, r), r)
         /\ Search(m, r).end = None => Augment(m, r) = m
         /\ Search(m, r).end # None =>
              \E i \in InPorts(inst) \ Busy(m) : Busy(Augment(m, r)) = Busy(m) \cup {i}
<1> DEFINE b == Search(m, r)
           n == inst.inputs
           w == [m |-> m, at |-> b.end]
<1>0. Sides(inst) /\ n \in Nat /\ Rotated \in Seq(InPorts(inst)) /\ Len(Rotated) = n
  BY RotatedAll DEF Searchable, Sides
<1>1. PICK dep : Found(m, r, b, dep, n)
  BY SearchFound
<1>2. GoingBack!LeftFold(b, w, Rotated).m = Augment(m, r)
  BY DEF BackStep, Augment, FoldLeft, MapThenFoldSet, Max, GoingBack!LeftFold
<1> HIDE DEF b
<1>w. w.m = m /\ w.at = b.end
  OBVIOUS
<1> HIDE DEF w
<1>3. PICK h : /\ GoingBack!LeftFold(b, w, Rotated) = h[Len(Rotated)]
               /\ h[0] = w
               /\ \A k \in 1 .. Len(Rotated) : h[k] = BackStep(b, h[k - 1], Rotated[k])
  <2> DEFINE q == Rotated
  <2>1. q \in Seq(InPorts(inst))
    BY <1>0
  <2> HIDE DEF q
  <2>2. \E h : /\ GoingBack!LeftFold(b, w, q) = h[Len(q)]
               /\ h[0] = w
               /\ \A k \in 1 .. Len(q) : h[k] = BackStep(b, h[k - 1], q[k])
    <3> DEFINE S == InPorts(inst)
    <3>1. q \in Seq(S)
      BY <2>1
    <3> HIDE DEF S
    <3> QED BY ONLY <3>1, GoingBack!FoldLeftSteps, SearchOrdered
  <2> QED BY <2>2 DEF q
<1>4. \A k \in 1 .. n : h[k] = Back(b, h[k-1])
  BY <1>0, <1>3 DEF BackStep
<1>5. Matched(inst, m, DOMAIN r) /\ Low(m)
  BY DEF Searchable
<1>6. CASE b.end = None
  <2> DEFINE P == {k \in 0 .. n : h[k] = w}
  <2>1. 0 \in P
    BY <1>0, <1>3
  <2>2. ASSUME NEW k \in 1 .. n, k-1 \in P PROVE k \in P
    <3>1. h[k] = Back(b, w)
      BY <1>4, <2>2
    <3>2. Back(b, w) = w
      BY <1>6, <1>w DEF Back
    <3> QED BY <3>1, <3>2
  <2>3. n \in P
    <3> HIDE DEF P, n
    <3> QED BY <1>0, <2>1, <2>2, CountUp
  <2>4. Augment(m, r) = m
    BY <1>0, <1>2, <1>3, <1>w, <2>3
  <2> QED BY <1>6, <2>4 DEF b
<1>7. CASE b.end # None
  <2> DEFINE P == {k \in 0 .. n : Walking(m, r, b, dep, k, h[k])}
  <2>1. b.end \in OutPorts(inst) /\ Reached(b, b.end) /\ m.out[b.end] = None
    BY <1>1, <1>7 DEF Found
  <2>2. dep[b.end] <= n
    <3>1. PICK d \in 1 .. n : Rooted(m, r, b, dep, b.end, d)
      BY <1>1, <2>1 DEF Found
    <3> QED BY <1>0, <3>1 DEF Rooted
  <2>3. Walking(m, r, b, dep, 0, w)
    <3>1. w \in [m : Tables(inst), at : OutPorts(inst) \cup {None}]
      BY <1>5, <2>1 DEF w, Matched
    <3>2. \A x \in InPorts(inst), y \in OutPorts(inst) :
            (m.in[x] = y => <<x, y>> \in DOMAIN r) /\ (m.in[x] = y <=> m.out[y] = x)
      BY <1>5 DEF Matched
    <3>3. \A x \in InPorts(inst) : m.in[x] # b.end
      <4>1. None \notin InPorts(inst)
        BY DEF None, InPorts
      <4> QED BY <2>1, <3>2, <4>1
    <3>4. dep[b.end] <= inst.inputs - 0
      BY <1>0, <2>2
    <3> QED BY <1>5, <1>7, <1>w, <2>1, <3>1, <3>2, <3>3, <3>4 DEF Walking
  <2>4. 0 \in P
    BY <1>0, <1>3, <2>3
  <2>5. ASSUME NEW k \in 1 .. n, k-1 \in P PROVE k \in P
    <3>1. k-1 \in Nat /\ (k-1) + 1 = k /\ Walking(m, r, b, dep, k-1, h[k-1])
      BY <2>5
    <3>2. Walking(m, r, b, dep, (k-1) + 1, Back(b, h[k-1]))
      BY <1>1, <3>1, BackWalks
    <3> QED BY <1>4, <3>1, <3>2
  <2>6. n \in P
    <3> HIDE DEF P, n
    <3> QED BY <1>0, <2>4, <2>5, CountUp
  <2> DEFINE v == h[n]
  <2>7. Walking(m, r, b, dep, n, v)
    BY <2>6
  <2>8. Augment(m, r) = v.m
    BY <1>0, <1>2, <1>3
  <2> HIDE DEF v
  <2>9. v.at = None
    <3> SUFFICES ASSUME v.at # None PROVE FALSE
      OBVIOUS
    <3>1. v.at \in OutPorts(inst) /\ Reached(b, v.at) /\ dep[v.at] <= n - n
      BY <2>7 DEF Walking
    <3>2. PICK d \in 1 .. n : Rooted(m, r, b, dep, v.at, d)
      BY <1>1, <3>1 DEF Found
    <3>3. dep[v.at] = d
      BY <3>2 DEF Rooted
    <3> QED BY <1>0, <3>1, <3>3
  <2>10. Matched(inst, v.m, DOMAIN r) /\ Low(v.m)
    <3>1. \A y \in OutPorts(inst) : y # None
      BY DEF OutPorts, None
    <3> QED BY <2>7, <2>9, <3>1 DEF Walking, Matched
  <2>11. \E i \in InPorts(inst) \ Busy(m) : Busy(v.m) = Busy(m) \cup {i}
    BY <2>7, <2>9 DEF Walking
  <2>12. Searchable(v.m, r)
    BY <2>10 DEF Searchable
  <2> QED BY <1>7, <2>8, <2>11, <2>12 DEF b
<1> QED BY <1>6, <1>7

\* After k augmentations k inputs have an output, or there is nothing to augment.
Augmented(m, r, k) ==
  Searchable(m, r) /\ (Cardinality(Busy(m)) >= k \/ Search(m, r).end = None)

\* max_size matches, and if it can reach every output, leaves no request with both
\* ends free and no larger matching.
LEMMA MaxSizeMatched ==
  ASSUME Sides(inst), ptr.pri \in Int, NEW r, Requests(inst, r)
  PROVE  /\ Matched(inst, MaxSizeMatch(r), DOMAIN r)
         /\ inst.outputs <= inst.inputs => Free(MaxSizeMatch(r), r) = {} /\ Largest(MaxSizeMatch(r), r)
<1> DEFINE n == inst.inputs
           m0 == Unmatched(inst)
<1>0. n \in Nat /\ Rotated \in Seq(InPorts(inst)) /\ Len(Rotated) = n
  BY RotatedAll DEF Sides
<1>1. Augmenting!LeftFold(r, m0, Rotated) = MaxSizeMatch(r)
  BY DEF AugmentStep, MaxSizeMatch, FoldLeft, MapThenFoldSet, Max, Augmenting!LeftFold
<1>2. Augmented(m0, r, 0)
  <2>1. Matched(inst, m0, DOMAIN r)
    BY NothingMatched
  <2>2. Low(m0)
    BY DEF Low, Unmatched, OutPorts
  <2>3. Cardinality(Busy(m0)) \in Nat
    BY <2>1, BusyFinite DEF Matched
  <2> HIDE DEF m0
  <2> QED BY <2>1, <2>2, <2>3 DEF Augmented, Searchable
<1> HIDE DEF m0
<1>3. PICK h : /\ Augmenting!LeftFold(r, m0, Rotated) = h[Len(Rotated)]
               /\ h[0] = m0
               /\ \A k \in 1 .. Len(Rotated) : h[k] = AugmentStep(r, h[k - 1], Rotated[k])
  <2> DEFINE q == Rotated
  <2>1. q \in Seq(InPorts(inst))
    BY <1>0
  <2> HIDE DEF q
  <2>2. \E h : /\ Augmenting!LeftFold(r, m0, q) = h[Len(q)]
               /\ h[0] = m0
               /\ \A k \in 1 .. Len(q) : h[k] = AugmentStep(r, h[k - 1], q[k])
    <3> DEFINE S == InPorts(inst)
    <3>1. q \in Seq(S)
      BY <2>1
    <3> HIDE DEF S
    <3> QED BY ONLY <3>1, Augmenting!FoldLeftSteps, SearchOrdered
  <2> QED BY <2>2 DEF q
<1> DEFINE P == {k \in 0 .. n : Augmented(h[k], r, k)}
<1>4. 0 \in P
  BY <1>0, <1>2, <1>3
<1>5. ASSUME NEW k \in 1 .. n, k-1 \in P PROVE k \in P
  <2> DEFINE m == h[k-1]
  <2>1. Augmented(m, r, k-1) /\ Searchable(m, r)
    BY <1>5 DEF Augmented
  <2>2. h[k] = Augment(m, r)
    BY <1>0, <1>3 DEF AugmentStep
  <2> HIDE DEF m
  <2>3. Searchable(h[k], r)
    BY <2>1, <2>2, AugmentGrows
  <2>4. CASE Search(m, r).end = None
    <3>1. h[k] = m
      BY <2>1, <2>2, <2>4, AugmentGrows
    <3> QED BY <2>3, <2>4, <3>1 DEF Augmented
  <2>5. CASE Search(m, r).end # None
    <3>1. PICK i \in InPorts(inst) \ Busy(m) : Busy(h[k]) = Busy(m) \cup {i}
      BY <2>1, <2>2, <2>5, AugmentGrows
    <3>2. IsFiniteSet(Busy(m)) /\ Cardinality(Busy(m)) \in Nat
      BY <2>1, BusyFinite DEF Searchable, Matched
    <3>3. Cardinality(Busy(h[k])) = Cardinality(Busy(m)) + 1
      BY <3>1, <3>2, FS_AddElement
    <3>4. Cardinality(Busy(m)) >= k-1
      BY <2>1, <2>5 DEF Augmented
    <3>5. Cardinality(Busy(h[k])) >= k
      BY <1>0, <3>2, <3>3, <3>4
    <3> QED BY <2>3, <3>5 DEF Augmented
  <2> QED BY <2>4, <2>5
<1>6. n \in P
  <2> HIDE DEF P, n
  <2> QED BY <1>0, <1>4, <1>5, CountUp
<1> DEFINE t == MaxSizeMatch(r)
<1>7. Augmented(t, r, n)
  BY <1>0, <1>1, <1>3, <1>6
<1> HIDE DEF t
<1>8. Searchable(t, r) /\ Matched(inst, t, DOMAIN r) /\ t \in Tables(inst)
  BY <1>7 DEF Augmented, Searchable, Matched
<1>9. ASSUME inst.outputs <= inst.inputs PROVE Free(t, r) = {} /\ Largest(t, r)
  <2>1. CASE Search(t, r).end = None
    BY <1>8, <1>9, <2>1, ExhaustedLargest
  <2>2. CASE Cardinality(Busy(t)) >= n
    <3>1. \A c \in DOMAIN r : c[1] \in InPorts(inst)
      BY DEF Requests, Grid
    <3>2. /\ Busy(t) \subseteq InPorts(inst) /\ Cardinality(Busy(t)) \in Nat
          /\ Cardinality(Busy(t)) <= n /\ Cardinality(InPorts(inst)) = n /\ IsFiniteSet(InPorts(inst))
      <4>1. Busy(t) \subseteq InPorts(inst)
        BY <1>8 DEF Busy, Tables
      <4> QED BY <4>1, InputsFinite
    <3>3. Busy(t) = InPorts(inst)
      <4>1. Cardinality(Busy(t)) = Cardinality(InPorts(inst))
        BY <1>0, <2>2, <3>2
      <4> QED BY <3>2, <4>1, FS_Subset
    <3>4. ASSUME NEW M \in SUBSET DOMAIN r, \A c, d \in M : c # d => c[1] # d[1] /\ c[2] # d[2]
          PROVE  Cardinality(M) <= Cardinality(Busy(t))
      <4> DEFINE f == [c \in M |-> c[1]]
      <4>1. f \in [M -> Busy(t)] /\ \A c, d \in M : f[c] = f[d] => c = d
        BY <3>1, <3>3, <3>4
      <4>2. f \in Injection(M, Busy(t))
        <5> HIDE DEF f
        <5> QED BY <4>1 DEF Injection, IsInjective
      <4>3. IsFiniteSet(Busy(t))
        BY <3>2, <3>3
      <4> HIDE DEF f
      <4> QED BY <4>2, <4>3, FS_Injection
    <3> QED BY <3>1, <3>3, <3>4 DEF Free, Busy, Largest
  <2> QED BY <1>7, <2>1, <2>2 DEF Augmented
<1> QED BY <1>8, <1>9 DEF t
-----------------------------------------------------------------------------
(***************************************************************************)
(* What remains of select and of the separable allocators.                 *)
(***************************************************************************)
\* BestPassedOn of a result that grants A.
PassedOn(x, y, r, A) ==
  /\ \A c \in A : Favourite(x, r, c)
  /\ \A c \in DOMAIN r : \E d \in DOMAIN r, e \in A :
       d[x] = c[x] /\ Favourite(x, r, d) /\ e[y] = d[y] /\ Pri(r[d], y) <= Pri(r[e], y)

LEMMA PassedOnGranted ==
  ASSUME NEW r, Requests(inst, r), NEW A, A \subseteq DOMAIN r, Pairing(A),
         NEW x, NEW y, PassedOn(x, y, r, A),
         NEW m, GrantedTo(inst, Unmatched(inst), A, m)
  PROVE  BestPassedOn(x, y, r, m)
<1>1. ASSUME NEW c \in DOMAIN r, m.in[c[1]] = c[2]
      PROVE  c \in A
  <2>1. c[1] \in InPorts(inst) /\ c[2] \in OutPorts(inst) /\ c = <<c[1], c[2]>> /\ c[2] # None
    BY DEF Requests, Grid, OutPorts, None
  <2>2. Unmatched(inst).in[c[1]] = None
    BY <2>1 DEF Unmatched, InPorts
  <2>3. c[1] \in Ins(A)
    BY <1>1, <2>1, <2>2 DEF GrantedTo
  <2>4. PICK d \in A : d[1] = c[1]
    BY <2>3 DEF Ins
  <2>5. d[2] = c[2] /\ d = <<d[1], d[2]>>
    BY <1>1, <2>4 DEF GrantedTo, Requests, Grid
  <2> QED BY <2>1, <2>4, <2>5
<1>2. \A e \in A : e \in DOMAIN r /\ m.in[e[1]] = e[2]
  BY DEF GrantedTo
<1>3. \A c \in DOMAIN r : m.in[c[1]] = c[2] => Favourite(x, r, c)
  BY <1>1 DEF PassedOn
<1>4. ASSUME NEW c \in DOMAIN r
      PROVE  \E d, e \in DOMAIN r :
               /\ d[x] = c[x] /\ Favourite(x, r, d)
               /\ e[y] = d[y] /\ Pri(r[d], y) <= Pri(r[e], y) /\ m.in[e[1]] = e[2]
  <2>1. PICK d \in DOMAIN r, e \in A :
          d[x] = c[x] /\ Favourite(x, r, d) /\ e[y] = d[y] /\ Pri(r[d], y) <= Pri(r[e], y)
    BY DEF PassedOn
  <2> QED BY <1>2, <2>1
<1> QED BY <1>3, <1>4 DEF BestPassedOn

\* Requests settled by the priorities of their sides.
LEMMA SettledPassedOn ==
  ASSUME NEW r, NEW A, A \subseteq DOMAIN r, NEW x, NEW y,
         NEW near, \A c \in DOMAIN r : near[c] = Pri(r[c], x),
         NEW far, \A c \in DOMAIN r : far[c] = Pri(r[c], y),
         Settled(DOMAIN r, near, far, x, y, A)
  PROVE  PassedOn(x, y, r, A)
<1>1. \A c \in DOMAIN r : Leading(DOMAIN r, near, x, c) => Favourite(x, r, c)
  BY DEF Leading, Favourite
<1>2. \A d \in DOMAIN r, e \in A : far[d] <= far[e] => Pri(r[d], y) <= Pri(r[e], y)
  OBVIOUS
<1> QED BY <1>1, <1>2 DEF Settled, PassedOn

LEMMA PrioritiesOfSides ==
  ASSUME NEW r
  PROVE  \A c \in DOMAIN r : InPri(r)[c] = Pri(r[c], 1) /\ OutPri(r)[c] = Pri(r[c], 2)
BY DEF InPri, OutPri, Pri

\* The only iteration of select passes on the best.
LEMMA SelectHighest ==
  ASSUME Sides(inst), inst.type = "select", ptr \in Pointers(inst), NEW r, Requests(inst, r)
  PROVE  BestPassedOn(2, 1, r, SelectIteration(Start(r), 1).match)
<1> DEFINE m == Unmatched(inst)
           G == Granting(DOMAIN r, ptr.grant, OutPri(r))
           A == Accepting(G, ptr.accept, InPri(r))
<1>1. Free(m, r) = DOMAIN r
  BY DEF Free, Unmatched, Requests, Grid, InPorts, OutPorts
<1>2. SelectIteration(Start(r), 1).match = Grant(m, A)
  <2>1. Granting(Free(m, r), ptr.grant, OutPri(r)) = G
    BY <1>1
  <2> HIDE DEF m, G
  <2>2. G \cup {c \in {} : c[2] \notin Outs(G)} = G
    OBVIOUS
  <2> QED BY <2>1, <2>2 DEF SelectIteration, Start, m
<1>3. /\ Numbers(ptr.grant, OutPorts(inst)) /\ Numbers(ptr.accept, InPorts(inst))
      /\ DOMAIN r \subseteq Grid(inst) /\ Numbers(OutPri(r), DOMAIN r) /\ Numbers(InPri(r), DOMAIN r)
  BY PointersNumbers, PrioritiesNumbers DEF Requests
<1>4. A \subseteq DOMAIN r /\ Pairing(A) /\ Settled(DOMAIN r, OutPri(r), InPri(r), 2, 1, A)
  <2> DEFINE free == DOMAIN r
  <2>1. A = Accepting(Granting(free, ptr.grant, OutPri(r)), ptr.accept, InPri(r))
    OBVIOUS
  <2>2. free \subseteq Grid(inst) /\ Numbers(OutPri(r), free) /\ Numbers(InPri(r), free)
    BY <1>3
  <2> HIDE DEF free, A
  <2>3. A \subseteq free /\ Pairing(A) /\ Settled(free, OutPri(r), InPri(r), 2, 1, A)
    BY <1>3, <2>1, <2>2, AcceptedPairs
  <2> QED BY <2>3 DEF free
<1>5. Matched(inst, m, DOMAIN r)
  BY NothingMatched
<1>6. Idle(m, A)
  BY <1>1, <1>4 DEF Idle, Free
<1> HIDE DEF A
<1>7. GrantedTo(inst, m, A, Grant(m, A))
  <2> HIDE DEF m
  <2> QED BY <1>3, <1>4, <1>5, <1>6, GrantMatched
<1>8. PassedOn(2, 1, r, A)
  BY <1>4, SettledPassedOn, PrioritiesOfSides
<1>9. BestPassedOn(2, 1, r, Grant(m, A))
  BY <1>4, <1>7, <1>8, PassedOnGranted
<1> QED BY <1>2, <1>9

LEMMA GrantTyped ==
  ASSUME NEW n, NEW m \in Tables(n), NEW A, A \subseteq Grid(n)
  PROVE  Grant(m, A) \in Tables(n)
<1>1. \A c \in A : c[1] \in InPorts(n) /\ c[2] \in OutPorts(n)
  BY DEF Grid
<1>2. DOMAIN m.in = InPorts(n) /\ DOMAIN m.out = OutPorts(n)
  BY DEF Tables
<1> DEFINE f == [i \in InPorts(n) |-> IF i \in Ins(A) THEN OutOf(A, i) ELSE m.in[i]]
           g == [o \in OutPorts(n) |-> IF o \in Outs(A) THEN InOf(A, o) ELSE m.out[o]]
<1>3. Grant(m, A) = [in |-> f, out |-> g]
  BY <1>2 DEF Grant
<1>4. ASSUME NEW i \in Ins(A) PROVE OutOf(A, i) \in OutPorts(n)
  <2>1. (CHOOSE c \in A : c[1] = i) \in A
    BY DEF Ins
  <2> QED BY <1>1, <2>1 DEF OutOf
<1>5. ASSUME NEW o \in Outs(A) PROVE InOf(A, o) \in InPorts(n)
  <2>1. (CHOOSE c \in A : c[2] = o) \in A
    BY DEF Outs
  <2> QED BY <1>1, <2>1 DEF InOf
<1>6. f \in [InPorts(n) -> OutPorts(n) \cup {None}]
  BY <1>4 DEF Tables
<1>7. g \in [OutPorts(n) -> InPorts(n) \cup {None}]
  BY <1>5 DEF Tables
<1> HIDE DEF f, g
<1> QED BY <1>3, <1>6, <1>7 DEF Tables

\* Where select is after any number of iterations: a grant may be stale, but it
\* is one of a requested pair.
SelectGoing(r, s) ==
  s \in [match : Tables(inst), ptr : Pointers(inst), req : {r}, grants : SUBSET DOMAIN r]

LEMMA SelectGoes ==
  ASSUME Sides(inst), NEW r, Requests(inst, r), NEW s, SelectGoing(r, s), NEW iter
  PROVE  SelectGoing(r, SelectIteration(s, iter))
<1> DEFINE free == Free(s.match, r)
           fresh == Granting(free, s.ptr.grant, OutPri(r))
           G == fresh \cup {c \in s.grants : c[2] \notin Outs(fresh)}
           A == Accepting(G, s.ptr.accept, InPri(r))
           m == Grant(s.match, A)
           p == MovePointers(s.ptr, A, iter)
<1>1. /\ s \in [match : Tables(inst), ptr : Pointers(inst), req : {r}, grants : SUBSET DOMAIN r]
      /\ s.req = r /\ s.grants \subseteq DOMAIN r /\ s.ptr \in Pointers(inst) /\ s.match \in Tables(inst)
  BY DEF SelectGoing
<1>2. SelectIteration(s, iter) = [s EXCEPT !.match = m, !.ptr = p, !.grants = G]
  BY <1>1 DEF SelectIteration
<1>3. free \subseteq DOMAIN r /\ DOMAIN r \subseteq Grid(inst) 
      /\ Numbers(OutPri(r), DOMAIN r) /\ Numbers(InPri(r), DOMAIN r)
  BY PrioritiesNumbers DEF Free, Requests
<1>4. Numbers(s.ptr.grant, OutPorts(inst)) /\ Numbers(s.ptr.accept, InPorts(inst))
  BY <1>1, PointersNumbers
<1>5. fresh \subseteq free
  <2> HIDE DEF free
  <2>1. free \subseteq Grid(inst) /\ Numbers(OutPri(r), free)
    BY <1>3 DEF Numbers
  <2> QED BY <1>4, <2>1, GrantingPicks
<1> HIDE DEF free, fresh
<1>6. G \subseteq DOMAIN r
  BY <1>1, <1>3, <1>5
<1> HIDE DEF G
<1>7. A \subseteq G
  <2>1. G \subseteq Grid(inst) /\ Numbers(InPri(r), G)
    BY <1>3, <1>6 DEF Numbers
  <2> QED BY <1>4, <2>1, AcceptingPicks
<1> HIDE DEF A
<1>8. A \subseteq Grid(inst)
  BY <1>3, <1>6, <1>7
<1>9. m \in Tables(inst) /\ p \in Pointers(inst)
  BY <1>1, <1>8, GrantTyped, PointersMoved
<1> HIDE DEF m, p
<1>10. G \in SUBSET DOMAIN r
  BY <1>6
<1> QED BY <1>1, <1>2, <1>9, <1>10 DEF SelectGoing

LEMMA SelectTyped ==
  ASSUME Sides(inst), inst.iters \in Nat \ {0}, ptr \in Pointers(inst), NEW r, Requests(inst, r),
         NEW s, s = FoldLeft(SelectIteration, Start(r), Iterations)
  PROVE  s.match \in Tables(inst) /\ s.ptr \in Pointers(inst)
<1>1. Selecting!LeftFold(0, Start(r), Iterations) = FoldLeft(SelectIteration, Start(r), Iterations)
  BY DEF SelectStep, FoldLeft, MapThenFoldSet, Max, Selecting!LeftFold
<1>2. PICK h : /\ Selecting!LeftFold(0, Start(r), Iterations) = h[Len(Iterations)]
               /\ h[0] = Start(r)
               /\ \A k \in 1 .. Len(Iterations) : h[k] = SelectStep(0, h[k - 1], Iterations[k])
  BY IterationsSeq, Selecting!FoldLeftSteps, IterationsOrdered
<1> DEFINE n == inst.iters
           P == {k \in 0 .. n : SelectGoing(r, h[k])}
<1>3. n \in Nat /\ Len(Iterations) = n
  BY IterationsSeq
<1>4. 0 \in P
  <2>1. Unmatched(inst) \in Tables(inst)
    BY NothingMatched DEF Matched
  <2>2. Start(r) = [match |-> Unmatched(inst), ptr |-> ptr, req |-> r, grants |-> {}]
    BY DEF Start
  <2>3. SelectGoing(r, Start(r))
    BY <2>1, <2>2 DEF SelectGoing
  <2> QED BY <1>2, <1>3, <2>3
<1>5. ASSUME NEW k \in 1 .. n, k-1 \in P
      PROVE  k \in P
  <2>1. SelectGoing(r, h[k-1])
    BY <1>5
  <2>2. SelectGoing(r, SelectIteration(h[k-1], Iterations[k]))
    BY <2>1, SelectGoes
  <2>3. h[k] = SelectIteration(h[k-1], Iterations[k])
    BY <1>2, <1>3 DEF SelectStep
  <2> QED BY <1>3, <2>2, <2>3
<1>6. n \in P
  <2> HIDE DEF P
  <2> QED BY <1>3, <1>4, <1>5, CountUp
<1>7. SelectGoing(r, s)
  BY <1>1, <1>2, <1>3, <1>6
<1> QED BY <1>7 DEF SelectGoing

\* The separable allocators, whichever side is first.
LEMMA SeparableGranted ==
  ASSUME Sides(inst), inst.type \in Separable, ArbitersOK(inst, arb), NEW r, Requests(inst, r)
  PROVE  /\ SeparableGrants(r) \subseteq DOMAIN r /\ Pairing(SeparableGrants(r))
         /\ IF inst.type = "separable_input_first" THEN PassedOn(1, 2, r, SeparableGrants(r))
                                                   ELSE PassedOn(2, 1, r, SeparableGrants(r))
<1>1. /\ Staffed(arb.in, inst.inputs, inst.outputs) /\ Staffed(arb.out, inst.outputs, inst.inputs)
      /\ inst.inputs \in Nat \ {0} /\ inst.outputs \in Nat \ {0}
  BY DEF ArbitersOK, Sides
<1>2. DOMAIN r \subseteq (0 .. inst.inputs-1) \X (0 .. inst.outputs-1)
  BY DEF Requests, Grid, InPorts, OutPorts
<1>3. /\ DOMAIN InPri(r) = DOMAIN r /\ Numbers(InPri(r), DOMAIN r)
      /\ DOMAIN OutPri(r) = DOMAIN r /\ Numbers(OutPri(r), DOMAIN r)
  BY PrioritiesNumbers
<1>4. CASE inst.type = "separable_input_first"
  <2> DEFINE A == SeparablePairs(arb.in, arb.out, InPri(r), OutPri(r))
  <2>1. SeparableGrants(r) = A
    BY <1>4 DEF SeparableGrants
  <2>2. A \subseteq DOMAIN r /\ Pairing(A) /\ Settled(DOMAIN r, InPri(r), OutPri(r), 1, 2, A)
    BY <1>1, <1>2, <1>3, SeparablePicks
  <2> HIDE DEF A
  <2>3. PassedOn(1, 2, r, A)
    BY <2>2, SettledPassedOn, PrioritiesOfSides
  <2> QED BY <1>4, <2>1, <2>2, <2>3
<1>5. CASE inst.type # "separable_input_first"
  <2> DEFINE R == {Flip(d) : d \in DOMAIN r}
             f == Flipped(OutPri(r))
             g == Flipped(InPri(r))
             A == SeparablePairs(arb.out, arb.in, f, g)
             B == {Flip(c) : c \in A}
  <2>1. SeparableGrants(r) = B
    BY <1>5 DEF SeparableGrants
  <2>2. \A c \in DOMAIN r : Flip(Flip(c)) = c /\ Flip(c) \in R /\ Flip(c)[1] = c[2] /\ Flip(c)[2] = c[1]
    BY <1>2 DEF Flip
  <2>3. \A c \in R : Flip(c) \in DOMAIN r /\ Flip(Flip(c)) = c /\ Flip(c)[1] = c[2] /\ Flip(c)[2] = c[1]
    BY <1>2 DEF Flip
  <2>4. R \subseteq (0 .. inst.outputs-1) \X (0 .. inst.inputs-1)
    BY <1>2 DEF Flip
  <2>5. /\ DOMAIN f = R /\ \A c \in R : f[c] = OutPri(r)[Flip(c)]
        /\ DOMAIN g = R /\ \A c \in R : g[c] = InPri(r)[Flip(c)]
    BY <1>3 DEF Flipped
  <2> HIDE DEF R, f, g
  <2>6. Numbers(f, R) /\ Numbers(g, R)
    BY <1>3, <2>3, <2>5 DEF Numbers
  <2>7. A \subseteq R /\ Pairing(A) /\ Settled(R, f, g, 1, 2, A)
    BY <1>1, <2>4, <2>5, <2>6, SeparablePicks
  <2> HIDE DEF A
  <2>8. B \subseteq DOMAIN r
    BY <2>3, <2>7
  <2>9. Pairing(B)
    <3>1. \A c \in A : Flip(c)[1] = c[2] /\ Flip(c)[2] = c[1]
      BY <2>3, <2>7
    <3> QED BY <2>7, <3>1 DEF Pairing
  <2>10. ASSUME NEW c \in R, Leading(R, f, 1, c)
         PROVE  Leading(DOMAIN r, OutPri(r), 2, Flip(c))
    <3> SUFFICES ASSUME NEW d \in DOMAIN r, d[2] = Flip(c)[2]
                 PROVE  OutPri(r)[d] <= OutPri(r)[Flip(c)]
      BY DEF Leading
    <3>1. Flip(d) \in R /\ Flip(d)[1] = c[1] /\ Flip(Flip(d)) = d
      BY <2>2, <2>3
    <3>2. f[Flip(d)] <= f[c]
      BY <2>10, <3>1 DEF Leading
    <3> QED BY <2>5, <3>1, <3>2
  <2>11. \A c \in B : Leading(DOMAIN r, OutPri(r), 2, c)
    BY <2>7, <2>10 DEF Settled
  <2>12. ASSUME NEW c \in DOMAIN r
         PROVE  \E d \in DOMAIN r, e \in B :
                  /\ d[2] = c[2] /\ Leading(DOMAIN r, OutPri(r), 2, d)
                  /\ e[1] = d[1] /\ InPri(r)[d] <= InPri(r)[e]
    <3>1. Flip(c) \in R /\ Flip(c)[1] = c[2]
      BY <2>2
    <3>2. PICK d \in R, e \in A :
            d[1] = Flip(c)[1] /\ Leading(R, f, 1, d) /\ e[2] = d[2] /\ g[d] <= g[e]
      BY <2>7, <3>1 DEF Settled
    <3>3. Flip(d) \in DOMAIN r /\ Flip(d)[2] = c[2] /\ Leading(DOMAIN r, OutPri(r), 2, Flip(d))
      BY <2>3, <2>10, <3>1, <3>2
    <3>4. Flip(e) \in B /\ Flip(e)[1] = Flip(d)[1] /\ InPri(r)[Flip(d)] <= InPri(r)[Flip(e)]
      BY <2>3, <2>5, <2>7, <3>2
    <3> QED BY <3>3, <3>4
  <2> HIDE DEF B
  <2>13. Settled(DOMAIN r, OutPri(r), InPri(r), 2, 1, B)
    BY <2>11, <2>12 DEF Settled
  <2>14. PassedOn(2, 1, r, B)
    BY <2>8, <2>13, SettledPassedOn, PrioritiesOfSides
  <2> QED BY <1>5, <2>1, <2>8, <2>9, <2>14
<1> QED BY <1>4, <1>5

LEMMA SeparableUpdated ==
  ASSUME Sides(inst), inst.type \in Separable, ArbitersOK(inst, arb), NEW A, A \subseteq Grid(inst)
  PROVE  ArbitersOK(inst, SeparableArbiters(A))
<1>1. Staffed(arb.in, inst.inputs, inst.outputs) /\ Staffed(arb.out, inst.outputs, inst.inputs)
  BY DEF ArbitersOK
<1> DEFINE f == [i \in Inputs |-> IF i \in Ins(A) THEN UpdateState(arb.in[i], OutOf(A, i)) ELSE arb.in[i]]
           g == [o \in Outputs |-> IF o \in Outs(A) THEN UpdateState(arb.out[o], InOf(A, o)) ELSE arb.out[o]]
<1>2. SeparableArbiters(A) = [in |-> f, out |-> g]
  BY DEF SeparableArbiters
<1>3. \A c \in A : c[1] \in InPorts(inst) /\ c[2] \in OutPorts(inst)
  BY DEF Grid
<1>4. Staffed(f, inst.inputs, inst.outputs)
  <2> SUFFICES ASSUME NEW i \in 0 .. inst.inputs-1
               PROVE  ArbiterOK(f[i]) /\ f[i].size = inst.outputs
    BY DEF Staffed, Inputs
  <2>1. ArbiterOK(arb.in[i]) /\ arb.in[i].size = inst.outputs
    BY <1>1 DEF Staffed
  <2>2. f[i] = IF i \in Ins(A) THEN UpdateState(arb.in[i], OutOf(A, i)) ELSE arb.in[i]
    BY DEF Inputs
  <2>3. ASSUME i \in Ins(A)
        PROVE  OutOf(A, i) \in 0 .. arb.in[i].size-1
    <3>1. (CHOOSE c \in A : c[1] = i) \in A
      BY <2>3 DEF Ins
    <3>2. OutOf(A, i) \in OutPorts(inst)
      BY <1>3, <3>1 DEF OutOf
    <3> QED BY <2>1, <3>2 DEF OutPorts
  <2> HIDE DEF f
  <2> QED BY <2>1, <2>2, <2>3, ArbiterUpdated
<1>5. Staffed(g, inst.outputs, inst.inputs)
  <2> SUFFICES ASSUME NEW o \in 0 .. inst.outputs-1
               PROVE  ArbiterOK(g[o]) /\ g[o].size = inst.inputs
    BY DEF Staffed, Outputs
  <2>1. ArbiterOK(arb.out[o]) /\ arb.out[o].size = inst.inputs
    BY <1>1 DEF Staffed
  <2>2. g[o] = IF o \in Outs(A) THEN UpdateState(arb.out[o], InOf(A, o)) ELSE arb.out[o]
    BY DEF Outputs
  <2>3. ASSUME o \in Outs(A)
        PROVE  InOf(A, o) \in 0 .. arb.out[o].size-1
    <3>1. (CHOOSE c \in A : c[2] = o) \in A
      BY <2>3 DEF Outs
    <3>2. InOf(A, o) \in InPorts(inst)
      BY <1>3, <3>1 DEF InOf
    <3> QED BY <2>1, <3>2 DEF InPorts
  <2> HIDE DEF g
  <2> QED BY <2>1, <2>2, <2>3, ArbiterUpdated
<1>6. /\ f \in [InPorts(inst) -> {f[i] : i \in InPorts(inst)}]
      /\ g \in [OutPorts(inst) -> {g[o] : o \in OutPorts(inst)}]
  BY DEF Inputs, Outputs, InPorts, OutPorts
<1> HIDE DEF f, g
<1> QED BY <1>2, <1>4, <1>5, <1>6 DEF ArbitersOK
-----------------------------------------------------------------------------
(***************************************************************************)
(* The inductive invariant.                                                *)
(***************************************************************************)
\* The allocators whose results are matchings: select is not one with several
\* iterations, in which a stale grant may be accepted (selalloc.cpp:62).
Once(n) == n.type = "select" => n.iters = 1

\* The allocators that reach every output: max_size does not with more outputs
\* than inputs.
Reaching(n) == n.type = "max_size" => n.outputs <= n.inputs

\* The ends of every request are taken, or all rounds made grants.
Fruitful(n, m, r) ==
  \/ Free(m, r) = {}
  \/ n.type \in Iterative /\ Cardinality(Busy(m)) >= n.iters
  \/ n.type \in Separable \cup {"loa"} /\ Busy(m) # {}
  \/ ~Reaching(n)

\* Priority has been given where the allocator looks at priorities, and max_size
\* has matched as many as can be.
Foremost(n, m, r) ==
  /\ n.type = "separable_input_first" => BestPassedOn(1, 2, r, m)
  /\ n.type \in {"separable_output_first", "select"} => BestPassedOn(2, 1, r, m)
  /\ n.type \in Diagonal => BestSweptFirst(r, m)
  /\ n.type = "max_size" /\ Reaching(n) => Largest(m, r)

\* What the allocator n is after it has served the requests r: pointers p,
\* arbiters a and the result m.
Allocated(n, p, a, m, r) ==
  /\ p \in Pointers(n) /\ ArbitersOK(n, a) /\ m \in Tables(n)
  /\ Once(n) => Matched(n, m, DOMAIN r) /\ Fruitful(n, m, r) /\ Foremost(n, m, r)

IInv ==
  /\ inst \in Instances /\ steady \in BOOLEAN
  /\ DOMAIN req \subseteq inst.cells /\ \A c \in DOMAIN req : req[c] \in inst.pris
  /\ Allocated(inst, ptr, arb, match, req)

LEMMA InstanceOK ==
  ASSUME NEW n \in Instances
  PROVE  /\ Sides(n) /\ n.type \in Types /\ n.iters \in Nat \ {0}
         /\ \A r : DOMAIN r \subseteq n.cells /\ (\A c \in DOMAIN r : r[c] \in n.pris) => Requests(n, r)
<1>1. n.cells \subseteq Grid(n) /\ n.pris \subseteq [in : Int, out : Int]
  BY InstancesAssumption DEF Grid, InPorts, OutPorts
<1> QED BY <1>1, InstancesAssumption DEF Sides, Requests

LEMMA NewArbiters ==
  ASSUME NEW n \in Instances
  PROVE  ArbitersOK(n, InitArbiters(n))
<1>1. CASE n.type \notin Separable
  BY <1>1 DEF ArbitersOK, InitArbiters
<1>2. CASE n.type \in Separable
  <2> DEFINE f == [i \in 0 .. n.inputs-1 |-> NewArbiter(n.form, n.outputs)]
             g == [o \in 0 .. n.outputs-1 |-> NewArbiter(n.form, n.inputs)]
  <2>1. InitArbiters(n) = [in |-> f, out |-> g]
    BY <1>2 DEF InitArbiters
  <2>2. /\ n.inputs \in Nat \ {0} /\ n.outputs \in Nat \ {0}
        /\ n.form \in {"round_robin", "matrix", "tree"}
        /\ n.form = "tree" => n.inputs % 2 = 0 /\ n.outputs % 2 = 0
    BY <1>2, InstancesAssumption
  <2>3. /\ ArbiterOK(NewArbiter(n.form, n.outputs)) /\ NewArbiter(n.form, n.outputs).size = n.outputs
        /\ ArbiterOK(NewArbiter(n.form, n.inputs)) /\ NewArbiter(n.form, n.inputs).size = n.inputs
    BY <2>2, ArbiterNew
  <2>4. Staffed(f, n.inputs, n.outputs) /\ Staffed(g, n.outputs, n.inputs)
    BY <2>3 DEF Staffed
  <2>5. /\ f \in [InPorts(n) -> {f[i] : i \in InPorts(n)}]
        /\ g \in [OutPorts(n) -> {g[o] : o \in OutPorts(n)}]
    BY DEF InPorts, OutPorts
  <2> HIDE DEF f, g
  <2> QED BY <1>2, <2>1, <2>4, <2>5 DEF ArbitersOK
<1> QED BY <1>1, <1>2

\* What every operation may assume.
Ready(r) ==
  /\ Sides(inst) /\ inst.iters \in Nat \ {0} /\ Requests(inst, r)
  /\ ptr \in Pointers(inst) /\ ArbitersOK(inst, arb)

\* A result that leaves no request with both ends free is fruitful, and so is one
\* that has made as many grants as there are iterations.
LEMMA RoundsFruitful ==
  ASSUME NEW n, n.type \in Iterative, NEW m, NEW r, Rounds(m, r, n.iters)
  PROVE  Fruitful(n, m, r)
BY DEF Rounds, Fruitful

LEMMA OneRoundFruitful ==
  ASSUME NEW n, n.type \in Separable \cup {"loa"}, NEW m, NEW r, Rounds(m, r, 1)
  PROVE  Fruitful(n, m, r)
<1>1. Busy(m) = {} => Cardinality(Busy(m)) = 0
  BY FS_EmptySet
<1> QED BY <1>1 DEF Rounds, Fruitful

LEMMA NotForemost ==
  ASSUME NEW n, n.type \in {"islip", "pim", "loa"}, NEW m, NEW r
  PROVE  Foremost(n, m, r)
BY DEF Foremost, Separable, Diagonal

LEMMA IslipAllocates ==
  ASSUME NEW r, Ready(r), Islip(r)
  PROVE  Allocated(inst, ptr', arb', match', r)
<1> DEFINE s == FoldLeft(IslipIteration, Start(r), Iterations)
<1>1. inst.type = "islip" /\ match' = s.match /\ ptr' = s.ptr /\ arb' = arb
  BY DEF Islip
<1>2. Going(inst, r, s, inst.iters)
  BY IslipMatched DEF Ready
<1> HIDE DEF s
<1>3. /\ s.ptr \in Pointers(inst) /\ s.match \in Tables(inst)
      /\ Matched(inst, s.match, DOMAIN r) /\ Rounds(s.match, r, inst.iters)
  BY <1>2 DEF Going
<1>4. inst.type \in Iterative
  BY <1>1 DEF Iterative
<1>5. Fruitful(inst, s.match, r) /\ Foremost(inst, s.match, r)
  BY <1>1, <1>3, <1>4, RoundsFruitful, NotForemost
<1> QED BY <1>1, <1>3, <1>5 DEF Allocated, Ready

LEMMA SelectAllocates ==
  ASSUME NEW r, Ready(r), Select(r)
  PROVE  Allocated(inst, ptr', arb', match', r)
<1> DEFINE s == FoldLeft(SelectIteration, Start(r), Iterations)
<1>1. inst.type = "select" /\ match' = s.match /\ ptr' = s.ptr /\ arb' = arb
  BY DEF Select
<1>2. s.match \in Tables(inst) /\ s.ptr \in Pointers(inst)
  BY SelectTyped DEF Ready
<1>3. ASSUME Once(inst)
      PROVE  Matched(inst, s.match, DOMAIN r) /\ Fruitful(inst, s.match, r) /\ Foremost(inst, s.match, r)
  <2>1. inst.iters = 1
    BY <1>1, <1>3 DEF Once
  <2>2. s = SelectIteration(Start(r), 1) /\ Going(inst, r, s, 1)
    BY <2>1, SelectMatched DEF Ready
  <2> HIDE DEF s
  <2>3. Matched(inst, s.match, DOMAIN r) /\ Rounds(s.match, r, inst.iters)
    BY <2>1, <2>2 DEF Going
  <2>4. inst.type \in Iterative
    BY <1>1 DEF Iterative
  <2>5. Fruitful(inst, s.match, r)
    BY <2>3, <2>4, RoundsFruitful
  <2>6. BestPassedOn(2, 1, r, s.match)
    BY <1>1, <2>2, SelectHighest DEF Ready
  <2>7. Foremost(inst, s.match, r)
    BY <1>1, <2>6 DEF Foremost, Diagonal
  <2> QED BY <2>3, <2>5, <2>7
<1> HIDE DEF s
<1> QED BY <1>1, <1>2, <1>3 DEF Allocated, Ready

LEMMA PimAllocates ==
  ASSUME NEW r, Ready(r), Pim(r)
  PROVE  Allocated(inst, ptr', arb', match', r)
<1>1. inst.type = "pim" /\ match' \in PimMatches(r) /\ ptr' = ptr /\ arb' = arb
  BY DEF Pim
<1>2. \A t \in PimMatches(r) : Matched(inst, t, DOMAIN r) /\ Rounds(t, r, inst.iters)
  BY PimMatched DEF Ready
<1>3. Matched(inst, match', DOMAIN r) /\ Rounds(match', r, inst.iters) /\ match' \in Tables(inst)
  BY <1>1, <1>2 DEF Matched
<1>4. inst.type \in Iterative
  BY <1>1 DEF Iterative
<1>5. \A t : Rounds(t, r, inst.iters) => Fruitful(inst, t, r) /\ Foremost(inst, t, r)
  BY <1>1, <1>4, RoundsFruitful, NotForemost
<1>6. Fruitful(inst, match', r) /\ Foremost(inst, match', r)
  BY <1>3, <1>5
<1> QED BY <1>1, <1>3, <1>6 DEF Allocated, Ready

LEMMA LoaAllocates ==
  ASSUME NEW r, Ready(r), Loa(r)
  PROVE  Allocated(inst, ptr', arb', match', r)
<1> DEFINE A == LoaGrants(r)
           m == Grant(Unmatched(inst), A)
           p == LoaPointers(A)
<1>1. inst.type = "loa" /\ match' = m /\ ptr' = p /\ arb' = arb
  BY DEF Loa
<1>2. A \subseteq DOMAIN r /\ Pairing(A) /\ (A = {} => DOMAIN r = {})
  BY LoaPairs DEF Ready
<1>3. A \subseteq Grid(inst)
  BY <1>2 DEF Ready, Requests
<1> HIDE DEF A
<1>4. p \in Pointers(inst)
  BY <1>3, LoaPointersMoved DEF Ready
<1>5. Matched(inst, m, DOMAIN r) /\ Rounds(m, r, 1)
  BY <1>2, PassMatched DEF Ready
<1>6. inst.type \in Separable \cup {"loa"}
  BY <1>1
<1> HIDE DEF m, p
<1>7. Fruitful(inst, m, r) /\ Foremost(inst, m, r)
  BY <1>1, <1>5, <1>6, OneRoundFruitful, NotForemost
<1>8. m \in Tables(inst)
  BY <1>5 DEF Matched
<1> QED BY <1>1, <1>4, <1>5, <1>7, <1>8 DEF Allocated, Ready

LEMMA WavefrontAllocates ==
  ASSUME NEW r, Ready(r), Wavefront(r)
  PROVE  Allocated(inst, ptr', arb', match', r)
<1> DEFINE m == WaveMatch(r)
           p == [ptr EXCEPT !.pri = WavePri(r)]
<1>1. inst.type \in Diagonal /\ match' = m /\ ptr' = p /\ arb' = arb
  BY DEF Wavefront
<1>2. p \in Pointers(inst)
  BY WavePointer DEF Ready
<1>3. Matched(inst, m, DOMAIN r) /\ \A c \in DOMAIN r : Beaten(m, r, c)
  BY WaveMatched DEF Ready
<1> HIDE DEF m, p
<1>4. m \in Tables(inst) /\ DOMAIN r \subseteq Grid(inst)
  BY <1>3 DEF Matched, Ready, Requests
<1>5. Free(m, r) = {}
  <2> SUFFICES ASSUME NEW c \in Free(m, r) PROVE FALSE
    OBVIOUS
  <2>1. c \in DOMAIN r /\ m.in[c[1]] = None /\ m.out[c[2]] = None
    BY DEF Free
  <2>2. PICK d \in DOMAIN r : m.in[d[1]] = d[2] /\ (d[1] = c[1] \/ d[2] = c[2])
    BY <1>3, <2>1 DEF Beaten
  <2>3. d[1] \in InPorts(inst) /\ d[2] \in OutPorts(inst) /\ d[2] # None /\ d[1] # None
    BY <1>4 DEF Grid, InPorts, OutPorts, None
  <2>4. m.out[d[2]] = d[1]
    BY <1>3, <2>2, <2>3 DEF Matched
  <2> QED BY <2>1, <2>2, <2>3, <2>4
<1>6. Fruitful(inst, m, r)
  BY <1>5 DEF Fruitful
<1>7. BestSweptFirst(r, m)
  BY <1>3 DEF Beaten, BestSweptFirst
<1>8. Foremost(inst, m, r)
  BY <1>1, <1>7 DEF Foremost, Separable, Diagonal
<1> QED BY <1>1, <1>2, <1>3, <1>4, <1>6, <1>8 DEF Allocated, Ready

LEMMA MaxSizeAllocates ==
  ASSUME NEW r, Ready(r), MaxSize(r)
  PROVE  Allocated(inst, ptr', arb', match', r)
<1> DEFINE m == MaxSizeMatch(r)
           p == [ptr EXCEPT !.pri = (ptr.pri + 1) % inst.inputs]
<1>1. inst.type = "max_size" /\ match' = m /\ ptr' = p /\ arb' = arb
  BY DEF MaxSize
<1>2. inst.inputs \in Nat \ {0} /\ inst.outputs \in Nat \ {0} /\ ptr \in Pointers(inst)
      /\ ptr.pri \in 0 .. SquareOf(inst)-1
  BY DEF Ready, Sides, Pointers
<1>3. ptr.pri \in Int
  BY <1>2
<1>4. p \in Pointers(inst)
  <2>1. (ptr.pri + 1) % inst.inputs \in 0 .. inst.inputs-1
    BY <1>2, <1>3
  <2>2. inst.inputs <= SquareOf(inst) /\ SquareOf(inst) \in Nat
    BY <1>2 DEF SquareOf
  <2>3. (ptr.pri + 1) % inst.inputs \in 0 .. SquareOf(inst)-1
    BY <1>2, <2>1, <2>2
  <2> QED BY <1>2, <2>3 DEF Pointers
<1>5. /\ Matched(inst, m, DOMAIN r)
      /\ inst.outputs <= inst.inputs => Free(m, r) = {} /\ Largest(m, r)
  BY <1>3, MaxSizeMatched DEF Ready
<1> HIDE DEF m, p
<1>6. m \in Tables(inst)
  BY <1>5 DEF Matched
<1>7. Fruitful(inst, m, r) /\ Foremost(inst, m, r)
  BY <1>1, <1>5 DEF Fruitful, Foremost, Reaching, Separable, Diagonal
<1> QED BY <1>1, <1>4, <1>5, <1>6, <1>7 DEF Allocated, Ready

LEMMA SeparableAllocates ==
  ASSUME NEW r, Ready(r), SeparableAllocate(r)
  PROVE  Allocated(inst, ptr', arb', match', r)
<1> DEFINE A == SeparableGrants(r)
           m0 == Unmatched(inst)
           m == Grant(m0, A)
           a == SeparableArbiters(A)
<1>1. inst.type \in Separable /\ match' = m /\ arb' = a /\ ptr' = ptr
  BY DEF SeparableAllocate
<1>2. /\ A \subseteq DOMAIN r /\ Pairing(A)
      /\ IF inst.type = "separable_input_first" THEN PassedOn(1, 2, r, A) ELSE PassedOn(2, 1, r, A)
  BY <1>1, SeparableGranted DEF Ready
<1> HIDE DEF A
<1>3. A \subseteq Grid(inst)
  BY <1>2 DEF Ready, Requests
<1>4. ArbitersOK(inst, a)
  BY <1>1, <1>3, SeparableUpdated DEF Ready
<1>5. Matched(inst, m, DOMAIN r) /\ Rounds(m, r, 1)
  <2>1. A = {} => DOMAIN r = {}
    BY <1>2 DEF PassedOn
  <2> QED BY <1>2, <2>1, PassMatched DEF Ready
<1>6. GrantedTo(inst, m0, A, m)
  <2>1. Matched(inst, m0, DOMAIN r)
    BY NothingMatched
  <2>2. Idle(m0, A)
    BY <1>3 DEF Idle, Unmatched, Grid, InPorts, OutPorts
  <2>3. DOMAIN r \subseteq Grid(inst)
    BY DEF Ready, Requests
  <2> HIDE DEF m0
  <2> QED BY <1>2, <2>1, <2>2, <2>3, GrantMatched
<1>7. IF inst.type = "separable_input_first" THEN BestPassedOn(1, 2, r, m) ELSE BestPassedOn(2, 1, r, m)
  <2> HIDE DEF m
  <2> QED BY <1>2, <1>6, PassedOnGranted DEF Ready
<1> HIDE DEF m, m0, a
<1>8. Foremost(inst, m, r)
  BY <1>1, <1>7 DEF Foremost, Separable, Diagonal
<1>9. Fruitful(inst, m, r)
  BY <1>1, <1>5, OneRoundFruitful
<1>10. m \in Tables(inst)
  BY <1>5 DEF Matched
<1> QED BY <1>1, <1>4, <1>5, <1>8, <1>9, <1>10 DEF Allocated, Ready

LEMMA AllocateAllocates ==
  ASSUME IInv, NEW r, DOMAIN r \subseteq inst.cells, \A c \in DOMAIN r : r[c] \in inst.pris, Allocate(r)
  PROVE  /\ inst' = inst /\ req' = r
         /\ Allocated(inst, ptr', arb', match', r)
<1>1. inst \in Instances /\ ptr \in Pointers(inst) /\ ArbitersOK(inst, arb)
  BY DEF IInv, Allocated
<1>2. Ready(r)
  BY <1>1, InstanceOK DEF Ready
<1>3. Islip(r) \/ Select(r) \/ Pim(r) \/ Loa(r) \/ Wavefront(r) \/ MaxSize(r) \/ SeparableAllocate(r)
  BY DEF Allocate
<1>4. Allocated(inst, ptr', arb', match', r)
  BY <1>2, <1>3, IslipAllocates, SelectAllocates, PimAllocates, LoaAllocates, WavefrontAllocates,
     MaxSizeAllocates, SeparableAllocates
<1> QED BY <1>4 DEF Allocate

LEMMA InvInit == Init => IInv
<1> SUFFICES ASSUME Init PROVE IInv
  OBVIOUS
<1>1. inst \in Instances /\ Sides(inst)
  BY InstanceOK DEF Init
<1>2. ptr \in Pointers(inst)
  <2>1. 0 \in InPorts(inst) /\ 0 \in OutPorts(inst) /\ 0 \in 0 .. SquareOf(inst)-1
    BY <1>1 DEF Sides, InPorts, OutPorts, SquareOf
  <2> QED BY <2>1 DEF Init, Pointers, InPorts, OutPorts
<1>3. ArbitersOK(inst, arb)
  BY <1>1, NewArbiters DEF Init
<1>4. req = <<>> /\ match = Unmatched(inst) /\ steady \in BOOLEAN
  BY DEF Init
<1>5. DOMAIN req = {}
  BY <1>4
<1>6. Matched(inst, match, DOMAIN req) /\ match \in Tables(inst)
  BY <1>4, NothingMatched DEF Matched
<1>7. Largest(match, req)
  <2>1. Cardinality({}) = 0 /\ SUBSET DOMAIN req = {{}}
    BY <1>5, FS_EmptySet
  <2>2. Cardinality(Busy(match)) \in Nat
    BY <1>1, <1>6, BusyFinite
  <2> QED BY <2>1, <2>2 DEF Largest
<1>8. Fruitful(inst, match, req) /\ Foremost(inst, match, req)
  <2>1. Free(match, req) = {}
    BY <1>5 DEF Free
  <2>2. BestPassedOn(1, 2, req, match) /\ BestPassedOn(2, 1, req, match) /\ BestSweptFirst(req, match)
    BY <1>5 DEF BestPassedOn, BestSweptFirst
  <2> QED BY <1>7, <2>1, <2>2 DEF Fruitful, Foremost
<1> QED BY <1>1, <1>2, <1>3, <1>4, <1>5, <1>6, <1>8 DEF IInv, Allocated

LEMMA InvNext == IInv /\ [Next]_vars => IInv'
<1> SUFFICES ASSUME IInv, [Next]_vars PROVE IInv'
  OBVIOUS
<1>1. CASE Cycle
  <2>1. PICK r \in RequestSets(inst) : Allocate(r) /\ UNCHANGED <<steady, waited>>
    BY <1>1 DEF Cycle
  <2>2. DOMAIN r \subseteq inst.cells /\ \A c \in DOMAIN r : r[c] \in inst.pris
    BY DEF RequestSets
  <2>3. inst' = inst /\ req' = r /\ Allocated(inst, ptr', arb', match', r)
    BY <2>1, <2>2, AllocateAllocates
  <2> QED BY <2>1, <2>2, <2>3 DEF IInv
<1>2. CASE RepeatedCycle
  <2>1. Allocate(req) /\ steady' = TRUE
    BY <1>2 DEF RepeatedCycle
  <2>2. DOMAIN req \subseteq inst.cells /\ \A c \in DOMAIN req : req[c] \in inst.pris
    BY DEF IInv
  <2>3. inst' = inst /\ req' = req /\ Allocated(inst, ptr', arb', match', req)
    BY <2>1, <2>2, AllocateAllocates
  <2> QED BY <2>1, <2>2, <2>3 DEF IInv
<1>3. CASE UNCHANGED vars
  BY <1>3 DEF IInv, vars
<1> QED BY <1>1, <1>2, <1>3 DEF Next

-----------------------------------------------------------------------------
(***************************************************************************)
(* The theorems.                                                           *)
(***************************************************************************)
\* Every allocator keeps its invariant, whatever is requested of it in each cycle.
THEOREM AllocatorsInvariant == Spec => []IInv
BY InvInit, InvNext, PTL DEF Spec

\* The pointers of every allocator stay within its ports, and the result names
\* ports or nothing (allocator.cpp).
THEOREM AllocatorsTyped == Spec => []TypeOK
<1>1. IInv => TypeOK
  BY DEF IInv, Allocated, TypeOK, Pointers, Tables, Inputs, Outputs, InPorts, OutPorts, Square, SquareOf
<1> QED BY <1>1, AllocatorsInvariant, PTL

\* The result of a cycle is a matching of requested pairs, for every allocator but
\* a select of several iterations (selalloc.cpp:62).
THEOREM AllocatorsMatch ==
  ASSUME \A n \in Instances : Once(n)
  PROVE  Spec => []GrantsMatch
<1>1. IInv => GrantsMatch
  BY DEF IInv, Allocated, Matched, GrantsMatch, Inputs, Outputs, InPorts, OutPorts
<1> QED BY <1>1, AllocatorsInvariant, PTL

\* The arbiters of a separable allocator select a request whenever there is one
\* (the assertion at arbiter.cpp:74).
THEOREM AllocatorsDecide == Spec => []ArbitersDecide
<1>1. ASSUME IInv PROVE ArbitersDecide
  <2>1. ASSUME NEW a, ArbiterOK(a), NEW S \in (SUBSET (0 .. a.size-1)) \ {{}}
        PROVE  Arbitrate(a, [x \in S |-> 0]) \in S
    <3> DEFINE pri == [x \in S |-> 0]
    <3>1. DOMAIN pri = S /\ Asked(pri, a.size)
      BY DEF Asked
    <3>2. Arbitrate(a, pri) \in Top(pri)
      BY <2>1, <3>1, ArbiterPicks
    <3> QED BY <3>1, <3>2 DEF Top
  <2>2. ASSUME NEW a \in {arb.in[i] : i \in DOMAIN arb.in} \cup {arb.out[o] : o \in DOMAIN arb.out}
        PROVE  ArbiterOK(a)
    <3>1. ArbitersOK(inst, arb)
      BY <1>1 DEF IInv, Allocated
    <3>2. CASE inst.type \in Separable
      BY <3>1, <3>2 DEF ArbitersOK, Staffed
    <3>3. CASE inst.type \notin Separable
      BY <3>1, <3>3 DEF ArbitersOK
    <3> QED BY <3>2, <3>3
  <2> QED BY <2>1, <2>2 DEF ArbitersDecide
<1> QED BY <1>1, AllocatorsInvariant, PTL

\* No cycle leaves a request with both ends free, but for one grant (LOA, the
\* separable allocators) or a grant in each iteration (iSLIP, PIM, select).
THEOREM AllocatorsProductive ==
  ASSUME \A n \in Instances : Once(n) /\ Reaching(n)
  PROVE  Spec => []Productive
<1>1. ASSUME IInv PROVE Productive
  <2>1. Fruitful(inst, match, req) /\ Reaching(inst) /\ match \in Tables(inst)
    BY <1>1 DEF IInv, Allocated
  <2>2. Granted = Busy(match)
    BY <2>1 DEF Granted, Busy, Tables, Inputs, InPorts
  <2> QED BY <2>1, <2>2 DEF Fruitful, Productive
<1> QED BY <1>1, AllocatorsInvariant, PTL

\* The allocators that look at priorities keep them, each side its own: what one
\* side passes on it ranks highest, and the other side keeps none that it ranks
\* below one refused (separable_input_first.cpp:63, 78, selalloc.cpp:110, 178); a
\* wavefront refuses no request but for one not below it (wavefront.cpp:52).
THEOREM AllocatorsHighestFirst ==
  ASSUME \A n \in Instances : Once(n)
  PROVE  Spec => []HighestFirst
<1>1. ASSUME IInv PROVE HighestFirst
  <2>1. Foremost(inst, match, req)
    BY <1>1 DEF IInv, Allocated
  <2> QED BY <2>1 DEF Foremost, HighestFirst
<1> QED BY <1>1, AllocatorsInvariant, PTL

\* The matching of max_size is one of maximum size (the comment at maxsize.cpp:91),
\* for allocators with no more outputs than inputs.
THEOREM AllocatorsMaximum == Spec => []MaxSizeIsMaximum
<1>1. ASSUME IInv PROVE MaxSizeIsMaximum
  <2> SUFFICES ASSUME inst.type = "max_size", inst.outputs <= inst.inputs
               PROVE  \A M \in SUBSET DOMAIN req :
                        (\A c, d \in M : c # d => c[1] # d[1] /\ c[2] # d[2])
                          => Cardinality(M) <= Cardinality(Granted)
    BY DEF MaxSizeIsMaximum
  <2>1. Foremost(inst, match, req) /\ match \in Tables(inst)
    BY <1>1 DEF IInv, Allocated, Once
  <2>2. Granted = Busy(match)
    BY <2>1 DEF Granted, Busy, Tables, Inputs, InPorts
  <2>3. Largest(match, req)
    BY <2>1 DEF Foremost, Reaching
  <2> QED BY <2>2, <2>3 DEF Largest
<1> QED BY <1>1, AllocatorsInvariant, PTL
=============================================================================
