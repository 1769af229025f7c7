------------------------------ MODULE Arbiters ------------------------------
(***************************************************************************)
(* The arbiters of src/src/noc/arbiters: an arbiter picks one of the       *)
(* inputs that request it and, when told that its pick was used            *)
(* (UpdateState), lowers that input's standing.                            *)
(*                                                                         *)
(* An arbiter is a record; its requests are a function `pri' from the      *)
(* requesting inputs to their priorities.  AddRequest, Arbitrate and Clear *)
(* of one cycle collapse into Arbitrate(a, pri): no arbiter keeps a        *)
(* request from one cycle to the next.                                     *)
(*                                                                         *)
(*   round_robin   _pointer, the input that comes first among equals       *)
(*   matrix        _matrix as the relation `beats': <<i, j>> \in beats     *)
(*                 when _matrix[i][j] = 1, i goes before j                 *)
(*   tree          equal groups with an arbiter each, and a global arbiter *)
(*                 between the groups' winners                             *)
(***************************************************************************)
EXTENDS Integers, FiniteSets

NoInput == -1                              \* _selected before any selection

RoundRobin(n) == [type |-> "round_robin", size |-> n, pointer |-> 0]

Matrix(n) ==
  [type |-> "matrix", size |-> n,
   beats |-> {p \in (0 .. n-1) \X (0 .. n-1) : p[2] < p[1]}]

Leaf(type, n) == IF type = "matrix" THEN Matrix(n) ELSE RoundRobin(n)

(* tree(groups, type): TreeArbiter asserts that the groups are equal.      *)
Tree(type, n, groups) ==
  [type |-> "tree", size |-> n, span |-> n \div groups,
   group |-> [g \in 0 .. groups-1 |-> Leaf(type, n \div groups)],
   global |-> Leaf(type, groups)]

(* How far x comes after the pointer p in a round of n positions.          *)
Distance(x, p, n) == (x - p + n) % n

(* The first member of S met when going round from p.                      *)
FirstFrom(p, S, n) ==
  CHOOSE x \in S : \A y \in S : Distance(x, p, n) <= Distance(y, p, n)

(* The requests of highest priority.                                       *)
Top(pri) == {i \in DOMAIN pri : \A j \in DOMAIN pri : pri[j] <= pri[i]}

(* MatrixArbiter::Arbitrate grants the first input, in index order, that   *)
(* no other request of its priority beats.                                 *)
Unbeaten(a, pri) ==
  {i \in Top(pri) : \A j \in Top(pri) : <<j, i>> \notin a.beats}

LeafArbitrate(a, pri) ==
  LET candidates == IF a.type = "matrix" THEN Unbeaten(a, pri) ELSE Top(pri)
      first      == IF a.type = "matrix" THEN 0 ELSE a.pointer
  IN  IF candidates = {} THEN NoInput ELSE FirstFrom(first, candidates, a.size)

TreeArbitrate(a, pri) ==
  LET asking    == {i \div a.span : i \in DOMAIN pri}
      within(g) == [k \in {i % a.span : i \in {x \in DOMAIN pri : x \div a.span = g}}
                      |-> pri[g * a.span + k]]
      winner    == [g \in asking |-> LeafArbitrate(a.group[g], within(g))]
      best      == LeafArbitrate(a.global, [g \in asking |-> within(g)[winner[g]]])
  IN  best * a.span + winner[best]

Arbitrate(a, pri) ==
  IF DOMAIN pri = {} THEN NoInput
  ELSE IF a.type = "tree" THEN TreeArbitrate(a, pri)
  ELSE LeafArbitrate(a, pri)

(* Mutant: the winner keeps its own row of the matrix.                     *)
LeafUpdateKeepRow(a, selected) ==
  IF a.type = "matrix"
  THEN [a EXCEPT !.beats = @ \cup {<<i, selected>> : i \in (0 .. a.size-1) \ {selected}}]
  ELSE [a EXCEPT !.pointer = (selected + 1) % a.size]

LeafUpdate(a, selected) ==
  IF a.type = "matrix"
  THEN [a EXCEPT !.beats = {p \in @ : p[1] # selected}
                             \cup {<<i, selected>> : i \in (0 .. a.size-1) \ {selected}}]
  ELSE [a EXCEPT !.pointer = (selected + 1) % a.size]

(* UpdateState, called only after an arbitration that selected an input.   *)
UpdateState(a, selected) ==
  IF a.type = "tree"
  THEN LET g == selected \div a.span
       IN  [a EXCEPT !.group[g] = LeafUpdate(@, selected % a.span),
                     !.global   = LeafUpdate(@, g)]
  ELSE LeafUpdate(a, selected)
=============================================================================
