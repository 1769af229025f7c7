----------------------------- MODULE Allocators -----------------------------
(***************************************************************************)
(* The allocators of src/src/noc/allocators that an IQRouter may be        *)
(* configured with (Allocator::NewAllocator).  Every cycle the router      *)
(* clears its allocator, adds requests for pairs of an input and an        *)
(* output, and calls Allocate, which matches inputs to outputs; what is    *)
(* kept from cycle to cycle is the round-robin state that is to keep the   *)
(* allocator fair.                                                         *)
(*                                                                         *)
(* inst    the allocator: its type, inputs, outputs and iterations, the    *)
(*         form of its arbiters, the pairs and priorities requested of it  *)
(* ptr     _gptrs of the outputs (grant), _aptrs of the inputs (accept;    *)
(*         _gptr and _rptr in LOA), and the single _pri or _prio           *)
(* arb     the arbiters of a separable allocator                           *)
(* req     the requests of this cycle: a function from the requested pairs *)
(*         to their two priorities, in (in_pri) and out (out_pri)          *)
(* match   _inmatch and _outmatch after Allocate                           *)
(* steady  from now on the router makes the same requests in every cycle   *)
(* waited  for each pair, the cycles of the steady state it has waited     *)
(***************************************************************************)
EXTENDS Arbiters, SequencesExt

CONSTANTS Instances       \* the allocators to be checked

Iterative == {"pim", "islip", "select"}
Diagonal  == {"wavefront", "rr_wavefront"}
Separable == {"separable_input_first", "separable_output_first"}
Ranking   == Separable \cup Diagonal \cup {"select"}   \* those that look at priorities
Types     == Iterative \cup Diagonal \cup Separable \cup {"loa", "max_size"}

ASSUME InstancesAssumption ==
  \A n \in Instances :
    /\ n.type \in Types
    /\ n.inputs \in Nat \ {0} /\ n.outputs \in Nat \ {0} /\ n.iters \in Nat \ {0}
    /\ n.cells \subseteq (0 .. n.inputs-1) \X (0 .. n.outputs-1) 
    /\ n.pris \subseteq [in : Int, out : Int]
    /\ n.type \in Separable =>
         /\ n.form \in {"round_robin", "matrix", "tree"}
         /\ n.form = "tree" => n.inputs % 2 = 0 /\ n.outputs % 2 = 0  \* asserted by TreeArbiter

VARIABLES inst, ptr, arb, req, match, steady, waited
vars == <<inst, ptr, arb, req, match, steady, waited>>

None == -1
Inputs  == 0 .. inst.inputs-1
Outputs == 0 .. inst.outputs-1

Unmatched(n) == [in  |-> [i \in 0 .. n.inputs-1  |-> None],
                 out |-> [o \in 0 .. n.outputs-1 |-> None]]

(* What the router may request in one cycle.  The switch allocator is      *)
(* given the priority of the packet on both sides; the VC allocator that   *)
(* of the packet, one for all requests of an input VC, on the output side, *)
(* and that of the routing function's choice on the input side.            *)
RequestSets(n) ==
  {r \in UNION {[S -> n.pris] : S \in SUBSET n.cells} :
     \/ \A c \in DOMAIN r : r[c].in = r[c].out
     \/ \A c, d \in DOMAIN r : c[1] = d[1] => r[c].out = r[d].out}

InPri(r)  == [c \in DOMAIN r |-> r[c].in]
OutPri(r) == [c \in DOMAIN r |-> r[c].out]

(* The order of the pairs of priorities of a wavefront (_priorities).      *)
Above(p, q) == p.out > q.out \/ (p.out = q.out /\ p.in > q.in)

NewArbiter(form, size) ==
  CASE form = "round_robin" -> RoundRobin(size)
    [] form = "matrix"      -> Matrix(size)
    [] form = "tree"        -> Tree("round_robin", size, 2)

-----------------------------------------------------------------------------
(* Sets of granted or accepted pairs, an output (an input) in one at most. *)
Ins(A)  == {c[1] : c \in A}
Outs(A) == {c[2] : c \in A}
InOf(A, o)  == (CHOOSE c \in A : c[2] = o)[1]
OutOf(A, i) == (CHOOSE c \in A : c[1] = i)[2]

Grant(m, A) ==
  [in  |-> [i \in DOMAIN m.in  |-> IF i \in Ins(A)  THEN OutOf(A, i) ELSE m.in[i]],
   out |-> [o \in DOMAIN m.out |-> IF o \in Outs(A) THEN InOf(A, o)  ELSE m.out[o]]]

(* Mutant: the grant phase does not look whether the input is taken.       *)
FreeBusyInput(m, r) == {c \in DOMAIN r : m.out[c[2]] = None}

(* Requested pairs whose ends are both unmatched.                          *)
Free(m, r) == {c \in DOMAIN r : m.in[c[1]] = None /\ m.out[c[2]] = None}

(* Of the pairs of S those of the highest rank.                            *)
Best(S, rank) == {c \in S : \A d \in S : rank[d] <= rank[c]}

(* Each output that has a free requester grants the next of the best from  *)
(* its pointer on, and each input that is granted accepts likewise.        *)
Granting(free, p, rank) ==
  LET best(o) == Best({c \in free : c[2] = o}, rank)
  IN  {<<FirstFrom(p[o], Ins(best(o)), inst.inputs), o>> : o \in Outs(free)}

Accepting(grants, p, rank) ==
  LET best(i) == Best({c \in grants : c[1] = i}, rank)
  IN  {<<i, FirstFrom(p[i], Outs(best(i)), inst.outputs)>> : i \in Ins(grants)}

(* Mutant: the pointers move in every iteration.                           *)
MovePointersAlways(p, A, iter) ==
  [p EXCEPT !.grant  = [o \in Outputs |-> IF o \in Outs(A)
                          THEN (InOf(A, o) + 1) % inst.inputs ELSE @[o]],
            !.accept = [i \in Inputs |-> IF i \in Ins(A)
                          THEN (OutOf(A, i) + 1) % inst.outputs ELSE @[i]]]

(* The pointers of an accepted pair move past the partner, in the first    *)
(* iteration only.                                                         *)
MovePointers(p, A, iter) ==
  IF iter # 1 THEN p
  ELSE [p EXCEPT !.grant  = [o \in Outputs |-> IF o \in Outs(A)
                               THEN (InOf(A, o) + 1) % inst.inputs ELSE @[o]],
                 !.accept = [i \in Inputs |-> IF i \in Ins(A)
                               THEN (OutOf(A, i) + 1) % inst.outputs ELSE @[i]]]

Iterations == [k \in 1 .. inst.iters |-> k]

Start(r) == [match |-> Unmatched(inst), ptr |-> ptr, req |-> r, grants |-> {}]

-----------------------------------------------------------------------------
(* Mutant: the search for a requester does not wrap round.                 *)
IslipIterationNoWrap(s, iter) ==
  LET equal  == [c \in DOMAIN s.req |-> 0]
      ahead  == {c \in Free(s.match, s.req) : c[1] >= s.ptr.grant[c[2]]}
      A      == Accepting(Granting(ahead, s.ptr.grant, equal), s.ptr.accept, equal)
  IN  [s EXCEPT !.match = Grant(@, A), !.ptr = MovePointers(@, A, iter)]

(* iSLIP_Sparse::Allocate: a free output grants the next free input that   *)
(* requests it, and an input accepts the next output that grants it; all   *)
(* requests rank alike.                                                    *)
IslipIteration(s, iter) ==
  LET equal  == [c \in DOMAIN s.req |-> 0]
      grants == Granting(Free(s.match, s.req), s.ptr.grant, equal)
      A      == Accepting(grants, s.ptr.accept, equal)
  IN  [s EXCEPT !.match = Grant(@, A), !.ptr = MovePointers(@, A, iter)]

(* SelAlloc::Allocate: as iSLIP, but an output grants the highest out_pri, *)
(* an input accepts the highest in_pri, and `grants' is declared outside   *)
(* the loop over the iterations: an output that finds no free requester    *)
(* keeps its grant of an earlier iteration.                                *)
SelectIteration(s, iter) ==
  LET fresh  == Granting(Free(s.match, s.req), s.ptr.grant, OutPri(s.req))
      grants == fresh \cup {c \in s.grants : c[2] \notin Outs(fresh)}
      A      == Accepting(grants, s.ptr.accept, InPri(s.req))
  IN  [s EXCEPT !.match = Grant(@, A), !.ptr = MovePointers(@, A, iter), !.grants = grants]

(* PIM::Allocate: a random offset stands for every pointer, so any free    *)
(* requester may be granted and any grant accepted.                        *)
PimIteration(m, r) ==
  LET free == Free(m, r)
      grants == {{<<g[o], o>> : o \in Outs(free)} :
                   g \in {h \in [Outs(free) -> Inputs] : \A o \in Outs(free) : <<h[o], o>> \in free}}
      accepts(G) == {{<<i, f[i]>> : i \in Ins(G)} :
                       f \in {h \in [Ins(G) -> Outputs] : \A i \in Ins(G) : <<i, h[i]>> \in G}}
  IN  UNION {{Grant(m, A) : A \in accepts(G)} : G \in grants}

PimMatches(r) ==
  FoldLeft(LAMBDA ms, iter : UNION {PimIteration(m, r) : m \in ms},
           {Unmatched(inst)}, Iterations)

-----------------------------------------------------------------------------
(* LOA::Allocate: an input requests only the loneliest output it wants,    *)
(* the one with fewest requests, and an output grants one of those.        *)
Lonely(r, i) ==
  LET wanted   == {o \in Outputs : <<i, o>> \in DOMAIN r}
      count(o) == Cardinality({j \in Inputs : <<j, o>> \in DOMAIN r})
      lonely   == {o \in wanted : \A p \in wanted : count(o) <= count(p)}
  IN  IF wanted = {} THEN None ELSE FirstFrom(ptr.accept[i], lonely, inst.outputs)

LoaGrants(r) ==
  LET asks(o) == {i \in Inputs : Lonely(r, i) = o}
  IN  {<<FirstFrom(ptr.grant[o], asks(o), inst.inputs), o>> : o \in {p \in Outputs : asks(p) # {}}}

(* Mutant: the pointers of the outputs do not wrap.                        *)
LoaPointersUnwrapped(A) ==
  [ptr EXCEPT !.grant  = [o \in Outputs |-> IF o \in Outs(A) THEN @[o] + 1 ELSE @[o]],
              !.accept = [i \in Inputs |-> IF i \in Ins(A) THEN (@[i] + 1) % inst.outputs ELSE @[i]]]

LoaPointers(A) ==
  [ptr EXCEPT !.grant  = [o \in Outputs |-> IF o \in Outs(A) THEN (@[o] + 1) % inst.inputs ELSE @[o]],
              !.accept = [i \in Inputs |-> IF i \in Ins(A) THEN (@[i] + 1) % inst.outputs ELSE @[i]]]

(* Wavefront::Allocate: the requests are granted greedily, those of higher *)
(* out_pri first, of higher in_pri among those, and then diagonal by       *)
(* diagonal from _pri on.                                                  *)
Square == IF inst.inputs > inst.outputs THEN inst.inputs ELSE inst.outputs

WaveOrder(r) ==
  LET diagonal(c) == Distance(c[1] + c[2], ptr.pri, Square)
      before(c, d) == \/ Above(r[c], r[d])
                      \/ r[c] = r[d] /\ diagonal(c) < diagonal(d)
                      \/ r[c] = r[d] /\ diagonal(c) = diagonal(d) /\ c[2] < d[2]
      rank(c) == Cardinality({d \in DOMAIN r : before(d, c)})
  IN  [k \in 1 .. Cardinality(DOMAIN r) |-> CHOOSE c \in DOMAIN r : rank(c) = k - 1]

WaveMatch(r) ==
  FoldLeft(LAMBDA m, c : IF c \in Free(m, r) THEN Grant(m, {c}) ELSE m,
           Unmatched(inst), WaveOrder(r))

(* rr_wavefront goes on from the first diagonal granted (_skip_diags).     *)
WavePri(r) ==
  LET first == Head(WaveOrder(r))
  IN  IF DOMAIN r = {} THEN ptr.pri
      ELSE ((IF inst.type = "rr_wavefront" THEN first[1] + first[2] ELSE ptr.pri) + 1) % Square

-----------------------------------------------------------------------------
(* Mutant: the search stops at outputs that are matched.                   *)
SearchUnmatchedOnly(m, r) ==
  LET pairs == Free(m, r)
      none  == [from |-> [o \in Outputs |-> None], stack |-> <<>>, end |-> None]
  IN  IF pairs = {} THEN none
      ELSE LET c == CHOOSE c \in pairs : TRUE
           IN  [none EXCEPT !.from[c[2]] = c[1], !.end = c[2]]

(* MaxSizeMatch::_ShortestAugmenting, a breadth-first search for a path    *)
(* from an unmatched input to an unmatched output.  `from' is where each   *)
(* output was reached from.  _from has _outputs elements, but is reset     *)
(* with assign(_inputs, -1): outputs from _inputs on keep the 0 they were  *)
(* built with, as if they had been reached already.                        *)
Reach(m, r, i, b, j) ==
  IF b.end # None \/ <<i, j>> \notin DOMAIN r \/ m.in[i] = j \/ b.from[j] # None THEN b
  ELSE IF m.out[j] = None THEN [b EXCEPT !.from[j] = i, !.end = j]
  ELSE [b EXCEPT !.from[j] = i, !.stack = Append(@, m.out[j])]

Visit(m, r, b, i) ==
  FoldLeft(LAMBDA c, j : Reach(m, r, i, c, j), b, [k \in 1 .. inst.outputs |-> k - 1])

Level(m, r, b) ==
  IF b.end # None THEN b
  ELSE FoldLeft(LAMBDA c, i : Visit(m, r, c, i), [b EXCEPT !.stack = <<>>], b.stack)

(* The inputs in their order, the one at _prio first.  A path has an input *)
(* once at most, and a matching has at most _inputs pairs, so as many turns *)
(* as it has elements end the loops below.                                 *)
Rotated == [k \in 1 .. inst.inputs |-> (k - 1 + ptr.pri) % inst.inputs]

Search(m, r) ==
  FoldLeft(LAMBDA b, k : Level(m, r, b),
           [from  |-> [o \in Outputs |-> IF o < inst.inputs THEN None ELSE 0],
            stack |-> FoldLeft(LAMBDA q, i : IF m.in[i] = None THEN Append(q, i) ELSE q,
                               <<>>, Rotated),
            end   |-> None],
           Rotated)

(* Walk the path back, matching each output on it to where it was reached  *)
(* from, until an input that had no output before.                         *)
Back(b, w) ==
  IF w.at = None THEN w
  ELSE LET i == b.from[w.at]
       IN  [m |-> [w.m EXCEPT !.in[i] = w.at, !.out[w.at] = i], at |-> w.m.in[i]]

Augment(m, r) ==
  LET b == Search(m, r)
  IN  FoldLeft(LAMBDA w, k : Back(b, w), [m |-> m, at |-> b.end], Rotated).m

MaxSizeMatch(r) ==
  FoldLeft(LAMBDA m, k : Augment(m, r), Unmatched(inst), Rotated)

-----------------------------------------------------------------------------
(* SeparableInputFirst/OutputFirstAllocator::Allocate: the arbiter of each *)
(* near end picks one of its requests by nearPri, the arbiter of each far  *)
(* end one of the picks that reach it by farPri.  These are the pairs that *)
(* remain.  An input ranks by in_pri and an output by out_pri.             *)
SeparablePairs(near, far, nearPri, farPri) ==
  LET wants(n) == {c[2] : c \in {d \in DOMAIN nearPri : d[1] = n}}
      pick     == [n \in DOMAIN near |-> Arbitrate(near[n], [f \in wants(n) |-> nearPri[<<n, f>>]])]
      winner   == [f \in DOMAIN far |->
                     Arbitrate(far[f], [n \in {k \in DOMAIN near : pick[k] = f} |-> farPri[<<n, f>>]])]
  IN  {<<winner[f], f>> : f \in {g \in DOMAIN far : winner[g] # NoInput}}

Flip(c) == <<c[2], c[1]>>
Flipped(pri) == [c \in {Flip(d) : d \in DOMAIN pri} |-> pri[Flip(c)]]

(* Mutant: both sides rank by in_pri.                                      *)
SeparableGrantsByInPri(r) ==
  IF inst.type = "separable_input_first" THEN SeparablePairs(arb.in, arb.out, InPri(r), InPri(r))
  ELSE {Flip(c) : c \in SeparablePairs(arb.out, arb.in, Flipped(InPri(r)), Flipped(InPri(r)))}

SeparableGrants(r) ==
  IF inst.type = "separable_input_first" THEN SeparablePairs(arb.in, arb.out, InPri(r), OutPri(r))
  ELSE {Flip(c) : c \in SeparablePairs(arb.out, arb.in, Flipped(OutPri(r)), Flipped(InPri(r)))}

(* Only the arbiters of a pair that both ends chose are updated.           *)
SeparableArbiters(A) ==
  [in  |-> [i \in Inputs  |-> IF i \in Ins(A) THEN UpdateState(arb.in[i], OutOf(A, i)) ELSE arb.in[i]],
   out |-> [o \in Outputs |-> IF o \in Outs(A) THEN UpdateState(arb.out[o], InOf(A, o)) ELSE arb.out[o]]]

-----------------------------------------------------------------------------
(* A cycle of the router: Clear, AddRequest for each of the requests r,    *)
(* Allocate.                                                               *)

InitArbiters(n) ==
  IF n.type \in Separable
  THEN [in  |-> [i \in 0 .. n.inputs-1  |-> NewArbiter(n.form, n.outputs)],
        out |-> [o \in 0 .. n.outputs-1 |-> NewArbiter(n.form, n.inputs)]]
  ELSE [in |-> <<>>, out |-> <<>>]

Init ==
  /\ inst \in Instances
  /\ ptr = [grant  |-> [o \in 0 .. inst.outputs-1 |-> 0],
            accept |-> [i \in 0 .. inst.inputs-1  |-> 0], pri |-> 0]
  /\ arb = InitArbiters(inst)
  /\ req = <<>>
  /\ match = Unmatched(inst)
  /\ steady = FALSE /\ waited = [c \in inst.cells |-> 0]

Islip(r) ==
  /\ inst.type = "islip"
  /\ LET s == FoldLeft(IslipIteration, Start(r), Iterations)
     IN  match' = s.match /\ ptr' = s.ptr
  /\ UNCHANGED arb

Select(r) ==
  /\ inst.type = "select"
  /\ LET s == FoldLeft(SelectIteration, Start(r), Iterations)
     IN  match' = s.match /\ ptr' = s.ptr
  /\ UNCHANGED arb

Pim(r) ==
  /\ inst.type = "pim"
  /\ match' \in PimMatches(r)
  /\ UNCHANGED <<ptr, arb>>

Loa(r) ==
  /\ inst.type = "loa"
  /\ match' = Grant(Unmatched(inst), LoaGrants(r))
  /\ ptr' = LoaPointers(LoaGrants(r))
  /\ UNCHANGED arb

Wavefront(r) ==
  /\ inst.type \in Diagonal
  /\ match' = WaveMatch(r)
  /\ ptr' = [ptr EXCEPT !.pri = WavePri(r)]
  /\ UNCHANGED arb

MaxSize(r) ==
  /\ inst.type = "max_size"
  /\ match' = MaxSizeMatch(r)
  /\ ptr' = [ptr EXCEPT !.pri = (@ + 1) % inst.inputs]
  /\ UNCHANGED arb

SeparableAllocate(r) ==
  /\ inst.type \in Separable
  /\ match' = Grant(Unmatched(inst), SeparableGrants(r))
  /\ arb' = SeparableArbiters(SeparableGrants(r))
  /\ UNCHANGED ptr

Allocate(r) ==
  /\ req' = r /\ UNCHANGED inst
  /\ \/ Islip(r) \/ Select(r) \/ Pim(r) \/ Loa(r)
     \/ Wavefront(r) \/ MaxSize(r) \/ SeparableAllocate(r)

Cycle == ~steady /\ \E r \in RequestSets(inst) : Allocate(r) /\ UNCHANGED <<steady, waited>>

(* What an allocator owes to a request that is repeated for ever: its      *)
(* grant, if every other request has the same priorities or comes below    *)
(* it; LOA and max_size, which may prefer another output for ever, owe the *)
(* input some output, and PIM leaves it to chance.  An output that looks   *)
(* first does not move on from a request that for ever loses at its input  *)
(* by in_pri, so one as high in out_pri is not below.  The inputs of       *)
(* separable_input_first do not know the case: the requests of one input   *)
(* are all of one out_pri.                                                 *)
Below(p, q) ==
  CASE inst.type \in Diagonal                -> Above(q, p)
    [] inst.type = "separable_input_first"   -> p.in <= q.in /\ p.out <= q.out
    [] OTHER                                 -> p.in < q.in /\ p.out < q.out

Owed(c) ==
  /\ inst.type # "pim" /\ c \in DOMAIN req
  /\ inst.type \in Ranking => \A d \in DOMAIN req : req[d] = req[c] \/ Below(req[d], req[c])
  /\ inst.type = "max_size" => inst.outputs <= inst.inputs

Served(c, m) ==
  IF inst.type \in {"loa", "max_size"} THEN m.in[c[1]] # None ELSE m.in[c[1]] = c[2]

RepeatedCycle ==
  /\ Allocate(req)
  /\ steady' = TRUE
  /\ waited' = [c \in inst.cells |->
                  IF Owed(c) /\ ~Served(c, match') THEN waited[c] + 1 ELSE 0]

Next == Cycle \/ RepeatedCycle

Spec == Init /\ [][Next]_vars

-----------------------------------------------------------------------------
(* Types: every pointer names a port of the other side.                    *)
TypeOK ==
  /\ inst \in Instances
  /\ ptr.grant \in [Outputs -> Inputs] /\ ptr.accept \in [Inputs -> Outputs]
  /\ ptr.pri \in 0 .. Square - 1
  /\ DOMAIN req \subseteq inst.cells /\ \A c \in DOMAIN req : req[c] \in inst.pris
  /\ match.in \in [Inputs -> Outputs \cup {None}]
  /\ match.out \in [Outputs -> Inputs \cup {None}]
  /\ steady \in BOOLEAN

(* The result is a matching of requested pairs: what an input is told and  *)
(* what an output is told agree, and nothing is granted unasked.  IQRouter *)
(* reads OutputAssigned and, before a speculative grant, InputAssigned.    *)
GrantsMatch ==
  \A i \in Inputs, o \in Outputs :
    /\ match.in[i] = o <=> match.out[o] = i
    /\ match.in[i] = o => <<i, o>> \in DOMAIN req

(* The assertion of Arbiter::Arbitrate (arbiter.cpp:74): whatever has been *)
(* granted before, an arbiter with requests selects one of them.           *)
ArbitersDecide ==
  \A a \in {arb.in[i] : i \in DOMAIN arb.in} \cup {arb.out[o] : o \in DOMAIN arb.out} :
    \A S \in (SUBSET (0 .. a.size-1)) \ {{}} : Arbitrate(a, [x \in S |-> 0]) \in S

(* No request is left whose ends are both idle, unless the allocator has   *)
(* made as many grants as it has rounds: one for the single-pass ones, the *)
(* iterations for the iterative ones, no bound for a greedy one.           *)
Granted == {i \in Inputs : match.in[i] # None}

Productive ==
  \/ Free(match, req) = {}
  \/ inst.type \in Iterative /\ Cardinality(Granted) >= inst.iters
  \/ inst.type \in Separable \cup {"loa"} /\ Granted # {}

(* Each side goes by its own priority: side 1 the inputs, 2 the outputs.   *)
Pri(p, x) == IF x = 1 THEN p.in ELSE p.out

Favourite(x, r, c) == \A d \in DOMAIN r : d[x] = c[x] => Pri(r[d], x) <= Pri(r[c], x)

(* Side x looks first.  Each of its ends passes on a request it ranks      *)
(* highest, which loses on side y only to one ranked no lower there.       *)
BestPassedOn(x, y, r, m) ==
  /\ \A c \in DOMAIN r : m.in[c[1]] = c[2] => Favourite(x, r, c)
  /\ \A c \in DOMAIN r : \E d, e \in DOMAIN r :
       /\ d[x] = c[x] /\ Favourite(x, r, d)
       /\ e[y] = d[y] /\ Pri(r[d], y) <= Pri(r[e], y) /\ m.in[e[1]] = e[2]

(* A wavefront refuses a request only for one that shares an end with it   *)
(* and does not come after it in the order of the pairs of priorities.     *)
BestSweptFirst(r, m) ==
  \A c \in DOMAIN r : \E d \in DOMAIN r :
    m.in[d[1]] = d[2] /\ (d[1] = c[1] \/ d[2] = c[2]) /\ ~Above(r[c], r[d])

(* Priorities are kept by every allocator that looks at them, also where   *)
(* the two of a request differ: no end is passed over for a request that   *)
(* it ranks lower.                                                         *)
HighestFirst ==
  /\ inst.type = "separable_input_first" => BestPassedOn(1, 2, req, match)
  /\ inst.type \in {"separable_output_first", "select"} => BestPassedOn(2, 1, req, match)
  /\ inst.type \in Diagonal => BestSweptFirst(req, match)

(* maxsize.cpp:91 calls the matching one of maximum size: no matching of   *)
(* the requests is larger.  Stated where there are no more outputs than    *)
(* inputs.                                                                 *)
MaxSizeIsMaximum ==
  inst.type = "max_size" /\ inst.outputs <= inst.inputs =>
    \A M \in SUBSET DOMAIN req :
      (\A c, d \in M : c # d => c[1] # d[1] /\ c[2] # d[2])
        => Cardinality(M) <= Cardinality(Granted)

(* While the requests stay as they are, a request that is owed a grant has *)
(* one within as many cycles as there are pairs to serve.                  *)
NotStarved == \A c \in inst.cells : waited[c] < inst.inputs * inst.outputs
=============================================================================
