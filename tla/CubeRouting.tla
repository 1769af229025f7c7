---------------------------- MODULE CubeRouting ----------------------------
(***************************************************************************)
(* The k-ary n-cube of kncube.cpp and its routing functions, from          *)
(* routefunc.cpp, as operators.                                            *)
(*                                                                         *)
(* A network g is a record: k and n (gK, gN), rf, the name of the routing  *)
(* function, and lo and hi, the first and the last VC of the class of its  *)
(* packets (vcBegin and vcEnd for the type of the flit).                   *)
(*                                                                         *)
(* A head flit h that is being routed is a record: at, the router; in, the *)
(* input port; vc, src, dest, ph and intm, its fields.                     *)
(*                                                                         *)
(* A routing function returns a set of outcomes, one for each value its    *)
(* RandomInt (or the credits it looks at) can have: the output set, as     *)
(* <<port, vc>> pairs, and the new ph and intm of the flit.  Priorities    *)
(* only order the pairs and are left out.                                  *)
(***************************************************************************)
EXTENDS Integers, FiniteSets, FiniteSetsExt

(***************************************************************************)
(* The cube.  Ports 2d and 2d + 1 of a router lead right and left in       *)
(* dimension d, the last port to and from its node.                        *)
(***************************************************************************)
Nodes(g) == 0 .. g.k ^ g.n - 1
Dims(g) == 0 .. g.n - 1
Local(g) == 2 * g.n
Right(d) == 2 * d
Left(d) == 2 * d + 1

\* in_port ^ 0x1: the output across from an input port.
Onward(in) == IF in % 2 = 0 THEN in + 1 ELSE in - 1

Coord(g, node, d) == (node \div g.k ^ d) % g.k

\* The dimensions in which two nodes differ.
Unmatched(g, a, b) == {d \in Dims(g) : Coord(g, a, d) # Coord(g, b, d)}

RightNode(g, node, d) ==
  IF Coord(g, node, d) = g.k - 1 THEN node - (g.k - 1) * g.k ^ d ELSE node + g.k ^ d

LeftNode(g, node, d) ==
  IF Coord(g, node, d) = 0 THEN node + (g.k - 1) * g.k ^ d ELSE node - g.k ^ d

\* Where the channel of an output port ends: the router and its input port.
ChannelEnd(g, node, port) ==
  LET d == port \div 2
  IN  IF port = Right(d)
      THEN [at |-> RightNode(g, node, d), in |-> Left(d)]
      ELSE [at |-> LeftNode(g, node, d), in |-> Right(d)]

(***************************************************************************)
(* Dimension-order steps.                                                  *)
(***************************************************************************)
DorNextMesh(g, cur, dest, descending) ==
  IF cur = dest THEN Local(g)
  ELSE LET left == Unmatched(g, cur, dest)
           d == IF descending THEN Max(left) ELSE Min(left)
       IN  IF Coord(g, cur, d) < Coord(g, dest, d) THEN Right(d) ELSE Left(d)

Unset == -1

\* The distance without going around.
DirectionsUnwrapped(g, c, t) ==
  LET dist2 == g.k - 2 * (t - c)
  IN  {dir \in {0, 1} : IF dir = 0 THEN dist2 >= 0 ELSE dist2 <= 0}

\* dist2: twice the distance to the right, from the size of the ring; a tie is
\* decided at random.  0 is right, 1 is left.
Directions(g, c, t) ==
  LET dist2 == g.k - 2 * ((t - c + g.k) % g.k)
  IN  {dir \in {0, 1} : IF dir = 0 THEN dist2 >= 0 ELSE dist2 <= 0}

\* No dateline.
PartitionsNone(g, dir, c, t, balance) == {0}

\* The half of the VCs for a ring that is entered at coordinate c and left at t.
Partitions(g, dir, c, t, balance) ==
  LET mid == (g.k - 1) \div 2
  IN  IF ~balance
      THEN IF (dir = 0 /\ c > t) \/ (dir = 1 /\ t < c) THEN {1} ELSE {0}
      ELSE IF (dir = 0 /\ c > t) \/ (dir = 1 /\ c < t) THEN {1}
      ELSE IF (dir = 0 /\ c <= mid /\ t > mid) \/ (dir = 1 /\ c > mid /\ t <= mid) THEN {0}
      ELSE {0, 1}

\* dor_next_torus: the output port, and the partition, which is left as it was
\* unless the packet turns into a new dimension.
DorNextTorus(g, cur, dest, in, balance) ==
  IF cur = dest THEN {[port |-> Local(g), part |-> Unset]}
  ELSE LET d == Min(Unmatched(g, cur, dest))
           c == Coord(g, cur, d)
           t == Coord(g, dest, d)
       IN  IF in \div 2 = d THEN {[port |-> Onward(in), part |-> Unset]}
           ELSE UNION {{[port |-> 2 * d + dir, part |-> q] : q \in Partitions(g, dir, c, t, balance)} :
                          dir \in Directions(g, c, t)}

(***************************************************************************)
(* Ranges of VCs.                                                          *)
(***************************************************************************)
AddRange(port, first, last) == {port} \X (first .. last)

\* The two halves of a range; the middle one of an odd number is in both.
LowerHalf(first, last) == first .. last - (last - first + 1) \div 2
UpperHalf(first, last) == first + (last - first + 1) \div 2 .. last

\* One VC too many.
HalfForBeyond(g, upper) ==
  IF upper THEN g.lo + (g.hi - g.lo + 1) \div 2 .. g.hi + 1 ELSE LowerHalf(g.lo, g.hi)

HalfFor(g, upper) == IF upper THEN UpperHalf(g.lo, g.hi) ELSE LowerHalf(g.lo, g.hi)

\* A half of a half of a range; the second cut is half as wide as the first.
Quarter(first, last, upper, upperOfThat) ==
  LET half == (last - first + 1) \div 2
      begin == IF upper THEN first + half ELSE first
      end == IF upper THEN last ELSE last - half
  IN  IF upperOfThat THEN begin + half \div 2 .. end ELSE begin .. end - half \div 2

\* The i-th of count equal parts of the class.
PartFor(g, i, count) ==
  LET size == (g.hi - g.lo + 1) \div count
  IN  g.lo + i * size .. g.lo + (i + 1) * size - 1

Outcome(h, port, vcs) == [alts |-> {port} \X vcs, ph |-> h.ph, intm |-> h.intm]

(***************************************************************************)
(* Meshes.                                                                 *)
(***************************************************************************)
DimOrderMesh(g, h) == {Outcome(h, DorNextMesh(g, h.at, h.dest, FALSE), g.lo .. g.hi)}

\* No interference: a VC belongs to a destination.
DimOrderNiMesh(g, h) ==
  {Outcome(h, DorNextMesh(g, h.at, h.dest, FALSE),
           IF h.at = h.dest THEN g.lo .. g.hi ELSE PartFor(g, h.dest, g.k ^ g.n))}

\* Partial no interference: a VC belongs to a coordinate of the destination.
DimOrderPniMesh(g, h) ==
  LET port == DorNextMesh(g, h.at, h.dest, FALSE)
  IN  {Outcome(h, port, IF h.at = h.dest THEN g.lo .. g.hi
                        ELSE PartFor(g, Coord(g, h.dest, port \div 2), g.k))}

\* xy_yx and adaptive_xy_yx.  Which order is decided where the packet is
\* injected, at random or by the credits of the two outputs, and kept as the half
\* of the VCs the packet travels on.
XyYxMesh(g, h) ==
  LET orders == IF h.in = Local(g) THEN BOOLEAN
                ELSE {h.vc >= g.lo + (g.hi - g.lo + 1) \div 2}
  IN  IF h.at = h.dest THEN {Outcome(h, Local(g), g.lo .. g.hi)}
      ELSE {Outcome(h, DorNextMesh(g, h.at, h.dest, yx), HalfFor(g, yx)) : yx \in orders}

\* The nodes of the minimal quadrant.
MinimalIntermediates(g, src, dest) ==
  {v \in Nodes(g) : \A d \in Dims(g) :
     \/ Coord(g, v, d) \in Coord(g, src, d) .. Coord(g, dest, d)
     \/ Coord(g, v, d) \in Coord(g, dest, d) .. Coord(g, src, d)}

\* romm and valiant: to a random node first (phase 0), then to the destination
\* (phase 1).  The flit, with its new phase, and the output port.
TwoPhases(g, h, intms) ==
  LET injected == h.in = Local(g)
      Phase(intm) == IF (injected \/ h.ph = 0) /\ h.at # intm THEN 0 ELSE 1
  IN  {[port |-> DorNextMesh(g, h.at, IF Phase(i) = 0 THEN i ELSE h.dest, FALSE),
        ph |-> Phase(i), intm |-> i] :
         i \in IF injected THEN intms ELSE {h.intm}}

\* At the destination router the VCs are not separated by phase.
VcsOfPhase(g, h, phase) == IF h.at = h.dest THEN g.lo .. g.hi ELSE HalfFor(g, phase = 1)

RommMesh(g, h) ==
  {Outcome(o, o.port, VcsOfPhase(g, h, o.ph)) :
     o \in TwoPhases(g, h, MinimalIntermediates(g, h.src, h.dest))}

RommNiMesh(g, h) ==
  {Outcome(o, o.port, IF h.at = h.dest THEN g.lo .. g.hi ELSE PartFor(g, h.dest, g.k ^ g.n)) :
     o \in TwoPhases(g, h, MinimalIntermediates(g, h.src, h.dest))}

ValiantMesh(g, h) ==
  {Outcome(o, o.port, VcsOfPhase(g, h, o.ph)) : o \in TwoPhases(g, h, Nodes(g))}

\* Minimal adaptive, with dimension order on the first VC as the way out.  The
\* range of the latter is 0 .. vcBegin, with priority vcBegin.
MinAdaptMesh(g, h) ==
  LET in_vc == IF h.in = Local(g) THEN g.hi ELSE h.vc
      escape == AddRange(DorNextMesh(g, h.at, h.dest, FALSE), 0, g.lo)
      Minimal(d) == IF Coord(g, h.at, d) < Coord(g, h.dest, d) THEN Right(d) ELSE Left(d)
      adaptive == UNION {AddRange(Minimal(d), g.lo + 1, g.hi) : d \in Unmatched(g, h.at, h.dest)}
  IN  IF h.at = h.dest THEN {Outcome(h, Local(g), g.lo .. g.hi)}
      ELSE {[alts |-> escape \cup (IF in_vc # g.lo THEN adaptive ELSE {}),
             ph |-> h.ph, intm |-> h.intm]}

\* Planar adaptive, without faults: in plane d a packet goes on in dimension d on
\* the last third of the VCs, or in d + 1 on the first or the second, by its
\* direction in d.
PlanarAdaptMesh(g, h) ==
  LET third == (g.hi - g.lo + 1) \div 3
      misrouted == h.in \div 2 = 0 /\ h.vc < g.lo + 2 * third
      d == Min(Unmatched(g, h.at, h.dest) \ (IF misrouted THEN {0} ELSE {}))
      increase == Coord(g, h.at, d) < Coord(g, h.dest, d)
      first == IF increase THEN g.lo ELSE g.lo + third
      side == {d + 1} \cap Unmatched(g, h.at, h.dest)
      Toward(e) == IF Coord(g, h.at, e) < Coord(g, h.dest, e) THEN Right(e) ELSE Left(e)
  IN  IF h.at = h.dest THEN {Outcome(h, Local(g), g.lo .. g.hi)}
      ELSE {[alts |-> AddRange(Toward(d), g.lo + 2 * third, g.hi)
                      \cup UNION {AddRange(Toward(e), first, first + third - 1) :
                                    e \in {x \in side : Toward(x) # h.in}},
             ph |-> h.ph, intm |-> h.intm]}

(***************************************************************************)
(* Tori.                                                                   *)
(***************************************************************************)
KeptPart(h, o) == IF o.part = Unset THEN h.ph ELSE o.part

DimOrderTorusWith(g, h, balance) ==
  {[alts |-> {o.port} \X (IF h.at = h.dest THEN g.lo .. g.hi ELSE HalfFor(g, KeptPart(h, o) # 0)),
    ph |-> KeptPart(h, o), intm |-> h.intm] :
     o \in DorNextTorus(g, h.at, h.dest, h.in, balance)}

DimOrderTorus(g, h) == DimOrderTorusWith(g, h, FALSE)
DimOrderBalTorus(g, h) == DimOrderTorusWith(g, h, TRUE)

DimOrderNiTorus(g, h) ==
  {Outcome(h, o.port, IF h.at = h.dest THEN g.lo .. g.hi ELSE PartFor(g, h.dest, g.k ^ g.n)) :
     o \in DorNextTorus(g, h.at, h.dest, h.in, FALSE)}

\* Minimal adaptive on VC 3, with dimension order on VCs 0 and 1 as the way out;
\* a packet that has taken it stays there.  A packet at its destination goes
\* through the rest of the function as well.
MinAdaptTorus(g, h) ==
  LET free == h.in = Local(g) \/ h.vc > g.lo + 1
      Minimal(d) ==
        IF 2 * ((Coord(g, h.dest, d) - Coord(g, h.at, d) + g.k) % g.k) < g.k THEN Right(d) ELSE Left(d)
      adaptive == {<<Minimal(d), g.lo + 3>> : d \in Unmatched(g, h.at, h.dest)}
      eject == IF h.at = h.dest THEN AddRange(Local(g), g.lo, g.hi) ELSE {}
  IN  {[alts |-> eject \cup (IF free THEN adaptive ELSE {})
                 \cup {<<o.port, IF KeptPart(h, o) = 0 THEN g.lo ELSE g.lo + 1>>},
        ph |-> KeptPart(h, o), intm |-> h.intm] :
         o \in DorNextTorus(g, h.at, h.dest, IF free THEN Local(g) ELSE h.in, FALSE)}

\* dor_next_torus leaves ring_part alone, which is not initialised, if the packet
\* goes on in its ring; with any other value an assertion fails.
RingParts(o) == IF o.part = Unset THEN {0, 1} ELSE {o.part}

\* To a random node first, then to the destination; ph is the phase, doubled, and
\* the partition of the ring.
ValiantTorus(g, h) ==
  LET injected == h.in = Local(g)
      Before == IF injected THEN 0 ELSE h.ph \div 2
      Turns(i) == Before = 0 /\ h.at = i
      Phase(i) == IF Turns(i) THEN 1 ELSE Before
      Steps(i) == DorNextTorus(g, h.at, IF Phase(i) = 0 THEN i ELSE h.dest,
                               IF Turns(i) THEN Local(g) ELSE h.in, FALSE)
      Vcs(i, part) == IF h.at = h.dest THEN g.lo .. g.hi ELSE Quarter(g.lo, g.hi, part = 1, Phase(i) = 1)
  IN  UNION {UNION {{[alts |-> {o.port} \X Vcs(i, part), ph |-> 2 * Phase(i) + part, intm |-> i] :
                       part \in RingParts(o)} : o \in Steps(i)} :
               i \in IF injected THEN Nodes(g) ELSE {h.intm}}

\* The same with a VC for each destination, except that it looks at ph, which is
\* neither set at injection nor kept, where it should look at the phase.
ValiantNiTorus(g, h) ==
  LET injected == h.in = Local(g)
      phase == IF injected THEN 0 ELSE h.ph \div 2
      Turns(i) == h.ph = 0 /\ h.at = i
      Target(i) == IF h.ph = 0 /\ h.at # i THEN i ELSE h.dest
      mine == g.lo + h.dest * ((g.hi - g.lo + 1) \div g.k ^ g.n)
      size == (g.hi - g.lo + 1) \div g.k ^ g.n
      Vcs(part) == IF h.at = h.dest THEN g.lo .. g.hi
                   ELSE Quarter(mine, mine + size - 1, part = 1, phase = 1)
  IN  UNION {UNION {{[alts |-> {o.port} \X Vcs(part), ph |-> 2 * phase + part, intm |-> i] :
                       part \in RingParts(o)} :
                      o \in DorNextTorus(g, h.at, Target(i), IF Turns(i) THEN Local(g) ELSE h.in, FALSE)} :
               i \in IF injected THEN Nodes(g) ELSE {h.intm}}

(***************************************************************************)
(* The functions by their names in gRoutingFunctionMap, for a flit in the  *)
(* network.                                                                *)
(***************************************************************************)
Tori == {"dim_order_torus", "dim_order_ni_torus", "dim_order_bal_torus", "min_adapt_torus",
         "valiant_torus", "valiant_ni_torus"}

CubeRoute(g, h) ==
  CASE g.rf = "dim_order_mesh" -> DimOrderMesh(g, h)
    [] g.rf = "dim_order_ni_mesh" -> DimOrderNiMesh(g, h)
    [] g.rf = "dim_order_pni_mesh" -> DimOrderPniMesh(g, h)
    [] g.rf = "xy_yx_mesh" -> XyYxMesh(g, h)
    [] g.rf = "romm_mesh" -> RommMesh(g, h)
    [] g.rf = "romm_ni_mesh" -> RommNiMesh(g, h)
    [] g.rf = "valiant_mesh" -> ValiantMesh(g, h)
    [] g.rf = "min_adapt_mesh" -> MinAdaptMesh(g, h)
    [] g.rf = "planar_adapt_mesh" -> PlanarAdaptMesh(g, h)
    [] g.rf = "dim_order_torus" -> DimOrderTorus(g, h)
    [] g.rf = "dim_order_bal_torus" -> DimOrderBalTorus(g, h)
    [] g.rf = "dim_order_ni_torus" -> DimOrderNiTorus(g, h)
    [] g.rf = "min_adapt_torus" -> MinAdaptTorus(g, h)
    [] g.rf = "valiant_torus" -> ValiantTorus(g, h)
    [] g.rf = "valiant_ni_torus" -> ValiantNiTorus(g, h)
=============================================================================
