---------------------------- MODULE FlatRouting ----------------------------
(***************************************************************************)
(* The networks with several nodes to a router: the concentrated mesh      *)
(* (cmesh.cpp), the flattened butterfly (flatfly_onchip.cpp) and the       *)
(* dragonfly (dragonfly.cpp), with their routing functions.                *)
(*                                                                         *)
(* Besides k and n a network has c, its nodes to a router, and the         *)
(* flattened butterfly x and xr: how many routers it is laid out in a row, *)
(* and how many nodes of a router in a row.  The routers are those of a    *)
(* cube, and so are their coordinates; ports 0 .. c - 1 are the nodes'.    *)
(***************************************************************************)
EXTENDS TreeRouting

Absolute(i) == IF i < 0 THEN -i ELSE i

(***************************************************************************)
(* cmesh: a mesh of k by k routers, of four nodes each.  The outputs at    *)
(* the edges that a mesh leaves open are express channels, which cross     *)
(* half of the edge.                                                       *)
(***************************************************************************)
CX(g) == g.c \div g.n
CY(g) == g.c \div CX(g)

\* A square of nodes is on a router.
CmeshTerminals(g) ==
  {End(r, CX(g) * y + x,
       Terminal(g.k * CX(g) * (CY(g) * (r \div g.k) + y) + CX(g) * (r % g.k) + x)) :
     r \in Nodes(g), x \in 0 .. CX(g) - 1, y \in 0 .. CY(g) - 1}

\* The four channels out of a router, to the right, left, up and down.
CmeshChannel(g, r, direction) == Chan(r + direction * g.k ^ g.n)
CmeshOutputs(g) ==
  CmeshTerminals(g) \cup {End(r, g.c + d, CmeshChannel(g, r, d)) : r \in Nodes(g), d \in 0 .. 3}

Halfway(g, v) == IF v < g.k \div 2 THEN v + g.k \div 2 ELSE v - g.k \div 2

CmeshInput(g, r, d) ==
  LET x == r % g.k
      y == r \div g.k
  IN  CASE d = 0 -> IF x = g.k - 1 THEN CmeshChannel(g, g.k * Halfway(g, y) + x, 0) ELSE CmeshChannel(g, r + 1, 1)
        [] d = 1 -> IF x = 0 THEN CmeshChannel(g, g.k * Halfway(g, y) + x, 1) ELSE CmeshChannel(g, r - 1, 0)
        [] d = 2 -> IF y = g.k - 1 THEN CmeshChannel(g, g.k * y + Halfway(g, x), 2) ELSE CmeshChannel(g, r + g.k, 3)
        [] d = 3 -> IF y = 0 THEN CmeshChannel(g, g.k * y + Halfway(g, x), 3) ELSE CmeshChannel(g, r - g.k, 2)

CmeshInputs(g) ==
  CmeshTerminals(g) \cup {End(r, g.c + d, CmeshInput(g, r, d)) : r \in Nodes(g), d \in 0 .. 3}

NodeToRouter(g, node) ==
  ((node \div (CX(g) * g.k)) \div CY(g)) * g.k + ((node % (CX(g) * g.k)) \div CY(g))

NodeToPort(g, node) ==
  (g.c \div 2) * ((node \div (2 * g.k)) % CY(g)) + (node % CX(g))

\* Dimension order, by the express channel of the edge the router is on if it is
\* more than limit routers to go in the dimension.
CmeshNext(g, cur, dest, descending, limit) ==
  LET left == Unmatched(g, cur, dest)
      d == IF descending THEN Max(left) ELSE Min(left)
      other == 1 - d
      far == Absolute(Coord(g, dest, d) - Coord(g, cur, d)) > limit
  IN  g.c + (IF far /\ Coord(g, cur, other) = 0 THEN Left(other)
             ELSE IF far /\ Coord(g, cur, other) = g.k - 1 THEN Right(other)
             ELSE IF Coord(g, cur, d) < Coord(g, dest, d) THEN Right(d) ELSE Left(d))

CmeshDor(g, h, limit) ==
  LET dest == NodeToRouter(g, h.dest)
  IN  {Outcome(h, IF dest = h.at THEN NodeToPort(g, h.dest) ELSE CmeshNext(g, h.at, dest, FALSE, limit),
               g.lo .. g.hi)}

\* Which order is decided at random at the first router; it is the half of the VCs.
CmeshXyYx(g, h, limit) ==
  LET dest == NodeToRouter(g, h.dest)
      orders == IF h.in < g.c THEN BOOLEAN ELSE {h.vc >= g.lo + (g.hi - g.lo + 1) \div 2}
  IN  IF dest = h.at THEN {Outcome(h, NodeToPort(g, h.dest), g.lo .. g.hi)}
      ELSE {Outcome(h, CmeshNext(g, h.at, dest, yx, limit), HalfFor(g, yx)) : yx \in orders}

NoExpress(g) == g.k

DorCmesh(g, h) == CmeshDor(g, h, g.k \div 2 - 1)
DorNoExpressCmesh(g, h) == CmeshDor(g, h, NoExpress(g))
XyYxCmesh(g, h) == CmeshXyYx(g, h, 1)
XyYxNoExpressCmesh(g, h) == CmeshXyYx(g, h, NoExpress(g))

(***************************************************************************)
(* flatfly: a router has a channel to every other one of its row, in each  *)
(* dimension.                                                              *)
(***************************************************************************)
FlatflyTerminals(g) ==
  {End(r, g.xr * y + x,
       Terminal(g.x * g.xr * (g.xr * (r \div g.x) + y) + g.xr * (r % g.x) + x)) :
     r \in Nodes(g), x \in 0 .. g.xr - 1, y \in 0 .. g.xr - 1}

FlatflyNeighbours(g, r) == {other \in Nodes(g) : Cardinality(Unmatched(g, r, other)) = 1}

FlatflyOutputs(g) ==
  FlatflyTerminals(g)
  \cup UNION {{LET dim == Min(Unmatched(g, r, other))
                   offset == IF r < other THEN -1 ELSE 0
               IN  End(r, g.c + (g.k - 1) * dim + Coord(g, other, dim) + offset, Chan(<<r, other>>)) :
                 other \in FlatflyNeighbours(g, r)} : r \in Nodes(g)}

\* Inputs are added as the routers they come from are gone through.
FlatflyInputs(g) ==
  FlatflyTerminals(g)
  \cup UNION {{End(r, g.c + Cardinality({i \in FlatflyNeighbours(g, r) : i < other}), Chan(<<other, r>>)) :
                 other \in FlatflyNeighbours(g, r)} : r \in Nodes(g)}

\* Nodes, numbered by their places, as if they were numbered router by router.
Transformed(g, node) ==
  LET column == node % (g.x * g.xr)
      row == node \div (g.x * g.xr)
  IN  ((row \div g.xr) * g.x + column \div g.xr) * g.c + g.xr * (row % g.xr) + (column % g.xr)

\* flatfly_outport and flatfly_outport_yx, for a transformed destination.
FlatflyOutport(g, dest, r, descending) ==
  LET left == Unmatched(g, dest \div g.c, r)
      d == IF descending THEN Max(left) ELSE Min(left)
      to == Coord(g, dest \div g.c, d)
  IN  IF left = {} THEN dest % g.c
      ELSE g.c + (g.k - 1) * d - 1 + (IF to > Coord(g, r, d) THEN to ELSE to + 1)

FindDistance(g, src, dest) == Cardinality(Unmatched(g, src \div g.c, dest \div g.c))

MinFlatfly(g, h) ==
  {Outcome(h, FlatflyOutport(g, Transformed(g, h.dest), h.at, FALSE), g.lo .. g.hi)}

\* xyyx and adaptive_xyyx: at random, or by the credits of the two outputs.
XyYxFlatfly(g, h) ==
  LET dest == Transformed(g, h.dest)
      orders == IF h.in < g.c THEN BOOLEAN ELSE {h.vc >= g.lo + (g.hi - g.lo + 1) \div 2}
  IN  IF dest \div g.c = h.at THEN {Outcome(h, dest % g.c, g.lo .. g.hi)}
      ELSE {Outcome(h, FlatflyOutport(g, dest, h.at, yx), HalfFor(g, yx)) : yx \in orders}

\* Phase 1 begins at the intermediate node, and at the destination on the way to it.
ValiantFlatfly(g, h) ==
  LET injected == h.in < g.c
      dest == Transformed(g, h.dest)
      Phase(i) == IF h.at \in {Transformed(g, i) \div g.c, dest \div g.c} THEN 1
                  ELSE IF injected THEN 0 ELSE h.ph
      Target(i) == IF Phase(i) = 0 THEN Transformed(g, i) ELSE dest
  IN  {[alts |-> {FlatflyOutport(g, Target(i), h.at, FALSE)}
                 \X (IF dest \div g.c = h.at THEN g.lo .. g.hi ELSE HalfFor(g, Phase(i) = 1)),
        ph |-> Phase(i), intm |-> i] :
         i \in IF injected THEN 0 .. g.c * g.k ^ g.n - 1 ELSE {h.intm}}

\* A random node; where the source and the destination have the same coordinate it
\* has it too.
RanIntms(g, src, dest) ==
  {r * g.c + j : r \in {x \in Nodes(g) : \A d \in Dims(g) :
                          Coord(g, src \div g.c, d) = Coord(g, dest \div g.c, d)
                            => Coord(g, x, d) = Coord(g, src \div g.c, d)},
                 j \in 0 .. g.c - 1}

\* ugal: phase 0 is where the packet is injected, 1 is on the way to a random node,
\* 2 to the destination.  The credits of the two ways choose between 1 and 2; a
\* random node on this router leads to phase 2 in any case.  What comes next: the
\* phase, intm and the transformed node to go to.
UgalSteps(g, h) ==
  LET dest == Transformed(g, h.dest)
      phase == IF h.in < g.c THEN 0 ELSE h.ph
      Direct(ph, intm) == [ph |-> ph, intm |-> intm, to |-> dest]
      Around(intm) == [ph |-> 1, intm |-> intm, to |-> intm]
      RandomNode(i) == IF i \div g.c = h.at THEN Direct(2, i) ELSE Around(i)
  IN  CASE phase = 1 /\ h.intm \div g.c = h.at -> {Direct(2, h.intm)}
        [] phase = 1 /\ h.intm \div g.c # h.at -> {Around(h.intm)}
        [] phase # 1 /\ dest \div g.c = h.at -> {Direct(phase, h.intm)}
        [] phase = 2 /\ dest \div g.c # h.at -> {Direct(2, h.intm)}
        [] phase = 0 /\ dest \div g.c # h.at ->
             {Direct(2, h.intm)} \cup {RandomNode(i) : i \in RanIntms(g, Transformed(g, h.src), dest)}

\* Each way out of the router has a half of the VCs for each phase.
UgalFlatfly(g, h) ==
  {LET port == FlatflyOutport(g, s.to, h.at, FALSE)
   IN  Outcome(s, port, IF port < g.c THEN g.lo .. g.hi ELSE HalfFor(g, s.ph = 2)) :
     s \in UgalSteps(g, h)}

\* And a half of this half for each order of the dimensions.
UgalXyYxFlatfly(g, h) ==
  LET orders == IF h.in < g.c THEN BOOLEAN ELSE {h.vc >= g.lo + (g.hi - g.lo + 1) \div 2}
  IN  UNION {{LET port == FlatflyOutport(g, s.to, h.at, yx)
              IN  Outcome(s, port, IF port < g.c THEN g.lo .. g.hi ELSE Quarter(g.lo, g.hi, yx, s.ph = 2)) :
                yx \in orders} : s \in UgalSteps(g, h)}

\* Or a part of it for each coordinate that the packet will leave the next dimension
\* at; in the last one, for each node of a router.
NextCoord(g, dest, dim) == IF dim = g.n THEN dest % g.c ELSE Coord(g, dest \div g.c, dim)

UgalPniFlatfly(g, h) ==
  LET Part(vcs, i) == LET size == Cardinality(vcs) \div g.k
                      IN  Min(vcs) + i * size .. Min(vcs) + (i + 1) * size - 1
  IN  {LET port == FlatflyOutport(g, s.to, h.at, FALSE)
           next == (port - g.c) \div (g.k - 1) + 1
       IN  Outcome(s, port, IF port < g.c THEN g.lo .. g.hi
                            ELSE Part(HalfFor(g, s.ph = 2), NextCoord(g, Transformed(g, h.dest), next))) :
         s \in UgalSteps(g, h)}

(***************************************************************************)
(* dragonfly: groups of 2 k routers, of k nodes each, with a channel       *)
(* between any two routers of a group and between any two groups.          *)
(***************************************************************************)
GroupSize(g) == 2 * g.k
Groups(g) == GroupSize(g) * g.k + 1
DragonflyRouters(g) == 0 .. Groups(g) * GroupSize(g) - 1
GroupOf(g, r) == r \div GroupSize(g)

\* Channels out of a router: to the others of its group and to other groups.
Fanout(g) == GroupSize(g) - 1 + g.k

DragonflyTerminals(g) ==
  {End(r, j, Terminal(g.k * r + j)) : r \in DragonflyRouters(g), j \in 0 .. g.k - 1}

DragonflyOutputs(g) ==
  DragonflyTerminals(g)
  \cup {End(r, g.k + j, Chan(Fanout(g) * r + j)) : r \in DragonflyRouters(g), j \in 0 .. Fanout(g) - 1}

DragonflyInput(g, r, j) ==
  LET group == GroupOf(g, r)
      i == r % GroupSize(g)
      base == group * Fanout(g) * GroupSize(g)
      far == i * g.k + j - (GroupSize(g) - 1)
      local == Fanout(g) - g.k
  IN  CASE j < GroupSize(g) - 1 /\ j < i -> base - (i - j) * Fanout(g) + i * Fanout(g) + i - 1
        [] j < GroupSize(g) - 1 /\ j >= i -> base + i * Fanout(g) + (j - i + 1) * Fanout(g) + i
        [] j >= GroupSize(g) - 1 /\ group > far ->
             far * Fanout(g) * GroupSize(g) + local * ((group - 1) \div g.k) + local + group - 1
        [] j >= GroupSize(g) - 1 /\ group <= far ->
             (far + 1) * Fanout(g) * GroupSize(g) + local * (group \div g.k) + local + group

DragonflyInputs(g) ==
  DragonflyTerminals(g)
  \cup {End(r, g.k + j, Chan(DragonflyInput(g, r, j))) : r \in DragonflyRouters(g), j \in 0 .. Fanout(g) - 1}

\* Which of the channels of a group leads to another one.
OutputTo(group, other) == IF group > other THEN other ELSE other - 1

DragonflyPort(g, r, dest) ==
  LET group == GroupOf(g, r)
      destGroup == dest \div (GroupSize(g) * g.k)
      output == OutputTo(group, destGroup)
      exit == IF destGroup = group THEN dest \div g.k ELSE output \div g.k + group * GroupSize(g)
  IN  IF dest \div g.k = r THEN dest % g.k
      ELSE IF exit = r THEN g.k + (GroupSize(g) - 1) + (output % g.k)
      ELSE IF r < exit THEN (exit % GroupSize(g)) - 1 + g.k
      ELSE (exit % GroupSize(g)) + g.k

\* dragonflynew_hopcnt, between two routers.
HopCount(g, r1, r2) ==
  LET g1 == GroupOf(g, r1)
      g2 == GroupOf(g, r2)
      Apart(a, b) == IF a = b THEN 0 ELSE 1
  IN  IF g1 = g2 THEN Apart(r1, r2)
      ELSE Apart(OutputTo(g1, g2) \div g.k + g1 * GroupSize(g), r1) + 1
             + Apart(OutputTo(g2, g1) \div g.k + g2 * GroupSize(g), r2)

Optical(g, port) == port >= g.k + GroupSize(g) - 1

\* The VC is the phase, which changes on the way to another group.
MinDragonfly(g, h) ==
  LET port == DragonflyPort(g, h.at, h.dest)
      ph == IF Optical(g, port) THEN 1 ELSE IF h.in < g.k THEN 0 ELSE h.ph
  IN  {[alts |-> {<<port, ph>>}, ph |-> ph, intm |-> h.intm]}

\* Phase 0 is on the way to a random node, 1 on the way to the channel to the group
\* of the destination, 2 from there on.  At the source, credits choose between 0 and 1
\* unless the random node is in this group.
UgalDragonfly(g, h) ==
  LET injected == h.in < g.k
      groupNodes == GroupSize(g) * g.k
      group == GroupOf(g, h.at)
      Chosen == IF ~injected THEN {[ph |-> h.ph, intm |-> h.intm]}
                ELSE IF h.dest \div groupNodes = group THEN {[ph |-> 2, intm |-> h.intm]}
                ELSE {[ph |-> 1, intm |-> i] : i \in 0 .. groupNodes * Groups(g) - 1}
                     \cup {[ph |-> 0, intm |-> i] :
                             i \in {x \in 0 .. groupNodes * Groups(g) - 1 : x \div groupNodes # group}}
      Reached(s) == IF s.ph = 0 /\ s.intm \div g.k = h.at THEN 1 ELSE s.ph
      Port(s) == DragonflyPort(g, h.at, IF Reached(s) = 0 THEN s.intm ELSE h.dest)
      Phase(s) == IF Reached(s) = 1 /\ Optical(g, Port(s)) THEN 2 ELSE Reached(s)
  IN  {[alts |-> {<<Port(s), Phase(s)>>}, ph |-> Phase(s), intm |-> s.intm] : s \in Chosen}
=============================================================================
