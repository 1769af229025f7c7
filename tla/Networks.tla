------------------------------ MODULE Networks ------------------------------
(***************************************************************************)
(* The networks a chip can be configured with, behind one set of           *)
(* operators: where nodes are, where channels lead, how packets are routed *)
(* and how far they have to go.                                            *)
(*                                                                         *)
(* An instance g has, besides the fields the routing functions use, net,   *)
(* the kind of network, file, the description of an anynet, and fields of  *)
(* PacketNetwork.                                                          *)
(***************************************************************************)
EXTENDS AnyNetRouting, Functions

CONSTANTS
  Instances,  \* a sequence of networks to be looked at
  Plans       \* what PlanOf says of each of them

(***************************************************************************)
(* Channels and distances, which a plan holds ready.                       *)
(***************************************************************************)
\* The cube is the same in the form the other networks have.
CubeOutputs(g) ==
  {End(r, Local(g), Terminal(r)) : r \in Nodes(g)}
  \cup {End(r, port, Chan(<<r, port>>)) : r \in Nodes(g), port \in 0 .. Local(g) - 1}

CubeInputs(g) ==
  {End(r, Local(g), Terminal(r)) : r \in Nodes(g)}
  \cup {LET end == ChannelEnd(g, r, port)
        IN  End(end.at, end.in, Chan(<<r, port>>)) : r \in Nodes(g), port \in 0 .. Local(g) - 1}

Outputs(g) ==
  CASE g.net \in {"mesh", "torus"} -> CubeOutputs(g)
    [] g.net = "fly" -> FlyOutputs(g)
    [] g.net = "qtree" -> QTreeOutputs(g)
    [] g.net = "tree4" -> Tree4Outputs(g)
    [] g.net = "fattree" -> FatTreeOutputs(g)
    [] g.net = "cmesh" -> CmeshOutputs(g)
    [] g.net = "flatfly" -> FlatflyOutputs(g)
    [] g.net = "dragonflynew" -> DragonflyOutputs(g)
    [] g.net = "anynet" -> AnyNetOutputs(ReadFile(g.file))

Inputs(g) ==
  CASE g.net \in {"mesh", "torus"} -> CubeInputs(g)
    [] g.net = "fly" -> FlyInputs(g)
    [] g.net = "qtree" -> QTreeInputs(g)
    [] g.net = "tree4" -> Tree4Inputs(g)
    [] g.net = "fattree" -> FatTreeInputs(g)
    [] g.net = "cmesh" -> CmeshInputs(g)
    [] g.net = "flatfly" -> FlatflyInputs(g)
    [] g.net = "dragonflynew" -> DragonflyInputs(g)
    [] g.net = "anynet" -> AnyNetInputs(ReadFile(g.file))

\* Every port has one channel, every channel one output and one input, and every
\* router as many inputs as outputs.
WellWired(outs, ins) ==
  /\ \A ends \in {outs, ins} :
       /\ \A e, f \in ends : e.chan = f.chan \/ <<e.at, e.port>> = <<f.at, f.port>> => e = f
       /\ {e.chan : e \in ends} = {e.chan : e \in outs}
  /\ {<<e.at, e.port>> : e \in ins} = {<<e.at, e.port>> : e \in outs}

\* Where the channel of each output leads, and the node or router it is of.
WiresOf(outs, ins) ==
  LET Wire(o) == LET i == CHOOSE e \in ins : e.chan = o.chan
                 IN  [to |-> o.chan[1], node |-> o.chan[2], at |-> i.at, in |-> i.port]
  IN  [r \in {o.at : o \in outs} |->
         [port \in {o.port : o \in {e \in outs : e.at = r}} |->
            Wire(CHOOSE o \in outs : o.at = r /\ o.port = port)]]

\* The routers nodes inject at, with the input port, and eject at.
TerminalsOf(ends) ==
  LET mine == {e \in ends : e.chan[1] = "node"}
  IN  [node \in {e.chan[2] : e \in mine} |->
         LET e == CHOOSE i \in mine : i.chan[2] = node IN [at |-> e.at, in |-> e.port]]

\* The length of a channel: its latency in an anynet, whose lists tell it.
LengthOf(lists, channel) == IF channel \in DOMAIN lists.link THEN lists.link[channel] ELSE 1

\* The channels between routers: from, to and length.
LinksOf(lists, wires) ==
  UNION {{<<r, w.at, LengthOf(lists, w.node)>> : w \in {x \in Range(wires[r]) : x.to = "chan"}} :
           r \in DOMAIN wires}

\* The routers that can be reached from one, each with the length of the shortest way.
WaysFrom(hops, links, a) ==
  LET Further(ways) ==
        ways \cup UNION {{<<l[2], w[2] + l[3]>> : l \in {x \in links : x[1] = w[1]}} : w \in ways}
      Shortest(ways) == {w \in ways : \A v \in ways : v[1] = w[1] => w[2] <= v[2]}
      within[i \in 0 .. hops] == IF i = 0 THEN {<<a, 0>>} ELSE Shortest(Further(within[i - 1]))
  IN  within[hops]

WaysOf(hops, links, routers) ==
  [a \in routers |->
     LET ways == WaysFrom(hops, links, a)
     IN  [b \in {w[1] : w \in ways} |-> (CHOOSE w \in ways : w[1] = b)[2]]]

\* The cubes and the networks that have a formula for distances need no table.
Tabled == {"fly", "qtree", "tree4", "fattree", "anynet"}
Hops(g, lists) == IF g.net = "anynet" THEN Cardinality(lists.routers) ELSE 2 * g.n

PlanFor(g, lists, wires, injections, ejections) ==
  [wires |-> wires,
   inject |-> injections,
   eject |-> ejections,
   lengths |-> [r \in DOMAIN wires |-> [p \in DOMAIN wires[r] |->
                  IF wires[r][p].to = "chan" THEN LengthOf(lists, wires[r][p].node) ELSE 0]],
   ways |-> IF g.net \in Tabled THEN WaysOf(Hops(g, lists), LinksOf(lists, wires), DOMAIN wires)
            ELSE <<>>,
   tables |-> IF g.net = "anynet" THEN [r \in DOMAIN wires |-> RoutingTable(lists, r)] ELSE <<>>]

PlanOn(g, outs, ins) ==
  PlanFor(g, ReadFile(g.file), WiresOf(outs, ins), TerminalsOf(ins), TerminalsOf(outs))

PlanOf(g) == PlanOn(g, Outputs(g), Inputs(g))

ASSUME PlansAssumption == Plans = [i \in DOMAIN Instances |-> PlanOf(Instances[i])]

ASSUME WiringAssumption ==
  \A i \in DOMAIN Instances : WellWired(Outputs(Instances[i]), Inputs(Instances[i]))

(***************************************************************************)
(* Routing.                                                                *)
(***************************************************************************)
RouteFunction(g, plan, h) ==
  CASE g.net \in {"mesh", "torus"} -> CubeRoute(g, h)
    [] g.rf = "dest_tag_fly" -> DestTagFly(g, h)
    [] g.rf = "qtree_nca" -> QTreeNca(g, h)
    [] g.rf = "tree4_nca" -> Tree4Nca(g, h)
    [] g.rf = "tree4_anca" -> Tree4Anca(g, h)
    [] g.rf = "fattree_nca" -> FatTreeNca(g, h)
    [] g.rf = "dor_cmesh" -> DorCmesh(g, h)
    [] g.rf = "dor_no_express_cmesh" -> DorNoExpressCmesh(g, h)
    [] g.rf = "xy_yx_cmesh" -> XyYxCmesh(g, h)
    [] g.rf = "xy_yx_no_express_cmesh" -> XyYxNoExpressCmesh(g, h)
    [] g.rf = "ran_min_flatfly" -> MinFlatfly(g, h)
    [] g.rf = "xyyx_flatfly" -> XyYxFlatfly(g, h)
    [] g.rf = "valiant_flatfly" -> ValiantFlatfly(g, h)
    [] g.rf = "ugal_flatfly" -> UgalFlatfly(g, h)
    [] g.rf = "ugal_xyyx_flatfly" -> UgalXyYxFlatfly(g, h)
    [] g.rf = "ugal_pni_flatfly" -> UgalPniFlatfly(g, h)
    [] g.rf = "min_dragonflynew" -> MinDragonfly(g, h)
    [] g.rf = "ugal_dragonflynew" -> UgalDragonfly(g, h)
    [] g.rf = "min_anynet" -> MinAnyNet(g, h, plan.tables)

\* The VCs on which a function lets a packet for a destination be injected.
InjectionVcs(g, dest) ==
  CASE g.rf \in {"dim_order_ni_mesh", "romm_ni_mesh", "valiant_ni_torus"} ->
         PartFor(g, dest, g.k ^ g.n)
    [] g.rf = "dim_order_pni_mesh" -> PartFor(g, dest % g.k, g.k)
    [] g.rf = "ugal_pni_flatfly" -> PartFor(g, Coord(g, Transformed(g, dest) \div g.c, 0), g.k)
    [] OTHER -> g.lo .. g.hi

\* Whether a flit is on its way to its intermediate node, and the router of this node.
Detouring(g, ph) ==
  CASE g.rf \in {"romm_mesh", "romm_ni_mesh", "valiant_mesh", "valiant_ni_torus",
                 "valiant_flatfly", "ugal_dragonflynew"} -> ph = 0
    [] g.rf = "valiant_torus" -> ph \in {0, 1}
    [] g.rf \in {"ugal_flatfly", "ugal_xyyx_flatfly", "ugal_pni_flatfly"} -> ph = 1
    [] OTHER -> FALSE

IntermediateRouter(g, intm) ==
  CASE g.rf = "valiant_flatfly" -> Transformed(g, intm) \div g.c
    [] g.net = "flatfly" /\ g.rf # "valiant_flatfly" -> intm \div g.c
    [] g.net = "dragonflynew" -> intm \div g.k
    [] OTHER -> intm

(***************************************************************************)
(* Distances.                                                              *)
(***************************************************************************)
CubeDistance(g, a, b) ==
  MapThenSumSet(LAMBDA d :
    LET right == (Coord(g, b, d) - Coord(g, a, d) + g.k) % g.k
    IN  IF g.net = "torus" THEN Min({right, (g.k - right) % g.k})
        ELSE Absolute(Coord(g, b, d) - Coord(g, a, d)),
    Dims(g))

\* The distance the functions of a network go by, between two routers.
Distance(g, plan, a, b) ==
  CASE g.net \in {"mesh", "torus", "cmesh"} -> CubeDistance(g, a, b)
    [] g.net = "flatfly" -> FindDistance(g, a * g.c, b * g.c)
    [] g.net = "dragonflynew" -> HopCount(g, a, b)
    [] OTHER -> plan.ways[a][b]
=============================================================================
