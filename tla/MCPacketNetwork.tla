-------------------------- MODULE MCPacketNetwork --------------------------
(***************************************************************************)
(* Networks and loads for TLC to run on PacketNetwork.                      *)
(***************************************************************************)
EXTENDS PacketNetwork

To(s, d) == [src |-> s, dests |-> {d}, segs |-> <<[end |-> d, im |-> <<>>, kids |-> {}]>>]

\* A network with the VCs from lo on for the class.
Network(kind, k, n, c, x, xr, rf, lo, vcs, loads) ==
  [net |-> kind, k |-> k, n |-> n, c |-> c, x |-> x, xr |-> xr, file |-> <<>>,
   rf |-> rf, lo |-> lo, hi |-> lo + vcs - 1, long |-> TRUE, loads |-> loads]

Cube(k, n, rf, lo, vcs, loads) ==
  Network(IF rf \in Tori THEN "torus" ELSE "mesh", k, n, 1, k, 1, rf, lo, vcs, loads)

\* On four routers, in a row or a ring or in a square: every node sends to the
\* one opposite in the ring, or at the other corner of the square; to the next;
\* and all to one.
Across == <<To(0, 2), To(1, 3), To(2, 0), To(3, 1)>>
Corners == <<To(0, 3), To(1, 2), To(2, 1), To(3, 0)>>
Around == <<To(0, 1), To(1, 2), To(2, 3), To(3, 0)>>
Inward == <<To(0, 2), To(1, 2), To(3, 2)>>
Four == {Across, Corners, Around, Inward}

RowAndSquare(rf, lo, vcs, loads) ==
  <<Cube(4, 1, rf, lo, vcs, loads), Cube(2, 2, rf, lo, vcs, loads)>>

\* With as many VCs as the function needs, of a class that begins at VC 0 or 1.
Meshes ==
  RowAndSquare("dim_order_mesh", 1, 1, Four)
    \o RowAndSquare("xy_yx_mesh", 1, 2, Four)
    \o RowAndSquare("romm_mesh", 0, 2, {Across, Corners})
    \o RowAndSquare("romm_ni_mesh", 0, 4, {Across, Corners})
    \o RowAndSquare("dim_order_ni_mesh", 0, 4, {Across, Inward})
    \o RowAndSquare("dim_order_pni_mesh", 0, 4, {Across, Corners})
    \o RowAndSquare("min_adapt_mesh", 0, 2, {Across, Corners})
    \o RowAndSquare("planar_adapt_mesh", 1, 3, {Across, Corners})

LongAndShort(g) == <<g, [g EXCEPT !.long = FALSE]>>

Rings ==
  LongAndShort(Cube(4, 1, "dim_order_torus", 0, 2, Four))
    \o LongAndShort(Cube(4, 1, "dim_order_bal_torus", 0, 2, Four))
    \o <<Cube(4, 1, "min_adapt_torus", 0, 4, {Across}), Cube(4, 1, "dim_order_ni_torus", 0, 4, {Across})>>

\* Nine routers, from corner to corner; eight, in three dimensions; a ring of five.
CornersOf9 == <<To(0, 8), To(2, 6), To(8, 0), To(6, 2)>>
ThreeOf9 == <<To(0, 8), To(2, 6), To(8, 0)>>
CornersOf8 == <<To(0, 7), To(3, 4), To(5, 2)>>
Around5 == <<To(0, 2), To(1, 3), To(2, 4), To(3, 0), To(4, 1)>>

Larger ==
  <<Cube(3, 2, "dim_order_mesh", 0, 1, {CornersOf9}),
   Cube(3, 2, "planar_adapt_mesh", 0, 3, {ThreeOf9}),
   Cube(2, 3, "planar_adapt_mesh", 0, 3, {CornersOf8}),
   Cube(5, 1, "dim_order_torus", 0, 2, {Around5}), Cube(5, 1, "dim_order_bal_torus", 0, 2, {Around5})>>

\* Trees for src_routing_mesh: segment by segment, the end, the intermediate nodes
\* and the children.
Seg(end, im, kids) == [end |-> end, im |-> im, kids |-> kids]
Tree(src, dests, kids, segs) ==
  [src |-> src, dests |-> dests, segs |-> <<Seg(src, <<>>, kids)>> \o segs]

\* In a row, from one of the middle nodes to both ends.
ToEnds(src) == Tree(src, {0, 3}, {2, 3}, <<Seg(0, <<>>, {}), Seg(3, <<>>, {})>>)
\* On nine routers, a tree that branches twice, with a detour, and that leaves the
\* network at the second branching too.
Detour ==
  Tree(0, {2, 4, 7}, {2}, <<Seg(1, <<3, 4>>, {3, 4}), Seg(4, <<>>, {5}), Seg(2, <<5>>, {}),
                            Seg(7, <<>>, {})>>)

Trees == <<Cube(4, 1, "src_routing_mesh", 0, 2, {<<ToEnds(1), To(3, 1), To(0, 2)>>}),
           Cube(3, 2, "src_routing_mesh", 0, 2, {<<Detour, To(3, 8), To(6, 2)>>})>>

(***************************************************************************)
(* The other networks.                                                     *)
(***************************************************************************)
Of(kind, k, n, rf, vcs, loads) == Network(kind, k, n, k, 1, 1, rf, 0, vcs, loads)

\* Loads of eight nodes: across, and by twos.
Across8 == <<To(0, 7), To(7, 0), To(2, 5), To(5, 2)>>
Cross4 == <<To(0, 2), To(1, 3), To(2, 0), To(3, 1)>>
AndBack == <<To(0, 15), To(15, 0), To(5, 10)>>
FromAfar == <<To(0, 63), To(62, 1), To(21, 42)>>
Crossing == <<To(0, 63), To(62, 1)>>
Beside == <<To(0, 63), To(1, 62)>>

TreeNetworks ==
  <<Of("fly", 2, 3, "dest_tag_fly", 1, {Across8}),
    Of("fly", 3, 2, "dest_tag_fly", 1, {Across8}),
    Of("qtree", 4, 3, "qtree_nca", 1, {FromAfar}),
    Of("tree4", 4, 3, "tree4_nca", 1, {Crossing, Beside}),
    Of("tree4", 4, 3, "tree4_anca", 1, {Crossing, Beside}),
    Of("fattree", 2, 3, "fattree_nca", 1, {<<To(0, 7), To(7, 0), To(2, 5)>>}),
    Of("fattree", 3, 2, "fattree_nca", 1, {<<To(0, 7), To(7, 0), To(2, 5)>>})>>

Cmesh(k, rf, vcs, loads) == Network("cmesh", k, 2, 4, 2, 2, rf, 0, vcs, loads)

CmeshNetworks ==
  <<Cmesh(2, "dor_cmesh", 1, {AndBack}),
    Cmesh(2, "dor_no_express_cmesh", 1, {AndBack}),
    Cmesh(2, "xy_yx_no_express_cmesh", 2, {AndBack}),
    Cmesh(2, "xy_yx_cmesh", 2, {AndBack}),
    Cmesh(4, "dor_cmesh", 1, {FromAfar}),
    Cmesh(4, "xy_yx_cmesh", 2, {FromAfar}),
    Cmesh(4, "xy_yx_no_express_cmesh", 2, {FromAfar})>>

Flatfly(k, n, c, x, xr, rf, vcs, loads) == Network("flatfly", k, n, c, x, xr, rf, 0, vcs, loads)

Three == <<To(0, 3), To(1, 2), To(2, 1)>>

FlatflyNetworks ==
  <<Flatfly(2, 2, 1, 2, 1, "ran_min_flatfly", 1, {Across, Corners}),
    Flatfly(2, 2, 4, 2, 2, "ran_min_flatfly", 1, {AndBack}),
    Flatfly(2, 2, 1, 2, 1, "xyyx_flatfly", 2, {Across, Corners}),
    Flatfly(2, 2, 1, 2, 1, "valiant_flatfly", 2, {Three}),
    Flatfly(2, 2, 1, 2, 1, "ugal_flatfly", 2, {Three}),
    Flatfly(2, 2, 1, 2, 1, "ugal_xyyx_flatfly", 4, {Three}),
    Flatfly(4, 1, 4, 2, 2, "ugal_pni_flatfly", 8, {<<To(0, 15), To(15, 0)>>})>>

Dragonfly(rf, vcs, loads) == Network("dragonflynew", 1, 1, 1, 1, 1, rf, 0, vcs, loads)

\* Three packets, each from another group to the next.
Around3 == <<To(1, 4), To(2, 0), To(5, 2)>>

\* ugal_dragonflynew with one packet at a time, for its ways and its VCs; for more,
\* see DragonflyLoop.
DragonflyNetworks ==
  <<Dragonfly("min_dragonflynew", 2, {<<To(0, 5), To(5, 0), To(2, 1), To(4, 3)>>, Around3}),
    Dragonfly("ugal_dragonflynew", 3, {<<To(0, 5)>>, <<To(3, 0)>>, <<To(1, 4)>>, <<To(2, 3)>>})>>

(***************************************************************************)
(* Anynets: line by line, the head and the links with their latencies.     *)
(***************************************************************************)
Router(id, lat) == [type |-> "router", id |-> id, lat |-> lat]
Node(id) == [type |-> "node", id |-> id, lat |-> Unwritten]
NodeBy(id, lat) == [type |-> "node", id |-> id, lat |-> lat]
Line(type, id, links) == [head |-> [type |-> type, id |-> id], links |-> links]

\* A triangle in which the way by two channels is shorter than the one by one, in one
\* direction; and a router beyond it, with two nodes, one of them on a line of its own.
Triangle ==
  <<Line("router", 0, <<Node(0), Router(1, 4), Router(2, Unwritten)>>),
    Line("router", 1, <<Node(1), Router(2, 2)>>),
    Line("router", 2, <<Node(2)>>),
    Line("router", 3, <<Node(3), Router(2, 3)>>),
    Line("node", 3, <<>>),
    Line("router", 2, <<Router(3, 2), Node(4)>>)>>

\* A ring of routers closed by a long channel, which no packet takes.
Chain ==
  <<Line("router", 0, <<Node(0), Router(1, Unwritten), Router(3, 9)>>),
    Line("router", 1, <<Node(1), Router(2, Unwritten)>>),
    Line("node", 2, <<Router(2, Unwritten)>>),
    Line("router", 3, <<Node(3), Router(2, Unwritten), Router(0, 9)>>)>>

\* Latencies written for nodes: for node 0 a channel from router 0 to itself; for node 2
\* the channel from router 1 to router 2, so that the way over router 0 is shorter.
NodeLatencies ==
  <<Line("router", 0, <<NodeBy(0, 5), Router(1, 2), Router(2, Unwritten)>>),
    Line("router", 1, <<Node(1), Router(2, Unwritten), NodeBy(2, 6)>>),
    Line("router", 2, <<Router(3, 2)>>),
    Line("node", 3, <<Router(3, 4)>>)>>

AnyNet(file, loads) == [Of("anynet", 1, 1, "min_anynet", 1, loads) EXCEPT !.file = file]

AnyNetNetworks ==
  <<AnyNet(Triangle, {<<To(0, 1), To(1, 0), To(3, 0), To(4, 2), To(2, 3)>>}), AnyNet(Chain, Four),
    AnyNet(NodeLatencies, {<<To(1, 3), To(3, 1), To(0, 2), To(2, 0)>>})>>

PlansFor(instances) == [i \in DOMAIN instances |-> PlanOf(instances[i])]

All == Meshes \o Rings \o Larger \o Trees \o TreeNetworks \o CmeshNetworks
         \o FlatflyNetworks \o DragonflyNetworks \o AnyNetNetworks
AllPlans == PlansFor(All)

MCInstances == All
MCPlans == AllPlans

\* Two trees that cross each other twice; packets of ugal_dragonflynew with an
\* intermediate node each.
CrossingTrees == <<Cube(4, 1, "src_routing_mesh", 0, 2, {<<ToEnds(1), ToEnds(2)>>})>>
CrossingPlans == PlansFor(CrossingTrees)
DragonflyLoop == <<Dragonfly("ugal_dragonflynew", 3, {Around3})>>
DragonflyPlans == PlansFor(DragonflyLoop)

\* Beyond the runs, networks on which a property fails: packets of valiant_mesh wait
\* for each other (NoDeadlock); a packet along an edge of a cmesh of 64 routers goes to
\* and fro on an express channel (OnCourse); Valiant packets on a ring wait for each
\* other (NoDeadlock), or turn back to the node they have made their detour by
\* (OnCourse); the second example of anynet.cpp, a router and three nodes, two of them
\* with a latency, becomes one with channels to two routers more (WiringAssumption).
Valiant == <<Cube(2, 2, "valiant_mesh", 0, 2, {<<To(0, 1), To(2, 3)>>})>>
ValiantPlans == PlansFor(Valiant)
ExpressOf64 == <<Cmesh(8, "xy_yx_cmesh", 2, {<<To(0, 4)>>})>>
ExpressPlans == PlansFor(ExpressOf64)
ValiantRing == <<Cube(4, 1, "valiant_torus", 0, 4, {Across})>>
ValiantRingPlans == PlansFor(ValiantRing)
ValiantNiRing == <<Cube(4, 1, "valiant_ni_torus", 0, 16, {Across})>>
ValiantNiRingPlans == PlansFor(ValiantNiRing)
SecondExample == <<AnyNet(<<Line("router", 0, <<Node(0), NodeBy(1, 5), NodeBy(2, 5)>>)>>, {<<To(0, 1)>>})>>
SecondPlans == PlansFor(SecondExample)
=============================================================================
