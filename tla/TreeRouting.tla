---------------------------- MODULE TreeRouting ----------------------------
(***************************************************************************)
(* The butterfly and the three trees of src/src/noc/networks, and their    *)
(* routing functions, from routefunc.cpp.  Routing functions, flits and    *)
(* outcomes are as in CubeRouting.                                         *)
(*                                                                         *)
(* Every channel of a network drives one input.  The ends of a channel are *)
(* records: at, the router by its GetID; port, the number the order of     *)
(* AddInputChannel or AddOutputChannel gives it; chan, what is connected:  *)
(* a channel by its index in _chan, or a node by its injection or ejection *)
(* channel.                                                                *)
(***************************************************************************)
EXTENDS CubeRouting

Chan(c) == <<"chan", c>>
Terminal(node) == <<"node", node>>

End(at, port, chan) == [at |-> at, port |-> port, chan |-> chan]

\* The ends of a pair of channels between two routers, one each way; the port
\* numbers are the same for input and output.
Pair(r1, p1, r2, p2, name) ==
  [outputs |-> {End(r1, p1, Chan(<<name, 1>>)), End(r2, p2, Chan(<<name, 2>>))},
   inputs |-> {End(r2, p2, Chan(<<name, 1>>)), End(r1, p1, Chan(<<name, 2>>))}]

\* k nodes on the first k ports of each leaf router; first is the first of these.
LeafEnds(g, first) ==
  {End(first + pos, port, Terminal(g.k * pos + port)) : pos \in 0 .. g.k ^ (g.n - 1) - 1, port \in 0 .. g.k - 1}

AllVcs(g, h, ports) == [alts |-> ports \X (g.lo .. g.hi), ph |-> h.ph, intm |-> h.intm]

(***************************************************************************)
(* fly: n stages of k^(n-1) switches; packets go from stage to stage.      *)
(***************************************************************************)
FlySize(g) == g.k ^ (g.n - 1)
FlyRouter(g, stage, addr) == stage * FlySize(g) + addr

FlyOutChannel(g, stage, addr, port) == stage * g.k ^ g.n + addr * g.k + port

\* The wiring between two stages swaps two digits of the address.
FlyInChannel(g, stage, addr, port) ==
  LET shift == g.k ^ (g.n - stage - 1)
      zero_digit == (addr \div shift) % g.k
      in_addr == addr - zero_digit * shift + port * shift
  IN  FlyOutChannel(g, stage - 1, in_addr, zero_digit)

FlySwitches(g) == (0 .. g.n - 1) \X (0 .. FlySize(g) - 1) \X (0 .. g.k - 1)

FlyInputs(g) ==
  {End(FlyRouter(g, s[1], s[2]), s[3],
       IF s[1] = 0 THEN Terminal(s[2] * g.k + s[3]) ELSE Chan(FlyInChannel(g, s[1], s[2], s[3]))) :
     s \in FlySwitches(g)}

FlyOutputs(g) ==
  {End(FlyRouter(g, s[1], s[2]), s[3],
       IF s[1] = g.n - 1 THEN Terminal(s[2] * g.k + s[3]) ELSE Chan(FlyOutChannel(g, s[1], s[2], s[3]))) :
     s \in FlySwitches(g)}

\* A stage consumes one digit of the destination, the highest first.
DestTagFly(g, h) ==
  LET stage == (h.at * g.k) \div g.k ^ g.n
  IN  {AllVcs(g, h, {Coord(g, h.dest, g.n - 1 - stage)})}

(***************************************************************************)
(* qtree: a tree; k children on the first ports, the parent on the last.   *)
(***************************************************************************)
QTreeId(height, pos) == height * 256 + pos

QTreePairs(g) ==
  {Pair(QTreeId(c[1] - 1, c[2] \div g.k), c[2] % g.k, QTreeId(c[1], c[2]), g.k, c) :
     c \in {x \in (1 .. g.n - 1) \X (0 .. g.k ^ (g.n - 1) - 1) : x[2] < g.k ^ x[1]}}

QTreeLeaves(g) == LeafEnds(g, QTreeId(g.n - 1, 0))
QTreeOutputs(g) == QTreeLeaves(g) \cup UNION {p.outputs : p \in QTreePairs(g)}
QTreeInputs(g) == QTreeLeaves(g) \cup UNION {p.inputs : p \in QTreePairs(g)}

QTreeNca(g, h) ==
  LET height == h.at \div 256
      pos == h.at % 256
      dest == h.dest \div g.k ^ (g.n - 1 - height)
  IN  {AllVcs(g, h, {IF pos = dest \div g.k THEN dest % g.k ELSE g.k})}

(***************************************************************************)
(* tree4: 64 nodes, 16 routers above them with two ways up, 8 with four,   *)
(* and 4 at the top.  Ports 0 .. 3 lead down, 4 .. 7 up; at the top all    *)
(* lead down.                                                              *)
(***************************************************************************)
Tree4Id(height, pos) == height * 16 + pos

Tree4Pairs(g) ==
  {Pair(Tree4Id(1, c[1]), c[2], Tree4Id(2, g.k * (c[1] \div 2) + c[2]), g.k + (c[1] % 2), <<1, c>>) :
     c \in (0 .. 7) \X (0 .. g.k - 1)}
  \cup {Pair(Tree4Id(0, c[1]), c[2], Tree4Id(1, c[2]), g.k + c[1], <<0, c>>) : c \in (0 .. 3) \X (0 .. 7)}

Tree4Leaves(g) == LeafEnds(g, Tree4Id(2, 0))
Tree4Outputs(g) == Tree4Leaves(g) \cup UNION {p.outputs : p \in Tree4Pairs(g)}
Tree4Inputs(g) == Tree4Leaves(g) \cup UNION {p.inputs : p \in Tree4Pairs(g)}

\* The ways down to the destination, or else up.
Tree4Ports(g, h) ==
  LET height == h.at \div 16
      pos == h.at % 16
      leaf == h.dest \div 4
  IN  CASE height = 0 -> {2 * (h.dest \div 16), 2 * (h.dest \div 16) + 1}
        [] height = 1 -> IF leaf \div 4 = pos \div 2 THEN {leaf % 4} ELSE g.k .. 2 * g.k - 1
        [] OTHER -> IF leaf = pos THEN {h.dest % 4} ELSE {g.k, g.k + 1}

\* One of the ways at random; adaptive: any of the ways up.
Tree4Nca(g, h) == {AllVcs(g, h, {port}) : port \in Tree4Ports(g, h)}

Tree4Anca(g, h) ==
  IF h.at \div 16 = 0 THEN Tree4Nca(g, h) ELSE {AllVcs(g, h, Tree4Ports(g, h))}

(***************************************************************************)
(* fattree: n levels, 0 at the top, of k^(n-1) routers, with k ports down  *)
(* and, except at the top, k ports up.                                     *)
(***************************************************************************)
FatTreePos(g) == 0 .. g.k ^ (g.n - 1) - 1
FatTreeId(g, level, pos) == level * g.k ^ (g.n - 1) + pos

\* The index in _chan of the first channel down from a level, and up from it.
DownFrom(g, level) == level * 2 * g.k ^ g.n
UpFrom(g, level) == level * 2 * g.k ^ g.n - g.k ^ g.n

\* The channel that an input is connected to interleaves the neighbourhood of the
\* router, among the channels of the other level that begin at base.
Interleaved(g, base, level, pos, port) ==
  LET per_neighborhood == g.k ^ (g.n - 1 - level)
      per_branch == per_neighborhood \div g.k
      nbpos == pos % per_neighborhood
  IN  base + (pos \div per_neighborhood) * per_neighborhood * g.k + port * per_branch * g.k
        + (nbpos % per_branch) * g.k + nbpos \div per_branch

FatTreeLeaves(g) == LeafEnds(g, FatTreeId(g, g.n - 1, 0))

FatTreeOutputs(g) ==
  FatTreeLeaves(g)
  \cup {End(FatTreeId(g, x[1], x[2]), x[3], Chan(DownFrom(g, x[1]) + x[2] * g.k + x[3])) :
          x \in (0 .. g.n - 2) \X FatTreePos(g) \X (0 .. g.k - 1)}
  \cup {End(FatTreeId(g, x[1], x[2]), g.k + x[3], Chan(UpFrom(g, x[1]) + x[2] * g.k + x[3])) :
          x \in (1 .. g.n - 1) \X FatTreePos(g) \X (0 .. g.k - 1)}

FatTreeInputs(g) ==
  FatTreeLeaves(g)
  \cup {End(FatTreeId(g, x[1], x[2]), x[3],
            Chan(Interleaved(g, UpFrom(g, x[1] + 1), x[1], x[2], x[3]))) :
          x \in (0 .. g.n - 2) \X FatTreePos(g) \X (0 .. g.k - 1)}
  \cup {End(FatTreeId(g, x[1], x[2]), g.k + x[3],
            Chan(Interleaved(g, DownFrom(g, x[1] - 1), x[1] - 1, x[2], x[3]))) :
          x \in (1 .. g.n - 1) \X FatTreePos(g) \X (0 .. g.k - 1)}

\* fattree_nca, with a random way up, and fattree_anca, where the credits of two
\* random ways decide.  An assertion allows a packet up only from below.
FatTreeNca(g, h) ==
  LET level == h.at \div g.k ^ (g.n - 1)
      pos == h.at % g.k ^ (g.n - 1)
      covers == g.k ^ (g.n - level)
      first == (pos \div g.k ^ (g.n - level - 1)) * covers
  IN  IF h.dest \in first .. first + covers - 1
      THEN {AllVcs(g, h, {IF level = g.n - 1 THEN h.dest % g.k ELSE (h.dest - first) \div (covers \div g.k)})}
      ELSE {AllVcs(g, h, IF h.in < g.k THEN {g.k + up} ELSE {}) : up \in 0 .. g.k - 1}
=============================================================================
