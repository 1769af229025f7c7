--------------------------- MODULE AnyNetRouting ---------------------------
(***************************************************************************)
(* The network that is read from a file (anynet.cpp): how the description  *)
(* is understood, the wiring, and the routing tables.                      *)
(*                                                                         *)
(* A description is a sequence of lines.  A line has a head, a router or a *)
(* node by its number, and a sequence of links: the router or node it      *)
(* leads to, and the latency if one is written.                            *)
(***************************************************************************)
EXTENDS FlatRouting, Sequences, SequencesExt

Unwritten == -1

(***************************************************************************)
(* readFile: router_list and node_list.  local gives a router and a node   *)
(* the latency between them, link two routers; home gives a node its       *)
(* router.  Every number seen as the head of a line counts as a router.    *)
(***************************************************************************)
Nothing == [routers |-> {}, local |-> <<>>, link |-> <<>>, home |-> <<>>]

Put(f, x, value) == (x :> value) @@ f

\* A second router for a node is an assertion failure.
Attach(lists, router, node) ==
  [lists EXCEPT !.local = Put(@, <<router, node>>, 1), !.home = Put(@, node, router)]

\* The way back exists as well, with a latency of its own.
Connect(lists, from, to) ==
  [lists EXCEPT !.link = Put(IF <<to, from>> \in DOMAIN @ THEN @ ELSE Put(@, <<to, from>>, 1), <<from, to>>, 1)]

\* A latency is written in the list of the head, under its number and that of the
\* link.  For two routers that is their channel.  For a node on the line of a router it
\* is a channel as well, to the router of the node's number, which there is from then
\* on, one way; the node's own latency stays.  On the line of a node it is the entry of
\* the router of the node's number.
Latency(lists, head, link) ==
  LET written(list) == Put(list, <<head.id, link.id>>, link.lat)
  IN  CASE link.lat = Unwritten -> lists
        [] link.lat # Unwritten /\ head.type = "router" -> [lists EXCEPT !.link = written(@)]
        [] link.lat # Unwritten /\ head.type = "node" -> [lists EXCEPT !.local = written(@)]

ReadLink(lists, head, link) ==
  LET known == [lists EXCEPT !.routers = @ \cup {link.id : x \in {"router"} \cap {link.type}}]
      joined == CASE head.type = "router" /\ link.type = "router" -> Connect(known, head.id, link.id)
                  [] head.type = "router" /\ link.type = "node" -> Attach(known, head.id, link.id)
                  [] head.type = "node" /\ link.type = "router" -> Attach(known, link.id, head.id)
  IN  Latency(joined, head, link)

ReadLine(lists, line) ==
  FoldLeft(LAMBDA acc, link : ReadLink(acc, line.head, link),
           [lists EXCEPT !.routers = @ \cup {line.head.id}], line.links)

ReadFile(file) == FoldLeft(ReadLine, Nothing, file)

(***************************************************************************)
(* Ports: the nodes of a router, then the routers, by their numbers.       *)
(***************************************************************************)
LocalNodes(lists, r) == {x[2] : x \in {y \in DOMAIN lists.local : y[1] = r}}
NextRouters(lists, r) == {x[2] : x \in {y \in DOMAIN lists.link : y[1] = r}}
PreviousRouters(lists, r) == {x[1] : x \in {y \in DOMAIN lists.link : y[2] = r}}

Rank(i, set) == Cardinality({j \in set : j < i})

NodePort(lists, r, node) == Rank(node, LocalNodes(lists, r))
RouterPort(lists, r, others, other) == Cardinality(LocalNodes(lists, r)) + Rank(other, others)

AnyNetTerminals(lists) == {End(x[1], NodePort(lists, x[1], x[2]), Terminal(x[2])) : x \in DOMAIN lists.local}

AnyNetOutputs(lists) ==
  AnyNetTerminals(lists)
  \cup {End(x[1], RouterPort(lists, x[1], NextRouters(lists, x[1]), x[2]), Chan(x)) : x \in DOMAIN lists.link}

AnyNetInputs(lists) ==
  AnyNetTerminals(lists)
  \cup {End(x[2], RouterPort(lists, x[2], PreviousRouters(lists, x[2]), x[1]), Chan(x)) : x \in DOMAIN lists.link}

(***************************************************************************)
(* route: the shortest paths from a router, after Dijkstra.                *)
(***************************************************************************)
Infinity == 2147483647
NoRouter == -1

\* The router that is nearest among those left, the lowest of them.
Nearest(dist, left) ==
  Min({r \in left : \A other \in left : dist[r] <= dist[other]})

\* Its neighbours are nearer by it, if they are nearer and not as near.
Relax(lists, s) ==
  LET min == Nearest(s.dist, s.left)
      Nearer(r) == <<min, r>> \in DOMAIN lists.link /\ s.dist[min] + lists.link[<<min, r>>] < s.dist[r]
  IN  [left |-> s.left \ {min},
       dist |-> [r \in lists.routers |-> IF Nearer(r) THEN s.dist[min] + lists.link[<<min, r>>] ELSE s.dist[r]],
       prev |-> [r \in lists.routers |-> IF Nearer(r) THEN min ELSE s.prev[r]]]

ShortestFrom(lists, start) ==
  LET initial == [left |-> lists.routers,
                  dist |-> [r \in lists.routers |-> IF r = start THEN 0 ELSE Infinity],
                  prev |-> [r \in lists.routers |-> NoRouter]]
      after[i \in 0 .. Cardinality(lists.routers)] == IF i = 0 THEN initial ELSE Relax(lists, after[i - 1])
  IN  after[Cardinality(lists.routers)]

\* The routing table of a router: the port for each node, where the first router
\* on the way, found backwards from that of the node, is.
RoutingTable(lists, start) ==
  LET prev == ShortestFrom(lists, start).prev
      first[i \in 0 .. Cardinality(lists.routers), r \in lists.routers] ==
        IF prev[r] = start THEN r ELSE first[i - 1, prev[r]]
      Port(r, node) ==
        IF prev[r] = NoRouter THEN NodePort(lists, start, node)
        ELSE RouterPort(lists, start, NextRouters(lists, start), first[Cardinality(lists.routers), r])
  IN  [node \in {x[2] : x \in DOMAIN lists.local} |->
         Port((CHOOSE x \in DOMAIN lists.local : x[2] = node)[1], node)]

\* By tables as in global_routing_table.
MinAnyNet(g, h, tables) == {Outcome(h, tables[h.at][h.dest], g.lo .. g.hi)}
=============================================================================
