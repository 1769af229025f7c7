--------------------------- MODULE PacketNetwork ---------------------------
(***************************************************************************)
(* Packets in flight on a network: which VCs they hold, and which ones     *)
(* their heads wait for.                                                   *)
(*                                                                         *)
(* A packet holds the output VCs it was given from the grant to its tail.  *)
(* A long packet is at least as long as the buffers on its way, so that it *)
(* holds all of them until its heads have left the network; a short one    *)
(* fits into a buffer and holds the last.                                  *)
(*                                                                         *)
(* A packet of src_routing_mesh is a tree of segments and has one head per *)
(* branch; at a router it takes an output VC for each of its branches or   *)
(* none (MCRouter).  Any other packet is one segment to its destination.   *)
(***************************************************************************)
EXTENDS Networks

\* An instance (Networks) has a field long and a field loads, a set of sequences of
\* packets.

VARIABLES
  net,        \* the network: an index of Instances
  load,       \* its packets: [src, dests, segs], segs of [end, im, kids]; 1 is the root
  packet      \* per packet: [heads, held, got], got the nodes it has reached

vars == <<net, load, packet>>

Packets == DOMAIN load

G == Instances[net]
Plan == Plans[net]

(***************************************************************************)
(* Routing at a router.  An arrival is where a head flit is, by which port *)
(* and VC it came, its segment and what is left of it.  A head has been    *)
(* routed: it needs one of the alts of each of its needs.                  *)
(***************************************************************************)
\* GetFanoutFlitTargets leaves out the intermediate nodes it is at.
Ahead(im, at) ==
  SubSeq(im, Min({i \in 1 .. Len(im) + 1 : i > Len(im) \/ im[i] # at}), Len(im))

\* At the end of a segment only the children go on.
BranchesOnward(p, a) ==
  LET seg == load[p].segs[a.seg]
  IN  IF a.at # seg.end \/ seg.kids = {} THEN {[seg |-> a.seg, im |-> Ahead(a.im, a.at)]}
      ELSE {[seg |-> c, im |-> Ahead(load[p].segs[c].im, a.at)] : c \in seg.kids}

\* What leaves a router: the flit itself on its way along a segment, or, at the
\* end of the segment, the children, and the flit to the node if it is a
\* destination.
Branches(p, a) ==
  LET seg == load[p].segs[a.seg]
  IN  IF a.at # seg.end THEN {[seg |-> a.seg, im |-> Ahead(a.im, a.at)]}
      ELSE {[seg |-> c, im |-> Ahead(load[p].segs[c].im, a.at)] : c \in seg.kids}
           \cup {[seg |-> a.seg, im |-> <<>>] : x \in {a.at} \cap load[p].dests}

\* src_routing_mesh: dimension order to the next target, on the lower half.
SrcRoutingMesh(p, a) ==
  LET Target(b) == IF b.im # <<>> THEN Head(b.im) ELSE load[p].segs[b.seg].end
  IN  {[seg |-> b.seg, im |-> b.im,
        alts |-> {DorNextMesh(G, a.at, Target(b), FALSE)} \X LowerHalf(G.lo, G.hi)] :
         b \in Branches(p, a)}

Routed(p, a) ==
  LET h == [at |-> a.at, in |-> a.in, vc |-> a.vc, ph |-> a.ph, intm |-> a.intm, src |-> load[p].src,
            dest |-> load[p].segs[1].end]
      Routes(ph, intm, needs) ==
        [at |-> a.at, hops |-> a.hops, ph |-> ph, intm |-> intm, needs |-> needs]
  IN  IF G.rf = "src_routing_mesh" THEN {Routes(a.ph, a.intm, SrcRoutingMesh(p, a))}
      ELSE {Routes(o.ph, o.intm, {[seg |-> 1, im |-> <<>>, alts |-> o.alts]}) :
              o \in RouteFunction(G, Plan, h)}

(***************************************************************************)
(* Steps.                                                                  *)
(***************************************************************************)
Owned == UNION {packet[p].held : p \in Packets}

Free(h, need) == {alt \in need.alts : <<h.at>> \o alt \notin Owned}

\* One of its alts for each need, or nothing.
Grants(h) ==
  {f \in [h.needs -> UNION {Free(h, b) : b \in h.needs}] : \A b \in h.needs : f[b] \in Free(h, b)}

Fresh == [heads |-> {}, held |-> {}, got |-> <<>>]
Done(p) == packet[p].heads = {} /\ packet[p].got # <<>>

Init ==
  /\ net \in DOMAIN Instances
  /\ load \in G.loads
  /\ packet = [p \in Packets |-> Fresh]

\* The head flit comes to the first router, on some VC of its node.
Inject(p) ==
  /\ packet[p] = Fresh
  /\ \E vc \in InjectionVcs(G, load[p].segs[1].end) :
     \E h \in Routed(p, [at |-> Plan.inject[load[p].src].at, in |-> Plan.inject[load[p].src].in,
                         vc |-> vc, seg |-> 1, im |-> load[p].segs[1].im,
                         ph |-> Unset, intm |-> Unset, hops |-> 0]) :
       packet' = [packet EXCEPT ![p].heads = {h}]
  /\ UNCHANGED <<net, load>>

\* The VCs a packet holds once its heads have been granted more.
Held(p, heads, granted) ==
  IF heads = {} THEN {}
  ELSE IF G.long THEN packet[p].held \cup granted
  ELSE granted

\* A head is granted its outputs; its flits travel on to the next routers and are
\* routed there, or leave to the node.
Advance(p) ==
  /\ \E h \in packet[p].heads :
     \E grant \in Grants(h) :
       LET To(b) == Plan.wires[h.at][grant[b][1]]
           onward == {b \in h.needs : To(b).to = "chan"}
           Next(b) ==
             Routed(p, [at |-> To(b).at, in |-> To(b).in, vc |-> grant[b][2], seg |-> b.seg,
                        im |-> b.im, ph |-> h.ph, intm |-> h.intm,
                        hops |-> h.hops + Plan.lengths[h.at][grant[b][1]]])
       IN  \E next \in [onward -> UNION {Next(b) : b \in onward}] :
             /\ \A b \in onward : next[b] \in Next(b)
             /\ LET heads == (packet[p].heads \ {h}) \cup Range(next)
                IN  packet' = [packet EXCEPT
                      ![p].heads = heads,
                      ![p].held = Held(p, heads, {<<h.at>> \o grant[b] : b \in h.needs}),
                      ![p].got = @ \o SetToSeq({To(b).node : b \in h.needs \ onward})]
  /\ UNCHANGED <<net, load>>

AllDone == \A p \in Packets : Done(p)

Terminated == AllDone /\ UNCHANGED vars

Next == (\E p \in Packets : Inject(p) \/ Advance(p)) \/ Terminated

Spec == Init /\ [][Next]_vars

(***************************************************************************)
(* Properties.                                                             *)
(***************************************************************************)

\* Packets are on routers of the network and hold channels of it.
TypeOK ==
  \A p \in Packets :
    /\ \A c \in packet[p].held :
         c[1] \in DOMAIN Plan.wires /\ c[2] \in DOMAIN Plan.wires[c[1]] /\ c[3] \in 0 .. G.hi
    /\ \A h \in packet[p].heads : h.at \in DOMAIN Plan.wires /\ h.hops \in Nat

\* Routing cannot deadlock: among the packets under way, if any, there is one with
\* a head that can have all that it needs, however long the packets are.
NoDeadlock ==
  LET heads == UNION {packet[p].heads : p \in Packets}
  IN  heads # {} => \E h \in heads : Grants(h) # {}

\* No packet strays: the length of the way it has made and of the way it still has,
\* by its intermediate node until it has reached it, is at most that of the way from
\* its source.  So it arrives; and in a mesh it never uses a wrap-around channel.
OnCourse ==
  \A p \in Packets : \A h \in packet[p].heads :
    LET src == Plan.inject[load[p].src].at
        dest == Plan.eject[load[p].segs[1].end].at
        intm == IntermediateRouter(G, h.intm)
        Via(a) == Distance(G, Plan, a, intm) + Distance(G, Plan, intm, dest)
    IN  Len(load[p].segs) = 1 =>
          h.hops + (IF Detouring(G, h.ph) THEN Via(h.at) ELSE Distance(G, Plan, h.at, dest))
            <= IF h.intm = Unset THEN Distance(G, Plan, src, dest) ELSE Via(src)

\* A head asks for VCs of the class of its packet only, or the assertion on f->vc
\* fails at the next router.
WithinClass ==
  \A p \in Packets : \A h \in packet[p].heads : \A b \in h.needs :
    b.alts # {} /\ \A alt \in b.alts : alt[2] \in G.lo .. G.hi

\* Every destination receives its packet, once, and no other node does.
DeliveredOnce ==
  \A p \in Packets :
    /\ Range(packet[p].got) \subseteq load[p].dests
    /\ IsInjective(packet[p].got)
    /\ Done(p) => Range(packet[p].got) = load[p].dests
=============================================================================
