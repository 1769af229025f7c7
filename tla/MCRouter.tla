------------------------------ MODULE MCRouter ------------------------------
(***************************************************************************)
(* One router of the network (noc/routers/mc_router.cpp and what it        *)
(* inherits from iq_router.cpp), cycle by cycle.  A cycle is ReadInputs,   *)
(* then _InternalStep, whose parts are the actions below in the order in   *)
(* which they are called, then WriteOutputs; pc is the part that is next.  *)
(* Every pipeline delay is 1 (routing and VC allocation must be, the rest  *)
(* are by default), so an entry that is evaluated in a cycle is updated in *)
(* that cycle and the time stamps of the queues reduce to the domains of   *)
(* vcRes and swRes.                                                        *)
(*                                                                         *)
(* A packet leaves on one output, or on several when it fans out; the      *)
(* route is that of the packet (the routing function is not part of the    *)
(* router).  The neighbours are the environment: upstream sends the flits  *)
(* of each packet in order on one VC while it has credits, downstream      *)
(* returns a credit for every flit, each whenever it likes.                *)
(***************************************************************************)
EXTENDS BufferState, Sequences, FiniteSetsExt, Functions

CONSTANTS
  NumInputs, NumOutputs,
  Policy, Wait,  \* buffer_policy and wait_for_tail_credit of the outputs
  Pids,          \* bound: the packets that come by
  Workloads      \* the packets' inputs, outputs and lengths that are considered

Inputs == 0 .. NumInputs - 1
Outputs == 0 .. NumOutputs - 1
InVcs == Inputs \X Vcs

ASSUME MCRouterAssumption ==
  /\ NumInputs \in Nat \ {0} /\ NumOutputs \in Nat \ {0}
  /\ Policy \in Policies /\ Wait \in BOOLEAN
  /\ None \notin Pids \cup InVcs
  /\ Workloads \subseteq
       [Pids -> [in : Inputs, outs : (SUBSET Outputs) \ {{}}, len : Nat \ {0}]]

VARIABLES
  pkt,       \* the workload
  pc, active, activity,
  inFlit,    \* per input, _in_queue_flits
  inCredit,  \* per output, the VCs of its credit in _proc_credits
  fifo,      \* per input VC, its flits
  state,     \* per input VC, its VC state
  outs,      \* per input VC, output -> output VC (getMultiOutputs)
  routeQ, vcQ, swQ,  \* input VCs in _multi_route_vcs, ..._vc_alloc_vcs, ..._sw_alloc_vcs
  vcRes,     \* per evaluated entry of vcQ, the output VCs granted, if any
  swRes,     \* per evaluated entry of swQ, whether the crossbar was granted
  nextBuf,   \* per output, its BufferState
  crossbar,  \* _crossbar_flits
  outBuf,    \* per output, _output_buffer
  creditBuf, \* per input, the VCs of its Credit on the way out
  feed,      \* upstream, per input VC: the packet it is sending
  started,   \* upstream: packets whose head has been sent
  used,      \* upstream, per input VC: slots not known to be free
  down,      \* downstream, per output VC: flits not yet credited
  open,      \* per output VC, the packet between its head and its tail (history)
  progress   \* per packet and output, flits that have left (history)

queues == <<routeQ, vcQ, swQ, vcRes, swRes>>
router == <<active, activity, inFlit, inCredit, fifo, state, outs, queues,
            nextBuf, crossbar, outBuf, creditBuf>>
upstream == <<feed, started, used>>
history == <<open, progress>>
vars == <<pkt, pc, router, upstream, down, history>>

Idle == [pid |-> None, idx |-> 0]
IsHead(f) == f.idx = 1
IsTail(f) == f.idx = pkt[f.pid].len
Front(x) == Head(fifo[x])
Route(x) == pkt[Front(x).pid].outs

Init ==
  /\ pkt \in Workloads
  /\ pc = "read" /\ active = FALSE /\ activity = FALSE
  /\ inFlit = [i \in Inputs |-> None]
  /\ inCredit = [o \in Outputs |-> {}]
  /\ fifo = [x \in InVcs |-> <<>>]
  /\ state = [x \in InVcs |-> "idle"]
  /\ outs = [x \in InVcs |-> <<>>]
  /\ routeQ = {} /\ vcQ = {} /\ swQ = {} /\ vcRes = <<>> /\ swRes = <<>>
  /\ nextBuf = [o \in Outputs |-> New(Policy, Wait)]
  /\ crossbar = {}
  /\ outBuf = [o \in Outputs |-> <<>>]
  /\ creditBuf = [i \in Inputs |-> {}]
  /\ feed = [x \in InVcs |-> Idle]
  /\ started = {}
  /\ used = [x \in InVcs |-> 0]
  /\ down = [c \in Outputs \X Vcs |-> 0]
  /\ open = [c \in Outputs \X Vcs |-> None]
  /\ progress = [p \in Pids |-> [o \in Outputs |-> 0]]

-----------------------------------------------------------------------------
(***************************************************************************)
(* ReadInputs: at most one flit per input and one credit, for any of its   *)
(* VCs, per output.                                                        *)
(***************************************************************************)
\* The flits upstream may send on input i: the next flit of the packet that
\* holds the VC, or a head, while the VC is not full.
Offers(i) ==
  {[vc |-> v, pid |-> p, idx |-> feed[<<i, v>>].idx + 1] : v \in Vcs, p \in Pids}

Legal(i, f) ==
  LET x == <<i, f.vc>>
  IN  /\ used[x] < VcLimit
      /\ IF feed[x] = Idle THEN f.pid \notin started /\ pkt[f.pid].in = i
         ELSE f.pid = feed[x].pid
      /\ f.idx = feed[x].idx + 1

\* The input VCs on which the flits A arrive, and the flit of each.
Arriving(A) == {<<i, A[i].vc>> : i \in {j \in Inputs : A[j] # None}}
FlitOn(A, x) == [pid |-> A[x[1]].pid, idx |-> A[x[1]].idx]

AllOffers == UNION {Offers(i) : i \in Inputs}

Arrivals == {A \in [Inputs -> AllOffers \cup {None}] :
               \A i \in Inputs : A[i] # None => Legal(i, A[i])}
Credited == {C \in [Outputs -> SUBSET Vcs] :
               \A o \in Outputs : \A w \in C[o] : down[<<o, w>>] > 0}

\* Mutated form: a credit does not wake the router.
WakesOnFlits(A, C) == Arriving(A) # {}

\* _active becomes true: something came in.
Wakes(A, C) == Arriving(A) # {} \/ \E o \in Outputs : C[o] # {}

ReadInputs(A, C) ==
  /\ pc = "read" /\ pc' = "dispatch"
  /\ inFlit' = A
  /\ inCredit' = C
  /\ active' = (active \/ Wakes(A, C))
  /\ feed' = [x \in InVcs |->
                IF x \notin Arriving(A) THEN feed[x]
                ELSE IF IsTail(FlitOn(A, x)) THEN Idle ELSE FlitOn(A, x)]
  /\ started' = started \cup {A[x[1]].pid : x \in Arriving(A)}
  /\ used' = [x \in InVcs |-> IF x \in Arriving(A) THEN used[x] + 1 ELSE used[x]]
  /\ down' = [c \in Outputs \X Vcs |-> IF c[2] \in C[c[1]] THEN down[c] - 1 ELSE down[c]]
  /\ UNCHANGED <<pkt, activity, fifo, state, outs, queues, nextBuf, crossbar, outBuf,
                 creditBuf, history>>

\* _InternalStep returns at once: the router sleeps.
Sleep ==
  /\ pc = "dispatch" /\ ~active
  /\ pc' = "write"
  /\ UNCHANGED <<pkt, router, upstream, down, history>>

\* The BufferState of output o after the credits for its VCs.
Credit(o) == FoldSet(LAMBDA w, b : ProcessCreditFor(b, w), nextBuf[o], inCredit[o])

\* Flits enter their VC buffers, credits the BufferStates.
FlitDispatch ==
  LET new == Arriving(inFlit)
  IN  /\ pc = "dispatch" /\ active
      /\ pc' = "vc_evaluate"
      /\ fifo' = [x \in InVcs |-> IF x \in new THEN Append(fifo[x], FlitOn(inFlit, x))
                                  ELSE fifo[x]]
      /\ state' = [x \in InVcs |-> IF x \in new /\ state[x] = "idle" THEN "routing"
                                   ELSE state[x]]
      /\ routeQ' = routeQ \cup {x \in new : state[x] = "idle"}
      /\ swQ' = swQ \cup {x \in new : state[x] = "active" /\ fifo[x] = <<>>}
      /\ inFlit' = [i \in Inputs |-> None]
      /\ nextBuf' = [o \in Outputs |-> Credit(o)]
      /\ inCredit' = [o \in Outputs |-> {}]
      /\ activity' = FALSE
      /\ UNCHANGED <<pkt, active, outs, vcQ, vcRes, swRes, crossbar, outBuf, creditBuf,
                     upstream, down, history>>

-----------------------------------------------------------------------------
(***************************************************************************)
(* MultiOutputSparseAllocator::Allocate: requests are served in the order  *)
(* of their inputs, and a request gets all it asks for or nothing.  req    *)
(* gives the resources each input VC asks for.                             *)
(***************************************************************************)
Before(x, y) == x[1] * NumVcs + x[2] < y[1] * NumVcs + y[2]

\* Mutated form: a taken resource is granted again.
AllocateAll(req) == DOMAIN req

Allocate(req) ==
  CHOOSE G \in SUBSET DOMAIN req :
    \A x \in DOMAIN req :
      x \in G <=> \A y \in G : Before(y, x) => req[x] \cap req[y] = {}

\* The entries of an evaluated queue that got all they asked for.
Granted(res) == {x \in DOMAIN res : res[x]}

\* Mutated form: one available output is enough.
CanTakeSome(x, pick) == \E o \in Route(x) : IsAvailableFor(nextBuf[o], pick[x][o])

\* The output VCs picked for x are all available.
CanTake(x, pick) == \A o \in Route(x) : IsAvailableFor(nextBuf[o], pick[x][o])

\* The BufferState of output o after the input VCs X have taken their picks.
Take(o, X, pick) == FoldSet(LAMBDA x, b : TakeBuffer(b, pick[x][o], x), nextBuf[o], X)

\* Each head waiting for output VCs asks for a random one on each of its
\* outputs, if all of them are available; a grant takes the buffers at once.
VCAllocEvaluate(pick) ==
  LET eligible == {x \in vcQ : CanTake(x, pick)}
      req == [x \in eligible |-> {<<o, pick[x][o]>> : o \in Route(x)}]
      granted == Allocate(req)
  IN  /\ pc = "vc_evaluate" /\ pc' = "sw_evaluate"
      /\ vcRes' = [x \in vcQ |-> x \in granted]
      /\ outs' = [x \in InVcs |-> IF x \in granted THEN [o \in Route(x) |-> pick[x][o]]
                                  ELSE outs[x]]
      /\ nextBuf' = [o \in Outputs |-> Take(o, {x \in granted : o \in Route(x)}, pick)]
      /\ UNCHANGED <<pkt, active, activity, inFlit, inCredit, fifo, state, routeQ, vcQ, swQ,
                     swRes, crossbar, outBuf, creditBuf, upstream, down, history>>

\* No output VC that x holds is full.
CanSend(x) == \A o \in DOMAIN outs[x] : ~IsFullFor(nextBuf[o], outs[x][o])

\* Each VC with a flit to send asks for the outputs of its packet, if none of
\* the VCs it holds there is full.
SWAllocEvaluate ==
  LET eligible == {x \in swQ : CanSend(x)}
      granted == Allocate([x \in eligible |-> DOMAIN outs[x]])
  IN  /\ pc = "sw_evaluate" /\ pc' = "route_update"
      /\ swRes' = [x \in swQ |-> x \in granted]
      /\ UNCHANGED <<pkt, active, activity, inFlit, inCredit, fifo, state, outs, routeQ, vcQ,
                     swQ, vcRes, nextBuf, crossbar, outBuf, creditBuf, upstream, down, history>>

RouteUpdate ==
  /\ pc = "route_update" /\ pc' = "vc_update"
  /\ state' = [x \in InVcs |-> IF x \in routeQ THEN "vc_alloc" ELSE state[x]]
  /\ vcQ' = vcQ \cup routeQ
  /\ routeQ' = {}
  /\ UNCHANGED <<pkt, active, activity, inFlit, inCredit, fifo, outs, swQ, vcRes, swRes,
                 nextBuf, crossbar, outBuf, creditBuf, upstream, down, history>>

\* Mutated form: heads that got no output VCs are lost.
StalledLost == vcQ \ DOMAIN vcRes

\* Heads that got no output VCs are pushed back.
StillWaiting == vcQ \ Granted(vcRes)

VCAllocUpdate ==
  LET granted == Granted(vcRes)
  IN  /\ pc = "vc_update" /\ pc' = "sw_update"
      /\ state' = [x \in InVcs |-> IF x \in granted THEN "active" ELSE state[x]]
      /\ vcQ' = StillWaiting
      /\ swQ' = swQ \cup granted
      /\ vcRes' = <<>>
      /\ activity' = (activity \/ vcQ' # {})
      /\ UNCHANGED <<pkt, active, inFlit, inCredit, fifo, outs, routeQ, swRes, nextBuf,
                     crossbar, outBuf, creditBuf, upstream, down, history>>

\* Mutated forms: a Credit names one VC only, or every VC of its input.
CreditsForOne(granted) ==
  [i \in Inputs |-> {v \in Vcs : /\ <<i, v>> \in granted
                                  /\ \A w \in Vcs : w < v => <<i, w>> \notin granted}]
CreditsForAll(granted) ==
  [i \in Inputs |-> {v \in Vcs : \E w \in Vcs : <<i, w>> \in granted}]

\* The VCs named by the Credit of each input.
CreditsFor(granted) == [i \in Inputs |-> {v \in Vcs : <<i, v>> \in granted}]

\* The BufferState of output o after the input VCs X have sent a flit, those of
\* ended a tail.
Send(o, X, ended) ==
  FoldSet(LAMBDA x, b : SendingFlit(b, outs[x][o], x \in ended), nextBuf[o], X)

\* A granted VC sends its front flit to the crossbar, one copy per output, and
\* a credit upstream; what its buffer holds next decides how it goes on.
SWAllocUpdate ==
  LET granted == Granted(swRes)
      drained == {x \in granted : Len(fifo[x]) = 1}
      ended == {x \in granted : IsTail(Front(x))}
  IN  /\ pc = "sw_update" /\ pc' = "switch"
      /\ fifo' = [x \in InVcs |-> IF x \in granted THEN Tail(fifo[x]) ELSE fifo[x]]
      /\ state' = [x \in InVcs |-> IF x \notin ended THEN state[x]
                                   ELSE IF x \in drained THEN "idle" ELSE "routing"]
      /\ routeQ' = routeQ \cup (ended \ drained)
      /\ swQ' = swQ \ (drained \cup ended)
      /\ swRes' = <<>>
      /\ nextBuf' = [o \in Outputs |->
           Send(o, {x \in granted : o \in DOMAIN outs[x]}, ended)]
      /\ crossbar' = UNION {{[in |-> x[1], out |-> o, vc |-> outs[x][o], flit |-> Front(x)] :
                             o \in DOMAIN outs[x]} : x \in granted}
      /\ creditBuf' = CreditsFor(granted)
      /\ activity' = (activity \/ swQ' # {})
      /\ UNCHANGED <<pkt, active, inFlit, inCredit, outs, vcQ, vcRes, outBuf, upstream,
                     down, history>>

-----------------------------------------------------------------------------
\* The output buffer o after the flits that the crossbar has for it.
Output(o) == FoldSet(LAMBDA c, q : Append(q, c), outBuf[o], {c \in crossbar : c.out = o})

\* The crossbar takes no further cycle; _OutputQueuing passes the credits on.
Switch ==
  /\ pc = "switch" /\ pc' = "write"
  /\ outBuf' = [o \in Outputs |-> Output(o)]
  /\ crossbar' = {}
  /\ active' = activity
  /\ UNCHANGED <<pkt, activity, inFlit, inCredit, fifo, state, outs, queues, nextBuf,
                 creditBuf, upstream, down, history>>

\* One flit per output and one credit per input leave.
Leaving == {o \in Outputs : outBuf[o] # <<>>}

WriteOutputs ==
  /\ pc = "write" /\ pc' = "read"
  /\ outBuf' = [o \in Outputs |-> IF o \in Leaving THEN Tail(outBuf[o]) ELSE <<>>]
  /\ LET sent == {Head(outBuf[o]) : o \in Leaving}
         At(c) == {s \in sent : s.out = c[1] /\ s.vc = c[2]}
     IN  /\ down' = [c \in Outputs \X Vcs |-> down[c] + Cardinality(At(c))]
         /\ open' = [c \in Outputs \X Vcs |->
              IF At(c) = {} THEN open[c]
              ELSE LET f == (CHOOSE s \in At(c) : TRUE).flit
                   IN  IF IsTail(f) THEN None ELSE f.pid]
         /\ progress' = [p \in Pids |-> [o \in Outputs |-> progress[p][o] +
              Cardinality({s \in sent : s.out = o /\ s.flit.pid = p})]]
  /\ used' = [x \in InVcs |-> IF x[2] \in creditBuf[x[1]] THEN used[x] - 1 ELSE used[x]]
  /\ creditBuf' = [i \in Inputs |-> {}]
  /\ UNCHANGED <<pkt, active, activity, inFlit, inCredit, fifo, state, outs, queues, nextBuf,
                 crossbar, feed, started>>

Receive == \E A \in Arrivals, C \in Credited : ReadInputs(A, C)
AllocateVcs ==
  \E pick \in [vcQ -> [Outputs -> Vcs]] :
    \* Picks matter only on the outputs of the packet's route.
    /\ \A x \in vcQ : \A o \in Outputs \ Route(x) : pick[x][o] = 0
    /\ VCAllocEvaluate(pick)

InternalStep ==
  \/ Sleep \/ FlitDispatch \/ AllocateVcs \/ SWAllocEvaluate \/ RouteUpdate
  \/ VCAllocUpdate \/ SWAllocUpdate \/ Switch

Next == Receive \/ InternalStep \/ WriteOutputs

Spec == Init /\ [][Next]_vars

(***************************************************************************)
(* The simulator steps the router every cycle.  Upstream sends the rest of *)
(* a packet it has started once there is room, and downstream returns      *)
(* every credit.  The random choice of an output VC needs no fairness: as  *)
(* long as packets come to an end, every VC becomes available.             *)
(***************************************************************************)
FairSpec ==
  /\ Spec
  /\ WF_vars(Next)
  /\ \A x \in InVcs :
       SF_vars(\E A \in Arrivals, C \in Credited :
                 x \in Arriving(A) /\ feed[x] # Idle /\ ReadInputs(A, C))
  /\ \A o \in Outputs, w \in Vcs :
       SF_vars(\E A \in Arrivals, C \in Credited : w \in C[o] /\ ReadInputs(A, C))

-----------------------------------------------------------------------------
Flit == [pid : Pids, idx : Nat \ {0}]
Copies == [in : Inputs, out : Outputs, vc : Vcs, flit : Flit]
Phases == {"read", "dispatch", "vc_evaluate", "sw_evaluate", "route_update", "vc_update",
           "sw_update", "switch", "write"}

\* Types of the state; the counts at both ends stay within the buffers.
TypeOK ==
  /\ pc \in Phases /\ active \in BOOLEAN /\ activity \in BOOLEAN
  /\ inFlit \in [Inputs -> [vc : Vcs, pid : Pids, idx : Nat \ {0}] \cup {None}]
  /\ inCredit \in [Outputs -> SUBSET Vcs]
  /\ fifo \in [InVcs -> Seq(Flit)]
  /\ state \in [InVcs -> {"idle", "routing", "vc_alloc", "active"}]
  /\ \A x \in InVcs : DOMAIN outs[x] \subseteq Outputs /\ Range(outs[x]) \subseteq Vcs
  /\ routeQ \subseteq InVcs /\ vcQ \subseteq InVcs /\ swQ \subseteq InVcs
  /\ DOMAIN vcRes \subseteq vcQ /\ DOMAIN swRes \subseteq swQ
  /\ crossbar \subseteq Copies /\ outBuf \in [Outputs -> Seq(Copies)]
  /\ creditBuf \in [Inputs -> SUBSET Vcs]
  /\ started \subseteq Pids
  /\ used \in [InVcs -> 0 .. VcLimit] /\ down \in [Outputs \X Vcs -> 0 .. Size]

\* The three work queues hold exactly the VCs whose state calls for it, each
\* in one queue, and what the evaluate functions assert of the front flit is
\* true: a VC is never forgotten with flits in it, nor scheduled without any.
QueuesMatchStates ==
  /\ routeQ = {x \in InVcs : state[x] = "routing"}
  /\ vcQ = {x \in InVcs : state[x] = "vc_alloc"}
  /\ swQ = {x \in InVcs : state[x] = "active" /\ fifo[x] # <<>>}
  /\ \A x \in InVcs : state[x] = "idle" => fifo[x] = <<>>
  /\ \A x \in routeQ \cup vcQ : fifo[x] # <<>> /\ IsHead(Front(x))
  /\ \A x \in swQ : DOMAIN outs[x] = Route(x)
  /\ pc = "dispatch" =>
       \A x \in Arriving(inFlit) : IsHead(FlitOn(inFlit, x)) \/ state[x] # "idle"

\* An output VC is marked in use exactly while an input VC holds it, from the
\* grant to the packet's tail, and by that input VC: no output VC leaks, none
\* is shared, although grants take effect in the evaluate half of the cycle.
Holds(x, o, w) ==
  /\ state[x] = "active" \/ (x \in DOMAIN vcRes /\ vcRes[x])
  /\ o \in DOMAIN outs[x] /\ outs[x][o] = w

OwnershipExact ==
  ~Wait => \A o \in Outputs, w \in Vcs :
    IF nextBuf[o].inUseBy[w] = None THEN \A x \in InVcs : ~Holds(x, o, w)
    ELSE \A x \in InVcs : Holds(x, o, w) <=> nextBuf[o].inUseBy[w] = x

\* On each output VC the flits of a packet leave in order and without another
\* packet's flits between them, and each output buffer holds one flit at most.
OutputInOrder ==
  \A o \in Outputs : outBuf[o] # <<>> =>
    LET c == Head(outBuf[o])
        p == c.flit.pid
    IN  /\ Len(outBuf[o]) = 1
        /\ o \in pkt[p].outs
        /\ c.flit.idx = progress[p][o] + 1
        /\ open[<<o, c.vc>>] = IF IsHead(c.flit) THEN None ELSE p

\* Slots are accounted for at both ends: upstream's count of an input VC, the
\* flits there and the credits sent; an output VC's occupancy, the flits on
\* their way or downstream and the credits received.
InFlight(o, w) ==
  Cardinality({c \in crossbar \cup Range(outBuf[o]) : c.out = o /\ c.vc = w})

SlotsConserved ==
  /\ \A x \in InVcs :
       used[x] = Len(fifo[x])
                 + (IF x \in Arriving(inFlit) THEN 1 ELSE 0)
                 + (IF x[2] \in creditBuf[x[1]] THEN 1 ELSE 0)
  /\ \A o \in Outputs, w \in Vcs :
       nextBuf[o].vcOcc[w] = down[<<o, w>>] + InFlight(o, w)
                             + (IF w \in inCredit[o] THEN 1 ELSE 0)

\* Neither the router's use of its BufferStates nor its input buffers can run
\* into an Error(): no double allocation, no overflow, no negative count.
NoRouterError ==
  /\ \A o \in Outputs : ~nextBuf[o].err
  /\ \A i \in Inputs : SumFunction([v \in Vcs |-> Len(fifo[<<i, v>>])]) <= Size

\* A cycle the router sleeps through leaves no flit, credit or allocation
\* undone: whatever reaches the router, or is left over from a cycle, keeps it
\* awake.  Only a head that SWAllocUpdate queues for routing at the end of a
\* cycle does not: it waits for the credit of the flit that left before it.
NothingLeftAsleep ==
  pc = "dispatch" /\ ~active =>
    /\ vcQ = {} /\ swQ = {} /\ crossbar = {}
    /\ \A i \in Inputs : inFlit[i] = None
    /\ \A o \in Outputs : inCredit[o] = {}

\* Every packet that enters leaves completely on every output of its route.
Delivered(p) == \A o \in pkt[p].outs : progress[p][o] = pkt[p].len
PacketsDelivered == \A p \in Pids : p \in started ~> Delivered(p)

=============================================================================
