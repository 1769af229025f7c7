------------------------------ MODULE IQRouter ------------------------------
(***************************************************************************)
(* The input-queued router (noc/routers/iq_router.cpp), cycle by cycle:    *)
(* routing or lookahead, VC allocation, switch allocation, speculative or  *)
(* not, with VC allocation of its own or piggybacked on the switch grant,  *)
(* and the crossbar held for the rest of a packet.                         *)
(*                                                                         *)
(* Every delay is 1 (the defaults; with lookahead the routing delay is 0), *)
(* so an entry of a queue is evaluated and updated in one cycle, and the   *)
(* time stamps reduce to the domains of the results: an entry pushed by an *)
(* update is in no domain until the next cycle.  The state is one record,  *)
(* r, and every method an operator on it, as one update goes on from what  *)
(* the one before it made of the queues.  Any allocator is covered: what   *)
(* is used of one is that its grants are a matching of the requests, and   *)
(* not empty if there are any (GrantsMatch and Productive of Allocators).  *)
(* The round-robin offsets and packet priorities are arbitrary.  noq and   *)
(* vc_prioritize_empty are off.  The neighbours are as in MCRouter.        *)
(***************************************************************************)
EXTENDS BufferState, Sequences, SequencesExt, FiniteSetsExt, Functions

CONSTANTS
  NumInputs, NumOutputs,
  Configs,   \* the configurations of a router that are considered
  Pids,      \* bound: the packets that come by
  Workloads  \* their inputs, routes (output VCs) and lengths

Inputs == 0 .. NumInputs - 1
Outputs == 0 .. NumOutputs - 1
InVcs == Inputs \X Vcs
OutVcs == Outputs \X Vcs

Config ==
  [spec : BOOLEAN,           \* speculative
   piggyback : BOOLEAN,      \* vc_allocator = piggyback
   prio : BOOLEAN,           \* spec_sw_allocator = prio
   elig : BOOLEAN, cred : BOOLEAN, mask : BOOLEAN,  \* spec_check_elig, ..._cred, spec_mask_by_reqs
   hold : BOOLEAN,           \* hold_switch_for_packet
   busyFull : BOOLEAN,       \* vc_busy_when_full
   lookahead : BOOLEAN,      \* routing_delay = 0
   inSp : Nat \ {0}, outSp : Nat \ {0},             \* input_speedup, output_speedup
   outSize : Int,            \* output_buffer_size; negative: no limit
   policy : Policies, wait : BOOLEAN]               \* of the next buffers

ASSUME IQRouterAssumption ==
  /\ NumInputs \in Nat \ {0} /\ NumOutputs \in Nat \ {0}
  /\ \A c \in Configs : c \in Config /\ (c.piggyback => c.spec)
  /\ None \notin Pids \cup InVcs \cup Nat
  /\ Workloads \subseteq
       [Pids -> [in : Inputs, route : (SUBSET OutVcs) \ {{}}, len : Nat \ {0}]]

VARIABLES
  cfg, pkt,  \* the configuration and the workload
  pc,        \* the part of the cycle that is next
  r,         \* the router, see Init
  feed,      \* upstream, per input VC: the packet it is sending
  started,   \* upstream: packets whose head has been sent
  used,      \* upstream, per input VC: slots not known to be free
  down,      \* downstream, per output VC: flits not yet credited
  open,      \* per output VC, the packet between its head and its tail (history)
  progress   \* per packet, flits that have left (history)

vars == <<cfg, pkt, pc, r, feed, started, used, down, open, progress>>

Idle == [pid |-> None, idx |-> 0]
IsHead(f) == f.idx = 1
IsTail(f) == f.idx = pkt[f.pid].len
FrontFlit(s, x) == Head(s.fifo[x])
Route(s, x) == pkt[FrontFlit(s, x).pid].route

\* The ports of the crossbar: the VCs of an input are dealt out to its ports,
\* and the inputs to the ports of an output.
ExpandedIn(x) == x[1] * cfg.inSp + (x[2] % cfg.inSp)
ExpandedOut(x, o) == o * cfg.outSp + (x[1] % cfg.outSp)
InPorts == 0 .. NumInputs * cfg.inSp - 1
OutPorts == 0 .. NumOutputs * cfg.outSp - 1
OutputOf(p) == p \div cfg.outSp

Init ==
  /\ cfg \in Configs /\ pkt \in Workloads
  /\ pc = "read"
  /\ r = [active |-> FALSE, activity |-> FALSE,
          inFlit |-> [i \in Inputs |-> None],     \* _in_queue_flits
          inCredit |-> [o \in Outputs |-> {}],    \* _proc_credits: VCs per output
          fifo |-> [x \in InVcs |-> <<>>],        \* _buf: flits
          state |-> [x \in InVcs |-> "idle"],     \* _buf: VC states
          out |-> [x \in InVcs |-> None],         \* _buf: output port and VC
          routeQ |-> <<>>, vcQ |-> <<>>, holdQ |-> <<>>, swQ |-> <<>>,
          vcRes |-> <<>>, holdRes |-> <<>>, swRes |-> <<>>,  \* of evaluated entries
          holdVc |-> [p \in InPorts |-> None],    \* _switch_hold_vc
          holdIn |-> [p \in InPorts |-> None],    \* _switch_hold_in
          holdOut |-> [p \in OutPorts |-> None],  \* _switch_hold_out
          nextBuf |-> [o \in Outputs |-> New(cfg.policy, cfg.wait)],
          crossbar |-> [o \in Outputs |-> <<>>],  \* _crossbar_flits, by output: those
          crossing |-> [o \in Outputs |-> <<>>],  \* of this cycle, and evaluated ones
          outBuf |-> [o \in Outputs |-> <<>>],
          credits |-> [i \in Inputs |-> {}],      \* _out_queue_credits, _credit_buffer
          unmatched |-> FALSE,                    \* "assert(match_vc >= 0)" failed
          failed |-> FALSE]                       \* another assertion of an update failed
  /\ feed = [x \in InVcs |-> Idle]
  /\ started = {}
  /\ used = [x \in InVcs |-> 0]
  /\ down = [c \in OutVcs |-> 0]
  /\ open = [c \in OutVcs |-> None]
  /\ progress = [p \in Pids |-> 0]

-----------------------------------------------------------------------------
(***************************************************************************)
(* ReadInputs and _InputQueuing.                                           *)
(***************************************************************************)
Legal(i, f) ==
  LET x == <<i, f.vc>>
  IN  /\ used[x] < VcLimit
      /\ IF feed[x] = Idle THEN f.pid \notin started /\ pkt[f.pid].in = i
         ELSE f.pid = feed[x].pid
      /\ f.idx = feed[x].idx + 1

NextOn(i, v, p) == [vc |-> v, pid |-> p, idx |-> feed[<<i, v>>].idx + 1]

Offers(i) == {f \in {NextOn(i, v, p) : v \in Vcs, p \in Pids} : Legal(i, f)}

\* The flits A that arrive in a cycle: one per input, and no packet twice.
Arrivals == {A \in [Inputs -> UNION {Offers(i) : i \in Inputs} \cup {None}] :
               \A i \in Inputs : A[i] # None => A[i] \in Offers(i)}
Credited == {C \in [Outputs -> SUBSET Vcs] :
               \A o \in Outputs : \A w \in C[o] : down[<<o, w>>] > 0}
Arriving(A) == {<<i, A[i].vc>> : i \in {j \in Inputs : A[j] # None}}
FlitOn(A, x) == [pid |-> A[x[1]].pid, idx |-> A[x[1]].idx]

ReadInputs(A, C) ==
  /\ pc = "read" /\ pc' = "queue"
  /\ r' = [r EXCEPT !.inFlit = A, !.inCredit = C,
             !.active = @ \/ Arriving(A) # {} \/ \E o \in Outputs : C[o] # {}]
  /\ feed' = [x \in InVcs |->
                IF x \notin Arriving(A) THEN feed[x]
                ELSE IF IsTail(FlitOn(A, x)) THEN Idle ELSE FlitOn(A, x)]
  /\ started' = started \cup {A[x[1]].pid : x \in Arriving(A)}
  /\ used' = [x \in InVcs |-> IF x \in Arriving(A) THEN used[x] + 1 ELSE used[x]]
  /\ down' = [c \in OutVcs |-> IF c[2] \in C[c[1]] THEN down[c] - 1 ELSE down[c]]
  /\ UNCHANGED <<cfg, pkt, open, progress>>

\* _InternalStep returns at once: the router sleeps.
Sleep ==
  /\ pc = "queue" /\ ~r.active
  /\ pc' = "write"
  /\ UNCHANGED <<cfg, pkt, r, feed, started, used, down, open, progress>>

\* The head at the front of x is routed: it asks for an output VC, and for the
\* switch at once if that is speculative.
ToAllocation(s, x) ==
  [s EXCEPT !.state[x] = "vc_alloc",
            !.swQ = IF cfg.spec THEN Append(@, x) ELSE @,
            !.vcQ = IF cfg.piggyback THEN @ ELSE Append(@, x)]

\* A head reaches the front of x.
NewHead(s, x) ==
  IF cfg.lookahead THEN ToAllocation(s, x)
  ELSE [s EXCEPT !.state[x] = "routing", !.routeQ = Append(@, x)]

\* The flit on input i enters its VC.
Enter(s, i) ==
  LET x == <<i, s.inFlit[i].vc>>
      added == [s EXCEPT !.fifo[x] = Append(@, FlitOn(s.inFlit, x))]
      held == s.holdVc[ExpandedIn(x)] = x[2]
  IN  CASE s.inFlit[i] = None -> s
        [] s.inFlit[i] # None /\ s.state[x] = "idle" -> NewHead(added, x)
        [] s.inFlit[i] # None /\ s.state[x] = "active" /\ s.fifo[x] = <<>> ->
             [added EXCEPT !.holdQ = IF held THEN Append(@, x) ELSE @,
                           !.swQ = IF held THEN @ ELSE Append(@, x)]
        [] OTHER -> added

\* Flits enter their VCs, input by input, and credits the BufferStates.
InputQueuing ==
  /\ pc = "queue" /\ r.active
  /\ pc' = "vc_evaluate"
  /\ r' = [FoldLeft(Enter, r, [k \in 1 .. NumInputs |-> k - 1]) EXCEPT
             !.inFlit = [i \in Inputs |-> None],
             !.inCredit = [o \in Outputs |-> {}],
             !.nextBuf = [o \in Outputs |->
               FoldSet(LAMBDA w, b : ProcessCreditFor(b, w), r.nextBuf[o], r.inCredit[o])],
             !.activity = FALSE]
  /\ UNCHANGED <<cfg, pkt, feed, started, used, down, open, progress>>

-----------------------------------------------------------------------------
(***************************************************************************)
(* The evaluate half.  An allocator grants a matching: of the requests,    *)
(* pairs of an input VC and what it asks for, no two share the one, which  *)
(* in gives for the VC, or the other.                                      *)
(***************************************************************************)
Matchings(requests, in) ==
  {G \in SUBSET requests :
     /\ requests # {} => G # {}
     /\ \A g, h \in G : g # h => in[g[1]] # in[h[1]] /\ g[2] # h[2]}

\* Mutated form: an output VC in use is requested as long as it is not full.
RequestableNotFull(s, c) == ~IsFullFor(s.nextBuf[c[1]], c[2])

\* Whether a head asks for output VC c.
Requestable(s, c) ==
  /\ IsAvailableFor(s.nextBuf[c[1]], c[2])
  /\ ~(cfg.busyFull /\ IsFullFor(s.nextBuf[c[1]], c[2]))

VcRequests == {g \in Range(r.vcQ) \X OutVcs : g[2] \in Route(r, g[1]) /\ Requestable(r, g[2])}

VCAllocEvaluate ==
  /\ pc = "vc_evaluate" /\ pc' = "sw_evaluate"
  /\ \E G \in Matchings(VcRequests, [x \in InVcs |-> x]) :
       r' = [r EXCEPT !.vcRes = [x \in Range(r.vcQ) |->
               IF \E g \in G : g[1] = x THEN (CHOOSE g \in G : g[1] = x)[2] ELSE None]]
  /\ UNCHANGED <<cfg, pkt, feed, started, used, down, open, progress>>

IsOutFull(s, o) == cfg.outSize >= 0 /\ Len(s.outBuf[o]) >= cfg.outSize

\* What a head that has no output VC yet checks of output o before it asks for
\* the switch: that one of its VCs there is available, and that one is not full.
SpecEligible(s, x, o) ==
  LET usable == {c \in Route(s, x) : /\ c[1] = o /\ ~IsOutFull(s, o)
                                     /\ IsAvailableFor(s.nextBuf[o], c[2])}
  IN  /\ cfg.elig => usable # {}
      /\ cfg.cred => \E c \in usable : cfg.elig /\ ~IsFullFor(s.nextBuf[o], c[2])

\* The outputs an entry of swQ would like to go to, and those it may ask for.
Wanted(s, x) == IF s.state[x] = "active" THEN {s.out[x][1]} ELSE {c[1] : c \in Route(s, x)}
MayAsk(s, x, o) ==
  IF s.state[x] = "active" THEN ~IsFullFor(s.nextBuf[o], s.out[x][2]) /\ ~IsOutFull(s, o)
  ELSE SpecEligible(s, x, o)

PortsFree(s, x, o) ==
  s.holdIn[ExpandedIn(x)] = None /\ s.holdOut[ExpandedOut(x, o)] = None

\* _SWAllocAddReq.  Of the VCs that ask for the same two ports one stands in the
\* request; with the prio allocator a speculative one gives way to any other.
SwRequests(queue) ==
  {g \in queue \X OutPorts :
     \E o \in Wanted(r, g[1]) :
       g[2] = ExpandedOut(g[1], o) /\ MayAsk(r, g[1], o) /\ PortsFree(r, g[1], o)}
Preferred(requests) ==
  {g \in requests :
     r.state[g[1]] = "active" \/
     \A h \in requests : ExpandedIn(h[1]) = ExpandedIn(g[1]) /\ h[2] = g[2]
                         => r.state[h[1]] # "active"}
SwGrants(requests) == Matchings(requests, [x \in InVcs |-> ExpandedIn(x)])

\* A speculative grant counts where the other allocator leaves both ports free.
SpecGrantCounts(g, requests, grants) ==
  /\ \A h \in grants : ExpandedIn(h[1]) # ExpandedIn(g[1])
  /\ \A h \in IF cfg.mask THEN requests ELSE grants : h[2] # g[2]

\* Mutated form: a speculative grant stands with an output VC of another output.
StandsAnywhere(s, x, p) ==
  \/ s.state[x] = "active"
  \/ /\ ~cfg.piggyback /\ s.vcRes[x] # None
     /\ ~IsFullFor(s.nextBuf[s.vcRes[x][1]], s.vcRes[x][2])
  \/ cfg.piggyback /\ \E c \in Route(s, x) :
       /\ c[1] = OutputOf(p) /\ IsAvailableFor(s.nextBuf[c[1]], c[2])
       /\ ~IsFullFor(s.nextBuf[c[1]], c[2])

\* A speculative grant stands if an output VC there, with a free slot, was
\* granted in the same cycle or can be found.
Stands(s, x, p) ==
  LET o == OutputOf(p)
  IN  \/ s.state[x] = "active"
      \/ /\ ~cfg.piggyback /\ s.vcRes[x] # None
         /\ s.vcRes[x][1] = o /\ ~IsFullFor(s.nextBuf[o], s.vcRes[x][2])
      \/ /\ cfg.piggyback
         /\ \E c \in Route(s, x) : /\ c[1] = o /\ IsAvailableFor(s.nextBuf[o], c[2])
                                   /\ ~IsFullFor(s.nextBuf[o], c[2])

\* _SWHoldEvaluate, _SWAllocEvaluate and _SwitchEvaluate.  An entry that may not
\* ask for one of its outputs is stalled, whatever it is granted.
SWAllocEvaluate ==
  LET queue == Range(r.swQ)
      speculative == {x \in queue : r.state[x] # "active"}
      separate == cfg.spec /\ ~cfg.prio
      requests == Preferred(SwRequests(IF separate THEN queue \ speculative ELSE queue))
      stalled == {x \in queue : \E o \in Wanted(r, x) : ~MayAsk(r, x, o)}
  IN  /\ pc = "sw_evaluate" /\ pc' = "update"
      /\ \E grants \in SwGrants(requests),
            specGrants \in SwGrants(IF separate THEN SwRequests(speculative) ELSE {}) :
           LET counted == grants \cup
                 {g \in specGrants : SpecGrantCounts(g, requests, grants)}
               kept == {g \in counted : g[1] \notin stalled /\ Stands(r, g[1], g[2])}
           IN  r' = [r EXCEPT
                 !.swRes = [x \in queue |-> IF \E g \in kept : g[1] = x
                                            THEN (CHOOSE g \in kept : g[1] = x)[2] ELSE None],
                 !.holdRes = [x \in Range(r.holdQ) |->
                                ~IsFullFor(r.nextBuf[r.out[x][1]], r.out[x][2])],
                 !.crossing = r.crossbar, !.crossbar = [o \in Outputs |-> <<>>]]
      /\ UNCHANGED <<cfg, pkt, feed, started, used, down, open, progress>>

-----------------------------------------------------------------------------
(***************************************************************************)
(* The update half.                                                        *)
(***************************************************************************)
\* Mutated form: the entries of the switch queue stay.
DequeuedButOne(s) == [s EXCEPT !.routeQ = <<>>, !.vcQ = <<>>, !.holdQ = <<>>]

\* The entries that have been evaluated leave their queues; what is in a queue
\* from here on has been pushed by an update, and is not updated in this cycle.
Dequeued(s) == [s EXCEPT !.routeQ = <<>>, !.vcQ = <<>>, !.holdQ = <<>>, !.swQ = <<>>]

RouteUpdate(s, queue) == FoldLeft(ToAllocation, s, queue)

Take(s, x, c) ==
  [s EXCEPT !.state[x] = "active", !.out[x] = c,
            !.nextBuf[c[1]] = TakeBuffer(@, c[2], x)]

\* An evaluated head takes the output VC it was granted, or is pushed back.
AllocateVc(s, x) ==
  IF s.vcRes[x] = None THEN [s EXCEPT !.vcQ = Append(@, x)]
  ELSE LET taken == Take(s, x, s.vcRes[x])
       IN  [taken EXCEPT !.swQ = IF cfg.spec THEN @ ELSE Append(@, x)]

VCAllocUpdate(s, queue) ==
  LET updated == FoldLeft(AllocateVc, s, queue)
  IN  [updated EXCEPT !.vcRes = <<>>, !.activity = @ \/ updated.vcQ # <<>>]

\* Mutated form: the credit names the VC downstream.
ForwardCreditOut(s, x, p) ==
  LET o == OutputOf(p)
      w == s.out[x][2]
  IN  [s EXCEPT !.fifo[x] = Tail(@),
                !.nextBuf[o] = SendingFlit(@, w, IsTail(FrontFlit(s, x))),
                !.crossbar[o] = Append(@, [vc |-> w, flit |-> FrontFlit(s, x)]),
                !.credits[x[1]] = @ \cup {w},
                !.failed = @ \/ s.out[x][1] # o]

\* The flit at the front of x goes into the crossbar to port p, and a credit to
\* upstream.
Forward(s, x, p) ==
  LET o == OutputOf(p)
      w == s.out[x][2]
  IN  [s EXCEPT !.fifo[x] = Tail(@),
                !.nextBuf[o] = SendingFlit(@, w, IsTail(FrontFlit(s, x))),
                !.crossbar[o] = Append(@, [vc |-> w, flit |-> FrontFlit(s, x)]),
                !.credits[x[1]] = @ \cup {x[2]},
                !.failed = @ \/ s.out[x][1] # o]

\* What x does after flit f, if f was its last or the tail: it waits for the
\* next flit, or the next head is at its front.
AfterFlit(s, x, f) ==
  IF ~IsTail(f) THEN s
  ELSE IF s.fifo[x] = <<>> THEN [s EXCEPT !.state[x] = "idle"]
  ELSE NewHead(s, x)

GoesOn(s, x, f) == ~IsTail(f) /\ s.fifo[x] # <<>>

Hold(s, x, p) ==
  [s EXCEPT !.holdVc[ExpandedIn(x)] = x[2], !.holdIn[ExpandedIn(x)] = p,
            !.holdOut[p] = ExpandedIn(x), !.holdQ = Append(@, x)]

\* Mutated form: the output port of a held crossbar is not released.
ReleaseIn(s, x) ==
  [s EXCEPT !.holdVc[ExpandedIn(x)] = None, !.holdIn[ExpandedIn(x)] = None]

Release(s, x) ==
  [s EXCEPT !.holdVc[ExpandedIn(x)] = None, !.holdIn[ExpandedIn(x)] = None,
            !.holdOut[s.holdIn[ExpandedIn(x)]] = None]

\* A VC that holds the crossbar sends, or gives it up and asks for it again.
UpdateHeld(s, x) ==
  LET f == FrontFlit(s, x)
      sent == Forward(s, x, s.holdIn[ExpandedIn(x)])
  IN  IF ~s.holdRes[x] \/ IsOutFull(s, s.out[x][1])
      THEN [Release(s, x) EXCEPT !.swQ = Append(@, x)]
      ELSE IF GoesOn(sent, x, f) THEN [sent EXCEPT !.holdQ = Append(@, x)]
      ELSE AfterFlit(Release(sent, x), x, f)

SWHoldUpdate(s, queue) ==
  LET updated == FoldLeft(UpdateHeld, s, queue)
  IN  [updated EXCEPT !.holdRes = <<>>, !.activity = @ \/ updated.holdQ # <<>>]

\* The output VCs among which the piggybacked allocation of x picks one.
Candidates(s, x, o) ==
  {c \in Route(s, x) : /\ c[1] = o /\ IsAvailableFor(s.nextBuf[o], c[2])
                       /\ ~IsFullFor(s.nextBuf[o], c[2])}

\* The first of them in the round robin.
FirstFrom(offset, choices) ==
  CHOOSE c \in choices : \A d \in choices :
    (c[2] + offset) % NumVcs <= (d[2] + offset) % NumVcs

Picked(s, x, p, offset) ==
  IF ~cfg.piggyback \/ s.state[x] = "active" THEN s
  ELSE IF Candidates(s, x, OutputOf(p)) = {} THEN [s EXCEPT !.unmatched = TRUE]
  ELSE Take(s, x, FirstFrom(offset[OutputOf(p)], Candidates(s, x, OutputOf(p))))

PortsBusy(s, x, p) ==
  \/ s.holdVc[ExpandedIn(x)] # None \/ s.holdIn[ExpandedIn(x)] # None \/ s.holdOut[p] # None

\* An entry of swQ sends what is at its front, or is pushed back.
UpdateSwitched(s, x, offset) ==
  LET p == s.swRes[x]
      ready == Picked([s EXCEPT !.failed = @ \/ PortsBusy(s, x, p)], x, p, offset)
      sent == Forward(ready, x, p)
      f == FrontFlit(s, x)
  IN  CASE s.unmatched -> s
        [] ~s.unmatched /\ p = None -> [s EXCEPT !.swQ = Append(@, x)]
        [] ~s.unmatched /\ p # None /\ ready.unmatched -> ready
        [] OTHER -> IF ~GoesOn(sent, x, f) THEN AfterFlit(sent, x, f)
                    ELSE IF cfg.hold THEN Hold(sent, x, p)
                    ELSE [sent EXCEPT !.swQ = Append(@, x)]

SWAllocUpdate(s, queue, offset) ==
  LET updated == FoldLeft(LAMBDA a, x : UpdateSwitched(a, x, offset), s, queue)
  IN  [updated EXCEPT !.swRes = <<>>, !.activity = @ \/ updated.swQ # <<>>]

\* What the crossbar took in the cycle before reaches the output buffers.
SwitchUpdate(s) ==
  [s EXCEPT !.outBuf = [o \in Outputs |-> s.outBuf[o] \o s.crossing[o]],
            !.crossing = [o \in Outputs |-> <<>>],
            !.activity = @ \/ \E o \in Outputs : s.crossbar[o] # <<>>,
            !.failed = @ \/ \E o \in Outputs :
              /\ cfg.outSize >= 0 /\ s.crossing[o] # <<>>
              /\ Len(s.outBuf[o] \o s.crossing[o]) > cfg.outSize + 2 * cfg.outSp - 1]

Update ==
  /\ pc = "update" /\ pc' = "write"
  /\ \E offset \in IF cfg.piggyback THEN [Outputs -> Vcs] ELSE {[o \in Outputs |-> 0]} :
       LET routed == RouteUpdate(Dequeued(r), r.routeQ)
           held == SWHoldUpdate(VCAllocUpdate(routed, r.vcQ), r.holdQ)
           s == SwitchUpdate(SWAllocUpdate(held, r.swQ, offset))
       IN  r' = [s EXCEPT !.active = s.activity]
  /\ UNCHANGED <<cfg, pkt, feed, started, used, down, open, progress>>

\* One flit per output and one credit per input leave.
Leaves(c) == r.outBuf[c[1]] # <<>> /\ Head(r.outBuf[c[1]]).vc = c[2]

WriteOutputs ==
  /\ pc = "write" /\ pc' = "read" /\ ~r.unmatched
  /\ r' = [r EXCEPT !.outBuf = [o \in Outputs |-> IF r.outBuf[o] = <<>> THEN <<>>
                                                  ELSE Tail(r.outBuf[o])],
                    !.credits = [i \in Inputs |-> {}]]
  /\ down' = [c \in OutVcs |-> IF Leaves(c) THEN down[c] + 1 ELSE down[c]]
  /\ open' = [c \in OutVcs |->
       IF ~Leaves(c) THEN open[c]
       ELSE LET f == Head(r.outBuf[c[1]]).flit IN IF IsTail(f) THEN None ELSE f.pid]
  /\ progress' = [p \in Pids |-> progress[p] +
       Cardinality({o \in Outputs : r.outBuf[o] # <<>> /\ Head(r.outBuf[o]).flit.pid = p})]
  /\ used' = [x \in InVcs |-> IF x[2] \in r.credits[x[1]] THEN used[x] - 1 ELSE used[x]]
  /\ UNCHANGED <<cfg, pkt, feed, started>>

Receive == \E A \in Arrivals, C \in Credited : ReadInputs(A, C)

Next ==
  \/ Receive \/ Sleep \/ InputQueuing \/ VCAllocEvaluate \/ SWAllocEvaluate \/ Update
  \/ WriteOutputs

Spec == Init /\ [][Next]_vars

-----------------------------------------------------------------------------
Flit == [pid : Pids, idx : Nat \ {0}]
Moving == [vc : Vcs, flit : Flit]

\* Types of the state; the counts at both ends stay within the buffers.
TypeOK ==
  /\ cfg \in Configs /\ pkt \in Workloads
  /\ pc \in {"read", "queue", "vc_evaluate", "sw_evaluate", "update", "write"}
  /\ r.fifo \in [InVcs -> Seq(Flit)]
  /\ r.state \in [InVcs -> {"idle", "routing", "vc_alloc", "active"}]
  /\ r.out \in [InVcs -> OutVcs \cup {None}]
  /\ \A q \in {r.routeQ, r.vcQ, r.holdQ, r.swQ} : q \in Seq(InVcs) /\ IsInjective(q)
  /\ r.holdVc \in [InPorts -> Vcs \cup {None}]
  /\ r.holdIn \in [InPorts -> OutPorts \cup {None}]
  /\ r.holdOut \in [OutPorts -> InPorts \cup {None}]
  /\ \A flits \in {r.crossbar, r.crossing, r.outBuf} : flits \in [Outputs -> Seq(Moving)]
  /\ used \in [InVcs -> 0 .. VcLimit] /\ down \in [OutVcs -> 0 .. Size]

\* The VC that holds the input port p of the crossbar.
Holder(p) == CHOOSE x \in InVcs : ExpandedIn(x) = p /\ x[2] = r.holdVc[p]

\* Every VC is in the queue its state calls for and in no other, and what the
\* functions assert of its front flit is true: it is a head that waits, or a
\* flit that goes on with the crossbar held or asks for it.  No VC with flits is
\* forgotten or scheduled without any, no update fails an assertion, and a
\* cycle the router sleeps through leaves nothing undone.
QueuesMatchStates ==
  LET Held(x) == r.holdVc[ExpandedIn(x)] = x[2]
      waiting == {x \in InVcs : r.state[x] = "vc_alloc"}
      ready == {x \in InVcs : r.state[x] = "active" /\ r.fifo[x] # <<>>}
  IN  /\ ~r.failed /\ ~r.unmatched
      /\ Range(r.routeQ) = {x \in InVcs : r.state[x] = "routing"}
      /\ Range(r.vcQ) = IF cfg.piggyback THEN {} ELSE waiting
      /\ Range(r.holdQ) = {x \in ready : Held(x)}
      /\ Range(r.swQ) = {x \in ready : ~Held(x)} \cup IF cfg.spec THEN waiting ELSE {}
      /\ \A x \in InVcs :
           /\ r.state[x] = "idle" => r.fifo[x] = <<>>
           /\ r.state[x] \in {"routing", "vc_alloc"} =>
                r.fifo[x] # <<>> /\ IsHead(FrontFlit(r, x))
           /\ x \in ready => r.out[x] \in Route(r, x)
      /\ pc = "queue" /\ ~r.active =>
           /\ r.routeQ \o r.vcQ \o r.holdQ \o r.swQ = <<>>
           /\ \A o \in Outputs : r.crossbar[o] = <<>>

\* An output VC is in use exactly while one input VC sends a packet on it; a
\* port of the crossbar is held exactly by the VC and the other port that the
\* three tables agree on, on the way to the output of the VC's packet.
OwnershipExact ==
  /\ ~cfg.wait => \A o \in Outputs, w \in Vcs :
       {x \in InVcs : r.state[x] = "active" /\ r.out[x] = <<o, w>>} =
         {r.nextBuf[o].inUseBy[w]} \ {None}
  /\ \A p \in InPorts :
       /\ r.holdVc[p] = None <=> r.holdIn[p] = None
       /\ r.holdIn[p] # None =>
            /\ r.holdOut[r.holdIn[p]] = p
            /\ r.state[Holder(p)] = "active"
            /\ ExpandedOut(Holder(p), r.out[Holder(p)][1]) = r.holdIn[p]
  /\ \A p \in OutPorts : r.holdOut[p] # None => r.holdIn[r.holdOut[p]] = p

\* On each output VC the flits of a packet leave in order, all on that VC, and
\* without another packet's flits between them.
OutputInOrder ==
  \A o \in Outputs : r.outBuf[o] # <<>> =>
    LET m == Head(r.outBuf[o])
        p == m.flit.pid
    IN  /\ <<o, m.vc>> \in pkt[p].route
        /\ m.flit.idx = progress[p] + 1
        /\ open[<<o, m.vc>>] = IF IsHead(m.flit) THEN None ELSE p

\* The flits on their way to the end of output o, the first to leave first, and
\* how many of them are for its VC w.
Line(s, o) == s.outBuf[o] \o s.crossing[o] \o s.crossbar[o]
OnWay(s, o, w) == Cardinality({k \in 1 .. Len(Line(s, o)) : Line(s, o)[k].vc = w})

\* Slots are accounted for at both ends: upstream's count of an input VC, the
\* flits there and the credits sent; an output VC's occupancy, the flits on
\* their way or downstream and the credits received.  No BufferState runs into
\* an Error(): no double allocation, no overflow, no negative count.
SlotsConserved ==
  /\ \A x \in InVcs :
       used[x] = Len(r.fifo[x])
                 + (IF x \in Arriving(r.inFlit) THEN 1 ELSE 0)
                 + (IF x[2] \in r.credits[x[1]] THEN 1 ELSE 0)
  /\ \A o \in Outputs, w \in Vcs :
       r.nextBuf[o].vcOcc[w] = down[<<o, w>>] + OnWay(r, o, w)
                               + (IF w \in r.inCredit[o] THEN 1 ELSE 0)
  /\ \A o \in Outputs : ~r.nextBuf[o].err

-----------------------------------------------------------------------------
\* "assert(match_vc >= 0)": a head that was granted the switch, with its output
\* VC still to be picked, finds one.
PiggybackFindsVc == ~r.unmatched
=============================================================================
