# SpatialSim: specifications, model checking and proofs

SpatialSim (`src/src/`) simulates a chip of cores that exchange tensors over a
network on chip. It is one sequential program: `SpatialChip::run` steps every
core, then the network, then the clock. What makes it hard is the *simulated*
concurrency: routers, channels and cores that act in the same cycle, retries,
credits that come back at any time, a network that sleeps, and an end test and
a deadlock check that look at only part of the state.

This directory holds TLA+ models of the program's parts, TLC runs on small
instances, and TLAPS proofs for all values of the constants. `PROJECT.json`
lists the runs, the source lines every definition stands for, the hazards that
the properties are aimed at, and the mutated definitions that show that each
property can fail.

    tlc -workers 2 -config Chip.cfg MCChip        # a run: its cfg, its module
    tlapm CreditLinkProofs.tla                    # a module of proofs

## 1. The system

| part | state | operations | interacts with |
|---|---|---|---|
| main loop (`spatial_chip.cpp`) | clock, backups of the last check (function statics) | `run`, `task_finished`, `check_deadlock` | steps cores, then the network |
| cores (`core/src/core.cpp`, `core_array.cpp`) | tasks (queues of instructions), `_cycle_to_issue` per task | `ClockTick`, `selectActiveTask`, `finishAllTasks`, `equalTo` | call their modules |
| network interface (`network_interface.cpp`) | `_pipe_open` shared by all cores, send and receive queue | `NI.send`, `NI.recv`, `_doorbell` | queues shared with the traffic manager |
| compute modules (CPU, ACC, BUS, BUFFER) | latency tables | `simple_sim` returns the cycle an instruction ends | core |
| network ends (`trafficmanager.cpp`, `SpatialTrafficManager`) | `_partial_packets`, `_total_in_flight_flits`, a `BufferState` per node | `_Inject`, `_Step`, `_RetireFlit`, `flitsDrained` | queues of the cores; channels |
| routers (`mc_router.cpp` on `iq_router.cpp`) | input buffers, VC states, work queues, `_next_buf`, crossbar and its holds, output buffers, `_active` | `ReadInputs`, `_InternalStep`, `WriteOutputs` | channels |
| buffer states (`buffer_state.cpp`) | occupancies, reservations, VC ownership | `TakeBuffer`, `SendingFlit`, `ProcessCredit`, `IsFullFor` | held by routers and nodes |
| buffers, VCs (`buffer.cpp`, `vc.cpp`), channels (`channel.hpp`) | flits, VC state, expected packet | `AddFlit`, `RemoveFlit`; `Send`, `Receive` | routers |
| allocators, arbiters | requests, priorities | `Allocate`, `Arbitrate` | routers |
| routing functions, topologies (ten networks in `networks/`) | none (wiring and tables, built once) | `_BuildNet`, `rf(router, flit, in)` | routers, nodes |
| paths and packets (`path.hpp`, `flit.cpp`) | multicast tree, fan-out flits | `GetFanoutFlits` | routers |
| parsers, operator lowering, configuration, statistics, power, Python binding | text, tables, counters | - | - |

Correct means, part by part:

* **hop** (buffer state, channels, buffer): no buffer overflow, no `Error()`,
  packets never mix in a VC, nothing lost or reordered, credits conserved, every
  packet that was given a VC arrives;
* **router**: a VC is in exactly the work queue its state calls for, an output VC
  has one owner from grant to tail, a held crossbar is held by one VC and on both
  sides, a multicast packet goes out on all of its outputs or waits, output order
  per VC, no work left when the router sleeps, every packet is delivered;
* **chip**: every tensor sent is received once or still on its way, the run ends
  when and only when everything is done, programs that respect the threshold do
  not block, and a chip that cannot go on is reported;
* **routing**: every channel of a network has one end on each side, no set of
  packets can hold VCs that the others of the set wait for, no packet leaves its
  shortest way (or the way by its intermediate node), VCs of the packet's class
  only, a multicast tree reaches each destination once;
* **allocators and arbiters**: grants are a matching of requests, priorities are
  kept, an arbiter with requests decides, no repeated request starves.

## 2. Modules

| module | models | role |
|---|---|---|
| `BufferState` | `buffer_state.cpp` | value and operators, used by the two below |
| `CreditLink` | one hop: sender, channels, receiver's VC buffers | state machine |
| `PacketFifo` | what a hop promises: a bounded lossless queue per VC | abstract specification |
| `MCRouter` | one cycle of the multicast router in its nine parts | state machine |
| `IQRouter` | one cycle of the input-queued router in its configurations | state machine |
| `Chip` | cores, network interfaces, network ends, main loop | state machine |
| `Arbiters` | round-robin, matrix and tree arbiters | value and operators, used by `Allocators` |
| `Allocators` | every unicast allocator of `Allocator::NewAllocator` | state machine, a step per `Allocate` |
| `CubeRouting` | `kncube.cpp`, sixteen functions of `routefunc.cpp` | operators |
| `TreeRouting` | `fly.cpp`, `qtree.cpp`, `tree4.cpp`, `fattree.cpp`, their functions | operators, extends `CubeRouting` |
| `FlatRouting` | `cmesh.cpp`, `flatfly_onchip.cpp`, `dragonfly.cpp`, their functions | operators, extends `TreeRouting` |
| `AnyNetRouting` | `anynet.cpp`: the description, the wiring, the tables | operators, extends `FlatRouting` |
| `Networks` | one interface to all of them: wires, distances, routing | operators, extends `AnyNetRouting` |
| `PacketNetwork` | packets on a network, the VCs they hold and wait for | state machine on `Networks` |
| `FoldProofs`, `BufferStateProofs` | - | lemmas about sums and counts, and about the methods of `BufferState` |
| `FoldSteps` | - | the fold of an operator, a constant of the module, one step at a time |
| `CreditLinkProofs` | - | theorems about `CreditLink` |
| `MCRouterProofs` | - | theorems about `MCRouter`: its input side, its output side and the order of what leaves |
| `IQRouterProofs` | - | theorems about `IQRouter` |
| `ChipProofs` | - | theorems about `Chip` |
| `AllocatorsProofs` | - | theorems about `Allocators` and `Arbiters` |
| `MCCreditLink`, `MCMCRouter`, `MCIQRouter`, `MCChip`, `MCAllocators`, `MCPacketNetwork` | - | constants for TLC |

They compose in layers. `CreditLink`, `MCRouter` and `IQRouter` use the same
`BufferState` operators. The routers take their neighbours as an environment that
respects credits, which is what `CreditLink` establishes of both ends of a hop;
`Chip` takes the network as lossless and in order per packet with arbitrary delay,
which is what `PacketFifo` says of a hop and `OutputInOrder`, `PacketsDelivered` of
a router. `IQRouter` takes its allocators as any that grant a matching, and one
that is not empty if there are requests: `GrantsMatch` and `Productive` of
`Allocators`. Many routers add what `PacketNetwork` is about: who waits for whom.
It takes from the routers that a head takes all of its output VCs or none
(`OwnershipExact`) and that a packet that can go on does.

### BufferState

A record with the fields of the class and of its policy; each method is an
operator from the old value to the new one, because routers hold many. `err`
collects every `Error()` and assertion on the way: the program would stop there.
`Charge` is the pair `SendingFlit` / `ProcessFreeSlot` on one partition: what a
partition uses beyond its own slots comes from the shared pool. The five policies
differ in `IsFullFor` and in `maxHeld`. `Size` and `VcLimit` keep the two
different tests of `buf_size` (`< 0` and `<= 0`). The partition of VCs is the
computed one (`i * vcs / n`); explicit `private_buf_start_vc` lists and different
sizes per partition are left out, as are the two feedback policies.

### CreditLink and PacketFifo

`TakeVc`, `SendFlit`: the sender of `TrafficManager::_Step` (and of the routers):
a head takes an available VC, then flits go while the VC is not full. `AddFlit`,
`RemoveFlit`: the VC buffer with its `_expected_pid` check. `ProcessCredit`: one
VC of a credit. Flit and credit channels have arbitrary delay, so one model covers
every latency and every order in which both ends act within a cycle. A step for
each VC of a credit instead of one for the whole `Credit` object allows more
interleavings than the code, never fewer.

`PacketFifo` is the promise: lanes are bounded FIFO queues, the flits of a packet
enter consecutively. The refinement mapping joins the receiver's buffer and the
channel (`buf[v] \o wire[v]`); a packet is open from its first flit to its last.
Taking a VC, moving a flit from the wire to the buffer and processing a credit are
stuttering steps.

### MCRouter

`pc` walks through the parts of a cycle in the order of the code: `ReadInputs`
(wakes the router), `Sleep` (`_InternalStep` returns at once) or `FlitDispatch`,
`VCAllocEvaluate`, `SWAllocEvaluate`, `RouteUpdate`, `VCAllocUpdate`,
`SWAllocUpdate`, `Switch` (crossbar and output queues), `WriteOutputs`. A work
queue is the set of its input VCs: an entry that is evaluated in a cycle is
updated in the same cycle (all delays are 1), and the domain of `vcRes` and
`swRes` is the set of entries evaluated in this cycle. `Allocate` is
`MultiOutputSparseAllocator`: requests in the order of the inputs, all or nothing.
VC allocation chooses a random VC per output and takes it in the evaluate half,
as the code does. The route of a packet is given with the packet. Left out: which
copy carries which child of the multicast tree, unicast flits (every flit of
SpatialSim's traffic manager is a `FocusFlit` and takes the multicast path),
priorities (all equal in the configurations), monitors.

The environment sends the flits of a packet in order while it has credits and
returns one credit per flit, each when it likes.

### Chip

`phase` walks through a cycle: `LoopHead` (`task_finished`), `Rest` or `Issue` of
each core in turn (`ClockTick`), `Network` (`_Step`: one packet generated, one
flit injected and one retired at most per node), `Check`. An instruction is a send,
a receive or a latency. `left` is `_cycle_to_issue` relative to the clock (0 for
every past cycle, which is all the code tells apart; -1 for "try again"); `tick`
is the clock modulo the check frequency. `selectActiveTask` shuffles its
candidates: any task may be chosen, but one whose instruction has finished goes
before one that is tried again. A packet is delivered with its head flit and in
flight until its last flit is retired. `check_deadlock` compares cores by
instructions left and issue cycles and, as the code does, compares the queues by
address, i.e. not at all; its two backups are filled one check apart.

`Sleep`, `Rest` and the other steps without effect are steps of the program, not
additions: they are its early returns.

### Arbiters and Allocators

A step of `Allocators` is a cycle of the router as the allocator sees it: `Clear`,
any set of `AddRequest`s, `Allocate`. What is left from one cycle to the next is the
round-robin state (`ptr`, or the arbiters of a separable allocator), so a sequence
of arbitrary request sets reaches every such state the routers can reach. The random
offsets of PIM are a choice.

A request has two priorities, one for either side: an input ranks its requests by
`in`, the `in_pri` of the code, an output by `out`, `out_pri`. The switch allocator
is given the packet's priority as both (`iq_router.cpp:1442` and 1466); the VC
allocator that of the packet as `out_pri`, one for all requests of an input VC, and
that of the routing function's choice as `in_pri` (lines 660, 701 and 764).
`RequestSets` has the request sets of both uses. `HighestFirst` says for each
allocator what it makes of the two: the side that looks first passes on a request it
ranks highest, which loses on the other side only to one ranked no lower there; a
wavefront goes by the pairs, `out` before `in` (`Above`). `vc_prioritize_empty`,
which lowers `in`, only changes the numbers.

The walks over sorted maps from a pointer on, with their `wrapped` flags, are
`FirstFrom`. `Search` keeps two slips of the code: `_from` is reset with the number
of inputs (`maxsize.cpp:115`), so outputs from that number on are never reached, and
(in `SelectIteration`) the grants of `select` survive an iteration.

`RepeatedCycle` repeats the requests of the last cycle for ever and counts how long
each of them waits: `NotStarved` bounds that wait, which is stronger than
"eventually", for the requests that are owed a grant (`Owed`): every other request
has the same two priorities or comes after it, which for a wavefront is the order of
the pairs, for `separable_input_first` means no higher on either side, and where the
outputs look first lower on both (section 5 has why). Requests are added and removed
within a cycle only (`iq_router.cpp:1441` replaces one by another of the same
ports), so `RemoveRequest` does not appear as a step.

### IQRouter

The base class of the multicast router, with the unicast pipeline a chip gets with
`router = iq`. The router is one record, `r`, and every method an operator on it:
the update half of a cycle goes through five methods in a row, and each goes on
from the queues the one before it has left, within one step (`Update`). `pc` has
the parts between which nothing but the choices of the allocators happens:
`Receive`, `InputQueuing` (or `Sleep`), `VCAllocEvaluate`, `SWAllocEvaluate`
(with the holds and the crossbar), `Update`, `WriteOutputs`. Queues are sequences
here, because the update half works through them in their order. An entry that an
update pushes back is in the queue and not in the domain of the results, which is
what a time stamp of -1 says in the code.

A configuration (`Config`) has the options that change the control: speculation,
with the allocator `prio` or one of its own, the three `spec_` checks, piggybacked
VC allocation, `hold_switch_for_packet`, `vc_busy_when_full`, lookahead routing,
the two speedups, the size of the output buffers, the policy of the next buffers
and `wait_for_tail_credit`. `SpecEligible` keeps a slip: `cred` is computed only
where `elig` is checked (`iq_router.cpp:1643`), so that with `spec_check_elig` off
and `spec_check_cred` on no head is eligible. `failed` and `unmatched` stand for
the assertions of the update half.

Left out: delays longer than 1 (the time stamps would no longer reduce to the
domains of the results), `noq`, `vc_prioritize_empty`, `vc_shuffle_requests` (the
order of the requests is arbitrary already), packet priorities, channel faults,
statistics.

### CubeRouting, TreeRouting, FlatRouting, AnyNetRouting and Networks

A routing function is an operator from a head flit at a router to the set of its
possible outcomes: the output set as pairs of port and VC, and the flit's new `ph`
and `intm`. There is one outcome per value of `RandomInt`, and per outcome of a
comparison of credits: `adaptive_xy_yx_mesh` chooses by the credits of two outputs
what `xy_yx_mesh` chooses at random, and is the same operator, and so are
`adaptive_xyyx_flatfly` and `xyyx_flatfly`; the `ugal` functions may take the
detour or not. So the load that makes them choose need not be modelled.
Priorities order the pairs of an output set and are left out: any pair may be
granted. `dor_next_torus` leaves the partition as it was while a packet stays in
its ring (`Unset` and `KeptPart`); `valiant_torus` reads it where it was never
set, which is an arbitrary value here (`RingParts`).

The wiring of a network is two sets, `Outputs` and `Inputs`: which channel each
port of each router is connected to, in the order of the `AddOutputChannel` and
`AddInputChannel` calls. The channel numbers are computed as the code does it, each
side with its own formula, and `WellWired`, an assumption TLC evaluates for every
instance, says that the two sides fit: one channel per port, each with one output
and one input, and as many inputs as outputs to a router. `Networks` joins them to wires and gets the distances from there,
by relaxation, for the networks without a formula.

`AnyNetRouting` reads a description line by line (`ReadFile`), with the tables
`router_list` and `node_list` it fills in on the way and the latencies that may
differ by direction. A latency goes where the code puts it (`Latency`,
`anynet.cpp:465`), for a node on the line of a router into the list of channels
(section 5). Then it builds a table per router (`RoutingTable`) like
`route` does, including which of two equally long ways wins.

TLC would compute wires and tables again in every state. `PlanOf` says what they
are, the constant `Plans` holds them, and `PlansAssumption` that `Plans` is what
`PlanOf` says.

### PacketNetwork

`PacketNetwork` moves packets. `Inject` is `TrafficManager::_Step`: the node chooses
a VC of the range the function gives for injection, and the head flit is routed at
the first router. `Advance` is VC allocation at a router and the way to the next
ones: a head is granted one of its pairs for each of its branches, all of them free,
and is routed where they lead. A head flit always gets to the next router, because
a granted VC is free and so, at a hop, drained or draining in order (`CreditLink`). A
long packet keeps every VC it was granted until its heads have left; a short one,
which fits into one buffer, keeps the last: the two extremes of
`_in_use_by`. With `long`, the flits of a packet leave only when all of its heads
have, which is what a multicast tree longer than the buffers does: at a branching
router a flit leaves on all outputs at once (`MCRouter`).

A state in which nobody can advance is the deadlock looked for; a deadlock of some
packets becomes one when the others, which are finitely many, have arrived. In every
other state, some packet makes a hop, and `OnCourse` bounds the hops: so every packet of
a finite load arrives.

Only `src_routing_mesh` routes trees, along segments with intermediate nodes
(`Ahead`, `Branches`). The segments are given; how paths become segments is not
modelled. Link failures of the cube (`fail_seed`) are left out.

## 3. Runs

| run | instance | shows |
|---|---|---|
| `CreditLinkPrivate` | 2 VCs of 2 slots, 3 packets of up to 3 flits, private policy, both values of `wait_for_tail_credit` | types, `CreditsConserved`, `VcWithinLimit`, `NoUnexpectedPid`, the hop implements `PacketFifo`, every packet with a VC is received |
| `CreditLinkPolicies` | 3 VCs, 4 slots, 2 partitions with 1 own slot each (2 shared), all five policies, both values | `NoBufferOverflow`, `NoBufferStateError`, `SlotsAccounted`, `ReserveIsHeld` |
| `MCRouter` | 2 inputs, 2 outputs, 2 VCs of 2 slots, 3 packets in two workloads | work queues, ownership, output order, slots, no error, nothing left asleep |
| `MCRouterLive` | the same with 1 VC | `PacketsDelivered` |
| `Chip` | 3 cores, threshold 1, check every 3 cycles, five programs, three of which cannot finish | `FlowConserved`, `FinishedIsComplete`, `NeverStuck` (of those that respect the threshold), `RunEnds` |
| `IQRouter` | 2 inputs, 2 outputs, 2 VCs of 2 slots, seven configurations, 3 packets | work queues, ownership of output VCs and of the crossbar, output order, slots |
| `Allocators` | 17 allocators of 2 x 2 to 4 x 2 ports, up to two iterations, two priorities on each side, the three forms of arbiter | `GrantsMatch`, `ArbitersDecide`, `Productive`, `HighestFirst`, `MaxSizeIsMaximum`, `NotStarved` |
| `Routing` | 55 networks of ten kinds with 4 to 64 nodes; 31 functions, 2 to 5 packets each, but one with `ugal_dragonflynew` | `NoDeadlock`, `OnCourse`, `WithinClass`, `DeliveredOnce` |
| `RoutingTrees`, `RoutingDragonfly` | two trees in a row of 4; three packets on a dragonfly of three groups | `NoDeadlock` fails (section 5) |
| `ChipReport`, `IQPiggyback` | as above; `output_speedup` 2 | two statements of the source that the code does not keep (section 5) |

**Bounds.** A hop's VCs interact only through the shared pool and the policies'
limits. With 3 VCs in 2 partitions, one partition has two VCs and the other one,
so that a VC competes within its partition and across; 3 packets of up to 3 flits
fill a VC, drain it while the packet holds it (the reserved slot), and reuse it.
Packets of 3 flits are longer than a VC's 2 slots, so that a sender stalls in the
middle of a packet. In the router the two workloads have two packets of one input
(the second follows on the VC or overtakes on the other) and one of the other
input; all meet on output 0 and one fans out: contention for an output VC, for
the crossbar, partial grants and back-to-back packets all happen. `MCRouterLive`
takes 1 VC because liveness checking is costly; the packets then have to wait for
each other, which is what it is about. In the chip, three cores are the least with
a send to two destinations and a third party that interferes; the programs contain
receives in another order than the sends, two tasks on a core, a busy receiver,
packets of two flits. Threshold and check frequency are small so that both sides of
every comparison occur.

The two inputs of `IQRouter` meet on one output VC that both want; one packet has a
choice of VC, the one behind it of output, so that a speculative grant of the
switch may be for another output than the VC granted in the same cycle. Packets of
3 flits do not fit into the 2 slots downstream: a held crossbar has to be given up
when credits run out, and taken again. The seven configurations take every option
in both values and the combinations that meet in the code: holds with an input and
an output port per VC, speculation with each of the two allocators, with and without
the checks and holds, and piggybacked VC allocation. Output buffers of 1 fill up.

Allocators are compared on shapes with more inputs, more outputs and as many of
each, because moduli are easily taken of the wrong side. The 3 x 3 instances hold
the least request patterns found on which an augmenting path rematches two inputs
and on which moving iSLIP's pointers in every iteration would starve a pair. The allocators that look at
priorities have two on each side, in all combinations a router may ask for: with two
inputs that meet at an output, each of the two sides can prefer what the other does not.

The networks of `Routing` have the least number of VCs with which each function
runs, since more VCs mean less waiting: 1 for dimension order, 2 for the halves, 3
for `planar_adapt_mesh`, one per destination for the `ni` functions. Numbers of VCs
are such that halves and parts do not overlap. The classes begin at VC 0 or 1, so
that a range counted from 0 instead of from `vcBegin` shows; `min_adapt_mesh` is
there only with a class that begins at 0 (section 5). A ring of 4 has a tie
between left and right, one of 5 has none; every node sends across, so that the
packets close the ring if the function lets them. Squares have turns, the square of
9 also goes straight on, and only the cube has a third dimension, in which
`planar_adapt_mesh` changes planes. The trees and butterflies have three levels, so
that packets go up, across and down and that the levels in the middle, whose wiring
differs from both ends, are there; radix 2 and 3 tell `k` from 2. A cmesh needs four
routers in a row to have routers that are on no edge; a flattened butterfly has the
layouts with one and with several nodes to a router. The dragonfly is the least there
is (`k` 1: three groups of two routers), large enough for a detour by a third group, and for
three packets that go round the groups. `ugal_dragonflynew` deadlocks with three
(`RoutingDragonfly`); in `Routing` it has one packet at a time, for its ways
(`OnCourse`) and its VCs (`WithinClass`), which are a matter of each packet by itself.
The anynet descriptions have ways of unequal length by direction, a link longer than
the way around it, a node on a line of its own, a router on two lines, and latencies
written for nodes (`NodeLatencies`). A run
covers the loads listed in `MCPacketNetwork`, not every load.

**Fairness.** Weak fairness of `Next` in `MCRouter` and `Chip`: the simulator's
loop goes on. `CreditLink` has weak fairness per VC of everything but starting
packets: each cycle both ends and both channels are stepped. `MCRouter` asks
strong fairness of its neighbours: the rest of a packet that has been started
is sent, and credits are returned, infinitely often when possible; a neighbour
acts in each cycle, but may be full for some. Nothing is asked of the random
choices (output VCs, tasks) nor, in `Chip`, of the network: `RunEnds` holds even
if the network stops, because then the deadlock check reports.

`Routing`, `IQRouter` and `Allocators` check invariants only and need none.

`CHECK_DEADLOCK FALSE` is set where the system may stop: a hop after its bounded
number of packets, a chip after its run has ended. The router never stops.

## 4. Proofs

The proofs are for all values of the constants: any number of ports, VCs, cores,
packets and partitions, any sizes, policies and programs that the assumptions of
the modules allow. The assumptions are those under which the code is configured:
at least one VC and one slot per VC, partitions that cover the VCs, `None` not a
packet, packets with at least one output and one flit (`BufferStateAssumption`,
`PartitionAssumption`, `CreditLinkAssumption`, `MCRouterAssumption`,
`ChipAssumption`, `InstancesAssumption`). TLC evaluates them on every run. Some
theorems need more, and say so:

* `Workable(policy)`: a private buffer has slots at all (`buf_size` is not 0), and
  the share of each VC
  that a dynamic policy computes is not 0, however many VCs are active. The code stops
  with an assertion otherwise (`buffer_state.cpp:319`), at a packet and not at
  construction, so it is not an assumption of the module. `AllWorkable` says it of
  all configurations of a hop.
* `BufSize # 0` for the input buffers of a router: `buf_size = 0` gives a `Buffer`
  of no slots (`buffer.cpp:34`), which overflows at the first flit, while the VC limit
  then comes from `vc_buf_size`.
* `Once`: no `select` of several iterations, whose result need not be a matching
  (`selalloc.cpp:62`, section 5).
* `Sensible(c)`: a configuration of `IQRouter` in which no assertion of the update half is
  known to fail (section 5): with piggybacked VC allocation `output_speedup` is 1; and if
  a speculative head checks nothing before it asks for the switch (`spec_check_elig` and
  `spec_check_cred` off), output buffers have no limit or `output_speedup` is 1.
* `Provisioned(c)`: a configuration of `IQRouter` in which two flits of a cycle never count
  on the same slot of a next buffer: the policy is `private` or `output_speedup` is 1, and
  the policy is `Workable`. With `shared` and `output_speedup` 2 `SlotsConserved` fails
  (section 5). All configurations of the run `IQRouter` are provisioned.
* `Reaching`: no `max_size` with more outputs than inputs, which cannot reach the outputs
  beyond the number of inputs (`maxsize.cpp:115`). `MaxSizeIsMaximum` has this condition in
  its statement.

| module | theorem | statement |
|---|---|---|
| `CreditLinkProofs` | `Invariance` | `Spec => []IInv` |
| | `TypeCorrect` | `Spec => []TypeOK` |
| | `CreditConservation` | `Spec => []CreditsConserved` |
| | `PacketsNeverMix` | `Spec => []NoUnexpectedPid` |
| | `PrivateNeverOverflows` | `Spec => []VcWithinLimit` |
| | `SoundBookkeeping` | `Spec => [](Sound(bs) /\ Configured)` |
| | `ReservesAreHeld` | `Spec => []ReserveIsHeld` |
| | `SlotsAreAccounted` | `Spec => []SlotsAccounted` |
| | `NoErrors` | with `AllWorkable`, `Spec => []NoBufferStateError` |
| | `BufferNeverOverflows` | with `AllWorkable`, `Spec => []NoBufferOverflow` |
| | `HopImplementsFifo` | with `AllPrivate \/ AllWorkable`, `Spec => ImplementsFifo` |
| `MCRouterProofs` | `InputInvariance` | `Spec => []InputInv` |
| | `QueuesMatch` | `Spec => []QueuesMatchStates` |
| | `NothingAsleep` | `Spec => []NothingLeftAsleep` |
| | `OutputInvariance` | `Spec => [](InputInv /\ OutputInv)` |
| | `OwnershipIsExact` | `Spec => []OwnershipExact` |
| | `SlotsAreConserved` | `Spec => []SlotsConserved` |
| | `NoErrors` | with `Workable(Policy)`, `BufSize # 0`: `Spec => []NoRouterError` |
| | `TypeCorrect` | with `Workable(Policy)`: `Spec => []TypeOK` |
| | `OrderInvariance` | `Spec => [](InputInv /\ OutputInv /\ OrderInv)` |
| | `OutputsInOrder` | `Spec => []OutputInOrder` |
| `IQRouterProofs` | `Invariance` | with `Sensible` of all configurations, `Spec => []IInv` |
| | `QueuesMatch` | with `Sensible` of all configurations, `Spec => []QueuesMatchStates` |
| | `CrossbarHeldExactly` | with `Sensible` of all configurations, `Spec => []CrossbarExact` |
| | `BooksInvariance` | with `Sensible` of all configurations, `Spec => [](IInv /\ BooksExact)` |
| | `OwnershipIsExact` | with `Sensible` of all configurations, `Spec => []OwnershipExact` |
| | `SlotsAlwaysAddUp` | with `Sensible` of all configurations, `Spec => []SlotsAddUp` |
| | `SlotsAreConserved` | with `Sensible` and `Provisioned` of all configurations, `Spec => []SlotsConserved` |
| | `TypeCorrect` | with `Sensible` and `Provisioned` of all configurations, `Spec => []TypeOK` |
| `ChipProofs` | `Invariance` | `Spec => []IInv` |
| | `TypeCorrect` | `Spec => []TypeOK` |
| | `EndIsComplete` | `Spec => []FinishedIsComplete` |
| | `FlowIsConserved` | `Spec => []FlowConserved` |
| `AllocatorsProofs` | `AllocatorsInvariant` | `Spec => []IInv` |
| | `AllocatorsTyped` | `Spec => []TypeOK` |
| | `AllocatorsMatch` | with `Once` of all instances, `Spec => []GrantsMatch` |
| | `AllocatorsDecide` | `Spec => []ArbitersDecide` |
| | `AllocatorsProductive` | with `Once` and `Reaching`, `Spec => []Productive` |
| | `AllocatorsHighestFirst` | with `Once`, `Spec => []HighestFirst` |
| | `AllocatorsMaximum` | `Spec => []MaxSizeIsMaximum` |

`FoldProofs`, `FoldSteps` and `BufferStateProofs` hold the lemmas they share.

**Sums and counts** (`FoldProofs`). `SumFunction` of the community modules is a fold,
a `CHOOSE` of a recursive function. The induction theorems of the library take an
operator as a parameter, which the provers here cannot instantiate, so that each
induction is on a least counterexample (`LeastNumber`, `LeastSubset`). From the fold's
own definition follow its value on the empty set and on a set without one element,
and from these what the proofs use: what an update of one entry does to a sum, sums
over parts of a partition, sums of 0 and 1 as cardinalities; and what appending,
removing and rotating do to the number of entries of a kind in a sequence.

**Folds of an operator** (`FoldSteps`). What a fold over a sequence computes is an
induction along the sequence, whatever the operator. A theorem about every operator could
not be used; a module with the operator as a constant can: each operator that `Allocators`
folds has an instance of `FoldSteps`. `FoldLeftSteps` says of it that the states of the
fold form a sequence, each made of the one before by the operator; induction along it is
`CountUp`. That sets of numbers have least elements is a hypothesis there (`Ordered`),
which each user proves of its instances: an instance carries all that its module extends
into every later proof.

**Buffer state** (`BufferStateProofs`). `Sound(b)` is what a `BufferState` keeps of
itself: occupancies add up; at most one slot is reserved per VC, for a packet that
holds it and has nothing downstream; a partition's use is what its VCs occupy or
reserve, the shared pool's what the partitions use beyond their own; `activeVcs` is
the number of VCs taken; a sender that does not wait for the tail's credit has no
owner whose tail is sent. There is a lemma per method: called as the hop calls it
(`TakeBuffer` on an available VC, `SendingFlit` on one that has a slot, a credit only
for an occupied slot), it keeps `Sound` and raises no error. A VC that is not full has a
slot (`HasSlot`), and keeps it when another VC of the buffer is taken (`TakeKeepsSlots`),
although a dynamic policy then lowers its share, so that `IsFullFor` may say that it is
full. A method at a time is the
same for hops and for routers, which use the same lemmas. `SoundCapacity` concludes
that the occupancies fit into the buffer, under every policy.

**Hop** (`CreditLinkProofs`). `NoUnexpectedPid` is not inductive: it looks at one flit
at the receiver, and says nothing of those behind it. `IInv` adds `OwnerKnown` (a VC
that is sending is owned by the packet it sends, so that it is not available) and
`Unmixed` (reading the receiver's expected packet, the channel and the sender's packet
as one sequence, each flit is followed by the next flit of its packet, or, after a
tail, by a head). Then `SendFlit` appends a flit that continues the sequence, `AddFlit`
removes its first, and `TakeVc` is possible only where no packet is open.
`CreditsConserved` turns what the sender counts into what the receiver's buffer holds:
with `Sound` and `SoundCapacity` it gives `NoBufferOverflow`. The refinement proof has
one step per action; the capacity of a lane in `PacketFifo` is the VC's limit under the
private policy and the whole buffer else.

**Multicast router, input side** (`MCRouterProofs`). `QueuesMatchStates` says what is
in the queues; why a VC that goes on to its next packet finds a head there it does not
say. `InputInv` adds: `Chained` (from the front of an input VC over the flit that comes
in to what upstream has yet to send, each flit is followed by the next of its packet or
a head), `Fronted` (what a state says of the front flit; the outputs of an active VC
are those of the packet at its front), `Resolved` (results belong to entries of the
queues, and exist only in the parts of the cycle between evaluation and update),
`Passing` (what one part of a cycle leaves for the next is gone afterwards) and `Awake`
(what is in a queue or has come in keeps `active`, or `activity` before it is copied).
`AllocateFacts` shows that the allocator's `CHOOSE` exists and that grants are
disjoint: grants by rank, the least request on which two disagree.

**Multicast router, output side** (the second part of
`MCRouterProofs`). On top of `InputInv`,
`OutputInv` says: who `Holds` an output VC is its owner in `nextBuf` and has not sent
its tail, and the reverse unless the outputs wait for the tail's credit (`Owned`); the
BufferStates are `Sound` and free of errors (`BuffersSound`); the crossbar is granted
to VCs that can send and on no output to two (`Ready`); an output has one flit on its
way, in the crossbar or in its buffer (`OneEach`); both equations of `SlotsConserved`
and `used[x] <= VcLimit` (`InputSlots`, `OutputSlots`). `Ready` is needed because
`SWAllocEvaluate` looks at the occupancies and `SWAllocUpdate`, two actions later,
counts on them. Because an output has at most one sender and one credit object in a
cycle, but a credit names several VCs and a fan-out takes a VC on each of several
outputs, the folds over `BufferState` are unfolded (`CreditFold`, `TakeFold`,
`SendFold`) and the lemmas of `BufferStateProofs` applied along them.

**Multicast router, order** (the third part of `MCRouterProofs`). `OutputInOrder`
looks at a flit that leaves, with the flits that have left before. To be inductive it has to follow a packet
from upstream to there. `OrderInv` says: a packet that has been started is on one input
VC only (`Single`), and on it nothing of it is before its head (`HeadsFirst`), so that a
sender is the only one of its packet; what has left of a packet, what is on its way
included, is what is before its next flit, the same on all of its outputs, and nothing if
its head is still to come (`InTurn`); on an output VC that an input VC holds, the packet
of its next flit is open, or none if that is a head, and none is open on a free one
(`Opened`); what is on its way is what its output counts on (`Going`). `InTurn` is what
ties the copies of a multicast flit together: `SWAllocUpdate` sends all of them in one
step or none. `Opened` needs `Owned` of the output side: when a tail goes, its VC is
given up in the same step, so that the next holder finds it closed. Five of the actions
move no flit (`KeepingOrder`); `WriteOutputs` only turns what is on its way into what has
left.

**Input-queued router** (`IQRouterProofs`). An update works through a queue entry by
entry, and methods that come later push to queues that earlier ones have emptied. So the
invariant is stated with the sets of entries of each queue that are still to be updated:
`Placed` says of an input VC that it is in the queue, or among the entries to be updated,
that its state calls for, in one place only; `Linked` that its flits follow each other up
to what upstream sends, and what its state says of the front one; `Counted` is upstream's
count of its slots; `Tables` that the three tables of the held ports agree; `Grants` that
what is still to be applied of the results can be: the ports are free, no two grants
share one, and a piggybacked head finds an output VC. There is a lemma per method on one
entry (`Enter`, `AllocateVc`, `UpdateHeld`, `UpdateSwitched`): it takes an entry from the
set to the queues and keeps the rest; the runs along a queue (`FoldSteps`) take the whole
set. Between the actions no entry is left, which is `IInv`. That the assertion on the output
buffers cannot fail is the count of `Roomy`: an output receives in a cycle at most one
flit per port of the crossbar (`Crossed`), and none if its buffer was full when the switch
was asked for. `Sensible` is needed twice: for the piggybacked heads of one output, and
because a head that checks nothing may be granted the switch to an output that is full.

**Input-queued router, the books of its outputs** (the second part of `IQRouterProofs`).
What the next buffers say is used when a cycle is evaluated and changed when it is updated,
by heads that take VCs, flits that leave and credits. `BooksExact` goes with `IInv` and is
stated with the entries still to be updated as well. `Owned`: an input VC uses an output VC
iff it is its owner in the next buffer and has not sent its tail. `Pledged`: output VCs
that are granted and not yet taken are free, and different. `Balanced`: the occupancy of an
output VC is what is on its way there, what is downstream and the credit that has come in.
`Solvent`: the next buffers are `Sound` and free of errors, and an entry with leave to send
still finds its slot (`Permitted`). The last part needs `Provisioned`, and `HasSlot`
in place of `IsFullFor`, which another head may turn true between evaluation and update. The
equations do not need it: a flit that finds no slot is counted all the same
(`SlotsAlwaysAddUp`), it only is one too many. `SlotsConserved` also says that no
next buffer runs into an `Error()`. Along each method there is one lemma
for the books on one entry, and the run takes them along the queue together with `Placed`
and the rest; a credit object names several VCs and is a fold over the `BufferState`
(`RefundFold`).

**Chip** (`ChipProofs`). The end test (`task_finished`) looks at tasks and at flits in
flight, not at the send queues. `FinishedIsComplete` holds because of `Waiting`: between
the network's step and the cores' next turn, a packet that waits in a send queue
implies one in flight. The rest of `IInv` is what that needs: what is left of a task is
the end of its program (`Counted`), a packet is in one place (`Distinct`), the packet
a node is sending is in flight with flits to come (`Sending`). `FlowConserved` is
inductive with `AtHome` (a packet is received where it was sent to) and the finiteness
of what is summed: each action moves one packet from one of its terms to another, the
recursive `Others` makes a send count once per destination (`CountOthers`).

**Allocators** (`AllocatorsProofs`). `IInv` says what is left from cycle to cycle:
pointers that name ports, and arbiters that can decide (`ArbitersOK`); and of the last cycle
what it granted. An arbiter of the matrix form decides because its table is that of an order
(`Ranked`): what `UpdateState` does to the table moves the winner to the end of the order,
so that no inputs beat each other in a circle. The result is a matching (`Matched`), leaves
no pair free that it was bound to serve (`Fruitful`) and serves the best requests
(`Foremost`). There is a lemma per allocator that one `Allocate` establishes all of this
from any pointers and arbiters (`IslipAllocates` to `MaxSizeAllocates`), by induction along
its iterations or its walk:

* iSLIP and PIM: in each iteration the grants that are accepted are a matching of free
  ends, and one at least is made while a pair is free.
* The wavefront: `Waved` says that every pair that has been passed is granted or beaten by a
  grant of the same row or column that came no later in the order of the wave, hence is
  not below it.
* `max_size`: `Found` is the invariant of the search: each output it has reached has a
  depth, and was reached from an input that is unmatched or whose own output was reached
  less deep. So the walk back from a free output ends at an unmatched input (`Walking`),
  and turning the path around keeps a matching and adds one pair. A search that has come to no free
  output is `Exhausted`: all requested outputs of the inputs it has come to are reached,
  and all of these are matched, to inputs it has come to. Every request then has an output
  that was reached or an input that was not come to, and there are as many of these ports as
  there are grants: no matching of the requests is larger (`ExhaustedLargest`).

Only model-checked:

* liveness (`PacketReceived`, `PacketsDelivered`, `RunEnds`): fairness and `ENABLED` are out of the prover's reach;
* `NeverStuck` of `Chip`, which quantifies over how all programs may go on;
* `NotStarved` of `Allocators`, a bound on a count over many cycles, of a greedy
  allocator as well as of one with pointers;
* `OutputInOrder` of `IQRouter`: the argument of `OrderInv` of the multicast router, with
  the crossbar and the output buffers between what is sent and what has left, is still to
  be carried through its methods;
* everything about `PacketNetwork` and the routing functions. Networks, distances
  and routing trees are recursive operators over data that TLC tabulates; the provers lose
  their arithmetic in a module that declares one.

## 5. What the code does not keep

* **Two heads for one VC** (`IQPiggyback`). With `vc_allocator = piggyback` a head
  looks for a free output VC when it asks for the switch and takes one when the grant
  is applied. With `output_speedup` above 1 two heads may be granted two ports of one
  output in a cycle, and for the second `assert(match_vc >= 0)`
  (`iq_router.cpp:2219`) fails; the comment above it (line 2203) expects that the
  order of the updates matters. With one port per output it holds (`IQRouter`, whose
  `QueuesMatchStates` includes it).
* **A deadlock that is none** (`ChipReport`). The check compares the queues by
  address and does not look at the network: while a long packet streams and the
  cores have nothing to do, it reports that the chip state is unchanged
  (`spatial_chip.cpp:99`) and exits.
* **Trees that wait for each other** (`RoutingTrees`). `src_routing_mesh` routes
  every segment of a tree in dimension order, "To avoid deadlock"
  (`routefunc.cpp:663`). That orders the channels of one way, but a tree waits for
  a channel of one branch while it holds those of another: in a row of four
  routers, two trees from the middle nodes to both ends block each other once they
  are longer than the buffers.
* **Groups in a ring** (`RoutingDragonfly`). `ugal_dragonflynew` runs with exactly three
  VCs, "need 3 VCs for deadlock freedom" (`dragonfly.cpp:461`), and takes the phase of the
  packet for the VC. But phase 0 lasts from the source to the intermediate router: over a
  channel of the first group, the optical channel and a channel of the intermediate
  group, all on VC 0. Three packets, each from one group to an intermediate
  router in the next, hold two of these and wait for the third. The function takes the
  detour when the queue on the short way is longer than twice the other one and 30 flits
  (line 524); the model lets it choose, since the flits that were there may be gone by
  the time the packets meet.

Seen while modelling, without a run (they are among the hazards). Those that have an
instance in `MCPacketNetwork` can be repeated with it in place of `MCInstances` and
`MCPlans`:

* A head waits while the router sleeps: a VC whose packet's tail leaves with the next
  packet behind it goes to `_multi_route_vcs` in `_MultiSWAllocUpdate`
  (`mc_router.cpp:981`), after `_InternalStep` has looked at that queue; `activity`
  does not count it and the router sleeps with a head to route. It is woken by the
  next flit or credit; the credit of the flit that left is one, so nothing is lost
  (`PacketsDelivered`), only simulated time. In `IQRouter` there is no such case: the
  flit that left is still in the crossbar at the end of the cycle, which counts as
  activity (the multicast router passes it on in the cycle of the grant), and
  `QueuesMatchStates` includes that a router that sleeps has empty queues.
* Phases that meet (`Valiant`, fails `NoDeadlock`): `valiant_mesh` keeps its two phases
  on two halves of the VCs except "at the destination router" (`routefunc.cpp:1658`).
  But a packet may pass its destination on the way to its intermediate node: there
  it takes any VC, and the phases are no longer apart. On a square, two packets
  then wait for each other, although "each class must have at least 2 vcs assigned or
  else valiant valiant will deadlock" (line 1662) and each has two. `romm_mesh` has the
  same lines and does not deadlock: its intermediate nodes lie between source and
  destination, so that a packet at its destination is there to leave.
* Latencies of nodes (`SecondExample`, refused by `WiringAssumption`): the second example
  in the header of `anynet.cpp`, "router 0 node 0 node 1 5 node 2 5", is to give nodes 1
  and 2 channels of 5 cycles. The code writes the 5 into
  `router_list[ROUTER][0][1]` and `[0][2]` (line 465): the nodes keep 1 cycle, and
  router 0 gets channels to routers 1 and 2, which here do not exist. Where there is a
  router of the node's number, it gets an input that the way back does not match, so that
  it has more input channels, and router 0 fewer, than `_inputs`. It goes well if the
  node has the number of its own router (a channel to itself, which no packet takes) or
  that of a neighbour (whose channel gets the latency): `NodeLatencies` in `Routing`.
* An express channel to and fro (`ExpressOf64`, fails `OnCourse`): `xy_yx_cmesh` takes
  the express channel along an edge for any distance above 1 (`cmesh.cpp:391`), but it
  crosses half of the edge. From eight routers in a row on, a packet two routers from
  its destination is carried past it and back for ever. The header of the file names
  16, 64, 256 and 1024 nodes (line 40); the run has four routers in a row, where the
  channel crosses two.
* `min_adapt_mesh` calls `AddRange(out_port, 0, vcBegin, vcBegin)`
  (`routefunc.cpp:1244`), the VCs from 0 to `vcBegin`, and not `vcBegin` alone: with
  a class that does not begin at VC 0, packets get VCs of other classes.
* `valiant_torus` and `valiant_ni_torus` read `ring_part` uninitialised for a packet
  that stays in its ring (`routefunc.cpp:1737`): what the stack holds decides on the
  VCs, and four packets can close a ring (`ValiantRing`, fails `NoDeadlock`).
* `valiant_ni_torus` sets phase 1 in `f->ph` and then overwrites it by the phase it had
  before (`routefunc.cpp:1850`), so that a packet that has passed its intermediate node
  may turn back to it (`ValiantNiRing`, fails `OnCourse`).
* With `spec_check_elig` off and `spec_check_cred` on, its default, a speculative head
  never asks for the switch (`iq_router.cpp:1643`); with piggybacked VC allocation, it
  never gets an output VC.
* With the `shared` policy and `output_speedup` 2, two input VCs may see the last shared
  slot of an output free and send in the same cycle (`iq_router.cpp:1546` looks at
  occupancies before either is counted): the buffer at the other end overflows. In
  `IQRouter` with that configuration `SlotsConserved` fails.
* With `spec_check_elig` and `spec_check_cred` both off, a speculative head asks for an
  output whose buffer is full (`IsOutFull` is looked at in the check only), and with
  `output_speedup` 2 the assertion on the output buffer in `_SwitchUpdate` fails.
* `max_size` with more outputs than inputs (`maxsize.cpp:115`): the outputs beyond the
  number of inputs are never matched. `MaxSizeIsMaximum` is stated for the rest.
* A request that wins on one side only (`separable_output_first.cpp:63`, `selalloc.cpp:110`).
  An output stays with a request that it grants and that is refused at its input, where
  `in_pri` decides: its pointer does not move. Another request with as high an `out_pri`
  and a higher `in_pri` may then wait for ever, although it is nowhere second. With the
  inputs first that cannot be, since the requests of an input VC have one `out_pri`.
  `NotStarved` is stated for the requests for which it holds (`Owed`).
* A stale grant (`selalloc.cpp:62`): the `grants` of `SelAlloc::Allocate` are
  declared outside the loop over the iterations, so that in the second iteration an
  input can accept an output whose grant it had in the first, while it is matched.
  `GrantsMatch` fails on `SelectTwice` of `MCAllocators`.
* Two flits of one input in a cycle (`mc_router.cpp:704`): requests of two VCs of an
  input are separate inputs of the allocator, although only an input speedup of 1
  is supported (line 701). `SlotsConserved` shows that credits survive it.

## 6. Not modelled

* Numbers without behaviour: statistics, power, operator lowering, configuration.
* Text: parsers (but that of an anynet's description), printing.
* The tensors' contents, and how paths become multicast trees (`MCTree`).
* Booksim parts the chip does not use: synthetic traffic and batch mode; the event
  and chaos routers, the chaos routing functions that only the latter uses, and the
  priority arbiter that only the former uses; `limited_adapt_mesh`, which is not in
  the table of routing functions.
* The two feedback policies of the buffers: they set limits by measured round-trip
  times, of which `CreditLink`, with arbitrary delays, has no notion.
* Router delays other than 1, `noq`, `vc_prioritize_empty`, channel latencies
  (`CreditLink` has any) and the failing links of the cube.
* Where a router's configuration is refused by an assertion at construction.
* The `MULTICAST` build of the network interface (not the default).
* Undefined behaviour off the simulated path: `FocusFlit::Reset`, `DisplayStats` on
  finished tasks, a null queue in `_parseSegment`; `assert` with a side effect
  (`network_interface.cpp:72`: a build with `NDEBUG` would send nothing); divisions by a
  check frequency of 0, halving of a buffer to 0 slots.
* A description of an anynet in which some router cannot be reached: `route`
  loops for ever on it (`anynet.cpp:306`).

## 7. Plan

Done: the hop (`BufferState`, `CreditLink`, `PacketFifo`), the multicast and the
input-queued router, the chip, the allocators, every network with its routing
functions; proofs of all safety properties of the hop and of the multicast router, and of
those of the input-queued router, the chip and the allocators but one each. New questions join the instances of a run there is, so that all runs
together stay quick to repeat. Next, in this order:

1. Proofs: `OutputInOrder` of `IQRouter`, along `OrderInv` of the multicast router;
   `DeliveredOnce` of `PacketNetwork` for packets of one segment.
2. Dimension order is free of deadlock for every size: the order of the channels as
   the invariant.
3. `FocusFlits`: the multicast tree of a packet and its fan-out, one copy per child
   and each destination reached once; composed with `MCRouter`'s routes.
4. Router delays above 1 in `IQRouter`, with time stamps; channel timing (single
   input slot, latency) within the runs of `CreditLink`.
