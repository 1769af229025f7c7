-------------------------------- MODULE Chip --------------------------------
(***************************************************************************)
(* The chip: the array of cores, each with its tasks and its network       *)
(* interface (core/src/core.cpp, network_interface.cpp, core_array.cpp),   *)
(* the main loop with its end test and its deadlock check                  *)
(* (spatial_chip.cpp), and the two ends of the network that the traffic    *)
(* manager implements (noc/trafficmanager.cpp).                            *)
(*                                                                         *)
(* A cycle is one ClockTick of every core, in order, then one _Step of the *)
(* traffic manager, then the checks of the main loop; phase says which is  *)
(* next.  Between its ends the network is lossless, keeps the flits of a   *)
(* packet in order and takes any number of cycles: what CreditLink and     *)
(* MCRouter show of a hop and of a router.                                 *)
(*                                                                         *)
(* An instruction sends a tensor, receives one, or takes a number of       *)
(* cycles on another module of the core.  Only the tensor's id and its     *)
(* size in flits matter.                                                   *)
(***************************************************************************)
EXTENDS Integers, FiniteSets, SequencesExt, FiniteSetsExt

CONSTANTS
  NumCores,
  Threshold,  \* config threshold
  CheckFreq,  \* config deadlock_check_freq
  Programs,   \* the task lists of the cores that are considered
  Orderly,    \* those of them of which NeverStuck is stated
  None

Cores == 0 .. NumCores - 1

\* n is the size in flits of a "send", the latency of an "exec".
Instr == [op : {"send", "recv", "exec"}, fid : Nat, dests : Seq(Cores), n : Nat]

\* A packet: one copy of a tensor; key tells it from all others.
PacketType == [src : Cores, dest : Cores, fid : Nat, n : Nat \ {0}, key : Seq(Nat)]

ASSUME ChipAssumption ==
  /\ NumCores \in Nat \ {0} /\ Threshold \in Nat /\ CheckFreq \in Nat \ {0}
  /\ Orderly \subseteq Programs /\ Programs \subseteq [Cores -> Seq(Seq(Instr))]
  /\ \A p \in Programs : \A c \in Cores : \A t \in DOMAIN p[c] : \A k \in DOMAIN p[c][t] :
       p[c][t][k].op = "send" => p[c][t][k].n > 0
  /\ None \notin PacketType

VARIABLES
  prog,      \* the program that runs
  phase,     \* "head", "core", "noc", "check", or how the run ended
  at,        \* in phase "core", the core whose ClockTick is next
  tasks,     \* per core and task, the instructions left
  left,      \* _cycle_to_issue minus the clock, 0 at least; -1 for -1
  pipeOpen,  \* _pipe_open, shared by all network interfaces
  sendQ, recvQ,  \* per core, the queues between it and the network
  partial,   \* per core, the packet of _partial_packets, if any
  net,       \* packets in _total_in_flight_flits: flits injected and retired
  tick,      \* the clock modulo CheckFreq
  backup,    \* what check_deadlock keeps of the cores; checks made, 2 at most
  moved      \* something has changed since the last check (history)

cores == <<tasks, left, pipeOpen>>
network == <<sendQ, recvQ, partial, net>>
vars == <<prog, phase, at, cores, network, tick, backup, moved>>

Init ==
  /\ prog \in Programs
  /\ phase = "head" /\ at = 0
  /\ tasks = prog
  /\ left = [c \in Cores |-> [t \in DOMAIN prog[c] |-> -1]]
  /\ pipeOpen = [c \in Cores |-> TRUE]
  /\ sendQ = [c \in Cores |-> <<>>] /\ recvQ = [c \in Cores |-> <<>>]
  /\ partial = [c \in Cores |-> None]
  /\ net = <<>>
  /\ tick = 0
  /\ backup = [checks |-> 0, cores |-> None]
  /\ moved = FALSE

Tasks(c) == DOMAIN tasks[c]
FinishAllTasks(c) == \A t \in Tasks(c) : tasks[c][t] = <<>> /\ left[c][t] <= 0
IsBusy(c) == \E t \in Tasks(c) : left[c][t] > 0

\* selectActiveTask: any task that can go on, but one whose instruction has
\* finished before one that must be tried again or has not started.
Candidates(c) == {t \in Tasks(c) : tasks[c][t] # <<>> /\ left[c][t] <= 0}
Selectable(c) == IF \E t \in Candidates(c) : left[c][t] = 0
                 THEN {t \in Candidates(c) : left[c][t] = 0} ELSE Candidates(c)

-----------------------------------------------------------------------------
(***************************************************************************)
(* One instruction of task t of core c, simple_sim of the module that      *)
(* executes it: the new values of left[c][t], pipeOpen and the queues.     *)
(***************************************************************************)
Doorbell(open, dests) == \A k \in DOMAIN dests : open[dests[k]]

\* Mutated form: the threshold itself is too many.
HasMoreRoom(c) == Len(recvQ[c]) < Threshold

\* An NI instruction begins with a look at the core's own receive queue.
HasRoom(c) == Len(recvQ[c]) <= Threshold

Refreshed(c) == [pipeOpen EXCEPT ![c] = HasRoom(c)]

\* The destinations of a send other than the core itself, in order.
Others(c, i) ==
  LET upTo[k \in 0 .. Len(i.dests)] ==
        IF k = 0 THEN <<>>
        ELSE IF i.dests[k] = c THEN upTo[k - 1] ELSE Append(upTo[k - 1], i.dests[k])
  IN  upTo[Len(i.dests)]

\* The packets that a send at the head of rest makes, one per destination.
PacketsOf(c, t, rest) ==
  LET i == Head(rest)
  IN  [k \in DOMAIN Others(c, i) |->
         [src |-> c, dest |-> Others(c, i)[k], fid |-> i.fid, n |-> i.n,
          key |-> <<t, Len(rest), k>>]]

Sent(c, t, rest) == Doorbell(Refreshed(c), Others(c, Head(rest)))

SendInstr(c, t, rest) ==
  /\ Head(rest).op = "send"
  /\ pipeOpen' = Refreshed(c)
  /\ left' = [left EXCEPT ![c][t] = IF Sent(c, t, rest) THEN 1 ELSE -1]
  /\ sendQ' = IF Sent(c, t, rest) THEN [sendQ EXCEPT ![c] = @ \o PacketsOf(c, t, rest)]
              ELSE sendQ
  /\ UNCHANGED recvQ

\* The first packet with the id is taken out; those in front of it go to the
\* back of the queue.
Matches(c, fid) == {k \in DOMAIN recvQ[c] : recvQ[c][k].fid = fid}

\* Mutated form: the packets in front are lost.
AfterReceiveOnly(q, k) == SubSeq(q, k + 1, Len(q))

AfterReceive(q, k) == SubSeq(q, k + 1, Len(q)) \o SubSeq(q, 1, k - 1)

RecvInstr(c, t, rest) ==
  LET found == Matches(c, Head(rest).fid)
  IN  /\ Head(rest).op = "recv"
      /\ pipeOpen' = Refreshed(c)
      /\ left' = [left EXCEPT ![c][t] = IF found # {} THEN 1 ELSE -1]
      /\ recvQ' = IF found = {} THEN recvQ
                  ELSE [recvQ EXCEPT ![c] = AfterReceive(@, CHOOSE k \in found :
                                                              \A j \in found : k <= j)]
      /\ UNCHANGED sendQ

ExecInstr(c, t, rest) ==
  /\ Head(rest).op = "exec"
  /\ left' = [left EXCEPT ![c][t] = Head(rest).n]
  /\ UNCHANGED <<pipeOpen, sendQ, recvQ>>

-----------------------------------------------------------------------------
(***************************************************************************)
(* CORE::ClockTick.                                                        *)
(***************************************************************************)
Turn(c) == phase = "core" /\ at = c
PassTurn(c) ==
  /\ phase' = IF c = NumCores - 1 THEN "noc" ELSE "core"
  /\ at' = IF c = NumCores - 1 THEN 0 ELSE c + 1
  /\ UNCHANGED <<prog, partial, net, tick, backup>>

Rest(c) ==
  /\ Turn(c) /\ PassTurn(c)
  /\ FinishAllTasks(c) \/ IsBusy(c) \/ Candidates(c) = {}
  /\ UNCHANGED <<tasks, left, pipeOpen, sendQ, recvQ, moved>>

\* The finished instruction is removed and the next one of the task issued,
\* or the one that could not be executed is tried again.
Issue(c, t) ==
  LET rest == IF left[c][t] = -1 THEN tasks[c][t] ELSE Tail(tasks[c][t])
  IN  /\ Turn(c) /\ PassTurn(c)
      /\ ~IsBusy(c) /\ t \in Selectable(c)
      /\ tasks' = [tasks EXCEPT ![c][t] = rest]
      /\ IF rest = <<>> THEN UNCHANGED <<left, pipeOpen, sendQ, recvQ>>
         ELSE SendInstr(c, t, rest) \/ RecvInstr(c, t, rest) \/ ExecInstr(c, t, rest)
      /\ moved' = (moved \/ tasks' # tasks \/ left' # left \/ recvQ' # recvQ)

-----------------------------------------------------------------------------
(***************************************************************************)
(* TrafficManager::_Step: a source without a packet takes the next one     *)
(* from its send queue; the sources in inject, for which the network has   *)
(* room, send a flit; a flit of retire[d] has arrived at node d.           *)
(***************************************************************************)
\* A packet is generated, and its flits are in flight, from here on.
Generating == {c \in Cores : partial[c] = None /\ sendQ[c] # <<>>}
Current(c) == IF c \in Generating THEN Head(sendQ[c]) ELSE partial[c]

\* Mutated form: a flit may be retired before it was injected.
ArrivedEarly == {p \in DOMAIN net : net[p].injected >= net[p].retired}

Arrived == {p \in DOMAIN net : net[p].injected > net[p].retired}

NocStep(inject, retire) ==
  LET sending == {Current(c) : c \in inject}
      retiring == {retire[d] : d \in Cores} \ {None}
      all == DOMAIN net \cup {Head(sendQ[c]) : c \in Generating}
      Flits(p) == IF p \in DOMAIN net THEN net[p] ELSE [injected |-> 0, retired |-> 0]
      After(p) == [injected |-> Flits(p).injected + (IF p \in sending THEN 1 ELSE 0),
                   retired |-> Flits(p).retired + (IF p \in retiring THEN 1 ELSE 0)]
  IN  /\ phase = "noc" /\ phase' = "check"
      /\ sendQ' = [c \in Cores |-> IF c \in Generating THEN Tail(sendQ[c]) ELSE sendQ[c]]
      /\ partial' = [c \in Cores |->
           IF Current(c) # None /\ After(Current(c)).injected < Current(c).n
           THEN Current(c) ELSE None]
      /\ net' = [p \in {q \in all : After(q).retired < q.n} |-> After(p)]
      \* A packet is delivered with its head flit.
      /\ recvQ' = [d \in Cores |->
           IF retire[d] # None /\ net[retire[d]].retired = 0
           THEN Append(recvQ[d], retire[d]) ELSE recvQ[d]]
      /\ left' = [c \in Cores |-> [t \in Tasks(c) |->
           IF left[c][t] > 0 THEN left[c][t] - 1 ELSE left[c][t]]]
      /\ tick' = (tick + 1) % CheckFreq
      /\ moved' = (moved \/ sending # {} \/ retiring # {} \/ Generating # {})
      /\ UNCHANGED <<prog, at, tasks, pipeOpen, backup>>

Network ==
  \E inject \in SUBSET {c \in Cores : Current(c) # None} :
    \E retire \in [Cores -> Arrived \cup {None}] :
      /\ \A d \in Cores : retire[d] # None => retire[d].dest = d
      /\ NocStep(inject, retire)

-----------------------------------------------------------------------------
(***************************************************************************)
(* The main loop.                                                          *)
(***************************************************************************)
\* Mutated form: packets whose head has arrived do not count.
HeadsDrained == \A p \in DOMAIN net : net[p].retired > 0

\* traffic_drained: no flit is in flight.
TrafficDrained == DOMAIN net = {}

TaskFinished == TrafficDrained /\ \A c \in Cores : FinishAllTasks(c)

LoopHead ==
  /\ phase = "head"
  /\ phase' = IF TaskFinished THEN "finished" ELSE "core"
  /\ UNCHANGED <<prog, at, cores, network, tick, backup, moved>>

\* stateChanged compares the instructions left and the issue cycles.  (An
\* issue cycle that is set changes again only when its instruction is removed.)
CoreState == [c \in Cores |-> [t \in Tasks(c) |-> <<Len(tasks[c][t]), left[c][t] = -1>>]]

\* The queues are compared as well, but by address, so that they never differ.
\* The first check has no backup of the queues and does not look at the cores;
\* the second has none of the cores.
StateUnchanged == backup.checks = 2 /\ CoreState = backup.cores

\* Mutated form: the cores are kept only once.
FirstBackup ==
  [checks |-> IF backup.checks = 2 THEN 2 ELSE backup.checks + 1,
   cores |-> IF backup.checks = 1 THEN CoreState ELSE backup.cores]

NextBackup ==
  [checks |-> IF backup.checks = 2 THEN 2 ELSE backup.checks + 1,
   cores |-> IF backup.checks = 0 THEN None ELSE CoreState]

Check ==
  /\ phase = "check"
  /\ IF tick = 0
     THEN /\ phase' = IF StateUnchanged THEN "deadlock" ELSE "head"
          /\ backup' = NextBackup
          /\ moved' = (StateUnchanged /\ moved)
     ELSE phase' = "head" /\ UNCHANGED <<backup, moved>>
  /\ UNCHANGED <<prog, at, cores, network, tick>>

Next ==
  \/ LoopHead
  \/ \E c \in Cores : Rest(c) \/ \E t \in Tasks(c) : Issue(c, t)
  \/ Network
  \/ Check

Spec == Init /\ [][Next]_vars

\* The loop goes on until it ends; nothing is asked of the network, nor of the
\* random choice of a task.
FairSpec == Spec /\ WF_vars(Next)

-----------------------------------------------------------------------------
\* Types of the state.
TypeOK ==
  /\ phase \in {"head", "core", "noc", "check", "finished", "deadlock"}
  /\ at \in Cores /\ tick \in 0 .. CheckFreq - 1
  /\ \A c \in Cores :
       /\ Tasks(c) = DOMAIN prog[c] /\ DOMAIN left[c] = Tasks(c)
       /\ \A t \in Tasks(c) : /\ tasks[c][t] \in Seq(Instr)
                              /\ IsSuffix(tasks[c][t], prog[c][t])
                              /\ left[c][t] \in Nat \cup {-1}
       /\ sendQ[c] \in Seq(PacketType) /\ recvQ[c] \in Seq(PacketType)
       /\ partial[c] # None => partial[c] \in DOMAIN net
  /\ pipeOpen \in [Cores -> BOOLEAN]
  /\ \A p \in DOMAIN net : /\ p \in PacketType
                           /\ net[p].injected \in 0 .. p.n
                           /\ net[p].retired \in 0 .. net[p].injected
  /\ backup.checks \in 0 .. 2 /\ moved \in BOOLEAN

\* How many instructions of a task have been executed.
Executed(c, t) ==
  Len(prog[c][t]) - Len(tasks[c][t])
  + (IF tasks[c][t] # <<>> /\ left[c][t] # -1 THEN 1 ELSE 0)
Fired == UNION {UNION {{<<c, t, k>> : k \in 1 .. Executed(c, t)} : t \in Tasks(c)} : c \in Cores}
InstrAt(x) == prog[x[1]][x[2]][x[3]]

\* Every tensor is sent once to each destination and received once: whatever
\* the order of retries, closed pipes and queue rotations, the packets that
\* the executed sends made are the packets on their way, those waiting in the
\* receive queue and those taken by the executed receives.
Fids == {InstrAt(x).fid : x \in Fired}
CountIn(q, d, f) == Cardinality({k \in DOMAIN q : q[k].dest = d /\ q[k].fid = f})

\* How many packets with tensor f for core d instruction x makes.
Copies(x, d, f) ==
  IF InstrAt(x).op = "send" /\ InstrAt(x).fid = f /\ x[1] # d
  THEN Cardinality({k \in DOMAIN InstrAt(x).dests : InstrAt(x).dests[k] = d}) ELSE 0

FlowConserved ==
  \A d \in Cores, f \in Fids :
    SumFunction([x \in Fired |-> Copies(x, d, f)])
    = SumFunction([c \in Cores |-> CountIn(sendQ[c], d, f)])
      + Cardinality({p \in DOMAIN net : p.dest = d /\ p.fid = f /\ net[p].retired = 0})
      + CountIn(recvQ[d], d, f)
      + Cardinality({x \in Fired : /\ InstrAt(x).op = "recv" /\ InstrAt(x).fid = f
                                   /\ x[1] = d})

\* When the simulation ends no packet is left anywhere on its way, although the
\* test of the end looks neither at the send queues nor at the packets that a
\* source has only begun to inject.
FinishedIsComplete ==
  phase = "finished" =>
    /\ net = <<>>
    /\ \A c \in Cores : /\ sendQ[c] = <<>> /\ partial[c] = None
                        /\ \A t \in Tasks(c) : tasks[c][t] = <<>>

\* A task can go on: its instruction has finished or can be executed, or trying
\* it again changes what the core's pipe says.
CanMove(c, t) ==
  /\ tasks[c][t] # <<>>
  /\ LET i == Head(tasks[c][t])
     IN  \/ left[c][t] # -1
         \/ i.op = "exec"
         \/ i.op # "exec" /\ pipeOpen[c] # HasRoom(c)
         \/ i.op = "send" /\ Doorbell(pipeOpen, Others(c, i))
         \/ i.op = "recv" /\ Matches(c, i.fid) # {}

\* Programs whose receives all have their sends, in an order that can be
\* followed, do not get stuck on the doorbell, if no core has to let more than
\* Threshold packets wait for another one: "TODO: this may cause deadlock".
NeverStuck ==
  prog \in Orderly /\ phase = "head" /\ ~TaskFinished =>
    \/ net # <<>>
    \/ \E c \in Cores : sendQ[c] # <<>> \/ IsBusy(c) \/ \E t \in Tasks(c) : CanMove(c, t)

\* Every run ends: with the tasks finished, or with the deadlock reported.
RunEnds == <>(phase \in {"finished", "deadlock"})

-----------------------------------------------------------------------------
\* "Deadlock detected: the chip state keeps unchanged over N cycles": when this
\* is reported, nothing has happened since the last check.
ReportIsTrue == phase = "deadlock" => ~moved
=============================================================================
