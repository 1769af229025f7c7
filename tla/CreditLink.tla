----------------------------- MODULE CreditLink -----------------------------
(***************************************************************************)
(* One flow-controlled hop of the network: the sender's BufferState, the   *)
(* flit channel, the VC buffers at the receiver (noc/buffer.cpp, vc.cpp)   *)
(* and the credit channel back.                                            *)
(*                                                                         *)
(* Flits of one VC stay in order on the channel and VCs do not interact    *)
(* there, so the channel is one FIFO per VC; its delay is arbitrary, which *)
(* covers every channel latency and every cycle in which either end acts.  *)
(* The sender behaves as TrafficManager::_Step and the routers do: it      *)
(* takes an available VC for a whole packet, then sends that packet's      *)
(* flits whenever the VC is not full.  The receiver removes flits whenever *)
(* it likes.                                                               *)
(***************************************************************************)
EXTENDS BufferState, Sequences, FiniteSetsExt

CONSTANTS
  Configs,   \* the <<buffer_policy, wait_for_tail_credit>> pairs considered
  MaxPkts,   \* bound: packets the sender starts
  MaxLen     \* bound: flits per packet

ASSUME CreditLinkAssumption ==
  /\ Configs \subseteq Policies \X BOOLEAN
  /\ MaxPkts \in Nat
  /\ MaxLen \in Nat \ {0}
  /\ None \notin 1 .. MaxPkts

Pids == 1 .. MaxPkts

\* A flit: its packet, its position in the packet and whether it is the last.
Flits == [pid : Pids, idx : 1 .. MaxLen, tail : BOOLEAN]

\* What a VC's sender is working on: the packet, its length, flits sent.
Idle == [pid |-> None, len |-> 0, sent |-> 0]

VARIABLES
  bs,        \* the sender's BufferState
  cur,       \* per VC, the packet being sent
  next,      \* the id of the next packet to start
  wire,      \* per VC, flits on the flit channel
  buf,       \* per VC, flits in the receiver's buffer
  expected,  \* per VC, _expected_pid of the receiver's VC
  credits,   \* per VC, credits on the credit channel
  done       \* packets whose last flit the receiver has taken out (history)

vars == <<bs, cur, next, wire, buf, expected, credits, done>>

Init ==
  /\ \E c \in Configs : bs = New(c[1], c[2])
  /\ cur = [v \in Vcs |-> Idle]
  /\ next = 1
  /\ wire = [v \in Vcs |-> <<>>]
  /\ buf = [v \in Vcs |-> <<>>]
  /\ expected = [v \in Vcs |-> None]
  /\ credits = [v \in Vcs |-> 0]
  /\ done = {}

-----------------------------------------------------------------------------
\* A head flit is given VC v, for a packet of n flits.
TakeVc(v, n) ==
  /\ next <= MaxPkts
  /\ IsAvailableFor(bs, v)
  /\ bs' = TakeBuffer(bs, v, next)
  /\ cur' = [cur EXCEPT ![v] = [pid |-> next, len |-> n, sent |-> 0]]
  /\ next' = next + 1
  /\ UNCHANGED <<wire, buf, expected, credits, done>>

\* The next flit of the packet that holds VC v goes out on the channel.
SendFlit(v) ==
  LET n == cur[v].sent + 1
      last == n = cur[v].len
  IN  /\ cur[v] # Idle
      /\ ~IsFullFor(bs, v)
      /\ bs' = SendingFlit(bs, v, last)
      /\ cur' = [cur EXCEPT ![v] = IF last THEN Idle ELSE [@ EXCEPT !.sent = n]]
      /\ wire' = [wire EXCEPT
                   ![v] = Append(@, [pid |-> cur[v].pid, idx |-> n, tail |-> last])]
      /\ UNCHANGED <<next, buf, expected, credits, done>>

\* Buffer::AddFlit and VC::AddFlit: the packet id check of the VC.
BufferedFlits == SumFunction([v \in Vcs |-> Len(buf[v])])
UnexpectedPid(v, f) == expected[v] # None /\ f.pid # expected[v]

AddFlit(v) ==
  /\ wire[v] # <<>>
  /\ LET f == Head(wire[v])
     IN  /\ buf' = [buf EXCEPT ![v] = Append(@, f)]
         /\ expected' = [expected EXCEPT
              ![v] = IF expected[v] # None
                     THEN IF f.pid = expected[v] /\ f.tail THEN None ELSE @
                     ELSE IF ~f.tail THEN f.pid ELSE @]
  /\ wire' = [wire EXCEPT ![v] = Tail(@)]
  /\ UNCHANGED <<bs, cur, next, credits, done>>

\* Mutated form: only a tail's slot is credited.
RemoveFlitUncredited(v) ==
  /\ buf[v] # <<>>
  /\ done' = IF Head(buf[v]).tail THEN done \cup {Head(buf[v]).pid} ELSE done
  /\ buf' = [buf EXCEPT ![v] = Tail(@)]
  /\ credits' = IF Head(buf[v]).tail THEN [credits EXCEPT ![v] = @ + 1] ELSE credits
  /\ UNCHANGED <<bs, cur, next, wire, expected>>

\* The receiver takes the front flit of VC v and sends a credit for its slot.
RemoveFlit(v) ==
  /\ buf[v] # <<>>
  /\ done' = IF Head(buf[v]).tail THEN done \cup {Head(buf[v]).pid} ELSE done
  /\ buf' = [buf EXCEPT ![v] = Tail(@)]
  /\ credits' = [credits EXCEPT ![v] = @ + 1]
  /\ UNCHANGED <<bs, cur, next, wire, expected>>

\* Mutated form: a credit is processed that has not arrived.
ProcessAnyCredit(v) ==
  /\ bs' = ProcessCreditFor(bs, v)
  /\ credits' = [credits EXCEPT ![v] = @ - 1]
  /\ UNCHANGED <<cur, next, wire, buf, expected, done>>

\* The sender processes a credit for VC v.
ProcessCredit(v) ==
  /\ credits[v] > 0
  /\ bs' = ProcessCreditFor(bs, v)
  /\ credits' = [credits EXCEPT ![v] = @ - 1]
  /\ UNCHANGED <<cur, next, wire, buf, expected, done>>

Next ==
  \E v \in Vcs :
    \/ \E n \in 1 .. MaxLen : TakeVc(v, n)
    \/ SendFlit(v)
    \/ AddFlit(v)
    \/ RemoveFlit(v)
    \/ ProcessCredit(v)

Spec == Init /\ [][Next]_vars

(***************************************************************************)
(* Every cycle the simulator steps both ends and both channels, so whatever*)
(* stays possible on a VC happens; starting packets is the workload's      *)
(* choice and is not required.                                             *)
(***************************************************************************)
Fairness ==
  \A v \in Vcs : /\ WF_vars(SendFlit(v))
                 /\ WF_vars(AddFlit(v))
                 /\ WF_vars(RemoveFlit(v))
                 /\ WF_vars(ProcessCredit(v))

FairSpec == Spec /\ Fairness

-----------------------------------------------------------------------------
BufferStates == BufferStatesOf(Pids)

\* Types of the link's state, and of the fields of the BufferState.
TypeOK ==
  /\ bs \in BufferStates
  /\ cur \in [Vcs -> [pid : Pids \cup {None}, len : 0 .. MaxLen, sent : 0 .. MaxLen]]
  /\ next \in 1 .. MaxPkts + 1
  /\ wire \in [Vcs -> Seq(Flits)]
  /\ buf \in [Vcs -> Seq(Flits)]
  /\ expected \in [Vcs -> Pids \cup {None}]
  /\ credits \in [Vcs -> Nat]
  /\ done \subseteq Pids

\* The sender's occupancy of a VC accounts for every slot that is not known
\* to be free: flits on the channel, flits buffered, credits on their way.
CreditsConserved ==
  \A v \in Vcs : bs.vcOcc[v] = Len(wire[v]) + Len(buf[v]) + credits[v]

\* The private policy never lets a VC exceed its share of the buffer, so the
\* "Buffer overflow for VC" error of PrivateBufferPolicy cannot occur.
VcWithinLimit ==
  bs.policy = "private" => \A v \in Vcs : bs.vcOcc[v] \in 0 .. VcLimit

\* Flits of two packets never mix in a VC: the receiver's "unexpected packet
\* ID" error cannot occur, although a VC is handed to the next packet while
\* flits of the last one are still on the channel.
NoUnexpectedPid ==
  \A v \in Vcs : wire[v] # <<>> => ~UnexpectedPid(v, Head(wire[v]))

\* The receiver's buffer never overflows, whatever policy shares it among the
\* VCs: "Flit buffer overflow" of Buffer::AddFlit cannot occur.
NoBufferOverflow == BufferedFlits <= Size

\* No Error() or assertion of BufferState and its policies can occur: no
\* double allocation, credit for an idle VC, negative occupancy or overflow.
NoBufferStateError == ~bs.err

\* The shared policies count a partition's slots as used exactly when a flit
\* occupies one or a packet that drained its VC keeps one in reserve, and
\* what a partition uses beyond its own slots is charged to the shared pool.
SlotsAccounted ==
  bs.policy \in SharedPolicies =>
    /\ \A i \in Parts :
         bs.privOcc[i] = SumFunctionOnSet([v \in Vcs |-> bs.vcOcc[v] + bs.reserved[v]], VcsOf(i))
    /\ bs.sharedOcc = SumFunction([i \in Parts |-> Over(bs.privOcc[i])])

\* A reserved slot belongs to a packet that holds the VC and has no flit left
\* downstream, and a VC never reserves more than one.
ReserveIsHeld ==
  \A v \in Vcs : bs.reserved[v] # 0 =>
    bs.reserved[v] = 1 /\ bs.inUseBy[v] # None /\ bs.vcOcc[v] = 0

\* A packet that was given a VC is received completely, under every policy.
PacketReceived == \A p \in Pids : (next > p) ~> (p \in done)

-----------------------------------------------------------------------------
(***************************************************************************)
(* The hop as PacketFifo sees it: the receiver's buffer and the channel    *)
(* are one queue, and a VC's packet is open from its first flit on.        *)
(***************************************************************************)
HopCapacity == IF \A c \in Configs : c[1] = "private" THEN VcLimit ELSE Size

Fifo == INSTANCE PacketFifo WITH
          Lanes <- Vcs, Packets <- Pids, MaxFlits <- MaxLen, NoPacket <- None,
          Capacity <- HopCapacity,
          q <- [v \in Vcs |-> buf[v] \o wire[v]],
          open <- [v \in Vcs |-> [pid |-> IF cur[v].sent = 0 THEN None ELSE cur[v].pid,
                                   sent |-> cur[v].sent]]

\* The hop implements the bounded packet queue.
ImplementsFifo == Fifo!Spec
=============================================================================
