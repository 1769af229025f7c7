----------------------------- MODULE PacketFifo -----------------------------
(***************************************************************************)
(* What a flow-controlled hop promises, whatever its credits, channels and *)
(* buffers do: every lane (virtual channel) is a lossless, bounded, first- *)
(* in first-out queue of flits, and the flits of a packet enter a lane     *)
(* consecutively, from the first to the last.                              *)
(***************************************************************************)
EXTENDS Naturals, Sequences

CONSTANTS
  Lanes, Packets,
  MaxFlits,  \* the longest packet
  Capacity,  \* flits a lane holds
  NoPacket

VARIABLES
  q,    \* per lane, the flits in it
  open  \* per lane, the packet entering it and how many flits are in already

Closed == [pid |-> NoPacket, sent |-> 0]

Init == /\ q = [l \in Lanes |-> <<>>]
        /\ open = [l \in Lanes |-> Closed]

\* The next flit of packet p enters lane l; last says it is the packet's last.
Put(l, p, last) ==
  /\ open[l] = Closed \/ open[l].pid = p
  /\ open[l].sent < MaxFlits
  /\ Len(q[l]) < Capacity
  /\ LET n == open[l].sent + 1
     IN  /\ q' = [q EXCEPT ![l] = Append(@, [pid |-> p, idx |-> n, tail |-> last])]
         /\ open' = [open EXCEPT ![l] = IF last THEN Closed ELSE [pid |-> p, sent |-> n]]

Get(l) ==
  /\ q[l] # <<>>
  /\ q' = [q EXCEPT ![l] = Tail(@)]
  /\ UNCHANGED open

Next == \E l \in Lanes :
          \/ \E p \in Packets, last \in BOOLEAN : Put(l, p, last)
          \/ Get(l)

Spec == Init /\ [][Next]_<<q, open>>
=============================================================================
