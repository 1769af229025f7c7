------------------------------- MODULE MCChip -------------------------------
(***************************************************************************)
(* Programs for TLC to run on Chip.                                        *)
(***************************************************************************)
EXTENDS Chip

Send(f, ds, n) == [op |-> "send", fid |-> f, dests |-> ds, n |-> n]
Recv(f) == [op |-> "recv", fid |-> f, dests |-> <<>>, n |-> 0]
Exec(n) == [op |-> "exec", fid |-> 0, dests |-> <<>>, n |-> n]

OnCores(p0, p1, p2) == [c \in 0 .. 2 |-> CASE c = 0 -> p0 [] c = 1 -> p1 [] OTHER -> p2]

\* A tensor sent to two cores, of which one computes another from it; core 2
\* needs the second before the first, and takes a third one in a task of its
\* own.  At most one packet waits for another.
Pipeline ==
  OnCores(<< <<Send(1, <<1, 2>>, 2), Recv(3)>> >>,
          << <<Recv(1), Exec(2), Send(2, <<2>>, 1)>>, <<Send(4, <<2>>, 1)>> >>,
          << <<Recv(2), Recv(1), Send(3, <<0>>, 1)>>, <<Recv(4)>> >>)

\* The same tensor sent twice, to a core that is busy with something else.
Repeated ==
  OnCores(<< <<Send(1, <<2>>, 2), Send(1, <<2>>, 1)>> >>,
          << <<Exec(0), Send(2, <<2>>, 1)>> >>,
          << <<Exec(3), Recv(2), Recv(1)>>, <<Recv(1)>> >>)

\* A core that waits for a packet to itself; two that wait for each other; a
\* receive without a send.
SelfSend == OnCores(<< <<Send(1, <<0, 1>>, 1), Recv(1)>> >>, << <<Recv(1)>> >>, << >>)
Cycle ==
  OnCores(<< <<Recv(1), Send(2, <<1>>, 1)>> >>, << <<Recv(2), Send(1, <<0>>, 1)>> >>,
          << <<Exec(3)>> >>)
Missing == OnCores(<< <<Recv(1)>> >>, << <<Exec(1)>>, <<Exec(0)>> >>, << >>)

\* One long packet.  Its receiver goes on with the head flit.
LongPacket ==
  OnCores(<< <<Send(1, <<1>>, 8)>> >>, << <<Recv(1)>> >>, << >>)
OnlyLong == {LongPacket}

Balanced == {Pipeline, Repeated}
All == Balanced \cup {SelfSend, Cycle, Missing}
=============================================================================
