----------------------------- MODULE MCMCRouter -----------------------------
(***************************************************************************)
(* Instances of MCRouter for TLC.                                          *)
(***************************************************************************)
EXTENDS MCRouter

Unset == -1
Packet(i, s, n) == [in |-> i, outs |-> s, len |-> n]

\* Two packets of one input, the second of which follows the first on its VC or
\* overtakes it on the other, and one of the other input.  They meet on output 0
\* and one of them fans out to output 1 as well: the first, or the other input's.
Mixed == {<<Packet(0, {0, 1}, 2), Packet(0, {0}, 1), Packet(1, {0}, 1)>>,
          <<Packet(0, {0}, 1), Packet(0, {1}, 1), Packet(1, {0, 1}, 1)>>}
=============================================================================
