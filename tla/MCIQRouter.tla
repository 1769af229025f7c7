----------------------------- MODULE MCIQRouter -----------------------------
(***************************************************************************)
(* Configurations and workloads of IQRouter for TLC.                       *)
(***************************************************************************)
EXTENDS IQRouter

Unset == -1
Packet(i, s, n) == [in |-> i, route |-> s, len |-> n]

\* The default configuration: allocation of output VCs, then of the switch.
Default ==
  [spec |-> FALSE, piggyback |-> FALSE, prio |-> FALSE, elig |-> TRUE, cred |-> TRUE,
   mask |-> FALSE, hold |-> FALSE, busyFull |-> FALSE, lookahead |-> FALSE,
   inSp |-> 1, outSp |-> 1, outSize |-> -1, policy |-> "private", wait |-> FALSE]

Holding == [Default EXCEPT !.hold = TRUE, !.lookahead = TRUE, !.outSize = 1]
WideHolding == [Holding EXCEPT !.inSp = 2, !.outSp = 2, !.wait = TRUE]
Speculative == [Default EXCEPT !.spec = TRUE, !.prio = TRUE, !.hold = TRUE]
Separate == [Default EXCEPT !.spec = TRUE, !.lookahead = TRUE, !.busyFull = TRUE]
Masked == [Separate EXCEPT !.mask = TRUE, !.elig = FALSE, !.cred = FALSE, !.inSp = 2,
                           !.hold = TRUE]
Piggyback == [Default EXCEPT !.spec = TRUE, !.piggyback = TRUE, !.hold = TRUE]

All == {Default, Holding, WideHolding, Speculative, Separate, Masked, Piggyback}
WidePiggyback == {[Piggyback EXCEPT !.outSp = 2]}

\* A packet of three flits and one that follows it, with a choice of VC and of
\* output, and one of the other input that wants an output VC of both.
Meeting == {<<Packet(0, {<<0, 0>>, <<0, 1>>}, 3), Packet(0, {<<0, 0>>, <<1, 0>>}, 1),
              Packet(1, {<<0, 0>>}, 1)>>}
=============================================================================
