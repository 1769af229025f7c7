---------------------------- MODULE MCAllocators ----------------------------
(* Allocators of 2 x 3, 3 x 2 and 2 x 2 ports for TLC. *)
EXTENDS Allocators

Sized(type, i, o, iters, form, pris) ==
  [type |-> type, inputs |-> i, outputs |-> o, iters |-> iters, form |-> form,
   cells |-> (0 .. i-1) \X (0 .. o-1), pris |-> pris]

Plain == "none"
Even  == {[in |-> 0, out |-> 0]}

(* All pairs but the last. *)
Corner(n) == [n EXCEPT !.cells = @ \ {<<n.inputs - 1, n.outputs - 1>>}]

(* More outputs than inputs and more inputs than outputs, one priority. *)
Oblong ==
  {Sized("islip", 2, 3, 1, Plain, Even), Corner(Sized("loa", 2, 3, 1, Plain, Even)),
   Sized("pim", 3, 2, 2, Plain, Even), Sized("max_size", 3, 2, 1, Plain, Even),
   Sized("wavefront", 2, 3, 1, Plain, Even), Sized("rr_wavefront", 3, 2, 1, Plain, Even)}

(* Three of each: an augmenting path of length five, and requests that two *)
(* iterations of iSLIP serve in an order one iteration does not.           *)
Square3 ==
  {[Sized("max_size", 3, 3, 1, Plain, Even)
      EXCEPT !.cells = {<<0,0>>, <<0,1>>, <<1,0>>, <<1,2>>, <<2,0>>, <<2,1>>}],
   [Sized("islip", 3, 3, 2, Plain, Even)
      EXCEPT !.cells = {<<0,0>>, <<0,1>>, <<0,2>>, <<1,0>>, <<1,1>>, <<2,1>>}]}

(* Two priorities on each side. *)
Mixed == [in : {0, 1}, out : {0, 1}]

Prioritised ==
  {Corner(Sized("separable_input_first", 2, 2, 1, "round_robin", Mixed)),
   Corner(Sized("separable_output_first", 2, 2, 1, "matrix", Mixed)),
   Corner(Sized("select", 2, 2, 1, Plain, Mixed)), Corner(Sized("wavefront", 2, 2, 1, Plain, Mixed)),
   Corner(Sized("rr_wavefront", 2, 2, 1, Plain, Mixed))}

(* The three forms of arbiter under the separable allocators. *)
Arbitrated ==
  {Corner(Sized("separable_input_first", 2, 3, 1, "round_robin", Even)),
   Corner(Sized("separable_output_first", 3, 2, 1, "matrix", Even))}
  \cup {[Sized(t, 4, 2, 1, "tree", Even)
           EXCEPT !.cells = {<<0,0>>, <<1,0>>, <<2,0>>, <<3,0>>, <<0,1>>}] : t \in Separable}

MCInstances == Oblong \cup Square3 \cup Prioritised \cup Arbitrated

(* Not part of the run: with two iterations select accepts a grant of the first, *)
(* and GrantsMatch fails (selalloc.cpp:62).                                      *)
SelectTwice == {Sized("select", 2, 2, 2, Plain, Even)}
=============================================================================
