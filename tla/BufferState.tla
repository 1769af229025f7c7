---------------------------- MODULE BufferState ----------------------------
(***************************************************************************)
(* The credit and reservation bookkeeping a sender keeps about the input   *)
(* buffer at the far end of one of its channels (noc/buffer_state.cpp).    *)
(* Routers hold one BufferState per output, the traffic manager one per    *)
(* injection port; a BufferState is therefore a value here, and every      *)
(* method an operator from the old value to the new one.                   *)
(*                                                                         *)
(* The field err stands for Error() and the assertions of the class: the   *)
(* program stops there, so a model in which err is never set shows that    *)
(* none of them can fire.                                                  *)
(***************************************************************************)
EXTENDS Integers, FiniteSets

CONSTANTS
  NumVcs,      \* config num_vcs
  VcBufSize,   \* config vc_buf_size
  BufSize,     \* config buf_size; negative: NumVcs * VcBufSize
  PrivateBufs, \* config private_bufs: number of private partitions
  PrivateSize, \* config private_buf_size; negative: an even share
  HeldLimit,   \* config max_held_slots; negative: the whole buffer
  None         \* stands for the -1 of _in_use_by

ASSUME BufferStateAssumption ==
  /\ NumVcs \in Nat \ {0}
  /\ VcBufSize \in Nat \ {0}
  /\ BufSize \in Int
  /\ PrivateBufs \in Int
  /\ PrivateSize \in Int
  /\ HeldLimit \in Int

Vcs == 0 .. NumVcs - 1

Policies == {"private", "shared", "limited", "dynamic", "shifting"}
SharedPolicies == Policies \ {"private"}
LimitedPolicies == SharedPolicies \ {"shared"}

(***************************************************************************)
(* Sizes derived from the configuration by the constructors.               *)
(***************************************************************************)
Size == IF BufSize < 0 THEN NumVcs * VcBufSize ELSE BufSize

\* The private policy tests buf_size <= 0 where BufferState tests < 0.
VcLimit == IF BufSize <= 0 THEN VcBufSize ELSE BufSize \div NumVcs

NumPriv == IF PrivateBufs < 0 THEN NumVcs
           ELSE IF PrivateBufs = 0 THEN 1 ELSE PrivateBufs
Parts == 0 .. NumPriv - 1
PrivSize == IF PrivateSize < 0 THEN Size \div NumPriv ELSE PrivateSize
SharedSize == Size - NumPriv * PrivSize

\* The VCs start_vc[i] .. end_vc[i] that draw on private partition i.
VcsOf(i) == ((i * NumVcs) \div NumPriv) .. (((i + 1) * NumVcs) \div NumPriv - 1)
PartOf(v) == CHOOSE i \in Parts : v \in VcsOf(i)

\* What the constructor of the shared policies asserts of the configuration.
ASSUME PartitionAssumption ==
  /\ NumPriv <= NumVcs
  /\ \A v \in Vcs : \E i \in Parts : v \in VcsOf(i)
  /\ PrivSize >= 0
  /\ SharedSize >= 0

-----------------------------------------------------------------------------
New(policy, wait) ==
  [policy    |-> policy,
   wait      |-> wait,                        \* wait_for_tail_credit
   inUseBy   |-> [v \in Vcs |-> None],
   tailSent  |-> [v \in Vcs |-> FALSE],
   occ       |-> 0,
   vcOcc     |-> [v \in Vcs |-> 0],
   privOcc   |-> [i \in Parts |-> 0],
   sharedOcc |-> 0,
   reserved  |-> [v \in Vcs |-> 0],
   activeVcs |-> 0,
   maxHeld   |-> IF policy = "limited" /\ HeldLimit >= 0 THEN HeldLimit ELSE Size,
   err       |-> FALSE]

\* Mutated form: a VC is released as soon as it is empty.
IsReleasedFor(bs, v) == bs.inUseBy[v] = None \/ bs.vcOcc[v] = 0

IsAvailableFor(bs, v) == bs.inUseBy[v] = None

IsEmptyFor(bs, v) == bs.vcOcc[v] = 0

\* Mutated form: one slot too many is taken from the shared pool.
SharedIsOverfull(bs, v) ==
  /\ bs.reserved[v] = 0
  /\ bs.privOcc[PartOf(v)] >= PrivSize
  /\ bs.sharedOcc > SharedSize

SharedIsFull(bs, v) ==
  /\ bs.reserved[v] = 0
  /\ bs.privOcc[PartOf(v)] >= PrivSize
  /\ bs.sharedOcc >= SharedSize

\* Mutated form: the private limit is off by one.
IsOverfullFor(bs, v) == bs.policy = "private" /\ bs.vcOcc[v] > VcLimit

IsFullFor(bs, v) ==
  \/ bs.policy = "private" /\ bs.vcOcc[v] >= VcLimit
  \/ bs.policy \in SharedPolicies /\ SharedIsFull(bs, v)
  \/ bs.policy \in LimitedPolicies /\ bs.vcOcc[v] >= bs.maxHeld

(***************************************************************************)
(* Moving k slots into (k > 0) or out of partition i: what exceeds the     *)
(* partition's own slots is charged to the shared pool.                    *)
(***************************************************************************)
Over(n) == IF n > PrivSize THEN n - PrivSize ELSE 0

\* Mutated form: freed slots are not given back to the shared pool.
ChargeOnly(bs, i, k) ==
  LET p == bs.privOcc[i] + k
  IN  [bs EXCEPT !.privOcc[i] = p,
                 !.sharedOcc = @ + (IF k > 0 THEN Over(p) - Over(bs.privOcc[i]) ELSE 0)]

Charge(bs, i, k) ==
  LET p == bs.privOcc[i] + k
      s == bs.sharedOcc + Over(p) - Over(bs.privOcc[i])
  IN  [bs EXCEPT !.privOcc[i] = p,
                 !.sharedOcc = s,
                 !.err = @ \/ p < 0 \/ s \notin 0 .. SharedSize]

\* Mutated form: an idle VC keeps its slot in reserve as well.
FreeSlotKept(bs, v) ==
  IF bs.policy = "private" THEN bs
  ELSE IF IsEmptyFor(bs, v) THEN [bs EXCEPT !.reserved[v] = @ + 1]
       ELSE Charge(bs, PartOf(v), -1)

FreeSlotFor(bs, v) ==
  IF bs.policy = "private" THEN bs
  ELSE IF ~IsAvailableFor(bs, v) /\ IsEmptyFor(bs, v)
       THEN [bs EXCEPT !.reserved[v] = @ + 1]
       ELSE Charge(bs, PartOf(v), -1)

\* One VC of ProcessCredit's loop over the credit's VCs.
ProcessCreditFor(bs, v) ==
  LET n == bs.vcOcc[v] - 1
      release == bs.wait /\ n = 0 /\ bs.tailSent[v]
  IN  FreeSlotFor(
        [bs EXCEPT !.occ = @ - 1,
                   !.vcOcc[v] = n,
                   !.inUseBy[v] = IF release THEN None ELSE @,
                   !.err = @ \/ (bs.wait /\ IsAvailableFor(bs, v))
                             \/ n < 0 \/ bs.occ = 0],
        v)

-----------------------------------------------------------------------------
Bits(i) == Cardinality({k \in 0 .. i : 2 ^ k <= i})

\* What TakeBuffer and SendingFlit make of _max_held_slots for n > 0 active
\* VCs: an equal share, or the size halved once per binary digit of n - 1.
HeldShare(policy, n) ==
  IF policy = "dynamic" THEN Size \div n
  ELSE Cardinality({s \in 1 .. Size : s * 2 ^ Bits(n - 1) <= Size})

PolicySending(bs, v, tail) ==
  LET charged ==
        CASE bs.policy = "private" ->
               [bs EXCEPT !.err = @ \/ bs.vcOcc[v] > VcLimit]
          [] bs.reserved[v] > 0 /\ bs.policy # "private" ->
               [bs EXCEPT !.reserved[v] = @ - 1]
          [] OTHER -> Charge(bs, PartOf(v), 1)
      freed ==
        IF bs.policy # "private" /\ tail
        THEN Charge([charged EXCEPT !.reserved[v] = 0],
                    PartOf(v), -charged.reserved[v])
        ELSE charged
      n == bs.activeVcs - 1
  IN  IF ~tail \/ bs.policy \notin LimitedPolicies THEN freed
      ELSE [freed EXCEPT
             !.activeVcs = n,
             !.maxHeld = IF bs.policy = "limited" \/ n <= 0 THEN @
                         ELSE HeldShare(bs.policy, n),
             !.err = @ \/ n < 0
                       \/ (bs.policy # "limited" /\ n > 0 /\ HeldShare(bs.policy, n) = 0)]

SendingFlit(bs, v, tail) ==
  LET counted == [bs EXCEPT !.occ = @ + 1,
                            !.vcOcc[v] = @ + 1,
                            !.err = @ \/ bs.occ + 1 > Size]
      charged == PolicySending(counted, v, tail)
  IN  IF ~tail THEN charged
      ELSE [charged EXCEPT
             !.tailSent[v] = TRUE,
             !.inUseBy[v] = IF bs.wait THEN @ ELSE None,
             !.err = @ \/ (~bs.wait /\ IsAvailableFor(bs, v))]

TakeBuffer(bs, v, tag) ==
  LET taken == [bs EXCEPT !.inUseBy[v] = tag,
                          !.tailSent[v] = FALSE,
                          !.err = @ \/ ~IsAvailableFor(bs, v)]
      n == bs.activeVcs + 1
      held == HeldShare(bs.policy, n)
  IN  CASE bs.policy \notin LimitedPolicies -> taken
        [] bs.policy = "limited" ->
             [taken EXCEPT !.activeVcs = n, !.err = @ \/ n > NumVcs]
        [] OTHER ->
             [taken EXCEPT !.activeVcs = n,
                           !.maxHeld = IF n > 0 THEN held ELSE @,
                           !.err = @ \/ n \notin 1 .. NumVcs \/ held = 0]

-----------------------------------------------------------------------------
\* The BufferStates whose VCs are taken by owners.
BufferStatesOf(owners) ==
  [policy : Policies, wait : BOOLEAN,
   inUseBy : [Vcs -> owners \cup {None}], tailSent : [Vcs -> BOOLEAN],
   occ : Int, vcOcc : [Vcs -> Int],
   privOcc : [Parts -> Int], sharedOcc : Int, reserved : [Vcs -> Int],
   activeVcs : Int, maxHeld : Int, err : BOOLEAN]
=============================================================================
