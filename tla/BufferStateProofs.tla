-------------------------- MODULE BufferStateProofs --------------------------
(***************************************************************************)
(* Proofs about BufferState: what its methods return and preserve, for     *)
(* every configuration, buffer policy and kind of owner.  CreditLink and   *)
(* the routers use it with owners of their own.                            *)
(***************************************************************************)
EXTENDS BufferState, FoldProofs

-----------------------------------------------------------------------------
(***************************************************************************)
(* What the methods of BufferState return.                                 *)
(***************************************************************************)

\* The sizes the constructors compute are integers.
LEMMA SizesAreIntegers ==
  /\ Size \in Int
  /\ NumPriv \in Nat \ {0}
  /\ PrivSize \in Int
  /\ SharedSize \in Int
  /\ VcLimit \in Int
<1>1. NumVcs * VcBufSize \in Int
  BY BufferStateAssumption
<1>2. Size \in Int /\ NumPriv \in Nat \ {0}
  BY BufferStateAssumption, <1>1 DEF Size, NumPriv
<1>3. PrivSize \in Int
  BY BufferStateAssumption, <1>2 DEF PrivSize
<1>4. SharedSize \in Int
  BY <1>2, <1>3 DEF SharedSize
<1>5. VcLimit \in Int
  BY BufferStateAssumption DEF VcLimit
<1> QED BY <1>2, <1>3, <1>4, <1>5

\* A private VC's limit is a count of slots.
LEMMA VcLimitType == VcLimit \in Nat
<1>1. CASE BufSize <= 0
  BY <1>1, BufferStateAssumption DEF VcLimit
<1>2. CASE BufSize > 0
  BY <1>2, BufferStateAssumption DEF VcLimit
<1> QED BY <1>1, <1>2, BufferStateAssumption

\* Every VC draws on one of the private partitions.
LEMMA PartOfVc == \A v \in Vcs : PartOf(v) \in Parts
  BY PartitionAssumption DEF PartOf

\* The bound on held slots that an active VC count gives is an integer.
LEMMA HeldShareType ==
  ASSUME NEW policy, NEW n \in Int, n > 0
  PROVE  HeldShare(policy, n) \in Int
<1> DEFINE S == {s \in 1 .. Size : s * 2 ^ Bits(n - 1) <= Size}
<1>1. Size \in Int
  BY SizesAreIntegers
<1>2. IsFiniteSet(1 .. Size)
  BY <1>1, FS_Interval
<1>3. Cardinality(S) \in Nat
  BY <1>2, FS_Subset, FS_CardinalityType
<1>4. Size \div n \in Int
  BY <1>1
<1> QED BY <1>3, <1>4 DEF HeldShare

\* Charging slots to a partition changes only the shared accounting.
LEMMA ChargeFrame ==
  ASSUME NEW Owners, NEW b \in BufferStatesOf(Owners), NEW i \in Parts, NEW k \in Int
  PROVE  /\ Charge(b, i, k) \in BufferStatesOf(Owners)
         /\ Charge(b, i, k).policy = b.policy
         /\ Charge(b, i, k).wait = b.wait
         /\ Charge(b, i, k).inUseBy = b.inUseBy
         /\ Charge(b, i, k).tailSent = b.tailSent
         /\ Charge(b, i, k).vcOcc = b.vcOcc
         /\ Charge(b, i, k).activeVcs = b.activeVcs
         /\ Charge(b, i, k).reserved = b.reserved
<1> DEFINE p == b.privOcc[i] + k
           pf == [b.privOcc EXCEPT ![i] = p]
           s == b.sharedOcc + Over(p) - Over(b.privOcc[i])
           e == b.err \/ p < 0 \/ s \notin 0 .. SharedSize
<1>1. b.privOcc[i] \in Int /\ p \in Int
  BY DEF BufferStatesOf
<1>2. pf \in [Parts -> Int]
  BY <1>1 DEF BufferStatesOf
<1>3. s \in Int
  BY <1>1, SizesAreIntegers DEF BufferStatesOf, Over
<1>4. e \in BOOLEAN
  BY Zenon
<1>5. Charge(b, i, k) = [b EXCEPT !.privOcc = pf, !.sharedOcc = s, !.err = e]
  BY DEF Charge
<1> HIDE DEF p, pf, s, e
<1> QED BY <1>2, <1>3, <1>4, <1>5 DEF BufferStatesOf

\* A freed slot changes only the shared accounting.
LEMMA FreeSlotFrame ==
  ASSUME NEW Owners, NEW b \in BufferStatesOf(Owners), NEW v \in Vcs
  PROVE  /\ FreeSlotFor(b, v) \in BufferStatesOf(Owners)
         /\ FreeSlotFor(b, v).policy = b.policy
         /\ FreeSlotFor(b, v).wait = b.wait
         /\ FreeSlotFor(b, v).inUseBy = b.inUseBy
         /\ FreeSlotFor(b, v).tailSent = b.tailSent
         /\ FreeSlotFor(b, v).vcOcc = b.vcOcc
<1> DEFINE r == [b.reserved EXCEPT ![v] = @ + 1]
           held == [b EXCEPT !.reserved = r]
<1>1. r \in [Vcs -> Int]
  BY DEF BufferStatesOf
<1>2. /\ held \in BufferStatesOf(Owners)
      /\ held.policy = b.policy /\ held.wait = b.wait
      /\ held.inUseBy = b.inUseBy /\ held.tailSent = b.tailSent
      /\ held.vcOcc = b.vcOcc
  <2> HIDE DEF r
  <2> QED BY <1>1 DEF BufferStatesOf
<1>3. FreeSlotFor(b, v) \in {b, held, Charge(b, PartOf(v), -1)}
  BY DEF FreeSlotFor
<1>4. PartOf(v) \in Parts
  BY PartOfVc
<1>5. -1 \in Int
  OBVIOUS
<1> DEFINE charged == Charge(b, PartOf(v), -1)
<1>6. /\ charged \in BufferStatesOf(Owners)
      /\ charged.policy = b.policy /\ charged.wait = b.wait
      /\ charged.inUseBy = b.inUseBy /\ charged.tailSent = b.tailSent
      /\ charged.vcOcc = b.vcOcc
  BY <1>4, <1>5, ChargeFrame
<1> HIDE DEF held, charged
<1>7. CASE FreeSlotFor(b, v) = b
  BY <1>7
<1>8. CASE FreeSlotFor(b, v) = held
  BY <1>2, <1>8
<1>9. CASE FreeSlotFor(b, v) = charged
  BY <1>6, <1>9
<1> QED BY <1>3, <1>7, <1>8, <1>9 DEF charged

\* A credit lowers the VC's occupancy by one; with wait_for_tail_credit the
\* last credit of a packet whose tail was sent releases the VC.
LEMMA ProcessCreditEffect ==
  ASSUME NEW Owners, NEW b \in BufferStatesOf(Owners), NEW v \in Vcs
  PROVE  LET c == ProcessCreditFor(b, v)
         IN  /\ c \in BufferStatesOf(Owners)
             /\ c.policy = b.policy
             /\ c.wait = b.wait
             /\ c.tailSent = b.tailSent
             /\ c.vcOcc = [b.vcOcc EXCEPT ![v] = @ - 1]
             /\ c.inUseBy = IF b.wait /\ b.vcOcc[v] = 1 /\ b.tailSent[v]
                            THEN [b.inUseBy EXCEPT ![v] = None]
                            ELSE b.inUseBy
<1> DEFINE n == b.vcOcc[v] - 1
           o == [b.vcOcc EXCEPT ![v] = n]
           rel == b.wait /\ n = 0 /\ b.tailSent[v]
           u == [b.inUseBy EXCEPT ![v] = IF rel THEN None ELSE @]
           e == b.err \/ (b.wait /\ IsAvailableFor(b, v)) \/ n < 0 \/ b.occ = 0
           k == b.occ - 1
           d == [b EXCEPT !.occ = k, !.vcOcc = o, !.inUseBy = u, !.err = e]
<1>1. o \in [Vcs -> Int] /\ k \in Int
  BY DEF BufferStatesOf
<1>2. u \in [Vcs -> Owners \cup {None}]
  BY DEF BufferStatesOf
<1>3. e \in BOOLEAN
  BY Zenon
<1>4. ProcessCreditFor(b, v) = FreeSlotFor(d, v)
  BY DEF ProcessCreditFor
<1>5. n = 0 <=> b.vcOcc[v] = 1
  BY DEF BufferStatesOf
<1>6. u = IF rel THEN [b.inUseBy EXCEPT ![v] = None] ELSE b.inUseBy
  BY DEF BufferStatesOf
<1>7. /\ d \in BufferStatesOf(Owners)
      /\ d.policy = b.policy /\ d.wait = b.wait /\ d.tailSent = b.tailSent
      /\ d.vcOcc = o /\ d.inUseBy = u
  <2> HIDE DEF o, u, e, k
  <2> QED BY <1>1, <1>2, <1>3 DEF BufferStatesOf
<1> HIDE DEF d, u
<1> QED BY <1>4, <1>5, <1>6, <1>7, FreeSlotFrame

\* The policy's part of sending a flit leaves ownership and occupancy alone.
LEMMA PolicySendingFrame ==
  ASSUME NEW Owners, NEW b \in BufferStatesOf(Owners), NEW v \in Vcs, NEW tail \in BOOLEAN
  PROVE  LET c == PolicySending(b, v, tail)
         IN  /\ c \in BufferStatesOf(Owners)
             /\ c.policy = b.policy
             /\ c.wait = b.wait
             /\ c.inUseBy = b.inUseBy
             /\ c.tailSent = b.tailSent
             /\ c.vcOcc = b.vcOcc
<1> DEFINE Same(c) == /\ c \in BufferStatesOf(Owners)
                      /\ c.policy = b.policy /\ c.wait = b.wait
                      /\ c.inUseBy = b.inUseBy /\ c.tailSent = b.tailSent
                      /\ c.vcOcc = b.vcOcc
           e == b.err \/ b.vcOcc[v] > VcLimit
           flagged == [b EXCEPT !.err = e]
           used == [b EXCEPT !.reserved[v] = @ - 1]
           charged ==
             CASE b.policy = "private" -> [b EXCEPT !.err = @ \/ b.vcOcc[v] > VcLimit]
               [] b.reserved[v] > 0 /\ b.policy # "private" -> used
               [] OTHER -> Charge(b, PartOf(v), 1)
           cleared == [charged EXCEPT !.reserved[v] = 0]
           freed == IF b.policy # "private" /\ tail
                    THEN Charge(cleared, PartOf(v), -charged.reserved[v])
                    ELSE charged
           n == b.activeVcs - 1
           held == IF b.policy = "limited" \/ n <= 0 THEN freed.maxHeld
                   ELSE HeldShare(b.policy, n)
           e2 == freed.err \/ n < 0
                   \/ (b.policy # "limited" /\ n > 0 /\ HeldShare(b.policy, n) = 0)
           done2 == [freed EXCEPT !.activeVcs = n, !.maxHeld = held, !.err = e2]
<1>1. PartOf(v) \in Parts
  BY PartOfVc
<1>2. Same(flagged)
  <2>1. e \in BOOLEAN
    BY Zenon
  <2> HIDE DEF e
  <2> QED BY <2>1 DEF BufferStatesOf
<1>3. Same(used)
  BY DEF BufferStatesOf
<1>4. Same(Charge(b, PartOf(v), 1))
  BY <1>1, ChargeFrame
<1>5. Same(charged)
  <2>1. charged \in {flagged, used, Charge(b, PartOf(v), 1)}
    OBVIOUS
  <2> HIDE DEF charged, flagged, used
  <2> QED BY <2>1, <1>2, <1>3, <1>4
<1>6. Same(freed)
  <2> HIDE DEF charged
  <2>1. Same(cleared)
    BY <1>5 DEF BufferStatesOf
  <2>2. -charged.reserved[v] \in Int
    BY <1>5 DEF BufferStatesOf
  <2> HIDE DEF cleared
  <2>3. Same(Charge(cleared, PartOf(v), -charged.reserved[v]))
    BY <1>1, <2>1, <2>2, ChargeFrame
  <2> QED BY <1>5, <2>3
<1>7. Same(done2)
  <2> HIDE DEF freed
  <2>1. n \in Int
    BY DEF BufferStatesOf
  <2>2. held \in Int
    BY <1>6, <2>1, HeldShareType DEF BufferStatesOf
  <2>3. e2 \in BOOLEAN
    BY Zenon
  <2> HIDE DEF n, held, e2
  <2> QED BY <1>6, <2>1, <2>2, <2>3 DEF BufferStatesOf
<1>8. PolicySending(b, v, tail) \in {freed, done2}
  BY DEF PolicySending
<1> HIDE DEF freed, done2
<1> QED BY <1>6, <1>7, <1>8

\* Sending a flit takes one more slot; the tail marks the VC and, unless the
\* sender waits for the tail's credit, releases it.
LEMMA SendingFlitEffect ==
  ASSUME NEW Owners, NEW b \in BufferStatesOf(Owners), NEW v \in Vcs, NEW tail \in BOOLEAN
  PROVE  LET c == SendingFlit(b, v, tail)
         IN  /\ c \in BufferStatesOf(Owners)
             /\ c.policy = b.policy
             /\ c.wait = b.wait
             /\ c.vcOcc = [b.vcOcc EXCEPT ![v] = @ + 1]
             /\ c.tailSent = IF tail THEN [b.tailSent EXCEPT ![v] = TRUE] ELSE b.tailSent
             /\ c.inUseBy = IF tail /\ ~b.wait THEN [b.inUseBy EXCEPT ![v] = None]
                            ELSE b.inUseBy
<1> DEFINE o == [b.vcOcc EXCEPT ![v] = @ + 1]
           k == b.occ + 1
           e == b.err \/ b.occ + 1 > Size
           counted == [b EXCEPT !.occ = k, !.vcOcc = o, !.err = e]
           c == PolicySending(counted, v, tail)
           t == [c.tailSent EXCEPT ![v] = TRUE]
           u == [c.inUseBy EXCEPT ![v] = IF b.wait THEN @ ELSE None]
           e2 == c.err \/ (~b.wait /\ IsAvailableFor(b, v))
           ended == [c EXCEPT !.tailSent = t, !.inUseBy = u, !.err = e2]
<1>1. /\ counted \in BufferStatesOf(Owners)
      /\ counted.policy = b.policy /\ counted.wait = b.wait
      /\ counted.inUseBy = b.inUseBy /\ counted.tailSent = b.tailSent
      /\ counted.vcOcc = o
  <2>1. o \in [Vcs -> Int] /\ k \in Int
    BY DEF BufferStatesOf
  <2>2. e \in BOOLEAN
    BY Zenon
  <2> HIDE DEF o, k, e
  <2> QED BY <2>1, <2>2 DEF BufferStatesOf
<1>2. /\ c \in BufferStatesOf(Owners)
      /\ c.policy = b.policy /\ c.wait = b.wait
      /\ c.inUseBy = b.inUseBy /\ c.tailSent = b.tailSent
      /\ c.vcOcc = o
  <2> HIDE DEF counted
  <2> QED BY <1>1, PolicySendingFrame
<1>3. SendingFlit(b, v, tail) = IF tail THEN ended ELSE c
  BY DEF SendingFlit
<1>4. /\ ended \in BufferStatesOf(Owners)
      /\ ended.policy = b.policy /\ ended.wait = b.wait
      /\ ended.vcOcc = o /\ ended.tailSent = t /\ ended.inUseBy = u
  <2> HIDE DEF c
  <2>1. t \in [Vcs -> BOOLEAN]
    BY <1>2 DEF BufferStatesOf
  <2>2. u \in [Vcs -> Owners \cup {None}]
    BY <1>2 DEF BufferStatesOf
  <2>3. e2 \in BOOLEAN
    BY Zenon
  <2> HIDE DEF t, u, e2, o
  <2> QED BY <1>2, <2>1, <2>2, <2>3 DEF BufferStatesOf
<1>5. u = IF ~b.wait THEN [b.inUseBy EXCEPT ![v] = None] ELSE b.inUseBy
  <2> HIDE DEF c
  <2> QED BY <1>2 DEF BufferStatesOf
<1>6. t = [b.tailSent EXCEPT ![v] = TRUE]
  <2> HIDE DEF c
  <2> QED BY <1>2
<1> HIDE DEF c, ended, t, u
<1> QED BY <1>2, <1>3, <1>4, <1>5, <1>6

\* Taking a VC records its new owner and forgets the last packet's tail.
LEMMA TakeBufferEffect ==
  ASSUME NEW Owners, NEW b \in BufferStatesOf(Owners), NEW v \in Vcs, NEW tag \in Owners
  PROVE  LET c == TakeBuffer(b, v, tag)
         IN  /\ c \in BufferStatesOf(Owners)
             /\ c.policy = b.policy
             /\ c.wait = b.wait
             /\ c.vcOcc = b.vcOcc
             /\ c.inUseBy = [b.inUseBy EXCEPT ![v] = tag]
             /\ c.tailSent = [b.tailSent EXCEPT ![v] = FALSE]
<1> DEFINE u == [b.inUseBy EXCEPT ![v] = tag]
           t == [b.tailSent EXCEPT ![v] = FALSE]
           e == b.err \/ ~IsAvailableFor(b, v)
           taken == [b EXCEPT !.inUseBy = u, !.tailSent = t, !.err = e]
           n == b.activeVcs + 1
           held == IF n > 0 THEN HeldShare(b.policy, n) ELSE taken.maxHeld
           e1 == taken.err \/ n > NumVcs
           e2 == taken.err \/ n \notin 1 .. NumVcs \/ HeldShare(b.policy, n) = 0
           Same(c) == /\ c \in BufferStatesOf(Owners)
                      /\ c.policy = b.policy /\ c.wait = b.wait
                      /\ c.vcOcc = b.vcOcc /\ c.inUseBy = u /\ c.tailSent = t
           limited == [taken EXCEPT !.activeVcs = n, !.err = e1]
           shared == [taken EXCEPT !.activeVcs = n, !.maxHeld = held, !.err = e2]
<1>1. Same(taken)
  <2>1. u \in [Vcs -> Owners \cup {None}] /\ t \in [Vcs -> BOOLEAN]
    BY DEF BufferStatesOf
  <2>2. e \in BOOLEAN
    BY Zenon
  <2> HIDE DEF u, t, e
  <2> QED BY <2>1, <2>2 DEF BufferStatesOf
<1>2. n \in Int
  BY DEF BufferStatesOf
<1>3. e1 \in BOOLEAN /\ e2 \in BOOLEAN
  BY Zenon
<1>4. Same(limited)
  <2> HIDE DEF taken, n, e1
  <2> QED BY <1>1, <1>2, <1>3 DEF BufferStatesOf
<1>5. Same(shared)
  <2>1. held \in Int
    <3> HIDE DEF taken
    <3> QED BY <1>1, <1>2, HeldShareType DEF BufferStatesOf
  <2> HIDE DEF taken, n, e2, held
  <2> QED BY <1>1, <1>2, <1>3, <2>1 DEF BufferStatesOf
<1>6. TakeBuffer(b, v, tag) \in {taken, limited, shared}
  BY DEF TakeBuffer
<1> HIDE DEF taken, limited, shared
<1> QED BY <1>1, <1>4, <1>5, <1>6

\* A fresh BufferState.
LEMMA NewType ==
  ASSUME NEW Owners, NEW policy \in Policies, NEW wait \in BOOLEAN
  PROVE  /\ New(policy, wait) \in BufferStatesOf(Owners)
         /\ New(policy, wait).policy = policy
         /\ New(policy, wait).vcOcc = [v \in Vcs |-> 0]
         /\ New(policy, wait).inUseBy = [v \in Vcs |-> None]
<1> DEFINE held == IF policy = "limited" /\ HeldLimit >= 0 THEN HeldLimit ELSE Size
<1>1. held \in Int
  BY BufferStateAssumption, SizesAreIntegers
<1> HIDE DEF held
<1> QED BY <1>1 DEF New, BufferStatesOf, held

-----------------------------------------------------------------------------
(***************************************************************************)
(* The slots of the shared policies: the partitions of the VCs, and what   *)
(* charging a slot does to the accounts.                                   *)
(***************************************************************************)
LEMMA DivMonotone ==
  ASSUME NEW a \in Int, NEW b \in Int, NEW n \in Nat \ {0}, a <= b
  PROVE  a \div n <= b \div n
OBVIOUS

LEMMA TimesMonotone ==
  ASSUME NEW a \in Int, NEW b \in Int, NEW n \in Nat, a <= b
  PROVE  a * n <= b * n
OBVIOUS

\* The first VC of partition i, and of the one after it.
LEMMA PartBounds ==
  ASSUME NEW i \in Int, NEW j \in Int, i <= j
  PROVE  /\ (i * NumVcs) \div NumPriv \in Int
         /\ (i * NumVcs) \div NumPriv <= (j * NumVcs) \div NumPriv
<1>1. NumVcs \in Nat /\ NumPriv \in Nat \ {0}
  BY BufferStateAssumption, SizesAreIntegers
<1>2. i * NumVcs \in Int /\ j * NumVcs \in Int /\ i * NumVcs <= j * NumVcs
  BY <1>1, TimesMonotone
<1> DEFINE a == i * NumVcs
           b == j * NumVcs
<1> HIDE DEF a, b
<1>3. a \in Int /\ b \in Int /\ a <= b
  BY <1>2 DEF a, b
<1>4. a \div NumPriv <= b \div NumPriv
  BY <1>1, <1>3, DivMonotone
<1>5. a \div NumPriv \in Int
  BY <1>1, <1>3
<1> QED BY <1>4, <1>5 DEF a, b

\* The partitions divide the VCs among them.
LEMMA Partition ==
  /\ IsFiniteSet(Parts) /\ Cardinality(Parts) = NumPriv
  /\ IsFiniteSet(Vcs) /\ Cardinality(Vcs) = NumVcs
  /\ \A i \in Parts : IsFiniteSet(VcsOf(i)) /\ VcsOf(i) \subseteq Vcs
  /\ \A i, j \in Parts : i # j => VcsOf(i) \cap VcsOf(j) = {}
  /\ UNION {VcsOf(i) : i \in Parts} = Vcs
<1> DEFINE first(i) == (i * NumVcs) \div NumPriv
<1>0. NumVcs \in Nat \ {0} /\ NumPriv \in Nat \ {0}
  BY BufferStateAssumption, SizesAreIntegers
<1>1. /\ IsFiniteSet(Parts) /\ Cardinality(Parts) = NumPriv
      /\ IsFiniteSet(Vcs) /\ Cardinality(Vcs) = NumVcs
  BY <1>0, FS_Interval DEF Parts, Vcs
<1>2. first(0) = 0 /\ first(NumPriv) = NumVcs
  <2>1. 0 * NumVcs = 0 /\ 0 \div NumPriv = 0
    BY <1>0
  <2>2. (NumPriv * NumVcs) \div NumPriv = NumVcs
    BY <1>0
  <2> QED BY <2>1, <2>2
<1>3. \A i, j \in Int : i <= j => first(i) \in Int /\ first(i) <= first(j)
  BY PartBounds
<1>4. \A i : VcsOf(i) = first(i) .. (first(i + 1) - 1)
  BY DEF VcsOf
<1> HIDE DEF first
<1>5. \A i \in Parts : i \in Int /\ 0 <= i /\ i + 1 <= NumPriv
  BY <1>0 DEF Parts
<1>6. ASSUME NEW i \in Parts
      PROVE  IsFiniteSet(VcsOf(i)) /\ VcsOf(i) \subseteq Vcs
  <2>1. /\ first(i) \in Int /\ first(i + 1) \in Int
        /\ 0 <= first(i) /\ first(i + 1) <= NumVcs
    BY <1>0, <1>2, <1>3, <1>5
  <2>2. VcsOf(i) = first(i) .. (first(i + 1) - 1) /\ first(i + 1) - 1 \in Int
    BY <1>4, <2>1
  <2>3. IsFiniteSet(VcsOf(i))
    BY <2>1, <2>2, FS_Interval
  <2>4. VcsOf(i) \subseteq Vcs
    BY <1>0, <2>1, <2>2 DEF Vcs
  <2> QED BY <2>3, <2>4
<1>7. ASSUME NEW i \in Parts, NEW j \in Parts, i < j
      PROVE  VcsOf(i) \cap VcsOf(j) = {}
  <2>1. /\ first(i) \in Int /\ first(i + 1) \in Int /\ first(j) \in Int
        /\ first(j + 1) \in Int /\ first(i + 1) <= first(j)
    BY <1>3, <1>5, <1>7
  <2> QED BY <1>4, <2>1
<1>8. \A i, j \in Parts : i # j => VcsOf(i) \cap VcsOf(j) = {}
  <2>1. \A i, j \in Parts : i # j => i < j \/ j < i
    BY <1>5
  <2> QED BY <1>7, <2>1
<1>9. UNION {VcsOf(i) : i \in Parts} = Vcs
  BY <1>6, PartitionAssumption
<1> QED BY <1>1, <1>6, <1>8, <1>9

\* The slots of each VC that a shared policy counts: a flit occupies it, or a
\* packet keeps it in reserve.
Held(b) == [v \in Vcs |-> b.vcOcc[v] + b.reserved[v]]

\* The accounts of a shared policy agree with the held slots h.
Accounts(b, h) ==
  /\ \A i \in Parts : b.privOcc[i] = SumFunctionOnSet(h, VcsOf(i))
  /\ b.sharedOcc = SumFunction([i \in Parts |-> Over(b.privOcc[i])])

\* What accounts that agree say of their values.
LEMMA AccountsNat ==
  ASSUME NEW Owners, NEW b \in BufferStatesOf(Owners), NEW h \in [Vcs -> Nat],
         Accounts(b, h)
  PROVE  (\A i \in Parts : b.privOcc[i] \in Nat) /\ b.sharedOcc \in Nat
<1>1. ASSUME NEW i \in Parts PROVE b.privOcc[i] \in Nat
  <2>1. IsFiniteSet(VcsOf(i)) /\ \A v \in VcsOf(i) : h[v] \in Nat
    BY Partition
  <2> QED BY <2>1, SumNat DEF Accounts
<1> DEFINE o == [i \in Parts |-> Over(b.privOcc[i])]
<1>2. \A i \in Parts : o[i] \in Nat
  BY <1>1, SizesAreIntegers DEF Over
<1>3. DOMAIN o = Parts
  OBVIOUS
<1> HIDE DEF o
<1>4. SumFunction(o) \in Nat
  BY <1>2, <1>3, SumNat, Partition DEF SumFunction
<1> QED BY <1>1, <1>4 DEF Accounts, o

\* Charging k slots to a VC's partition keeps the accounts in agreement when
\* the VC holds k more; it fails only if the shared pool is exceeded.
LEMMA ChargeAccounts ==
  ASSUME NEW Owners, NEW b \in BufferStatesOf(Owners), NEW v \in Vcs, NEW k \in Int,
         NEW h \in [Vcs -> Nat], NEW g \in [Vcs -> Nat],
         Accounts(b, h), g = [h EXCEPT ![v] = @ + k]
  PROVE  LET c == Charge(b, PartOf(v), k)
         IN  /\ Accounts(c, g)
             /\ c.err <=> b.err \/ c.sharedOcc > SharedSize
             /\ c.sharedOcc = b.sharedOcc + Over(b.privOcc[PartOf(v)] + k)
                              - Over(b.privOcc[PartOf(v)])
<1> DEFINE p == PartOf(v)
           n == b.privOcc[p] + k
           pf == [b.privOcc EXCEPT ![p] = n]
           s == b.sharedOcc + Over(n) - Over(b.privOcc[p])
           e == b.err \/ n < 0 \/ s \notin 0 .. SharedSize
           c == [b EXCEPT !.privOcc = pf, !.sharedOcc = s, !.err = e]
           o == [i \in Parts |-> Over(b.privOcc[i])]
           q == [i \in Parts |-> Over(pf[i])]
<1>1. p \in Parts /\ v \in VcsOf(p)
  BY PartitionAssumption DEF PartOf
<1>2. \A i \in Parts : i # p => v \notin VcsOf(i)
  BY <1>1, Partition
<1>3. b.privOcc \in [Parts -> Int] /\ b.sharedOcc \in Int
  BY DEF BufferStatesOf
<1>4. Charge(b, PartOf(v), k) = c
  BY DEF Charge
<1>5. \A i \in Parts : b.privOcc[i] = SumFunctionOnSet(h, VcsOf(i))
  BY DEF Accounts
<1>6. /\ c.privOcc = pf /\ c.sharedOcc = s /\ c.err = e
  <2> HIDE DEF pf, s, e
  <2> QED BY DEF BufferStatesOf
<1> HIDE DEF p
<1>7. ASSUME NEW i \in Parts
      PROVE  pf[i] = SumFunctionOnSet(g, VcsOf(i))
  <2>1. IsFiniteSet(VcsOf(i)) /\ VcsOf(i) \subseteq Vcs
    BY Partition
  <2>2. \A u \in VcsOf(i) : h[u] \in Int /\ g[u] \in Int
    BY <2>1
  <2>3. CASE i = p
    <3>1. v \in VcsOf(i) /\ \A u \in VcsOf(i) \ {v} : g[u] = h[u]
      BY <1>1, <2>1, <2>3
    <3>2. SumFunctionOnSet(g, VcsOf(i)) = SumFunctionOnSet(h, VcsOf(i)) - h[v] + g[v]
      <4> DEFINE S == VcsOf(i)
      <4>1. /\ IsFiniteSet(S) /\ v \in S /\ g[v] \in Int
            /\ \A u \in S : h[u] \in Int
            /\ \A u \in S \ {v} : g[u] = h[u]
        BY <2>1, <2>2, <3>1
      <4> HIDE DEF S
      <4>2. SumFunctionOnSet(g, S) = SumFunctionOnSet(h, S) - h[v] + g[v]
        BY ONLY <4>1, SumUpdate
      <4> QED BY <4>2 DEF S
    <3>3. g[v] = h[v] + k /\ h[v] \in Int
      OBVIOUS
    <3>4. pf[i] = b.privOcc[i] + k /\ b.privOcc[i] \in Int
      BY <1>3, <2>3
    <3> QED BY <1>5, <3>2, <3>3, <3>4
  <2>4. CASE i # p
    <3>1. \A u \in VcsOf(i) : g[u] = h[u]
      BY <1>2, <2>1, <2>4
    <3>2. SumFunctionOnSet(g, VcsOf(i)) = SumFunctionOnSet(h, VcsOf(i))
      BY <2>1, <2>2, <3>1, SumCongruent
    <3> QED BY <1>3, <1>5, <2>4, <3>2
  <2> QED BY <2>3, <2>4
<1>8. \A i \in Parts : o[i] \in Int /\ q[i] \in Int
  <2>1. \A i \in Parts : b.privOcc[i] \in Int /\ pf[i] \in Int
    BY <1>3
  <2> HIDE DEF pf
  <2> QED BY <2>1, SizesAreIntegers DEF Over
<1>9. s = SumFunction(q)
  <2>1. b.sharedOcc = SumFunctionOnSet(o, Parts)
    BY DEF Accounts, SumFunction
  <2>2. SumFunction(q) = SumFunctionOnSet(q, Parts)
    BY DEF SumFunction
  <2>3. \A i \in Parts \ {p} : q[i] = o[i]
    BY <1>3
  <2>4. o[p] = Over(b.privOcc[p]) /\ q[p] = Over(n)
    BY <1>1, <1>3
  <2> HIDE DEF o, q, n
  <2>5. SumFunctionOnSet(q, Parts) = SumFunctionOnSet(o, Parts) - o[p] + q[p]
    BY <1>1, <1>8, <2>3, SumUpdate, Partition
  <2>6. SumFunctionOnSet(o, Parts) \in Int /\ o[p] \in Int /\ q[p] \in Int
    BY <1>1, <1>3, <1>8, <2>1
  <2> QED BY <2>1, <2>2, <2>4, <2>5, <2>6
<1>10. Accounts(c, g)
  <2> HIDE DEF c, pf, s
  <2> QED BY <1>6, <1>7, <1>9 DEF Accounts
<1>11. e <=> b.err \/ s > SharedSize
  <2>1. c \in BufferStatesOf(Owners)
    BY <1>1, <1>4, ChargeFrame DEF p
  <2>2. (\A i \in Parts : c.privOcc[i] \in Nat) /\ c.sharedOcc \in Nat
    <3> HIDE DEF c
    <3> QED BY <1>10, <2>1, AccountsNat
  <2>3. n \in Nat /\ s \in Nat
    <3>1. pf[p] = n
      BY <1>1, <1>3
    <3> HIDE DEF c, pf, s, n
    <3> QED BY <1>1, <1>6, <2>2, <3>1
  <2> HIDE DEF n, s
  <2> QED BY <2>3, SizesAreIntegers DEF e
<1> HIDE DEF c, s, e
<1>12. c.sharedOcc = s /\ c.err = e
  BY <1>6
<1>13. s = b.sharedOcc + Over(b.privOcc[p] + k) - Over(b.privOcc[p])
  BY DEF s
<1> HIDE DEF n, pf, o, q
<1> QED BY <1>4, <1>10, <1>11, <1>12, <1>13 DEF p

-----------------------------------------------------------------------------
(***************************************************************************)
(* A sound BufferState: its counters agree with each other and with the    *)
(* packets that hold the VCs.  Every method preserves this when it is      *)
(* called as the routers and the traffic manager call it.                  *)
(***************************************************************************)
\* The VCs that have been taken for a packet whose tail has not been sent.
Taken(b) == {v \in Vcs : b.inUseBy[v] # None /\ ~b.tailSent[v]}

OccupancySound(b) ==
  /\ \A v \in Vcs : b.vcOcc[v] >= 0
  /\ b.occ = SumFunction(b.vcOcc)
  /\ b.policy = "private" => \A v \in Vcs : b.vcOcc[v] <= VcLimit
  /\ \A v \in Vcs : b.wait /\ b.inUseBy[v] = None => b.vcOcc[v] = 0

ReserveSound(b) ==
  \A v \in Vcs : b.reserved[v] # 0 =>
    /\ b.policy # "private" /\ b.reserved[v] = 1
    /\ v \in Taken(b) /\ b.vcOcc[v] = 0

SharingSound(b) ==
  b.policy \in SharedPolicies => Accounts(b, Held(b)) /\ b.sharedOcc <= SharedSize

ActiveSound(b) ==
  b.policy \in LimitedPolicies => b.activeVcs = Cardinality(Taken(b))

\* A sender that does not wait for the tail's credit gives a VC up with its tail.
OwnerSound(b) == ~b.wait => \A v \in Vcs : b.inUseBy[v] # None => ~b.tailSent[v]

Sound(b) == /\ OccupancySound(b)
            /\ ReserveSound(b)
            /\ SharingSound(b)
            /\ ActiveSound(b)
            /\ OwnerSound(b)

\* The configurations in which the buffer has room for what a policy promises:
\* a private buffer has slots at all, and the share of each of the active VCs
\* that the dynamic policies compute is never empty (they assert it).
Workable(policy) ==
  /\ policy = "private" => BufSize # 0
  /\ policy \in {"dynamic", "shifting"} =>
       \A n \in 1 .. NumVcs : HeldShare(policy, n) # 0

\* The held slots of a sound BufferState are counts.
LEMMA HeldType ==
  ASSUME NEW Owners, NEW b \in BufferStatesOf(Owners),
         OccupancySound(b), ReserveSound(b)
  PROVE  /\ Held(b) \in [Vcs -> Nat]
         /\ \A v \in Vcs : /\ b.vcOcc[v] \in Nat /\ b.reserved[v] \in {0, 1}
                           /\ Held(b)[v] = b.vcOcc[v] + b.reserved[v]
<1>1. \A v \in Vcs : b.vcOcc[v] \in Nat /\ b.reserved[v] \in {0, 1}
  BY DEF OccupancySound, ReserveSound, BufferStatesOf
<1> QED BY <1>1 DEF Held

\* The limits of the VCs fit into a buffer that has slots at all.
LEMMA LimitsFit ==
  ASSUME BufSize # 0
  PROVE  NumVcs * VcLimit <= Size
<1>1. NumVcs \in Nat \ {0} /\ Size \in Int /\ VcLimit \in Int
  BY BufferStateAssumption, SizesAreIntegers
<1>2. CASE BufSize < 0
  BY <1>1, <1>2, BufferStateAssumption DEF VcLimit, Size
<1>3. CASE BufSize > 0
  <2>1. NumVcs * (BufSize \div NumVcs) <= BufSize
    BY <1>1, <1>3, BufferStateAssumption
  <2>2. VcLimit = BufSize \div NumVcs /\ Size = BufSize
    BY <1>3, BufferStateAssumption DEF VcLimit, Size
  <2> QED BY <2>1, <2>2
<1> QED BY <1>2, <1>3, BufferStateAssumption

\* All the VCs together never occupy more than the buffer, whatever policy
\* shares it among them.
LEMMA SoundCapacity ==
  ASSUME NEW Owners, NEW b \in BufferStatesOf(Owners), Sound(b), Workable(b.policy)
  PROVE  SumFunction(b.vcOcc) <= Size
<1>0. /\ NumVcs \in Nat \ {0} /\ NumPriv \in Nat \ {0}
      /\ Size \in Int /\ PrivSize \in Int /\ SharedSize \in Int /\ VcLimit \in Int
  BY BufferStateAssumption, SizesAreIntegers
<1>1. /\ b.vcOcc \in [Vcs -> Int] /\ b.policy \in Policies
      /\ SumFunction(b.vcOcc) = SumFunctionOnSet(b.vcOcc, Vcs)
  BY DEF BufferStatesOf, SumFunction
<1> DEFINE total == SumFunctionOnSet(b.vcOcc, Vcs)
<1>2. total \in Int
  BY <1>1, SumType, Partition
<1>3. CASE b.policy = "private"
  <2>1. \A v \in Vcs : b.vcOcc[v] \in Int /\ b.vcOcc[v] <= VcLimit
    BY <1>1, <1>3 DEF Sound, OccupancySound
  <2>2. total <= NumVcs * VcLimit
    <3>1. total <= Cardinality(Vcs) * VcLimit
      BY <1>0, <2>1, SumAtMost, Partition
    <3> QED BY <3>1, Partition
  <2>3. BufSize # 0
    BY <1>3 DEF Workable
  <2>4. NumVcs * VcLimit <= Size
    BY <2>3, LimitsFit
  <2>5. NumVcs * VcLimit \in Int
    BY <1>0
  <2> HIDE DEF total
  <2>6. total <= Size
    BY <1>0, <1>2, <2>2, <2>4, <2>5
  <2> QED BY <1>1, <2>6 DEF total
<1>4. CASE b.policy \in SharedPolicies
  <2> DEFINE h == Held(b)
             o == [i \in Parts |-> Over(b.privOcc[i])]
             own == [i \in Parts |-> b.privOcc[i] - Over(b.privOcc[i])]
             D == [i \in Parts |-> VcsOf(i)]
  <2>1. Accounts(b, h) /\ b.sharedOcc <= SharedSize /\ h \in [Vcs -> Nat]
    BY <1>4, HeldType DEF Sound, SharingSound
  <2>2. total <= SumFunctionOnSet(h, Vcs)
    <3>1. \A v \in Vcs : b.vcOcc[v] \in Int /\ h[v] \in Int /\ b.vcOcc[v] <= h[v]
      BY <1>1, HeldType DEF Sound
    <3> HIDE DEF h
    <3> QED BY <3>1, SumMonotone, Partition
  <2>3. SumFunctionOnSet(h, Vcs) = SumFunctionOnSet(b.privOcc, Parts)
    <3>1. \A i \in Parts : /\ IsFiniteSet(D[i]) /\ b.privOcc[i] = SumFunctionOnSet(h, D[i])
                           /\ \A v \in D[i] : h[v] \in Int
      <4>1. \A i \in Parts : b.privOcc[i] = SumFunctionOnSet(h, VcsOf(i))
        BY <2>1 DEF Accounts
      <4>2. \A i \in Parts : IsFiniteSet(VcsOf(i)) /\ \A v \in VcsOf(i) : h[v] \in Int
        BY <2>1, Partition
      <4> HIDE DEF h
      <4> QED BY <4>1, <4>2
    <3>2. \A i, j \in Parts : i # j => D[i] \cap D[j] = {}
      BY Partition
    <3>3. UNION {D[i] : i \in Parts} = Vcs
      BY Partition
    <3> HIDE DEF D, h
    <3>4. SumFunctionOnSet(b.privOcc, Parts) = SumFunctionOnSet(h, UNION {D[i] : i \in Parts})
      <4>1. IsFiniteSet(Parts)
        BY Partition
      <4> QED BY ONLY <3>1, <3>2, <4>1, SumParts
    <3> QED BY <3>3, <3>4
  <2>4. \A i \in Parts : /\ b.privOcc[i] \in Int /\ own[i] \in Int /\ o[i] \in Int
                         /\ b.privOcc[i] = own[i] + o[i] /\ own[i] <= PrivSize
    <3>1. \A i \in Parts : b.privOcc[i] \in Int
      BY DEF BufferStatesOf
    <3> QED BY <3>1, <1>0 DEF Over
  <2>5. b.sharedOcc = SumFunctionOnSet(o, Parts) /\ b.sharedOcc \in Int
    BY <2>1 DEF Accounts, SumFunction, BufferStatesOf
  <2> HIDE DEF h, o, own
  <2>6. SumFunctionOnSet(b.privOcc, Parts)
          = SumFunctionOnSet(own, Parts) + SumFunctionOnSet(o, Parts)
    BY <2>4, SumPlus, Partition
  <2>7. SumFunctionOnSet(own, Parts) \in Int /\ SumFunctionOnSet(own, Parts) <= NumPriv * PrivSize
    <3>1. SumFunctionOnSet(own, Parts) <= Cardinality(Parts) * PrivSize
      BY <1>0, <2>4, SumAtMost, Partition
    <3>2. SumFunctionOnSet(own, Parts) \in Int
      BY <2>4, SumType, Partition
    <3> QED BY <3>1, <3>2, Partition
  <2>8. NumPriv * PrivSize \in Int /\ Size = NumPriv * PrivSize + SharedSize
    <3>1. NumPriv * PrivSize \in Int
      BY <1>0
    <3> QED BY <1>0, <3>1 DEF SharedSize
  <2> HIDE DEF total
  <2>9. total <= Size
    BY <1>0, <1>2, <2>1, <2>2, <2>3, <2>5, <2>6, <2>7, <2>8
  <2> QED BY <1>1, <2>9 DEF total
<1> QED BY <1>1, <1>3, <1>4 DEF Policies, SharedPolicies

\* How many VCs are taken.
LEMMA TakenCount ==
  ASSUME NEW Owners, NEW b \in BufferStatesOf(Owners)
  PROVE  IsFiniteSet(Taken(b)) /\ Cardinality(Taken(b)) \in 0 .. NumVcs
<1>1. IsFiniteSet(Vcs) /\ Cardinality(Vcs) = NumVcs /\ Taken(b) \in SUBSET Vcs
  BY Partition DEF Taken
<1>2. IsFiniteSet(Taken(b)) /\ Cardinality(Taken(b)) <= Cardinality(Vcs)
  BY <1>1, FS_Subset
<1>3. Cardinality(Taken(b)) \in Nat
  BY <1>2, FS_CardinalityType
<1> QED BY <1>1, <1>2, <1>3, BufferStateAssumption

\* A fresh BufferState is sound.
LEMMA NewSound ==
  ASSUME NEW policy \in Policies, NEW wait \in BOOLEAN
  PROVE  Sound(New(policy, wait)) /\ ~New(policy, wait).err
<1> DEFINE b == New(policy, wait)
           zero == [v \in Vcs |-> 0]
           zeros == [i \in Parts |-> 0]
           h == [v \in Vcs |-> 0 + 0]
           o == [i \in Parts |-> Over(0)]
<1>0. /\ b.policy = policy /\ b.wait = wait /\ b.occ = 0 /\ b.vcOcc = zero
      /\ b.privOcc = zeros /\ b.sharedOcc = 0 /\ b.reserved = zero
      /\ b.activeVcs = 0 /\ b.err = FALSE /\ b.inUseBy = [v \in Vcs |-> None]
  BY DEF New
<1> HIDE DEF b
<1>1. \A S : IsFiniteSet(S) => \A f : (\A x \in S : f[x] = 0) => SumFunctionOnSet(f, S) = 0
  <2> SUFFICES ASSUME NEW S, IsFiniteSet(S), NEW f, \A x \in S : f[x] = 0
               PROVE  SumFunctionOnSet(f, S) = 0
    OBVIOUS
  <2>1. SumFunctionOnSet(f, S) \in Nat
    BY SumNat
  <2>2. SumFunctionOnSet(f, S) <= Cardinality(S) * 0 /\ Cardinality(S) \in Nat
    <3>1. IsFiniteSet(S) /\ 0 \in Int /\ \A x \in S : f[x] \in Int /\ f[x] <= 0
      OBVIOUS
    <3> QED BY ONLY <3>1, SumAtMost, FS_CardinalityType
  <2> QED BY <2>1, <2>2
<1>2. VcLimit >= 0 /\ PrivSize \in Int /\ PrivSize >= 0 /\ SharedSize \in Int /\ SharedSize >= 0
  <2>1. VcLimit >= 0
    <3>1. BufSize > 0 => BufSize \div NumVcs >= 0
      BY BufferStateAssumption
    <3> QED BY <3>1, BufferStateAssumption DEF VcLimit
  <2> QED BY <2>1, SizesAreIntegers, PartitionAssumption
<1>3. OccupancySound(b)
  <2>1. SumFunction(zero) = 0
    BY <1>1, Partition DEF SumFunction
  <2> QED BY <1>0, <1>2, <2>1 DEF OccupancySound
<1>4. ReserveSound(b)
  BY <1>0 DEF ReserveSound
<1>5. SharingSound(b)
  <2>1. Held(b) = h
    BY <1>0 DEF Held
  <2>2. \A i \in Parts : SumFunctionOnSet(h, VcsOf(i)) = 0
    BY <1>1, Partition
  <2>3. \A i \in Parts : b.privOcc[i] = 0
    BY <1>0
  <2>4. Over(0) = 0
    BY <1>2 DEF Over
  <2>5. [i \in Parts |-> Over(b.privOcc[i])] = zeros
    BY <2>3, <2>4
  <2>6. SumFunction(zeros) = 0
    BY <1>1, Partition DEF SumFunction
  <2> HIDE DEF h, zeros
  <2> QED BY <1>0, <1>2, <2>1, <2>2, <2>3, <2>5, <2>6 DEF SharingSound, Accounts
<1>6. ActiveSound(b)
  <2>1. Taken(b) = {}
    BY <1>0 DEF Taken
  <2> QED BY <1>0, <2>1, FS_EmptySet DEF ActiveSound
<1>7. OwnerSound(b)
  BY <1>0 DEF OwnerSound
<1> QED BY <1>0, <1>3, <1>4, <1>5, <1>6, <1>7 DEF Sound, b

\* Taking an available VC keeps a BufferState sound, and is no error.
LEMMA TakeSound ==
  ASSUME NEW Owners, NEW b \in BufferStatesOf(Owners), NEW v \in Vcs,
         NEW tag \in Owners, tag # None, Sound(b), b.inUseBy[v] = None
  PROVE  LET c == TakeBuffer(b, v, tag)
         IN  Sound(c) /\ (Workable(b.policy) /\ ~b.err => ~c.err)
<1> DEFINE u == [b.inUseBy EXCEPT ![v] = tag]
           t == [b.tailSent EXCEPT ![v] = FALSE]
           e == b.err \/ ~IsAvailableFor(b, v)
           taken == [b EXCEPT !.inUseBy = u, !.tailSent = t, !.err = e]
           n == b.activeVcs + 1
           held == IF n > 0 THEN HeldShare(b.policy, n) ELSE taken.maxHeld
           e1 == taken.err \/ n > NumVcs
           e2 == taken.err \/ n \notin 1 .. NumVcs \/ HeldShare(b.policy, n) = 0
           limited == [taken EXCEPT !.activeVcs = n, !.err = e1]
           shared == [taken EXCEPT !.activeVcs = n, !.maxHeld = held, !.err = e2]
           c == TakeBuffer(b, v, tag)
           Frame(x) == /\ x.policy = b.policy /\ x.wait = b.wait /\ x.occ = b.occ
                       /\ x.vcOcc = b.vcOcc /\ x.privOcc = b.privOcc
                       /\ x.sharedOcc = b.sharedOcc /\ x.reserved = b.reserved
                       /\ x.inUseBy = u /\ x.tailSent = t
<1>0. e <=> b.err
  BY DEF IsAvailableFor
<1>1. Frame(taken) /\ taken.err = e /\ taken.activeVcs = b.activeVcs
      /\ taken \in BufferStatesOf(Owners)
  <2>1. u \in [Vcs -> Owners \cup {None}] /\ t \in [Vcs -> BOOLEAN]
    BY DEF BufferStatesOf
  <2>2. e \in BOOLEAN
    BY Zenon
  <2> HIDE DEF u, t, e
  <2> QED BY <2>1, <2>2 DEF BufferStatesOf
<1>2. Frame(limited) /\ limited.err = e1 /\ limited.activeVcs = n
  <2> HIDE DEF taken, u, t, n, e1
  <2> QED BY <1>1 DEF BufferStatesOf
<1>3. Frame(shared) /\ shared.err = e2 /\ shared.activeVcs = n
  <2> HIDE DEF taken, u, t, n, e2, held
  <2> QED BY <1>1 DEF BufferStatesOf
<1>4. /\ b.policy \notin LimitedPolicies => c = taken
      /\ b.policy = "limited" => c = limited
      /\ b.policy \in {"dynamic", "shifting"} => c = shared
  <2>1. b.policy \in Policies /\ b.policy \in LimitedPolicies \ {"limited"} =>
          b.policy \in {"dynamic", "shifting"}
    BY DEF Policies, SharedPolicies, LimitedPolicies
  <2> QED BY <2>1 DEF TakeBuffer, LimitedPolicies, SharedPolicies, Policies
<1>5. b.policy \in Policies
  BY DEF BufferStatesOf
<1> HIDE DEF taken, limited, shared, c
<1>6. Frame(c)
  <2> HIDE DEF Frame
  <2> QED BY <1>1, <1>2, <1>3, <1>4, <1>5 DEF Policies, LimitedPolicies, SharedPolicies
<1>7. b.policy \in LimitedPolicies => c.activeVcs = n
  BY <1>2, <1>3, <1>4, <1>5 DEF Policies, LimitedPolicies, SharedPolicies
<1>8. v \notin Taken(b) /\ Taken(c) = Taken(b) \cup {v}
  <2>1. b.inUseBy \in [Vcs -> Owners \cup {None}] /\ b.tailSent \in [Vcs -> BOOLEAN]
    BY DEF BufferStatesOf
  <2> QED BY <1>6, <2>1 DEF Taken
<1>9. Cardinality(Taken(c)) = Cardinality(Taken(b)) + 1
      /\ Cardinality(Taken(b)) + 1 \in 1 .. NumVcs
  <2>1. IsFiniteSet(Taken(b)) /\ Cardinality(Taken(b)) \in Nat
    BY TakenCount
  <2>2. Cardinality(Taken(c)) = Cardinality(Taken(b)) + 1
    BY <1>8, <2>1, FS_AddElement
  <2>3. Taken(c) \in SUBSET Vcs
    BY DEF Taken
  <2>4. Cardinality(Taken(c)) <= NumVcs
    BY <2>3, FS_Subset, Partition
  <2> QED BY <2>1, <2>2, <2>4, BufferStateAssumption
<1>10. OccupancySound(c)
  <2>1. \A w \in Vcs : c.inUseBy[w] = None => b.inUseBy[w] = None
    BY <1>6 DEF BufferStatesOf
  <2> QED BY <1>6, <2>1 DEF Sound, OccupancySound
<1>11. ReserveSound(c)
  BY <1>6, <1>8 DEF Sound, ReserveSound
<1>12. SharingSound(c)
  BY <1>6 DEF Sound, SharingSound, Held, Accounts
<1>13. ActiveSound(c)
  BY <1>6, <1>7, <1>9 DEF Sound, ActiveSound
<1>14. ASSUME Workable(b.policy), ~b.err
       PROVE  ~c.err
  <2>1. b.policy \in LimitedPolicies => n \in 1 .. NumVcs
    BY <1>9 DEF Sound, ActiveSound
  <2>2. CASE b.policy \notin LimitedPolicies
    BY <1>0, <1>1, <1>4, <1>14, <2>2
  <2>3. CASE b.policy = "limited"
    <3>1. ~(n > NumVcs)
      BY <2>1, <2>3, BufferStateAssumption DEF LimitedPolicies, SharedPolicies, Policies
    <3> HIDE DEF n
    <3> QED BY <1>0, <1>1, <1>2, <1>4, <1>14, <2>3, <3>1
  <2>4. CASE b.policy \in {"dynamic", "shifting"}
    <3>1. n \in 1 .. NumVcs
      BY <2>1, <2>4 DEF LimitedPolicies, SharedPolicies, Policies
    <3>2. HeldShare(b.policy, n) # 0
      BY <1>14, <2>4, <3>1 DEF Workable
    <3> HIDE DEF n
    <3> QED BY <1>0, <1>1, <1>3, <1>4, <1>14, <2>4, <3>1, <3>2
  <2> QED BY <1>5, <2>2, <2>3, <2>4 DEF Policies, LimitedPolicies, SharedPolicies
<1>15. OwnerSound(c)
  BY <1>6 DEF Sound, OwnerSound, BufferStatesOf
<1> QED BY <1>10, <1>11, <1>12, <1>13, <1>14, <1>15 DEF Sound, c

\* Processing a credit for a VC that occupies a slot keeps a BufferState
\* sound, and is no error.
LEMMA CreditSound ==
  ASSUME NEW Owners, NEW b \in BufferStatesOf(Owners), NEW v \in Vcs,
         Sound(b), b.vcOcc[v] > 0
  PROVE  LET c == ProcessCreditFor(b, v)
         IN  Sound(c) /\ (~b.err => ~c.err)
<1> DEFINE n == b.vcOcc[v] - 1
           o == [b.vcOcc EXCEPT ![v] = n]
           rel == b.wait /\ n = 0 /\ b.tailSent[v]
           u == [b.inUseBy EXCEPT ![v] = IF rel THEN None ELSE @]
           e == b.err \/ (b.wait /\ IsAvailableFor(b, v)) \/ n < 0 \/ b.occ = 0
           k == b.occ - 1
           d == [b EXCEPT !.occ = k, !.vcOcc = o, !.inUseBy = u, !.err = e]
           r == [d.reserved EXCEPT ![v] = @ + 1]
           kept == [d EXCEPT !.reserved = r]
           charged == Charge(d, PartOf(v), -1)
           Keeps == u[v] # None /\ n = 0
           c == ProcessCreditFor(b, v)
           Frame(x) == /\ x.policy = b.policy /\ x.wait = b.wait /\ x.occ = k
                       /\ x.vcOcc = o /\ x.inUseBy = u /\ x.tailSent = b.tailSent
                       /\ x.activeVcs = b.activeVcs
<1>1. /\ b.vcOcc \in [Vcs -> Int] /\ b.reserved \in [Vcs -> Int] /\ b.policy \in Policies
      /\ b.inUseBy \in [Vcs -> Owners \cup {None}] /\ b.tailSent \in [Vcs -> BOOLEAN]
      /\ b.occ \in Int /\ b.wait \in BOOLEAN
      /\ \A w \in Vcs : b.vcOcc[w] \in Nat /\ Held(b)[w] = b.vcOcc[w] + b.reserved[w]
      /\ Held(b) \in [Vcs -> Nat]
  BY HeldType DEF BufferStatesOf, Sound
<1>2. b.reserved[v] = 0 /\ n \in Nat
  BY <1>1 DEF Sound, ReserveSound
<1>3. e <=> b.err
  <2>1. b.wait => ~IsAvailableFor(b, v)
    BY DEF Sound, OccupancySound, IsAvailableFor
  <2>2. b.vcOcc[v] <= SumFunction(b.vcOcc) /\ SumFunction(b.vcOcc) = b.occ
    <3>1. b.vcOcc[v] <= SumFunctionOnSet(b.vcOcc, Vcs)
      BY <1>1, SumNat, Partition
    <3> QED BY <1>1, <3>1 DEF SumFunction, Sound, OccupancySound
  <2>3. b.occ # 0
    BY <1>1, <2>2
  <2> QED BY <1>2, <2>1, <2>3
<1>4. /\ d \in BufferStatesOf(Owners) /\ Frame(d) /\ d.err = e
      /\ d.privOcc = b.privOcc /\ d.sharedOcc = b.sharedOcc /\ d.reserved = b.reserved
  <2>1. o \in [Vcs -> Int] /\ k \in Int /\ u \in [Vcs -> Owners \cup {None}]
    BY <1>1
  <2>2. e \in BOOLEAN
    BY Zenon
  <2> HIDE DEF o, k, u, e
  <2> QED BY <2>1, <2>2 DEF BufferStatesOf
<1>5. /\ Frame(kept) /\ kept.err = e
      /\ kept.privOcc = b.privOcc /\ kept.sharedOcc = b.sharedOcc
      /\ kept.reserved = [b.reserved EXCEPT ![v] = @ + 1]
  <2> HIDE DEF d, o, k, u, e
  <2> QED BY <1>4 DEF BufferStatesOf
<1>6. Frame(charged) /\ charged.reserved = b.reserved
  <2>1. /\ charged \in BufferStatesOf(Owners)
        /\ charged.policy = d.policy /\ charged.wait = d.wait
        /\ charged.inUseBy = d.inUseBy /\ charged.tailSent = d.tailSent
        /\ charged.vcOcc = d.vcOcc /\ charged.activeVcs = d.activeVcs
        /\ charged.reserved = d.reserved
    <3>1. PartOf(v) \in Parts /\ -1 \in Int
      BY PartOfVc
    <3> HIDE DEF d
    <3> QED BY <1>4, <3>1, ChargeFrame
  <2>2. charged.occ = d.occ
    <3> HIDE DEF d
    <3> QED BY <1>4 DEF Charge, BufferStatesOf
  <2> HIDE DEF charged, d, o, k, u
  <2> QED BY <1>4, <2>1, <2>2
<1>7. /\ b.policy = "private" => c = d
      /\ b.policy \in SharedPolicies /\ Keeps => c = kept
      /\ b.policy \in SharedPolicies /\ ~Keeps => c = charged
  <2>1. c = FreeSlotFor(d, v)
    BY DEF ProcessCreditFor
  <2>2. ~IsAvailableFor(d, v) /\ IsEmptyFor(d, v) <=> Keeps
    <3>1. d.inUseBy[v] = u[v] /\ d.vcOcc[v] = n
      <4>1. o[v] = n
        BY <1>1
      <4> HIDE DEF d, u, o
      <4> QED BY <1>4, <4>1
    <3> HIDE DEF d, u, n
    <3> QED BY <3>1 DEF IsAvailableFor, IsEmptyFor
  <2>3. b.policy \in SharedPolicies => b.policy # "private"
    BY DEF SharedPolicies
  <2>4. kept = [d EXCEPT !.reserved[v] = @ + 1]
    OBVIOUS
  <2> HIDE DEF d, kept, Keeps, c
  <2> QED BY <1>4, <2>1, <2>2, <2>3, <2>4 DEF FreeSlotFor
<1> HIDE DEF d, kept, charged, c
<1>8. Frame(c)
  <2> HIDE DEF Frame
  <2> QED BY <1>1, <1>4, <1>5, <1>6, <1>7 DEF SharedPolicies
<1>9. /\ b.policy \in SharedPolicies /\ Keeps => c.reserved = [b.reserved EXCEPT ![v] = 1]
      /\ ~(b.policy \in SharedPolicies /\ Keeps) => c.reserved = b.reserved
  <2> HIDE DEF Keeps, o, u, k, e
  <2> QED BY <1>1, <1>2, <1>4, <1>5, <1>6, <1>7 DEF SharedPolicies
<1>10. Taken(c) = Taken(b)
  BY <1>1, <1>8 DEF Taken, Sound, OwnerSound
<1>11. Keeps => v \in Taken(b)
  BY <1>1 DEF Taken, Sound, OwnerSound
<1>12. OccupancySound(c)
  <2>1. o \in [Vcs -> Int] /\ o[v] = n /\ \A w \in Vcs \ {v} : o[w] = b.vcOcc[w]
    BY <1>1
  <2>2. SumFunction(o) = b.occ - 1
    <3>1. SumFunctionOnSet(o, Vcs) = SumFunctionOnSet(b.vcOcc, Vcs) - b.vcOcc[v] + o[v]
      <4> DEFINE S == Vcs
                 f == b.vcOcc
      <4>1. /\ IsFiniteSet(S) /\ v \in S /\ o[v] \in Int
            /\ \A w \in S : f[w] \in Int
            /\ \A w \in S \ {v} : o[w] = f[w]
        BY <1>1, <1>2, <2>1, Partition
      <4> HIDE DEF o, S, f
      <4>2. SumFunctionOnSet(o, S) = SumFunctionOnSet(f, S) - f[v] + o[v]
        BY ONLY <4>1, SumUpdate
      <4> QED BY <4>2 DEF S, f
    <3>2. b.occ = SumFunctionOnSet(b.vcOcc, Vcs)
      BY <1>1 DEF SumFunction, Sound, OccupancySound
    <3>3. SumFunction(o) = SumFunctionOnSet(o, Vcs)
      BY <2>1 DEF SumFunction
    <3> HIDE DEF o
    <3> QED BY <1>1, <2>1, <3>1, <3>2, <3>3
  <2>3. \A w \in Vcs : o[w] >= 0 /\ o[w] <= b.vcOcc[w]
    BY <1>1, <1>2, <2>1
  <2>4. \A w \in Vcs : b.wait /\ u[w] = None => o[w] = 0
    BY <1>1, <2>1 DEF Sound, OccupancySound
  <2>5. b.policy = "private" => \A w \in Vcs : o[w] <= VcLimit
    <3> HIDE DEF o
    <3> QED BY <1>1, <2>1, <2>3, SizesAreIntegers DEF Sound, OccupancySound
  <2> HIDE DEF o, u
  <2> QED BY <1>8, <2>2, <2>3, <2>4, <2>5 DEF OccupancySound
<1>13. ReserveSound(c)
  <2>1. \A w \in Vcs : c.vcOcc[w] = IF w = v THEN n ELSE b.vcOcc[w]
    BY <1>1, <1>8
  <2>2. \A w \in Vcs : c.reserved[w] =
          IF w = v /\ b.policy \in SharedPolicies /\ Keeps THEN 1 ELSE b.reserved[w]
    <3> HIDE DEF Keeps
    <3> QED BY <1>1, <1>9
  <2>3. \A w \in Vcs : b.reserved[w] # 0 =>
          /\ b.policy # "private" /\ b.reserved[w] = 1
          /\ w \in Taken(b) /\ b.vcOcc[w] = 0
    BY DEF Sound, ReserveSound
  <2>4. Keeps => n = 0
    OBVIOUS
  <2>5. c.policy = b.policy /\ (b.policy \in SharedPolicies => b.policy # "private")
    BY <1>8 DEF SharedPolicies
  <2> HIDE DEF Keeps, n
  <2> QED BY <1>2, <1>10, <1>11, <2>1, <2>2, <2>3, <2>4, <2>5 DEF ReserveSound
<1>14. ASSUME b.policy \in SharedPolicies
       PROVE  /\ Accounts(c, Held(c)) /\ c.sharedOcc <= SharedSize
              /\ ~b.err => ~c.err
  <2>1. Accounts(b, Held(b)) /\ b.sharedOcc <= SharedSize
    BY <1>14 DEF Sound, SharingSound
  <2>2. CASE Keeps
    <3>1. c = kept
      BY <1>7, <1>14, <2>2
    <3>2. c.privOcc = b.privOcc /\ c.sharedOcc = b.sharedOcc /\ c.err = e
      <4> HIDE DEF e, o, k, u
      <4> QED BY <1>5, <3>1
    <3>3. Held(c) = Held(b)
      <4>1. c.reserved = [b.reserved EXCEPT ![v] = 1] /\ c.vcOcc = [b.vcOcc EXCEPT ![v] = 0]
        BY <1>8, <1>9, <1>14, <2>2
      <4>2. b.vcOcc[v] = 1 /\ b.reserved[v] = 0
        BY <1>1, <1>2, <2>2
      <4> QED BY <1>1, <4>1, <4>2 DEF Held
    <3> QED BY <1>3, <2>1, <3>2, <3>3 DEF Accounts
  <2>3. CASE ~Keeps
    <3> DEFINE h == Held(b)
               g == [h EXCEPT ![v] = @ + (-1)]
    <3>1. c = charged
      BY <1>7, <1>14, <2>3
    <3>2. Held(c) = g /\ g \in [Vcs -> Nat]
      <4>1. c.reserved = b.reserved /\ c.vcOcc = o
        BY <1>8, <1>9, <2>3
      <4>2. o[v] = n /\ (\A w \in Vcs \ {v} : o[w] = b.vcOcc[w]) /\ b.vcOcc[v] = n + 1
        BY <1>1
      <4>3. h[v] = n + 1 /\ b.reserved[v] = 0 /\ n \in Nat
        BY <1>1, <1>2
      <4>4. \A w \in Vcs : o[w] + b.reserved[w] = g[w]
        <5> HIDE DEF o, n, h
        <5> QED BY <1>1, <4>2, <4>3 DEF h
      <4>5. Held(c) = [w \in Vcs |-> o[w] + b.reserved[w]]
        BY <4>1 DEF Held
      <4>6. DOMAIN g = Vcs /\ g = [w \in Vcs |-> g[w]]
        BY <1>1
      <4>7. g \in [Vcs -> Nat]
        <5> HIDE DEF n
        <5> QED BY <1>1, <4>3
      <4> HIDE DEF g, o
      <4> QED BY <4>4, <4>5, <4>6, <4>7
    <3>3. d.privOcc = b.privOcc /\ d.sharedOcc = b.sharedOcc /\ d.err = e
      BY <1>4
    <3>4. Accounts(d, h)
      BY <2>1, <3>3 DEF Accounts
    <3> DEFINE x == Charge(d, PartOf(v), -1)
    <3>5. /\ Accounts(x, g)
          /\ x.err <=> d.err \/ x.sharedOcc > SharedSize
          /\ x.sharedOcc = d.sharedOcc + Over(d.privOcc[PartOf(v)] + (-1))
                           - Over(d.privOcc[PartOf(v)])
      <4>1. d \in BufferStatesOf(Owners) /\ -1 \in Int /\ h \in [Vcs -> Nat]
        BY <1>1, <1>4
      <4>2. g \in [Vcs -> Nat] /\ g = [h EXCEPT ![v] = @ + (-1)]
        BY <3>2
      <4> HIDE DEF h, g
      <4> QED BY <4>1, <4>2, <3>4, ChargeAccounts
    <3>6. x.sharedOcc <= SharedSize
      <4>1. /\ d.privOcc[PartOf(v)] \in Int /\ d.sharedOcc \in Int
            /\ d.sharedOcc <= SharedSize
        BY <1>4, <2>1, <3>3, PartOfVc DEF BufferStatesOf
      <4>2. \A m \in Int : Over(m + (-1)) <= Over(m) /\ Over(m) \in Int /\ Over(m + (-1)) \in Int
        BY SizesAreIntegers DEF Over
      <4> HIDE DEF x
      <4> QED BY <3>5, <4>1, <4>2, SizesAreIntegers
    <3>7. x.sharedOcc \in Int
      <4>1. /\ d.privOcc[PartOf(v)] \in Int /\ d.sharedOcc \in Int
        BY <1>4, PartOfVc DEF BufferStatesOf
      <4>2. \A m \in Int : Over(m) \in Int /\ Over(m + (-1)) \in Int
        BY SizesAreIntegers DEF Over
      <4> HIDE DEF x
      <4> QED BY <3>5, <4>1, <4>2
    <3>8. ~b.err => ~x.err
      <4> HIDE DEF x, e
      <4> QED BY <1>3, <3>3, <3>5, <3>6, <3>7, SizesAreIntegers
    <3> HIDE DEF g
    <3> QED BY <3>1, <3>2, <3>5, <3>6, <3>8 DEF charged
  <2> QED BY <2>2, <2>3
<1>15. SharingSound(c)
  BY <1>8, <1>14 DEF SharingSound
<1>16. ActiveSound(c)
  BY <1>8, <1>10 DEF Sound, ActiveSound
<1>17. OwnerSound(c)
  BY <1>1, <1>8 DEF Sound, OwnerSound
<1>18. ~b.err => ~c.err
  <2>1. CASE b.policy = "private"
    <3> HIDE DEF e
    <3> QED BY <1>3, <1>4, <1>7, <2>1
  <2> QED BY <1>1, <1>14, <2>1 DEF SharedPolicies
<1> QED BY <1>12, <1>13, <1>15, <1>16, <1>17, <1>18 DEF Sound, c

\* A flit can be sent on VC v: a policy may have lowered the share of an active
\* VC since it was asked for one, but that takes no slot away.
HasSlot(b, v) == IF b.policy = "private" THEN b.vcOcc[v] < VcLimit ELSE ~SharedIsFull(b, v)

\* A VC that is not full has a slot.
LEMMA NotFullHasSlot ==
  ASSUME NEW Owners, NEW b \in BufferStatesOf(Owners), NEW v \in Vcs, ~IsFullFor(b, v)
  PROVE  HasSlot(b, v)
<1>1. b.policy \in Policies /\ b.vcOcc[v] \in Int
  BY DEF BufferStatesOf
<1>2. CASE b.policy = "private"
  BY <1>1, <1>2, SizesAreIntegers DEF IsFullFor, HasSlot
<1>3. CASE b.policy # "private"
  BY <1>1, <1>3 DEF IsFullFor, HasSlot, SharedPolicies
<1> QED BY <1>2, <1>3

\* Taking a VC takes no slot.
LEMMA TakeKeepsSlots ==
  ASSUME NEW Owners, NEW b \in BufferStatesOf(Owners), NEW v \in Vcs, NEW tag \in Owners,
         NEW w \in Vcs
  PROVE  HasSlot(TakeBuffer(b, v, tag), w) <=> HasSlot(b, w)
<1> DEFINE c == TakeBuffer(b, v, tag)
<1>1. /\ c.policy = b.policy /\ c.vcOcc = b.vcOcc /\ c.reserved = b.reserved
      /\ c.privOcc = b.privOcc /\ c.sharedOcc = b.sharedOcc
  BY DEF TakeBuffer, BufferStatesOf
<1> QED BY <1>1 DEF HasSlot, SharedIsFull

\* What the first stage of sending a flit on VC v makes of a sound b: the flit
\* has its slot, and the VC keeps none in reserve.
Slotted(Owners, b, v, x) ==
  /\ x \in BufferStatesOf(Owners)
  /\ x.policy = b.policy /\ x.wait = b.wait /\ x.occ = b.occ + 1
  /\ x.vcOcc = [b.vcOcc EXCEPT ![v] = @ + 1]
  /\ x.inUseBy = b.inUseBy /\ x.tailSent = b.tailSent
  /\ x.activeVcs = b.activeVcs
  /\ x.reserved = [b.reserved EXCEPT ![v] = 0]
  /\ b.policy \in SharedPolicies => Accounts(x, Held(x)) /\ x.sharedOcc <= SharedSize
  /\ x.err <=> b.err \/ b.occ + 1 > Size

LEMMA SlotSound ==
  ASSUME NEW Owners, NEW b \in BufferStatesOf(Owners), NEW v \in Vcs,
         Sound(b), HasSlot(b, v)
  PROVE  LET d == [b EXCEPT !.occ = @ + 1,
                            !.vcOcc[v] = @ + 1,
                            !.err = @ \/ b.occ + 1 > Size]
         IN  Slotted(Owners, b, v,
               CASE d.policy = "private" -> [d EXCEPT !.err = @ \/ d.vcOcc[v] > VcLimit]
                 [] d.reserved[v] > 0 /\ d.policy # "private" ->
                      [d EXCEPT !.reserved[v] = @ - 1]
                 [] OTHER -> Charge(d, PartOf(v), 1))
<1> DEFINE k == b.occ + 1
           o == [b.vcOcc EXCEPT ![v] = @ + 1]
           e == b.err \/ b.occ + 1 > Size
           d == [b EXCEPT !.occ = k, !.vcOcc = o, !.err = e]
           e1 == d.err \/ d.vcOcc[v] > VcLimit
           r == [d.reserved EXCEPT ![v] = @ - 1]
           flagged == [d EXCEPT !.err = e1]
           used == [d EXCEPT !.reserved = r]
           charged == Charge(d, PartOf(v), 1)
           r0 == [b.reserved EXCEPT ![v] = 0]
           Frame(x) == /\ x \in BufferStatesOf(Owners)
                       /\ x.policy = b.policy /\ x.wait = b.wait /\ x.occ = k
                       /\ x.vcOcc = o /\ x.inUseBy = b.inUseBy
                       /\ x.tailSent = b.tailSent /\ x.activeVcs = b.activeVcs
<1>1. /\ b.vcOcc \in [Vcs -> Int] /\ b.reserved \in [Vcs -> Int] /\ b.policy \in Policies
      /\ b.occ \in Int
      /\ \A w \in Vcs : /\ b.vcOcc[w] \in Nat /\ b.reserved[w] \in {0, 1}
                        /\ Held(b)[w] = b.vcOcc[w] + b.reserved[w]
      /\ Held(b) \in [Vcs -> Nat]
  BY HeldType DEF BufferStatesOf, Sound
<1>2. /\ Frame(d) /\ d.err = e /\ d.privOcc = b.privOcc
      /\ d.sharedOcc = b.sharedOcc /\ d.reserved = b.reserved
  <2>1. o \in [Vcs -> Int] /\ k \in Int
    BY <1>1
  <2>2. e \in BOOLEAN
    BY Zenon
  <2> HIDE DEF o, k, e
  <2> QED BY <2>1, <2>2 DEF BufferStatesOf
<1>3. o[v] = b.vcOcc[v] + 1
  BY <1>1
<1> HIDE DEF d
<1>4. Frame(flagged) /\ flagged.err = e1 /\ flagged.reserved = b.reserved
  <2>1. e1 \in BOOLEAN
    BY Zenon
  <2> HIDE DEF e1, o, k, e
  <2> QED BY <1>2, <2>1 DEF BufferStatesOf
<1>5. /\ Frame(used) /\ used.err = e /\ used.reserved = r
      /\ used.privOcc = b.privOcc /\ used.sharedOcc = b.sharedOcc
  <2>1. r \in [Vcs -> Int]
    BY <1>1, <1>2
  <2> HIDE DEF r, o, k, e
  <2> QED BY <1>2, <2>1 DEF BufferStatesOf
<1>6. Frame(charged) /\ charged.reserved = b.reserved
  <2>1. /\ charged \in BufferStatesOf(Owners)
        /\ charged.policy = d.policy /\ charged.wait = d.wait
        /\ charged.inUseBy = d.inUseBy /\ charged.tailSent = d.tailSent
        /\ charged.vcOcc = d.vcOcc /\ charged.activeVcs = d.activeVcs
        /\ charged.reserved = d.reserved
    <3>1. PartOf(v) \in Parts /\ 1 \in Int
      BY PartOfVc
    <3> QED BY <1>2, <3>1, ChargeFrame
  <2>2. charged.occ = d.occ
    BY <1>2 DEF Charge, BufferStatesOf
  <2> HIDE DEF charged, o, k
  <2> QED BY <1>2, <2>1, <2>2
<1> HIDE DEF flagged, used, charged
<1>7. CASE b.policy = "private"
  <2>1. b.vcOcc[v] < VcLimit
    BY <1>7 DEF HasSlot
  <2>2. e1 <=> e
    <3>1. d.vcOcc[v] = b.vcOcc[v] + 1
      BY <1>2, <1>3
    <3> HIDE DEF e
    <3> QED BY <1>1, <1>2, <2>1, <3>1, SizesAreIntegers
  <2>3. b.reserved = r0
    <3>1. b.reserved[v] = 0
      BY <1>7 DEF Sound, ReserveSound
    <3> QED BY <1>1, <3>1
  <2>4. b.policy \notin SharedPolicies
    BY <1>7 DEF SharedPolicies
  <2>5. Slotted(Owners, b, v, flagged)
    <3>1. flagged.err <=> b.err \/ b.occ + 1 > Size
      <4> HIDE DEF e1
      <4> QED BY <1>4, <2>2
    <3>2. flagged.reserved = r0
      BY <1>4, <2>3
    <3> HIDE DEF e1, r0
    <3> QED BY <1>4, <2>4, <3>1, <3>2 DEF Slotted, r0
  <2> QED BY <1>2, <1>7, <2>5 DEF d, flagged
<1>8. CASE b.policy \in SharedPolicies
  <2> DEFINE h == Held(b)
  <2>1. Accounts(b, h) /\ b.sharedOcc <= SharedSize /\ b.policy # "private"
    BY <1>8 DEF Sound, SharingSound, SharedPolicies
  <2>2. Accounts(d, h)
    BY <1>2, <2>1 DEF Accounts
  <2>3. CASE b.reserved[v] > 0
    <3>1. b.reserved[v] = 1 /\ b.vcOcc[v] = 0
      BY <1>1, <2>3 DEF Sound, ReserveSound
    <3>2. r = r0
      BY <1>1, <1>2, <3>1
    <3>3. used.vcOcc = o /\ used.reserved = r0
      BY <1>5, <3>2
    <3>4. Held(used) = h
      BY <1>1, <1>3, <3>1, <3>3 DEF Held
    <3>5. Accounts(used, Held(used))
      BY <1>5, <2>1, <3>4 DEF Accounts
    <3>6. Slotted(Owners, b, v, used)
      <4>1. used.err <=> b.err \/ b.occ + 1 > Size
        BY <1>5
      <4>2. used.sharedOcc <= SharedSize
        BY <1>5, <2>1
      <4> HIDE DEF r, r0
      <4> QED BY <1>5, <3>3, <3>5, <4>1, <4>2 DEF Slotted, r0
    <3> QED BY <1>2, <2>1, <2>3, <3>6 DEF d, used
  <2>4. CASE ~(b.reserved[v] > 0)
    <3> DEFINE g == [h EXCEPT ![v] = @ + 1]
               x == Charge(d, PartOf(v), 1)
    <3>1. b.reserved[v] = 0 /\ b.reserved = r0
      BY <1>1, <2>4
    <3>2. x = charged
      BY DEF charged
    <3>3. Held(charged) = g /\ g \in [Vcs -> Nat]
      <4>1. charged.reserved = b.reserved /\ charged.vcOcc = o
        BY <1>6
      <4>2. h[v] = b.vcOcc[v] /\ \A w \in Vcs : h[w] = b.vcOcc[w] + b.reserved[w]
        BY <1>1, <3>1
      <4>3. \A w \in Vcs \ {v} : o[w] = b.vcOcc[w]
        BY <1>1
      <4>4. g \in [Vcs -> Nat] /\ \A w \in Vcs : g[w] = IF w = v THEN h[v] + 1 ELSE h[w]
        BY <1>1
      <4>5. Held(charged) = [w \in Vcs |-> o[w] + b.reserved[w]]
        BY <4>1 DEF Held
      <4> HIDE DEF o, h, g
      <4>6. \A w \in Vcs : o[w] + b.reserved[w] = g[w]
        BY <1>1, <1>3, <3>1, <4>2, <4>3, <4>4
      <4>7. g = [w \in Vcs |-> g[w]]
        BY <4>4
      <4> QED BY <4>4, <4>5, <4>6, <4>7
    <3>4. /\ Accounts(x, g)
          /\ x.err <=> d.err \/ x.sharedOcc > SharedSize
          /\ x.sharedOcc = d.sharedOcc + Over(d.privOcc[PartOf(v)] + 1)
                           - Over(d.privOcc[PartOf(v)])
      <4>1. d \in BufferStatesOf(Owners) /\ 1 \in Int /\ h \in [Vcs -> Nat]
        BY <1>1, <1>2
      <4>2. g \in [Vcs -> Nat] /\ g = [h EXCEPT ![v] = @ + 1]
        BY <3>3
      <4> HIDE DEF h, g
      <4> QED BY <4>1, <4>2, <2>2, ChargeAccounts
    <3>5. b.privOcc[PartOf(v)] < PrivSize \/ b.sharedOcc < SharedSize
      <4>1. ~SharedIsFull(b, v)
        BY <2>1 DEF HasSlot
      <4>2. b.privOcc[PartOf(v)] \in Int /\ b.sharedOcc \in Int
        BY PartOfVc DEF BufferStatesOf
      <4> QED BY <3>1, <4>1, <4>2, SizesAreIntegers DEF SharedIsFull
    <3>6. x.sharedOcc <= SharedSize /\ x.sharedOcc \in Int
      <4>1. /\ d.privOcc[PartOf(v)] \in Int /\ d.sharedOcc \in Int
            /\ d.sharedOcc <= SharedSize
            /\ d.privOcc[PartOf(v)] < PrivSize \/ d.sharedOcc < SharedSize
        BY <1>2, <2>1, <3>5, PartOfVc DEF BufferStatesOf
      <4>2. \A m \in Int : /\ Over(m) \in Int /\ Over(m + 1) \in Int
                           /\ Over(m + 1) <= Over(m) + 1
                           /\ m < PrivSize => Over(m + 1) = Over(m)
        BY SizesAreIntegers DEF Over
      <4> HIDE DEF x
      <4> QED BY <3>4, <4>1, <4>2, SizesAreIntegers
    <3>7. Slotted(Owners, b, v, charged)
      <4>1. charged.err <=> b.err \/ b.occ + 1 > Size
        <5>1. ~(x.sharedOcc > SharedSize)
          <6> HIDE DEF x
          <6> QED BY <3>6, SizesAreIntegers
        <5>2. d.err <=> b.err \/ b.occ + 1 > Size
          BY <1>2
        <5> HIDE DEF x
        <5> QED BY <3>2, <3>4, <5>1, <5>2
      <4>2. Accounts(charged, Held(charged)) /\ charged.sharedOcc <= SharedSize
        <5> HIDE DEF x, g
        <5> QED BY <3>2, <3>3, <3>4, <3>6
      <4>3. charged.reserved = r0
        BY <1>6, <3>1
      <4> HIDE DEF r0
      <4> QED BY <1>6, <4>1, <4>2, <4>3 DEF Slotted, r0
    <3> QED BY <1>2, <2>1, <2>4, <3>7 DEF d, charged
  <2> QED BY <2>3, <2>4
<1> QED BY <1>1, <1>7, <1>8 DEF SharedPolicies

\* Clearing the reserve of a VC that keeps none, as the tail does, changes
\* nothing that Slotted says.
LEMMA ClearSound ==
  ASSUME NEW Owners, NEW b \in BufferStatesOf(Owners), NEW v \in Vcs, Sound(b),
         NEW x, Slotted(Owners, b, v, x), b.policy \in SharedPolicies
  PROVE  Slotted(Owners, b, v, Charge([x EXCEPT !.reserved[v] = 0], PartOf(v), -x.reserved[v]))
<1> DEFINE r0 == [b.reserved EXCEPT ![v] = 0]
           r == [x.reserved EXCEPT ![v] = 0]
           y == [x EXCEPT !.reserved = r]
           h == Held(x)
           z == Charge(y, PartOf(v), 0)
           Same(s) == /\ s \in BufferStatesOf(Owners)
                      /\ s.policy = x.policy /\ s.wait = x.wait /\ s.occ = x.occ
                      /\ s.vcOcc = x.vcOcc /\ s.inUseBy = x.inUseBy
                      /\ s.tailSent = x.tailSent /\ s.activeVcs = x.activeVcs
                      /\ s.reserved = x.reserved
<1>1. x \in BufferStatesOf(Owners) /\ x.reserved = r0
  BY DEF Slotted
<1>2. r = x.reserved /\ -x.reserved[v] = 0 /\ r \in [Vcs -> Int]
  <2>1. b.reserved \in [Vcs -> Int]
    BY DEF BufferStatesOf
  <2>2. r0 \in [Vcs -> Int] /\ r0[v] = 0
    BY <2>1
  <2>3. [r0 EXCEPT ![v] = 0] = r0
    <3>1. [r0 EXCEPT ![v] = 0] = [w \in Vcs |-> IF w = v THEN 0 ELSE r0[w]]
      BY <2>2
    <3>2. r0 = [w \in Vcs |-> r0[w]]
      BY <2>2
    <3> QED BY <2>2, <3>1, <3>2
  <2>4. \A m \in Int : m + (-m) = 0
    OBVIOUS
  <2>5. x.reserved[v] \in Int /\ -x.reserved[v] \in Int /\ x.reserved[v] = 0
    <3> HIDE DEF r0
    <3> QED BY <1>1, <2>2 DEF BufferStatesOf
  <2>6. -x.reserved[v] = 0
    <3> DEFINE m == x.reserved[v]
               k == -x.reserved[v]
    <3>1. m + k = 0 /\ m \in Int /\ k \in Int /\ m = 0
      BY <2>4, <2>5
    <3> HIDE DEF m, k
    <3>2. k = 0
      BY <3>1
    <3> QED BY <3>2 DEF k
  <2> HIDE DEF r0
  <2> QED BY <1>1, <2>2, <2>3, <2>6
<1>3. /\ Same(y) /\ y.privOcc = x.privOcc /\ y.sharedOcc = x.sharedOcc /\ y.err = x.err
  <2> HIDE DEF r
  <2> QED BY <1>1, <1>2 DEF BufferStatesOf
<1>4. Accounts(x, h) /\ x.sharedOcc <= SharedSize
  BY DEF Slotted
<1>5. h \in [Vcs -> Nat]
  <2>1. \A w \in Vcs : b.vcOcc[w] \in Nat /\ b.reserved[w] \in {0, 1}
    BY HeldType DEF Sound
  <2>2. \A w \in Vcs : x.vcOcc[w] \in Nat /\ x.reserved[w] \in Nat
    BY <1>1, <2>1 DEF Slotted, BufferStatesOf
  <2> QED BY <2>2 DEF Held
<1> HIDE DEF y
<1>6. Same(z)
  <2>1. /\ z \in BufferStatesOf(Owners)
        /\ z.policy = y.policy /\ z.wait = y.wait
        /\ z.inUseBy = y.inUseBy /\ z.tailSent = y.tailSent
        /\ z.vcOcc = y.vcOcc /\ z.activeVcs = y.activeVcs
        /\ z.reserved = y.reserved
    <3>1. PartOf(v) \in Parts /\ 0 \in Int
      BY PartOfVc
    <3> QED BY <1>3, <3>1, ChargeFrame
  <2>2. z.occ = y.occ
    BY <1>3 DEF Charge, BufferStatesOf
  <2> HIDE DEF z
  <2> QED BY <1>3, <2>1, <2>2
<1>7. /\ Accounts(z, h)
      /\ z.err <=> y.err \/ z.sharedOcc > SharedSize
      /\ z.sharedOcc = y.sharedOcc + Over(y.privOcc[PartOf(v)] + 0) - Over(y.privOcc[PartOf(v)])
  <2>1. Accounts(y, h)
    BY <1>3, <1>4 DEF Accounts
  <2>2. h = [h EXCEPT ![v] = @ + 0] /\ 0 \in Int /\ y \in BufferStatesOf(Owners)
    BY <1>3, <1>5
  <2> HIDE DEF h
  <2> QED BY <1>5, <2>1, <2>2, ChargeAccounts
<1>8. z.sharedOcc = y.sharedOcc
  <2>1. /\ y.privOcc[PartOf(v)] \in Int /\ y.sharedOcc \in Int
    BY <1>3, PartOfVc DEF BufferStatesOf
  <2>2. \A m \in Int : Over(m) \in Int /\ m + 0 = m
    BY SizesAreIntegers DEF Over
  <2> HIDE DEF z
  <2> QED BY <1>7, <2>1, <2>2
<1>9. z.err <=> x.err
  <2>1. ~(z.sharedOcc > SharedSize)
    <3>1. x.sharedOcc \in Int
      BY <1>1 DEF BufferStatesOf
    <3> HIDE DEF z
    <3> QED BY <1>3, <1>4, <1>8, <3>1, SizesAreIntegers
  <2> HIDE DEF z, h
  <2> QED BY <1>3, <1>7, <2>1
<1>10. Accounts(z, Held(z)) /\ z.sharedOcc <= SharedSize
  <2>1. Held(z) = h
    <3> HIDE DEF z
    <3> QED BY <1>6 DEF Held
  <2> HIDE DEF z, h
  <2> QED BY <1>3, <1>4, <1>7, <1>8, <2>1
<1>11. Slotted(Owners, b, v, z)
  <2> HIDE DEF z, h, r
  <2> QED BY <1>6, <1>9, <1>10 DEF Slotted
<1> QED BY <1>2, <1>11 DEF z, y

\* Sending a flit on a taken VC that has a slot keeps a BufferState sound; it
\* is no error in a workable configuration.
LEMMA SendSlotSound ==
  ASSUME NEW Owners, NEW b \in BufferStatesOf(Owners), NEW v \in Vcs, NEW tail \in BOOLEAN,
         Sound(b), v \in Taken(b), HasSlot(b, v)
  PROVE  LET c == SendingFlit(b, v, tail)
         IN  Sound(c) /\ (Workable(b.policy) /\ ~b.err => ~c.err)
<1> DEFINE d == [b EXCEPT !.occ = @ + 1,
                          !.vcOcc[v] = @ + 1,
                          !.err = @ \/ b.occ + 1 > Size]
           x == CASE d.policy = "private" -> [d EXCEPT !.err = @ \/ d.vcOcc[v] > VcLimit]
                  [] d.reserved[v] > 0 /\ d.policy # "private" ->
                       [d EXCEPT !.reserved[v] = @ - 1]
                  [] OTHER -> Charge(d, PartOf(v), 1)
           y == IF d.policy # "private" /\ tail
                THEN Charge([x EXCEPT !.reserved[v] = 0], PartOf(v), -x.reserved[v])
                ELSE x
           n == d.activeVcs - 1
           held == IF d.policy = "limited" \/ n <= 0 THEN y.maxHeld
                   ELSE HeldShare(d.policy, n)
           f == n < 0 \/ (d.policy # "limited" /\ n > 0 /\ HeldShare(d.policy, n) = 0)
           ey == y.err \/ n < 0
                  \/ (d.policy # "limited" /\ n > 0 /\ HeldShare(d.policy, n) = 0)
           z == IF ~tail \/ d.policy \notin LimitedPolicies THEN y
                ELSE [y EXCEPT !.activeVcs = n, !.maxHeld = held, !.err = ey]
           t == [z.tailSent EXCEPT ![v] = TRUE]
           u == [z.inUseBy EXCEPT ![v] = IF b.wait THEN @ ELSE None]
           ez == z.err \/ (~b.wait /\ IsAvailableFor(b, v))
           c == SendingFlit(b, v, tail)
           o == [b.vcOcc EXCEPT ![v] = @ + 1]
           r0 == [b.reserved EXCEPT ![v] = 0]
<1>1. /\ b.vcOcc \in [Vcs -> Int] /\ b.reserved \in [Vcs -> Int] /\ b.policy \in Policies
      /\ b.inUseBy \in [Vcs -> Owners \cup {None}] /\ b.tailSent \in [Vcs -> BOOLEAN]
      /\ b.occ \in Int /\ b.activeVcs \in Int /\ b.wait \in BOOLEAN
      /\ \A w \in Vcs : b.vcOcc[w] \in Nat /\ b.reserved[w] \in {0, 1}
      /\ b.inUseBy[v] # None /\ ~b.tailSent[v]
  BY HeldType DEF BufferStatesOf, Sound, Taken
<1>2. c = IF ~tail THEN z
          ELSE [z EXCEPT !.tailSent = t, !.inUseBy = u, !.err = ez]
  <2>1. PolicySending(d, v, tail) = z
    <3> HIDE DEF d
    <3> QED BY DEF PolicySending
  <2>2. c = IF ~tail THEN PolicySending(d, v, tail)
            ELSE [PolicySending(d, v, tail) EXCEPT
                   !.tailSent[v] = TRUE,
                   !.inUseBy[v] = IF b.wait THEN @ ELSE None,
                   !.err = @ \/ (~b.wait /\ IsAvailableFor(b, v))]
    <3> HIDE DEF z, n, held, ey, f, y, x
    <3> QED BY DEF SendingFlit
  <2> HIDE DEF d, z
  <2> QED BY <2>1, <2>2
<1>3. d.policy = b.policy /\ d.activeVcs = b.activeVcs /\ d.reserved = b.reserved
  BY DEF BufferStatesOf
<1>4. Slotted(Owners, b, v, x)
  <2> HIDE DEF Slotted
  <2> QED BY SlotSound
<1> HIDE DEF d, x
<1>5. Slotted(Owners, b, v, y)
  <2>1. CASE d.policy # "private" /\ tail
    <3>1. b.policy \in SharedPolicies
      BY <1>1, <1>3, <2>1 DEF SharedPolicies
    <3>2. Slotted(Owners, b, v, Charge([x EXCEPT !.reserved[v] = 0], PartOf(v), -x.reserved[v]))
      BY <1>4, <3>1, ClearSound
    <3>3. y = Charge([x EXCEPT !.reserved[v] = 0], PartOf(v), -x.reserved[v])
      BY <2>1
    <3> HIDE DEF y
    <3> QED BY <3>2, <3>3
  <2>2. CASE ~(d.policy # "private" /\ tail)
    BY <1>4, <2>2
  <2> QED BY <2>1, <2>2
<1> HIDE DEF y
<1>6. /\ z \in BufferStatesOf(Owners) /\ z.policy = b.policy /\ z.wait = b.wait
      /\ z.occ = b.occ + 1 /\ z.vcOcc = o /\ z.inUseBy = b.inUseBy /\ z.tailSent = b.tailSent
      /\ z.reserved = r0
      /\ z.activeVcs = IF tail /\ b.policy \in LimitedPolicies THEN b.activeVcs - 1 ELSE b.activeVcs
      /\ b.policy \in SharedPolicies => Accounts(z, Held(z)) /\ z.sharedOcc <= SharedSize
      /\ z.err <=> b.err \/ b.occ + 1 > Size
                  \/ (tail /\ b.policy \in LimitedPolicies /\ f)
  <2>0. /\ y \in BufferStatesOf(Owners) /\ y.policy = b.policy /\ y.wait = b.wait
        /\ y.occ = b.occ + 1 /\ y.vcOcc = o /\ y.inUseBy = b.inUseBy /\ y.tailSent = b.tailSent
        /\ y.reserved = r0 /\ y.activeVcs = b.activeVcs
        /\ b.policy \in SharedPolicies => Accounts(y, Held(y)) /\ y.sharedOcc <= SharedSize
        /\ y.err <=> b.err \/ b.occ + 1 > Size
    BY <1>5 DEF Slotted
  <2>1. CASE ~tail \/ b.policy \notin LimitedPolicies
    <3>1. z = y
      BY <1>3, <2>1
    <3> HIDE DEF z, f, o, r0
    <3> QED BY <2>0, <2>1, <3>1
  <2>2. CASE tail /\ b.policy \in LimitedPolicies
    <3> DEFINE s == [y EXCEPT !.activeVcs = n, !.maxHeld = held, !.err = ey]
    <3>1. z = s
      BY <1>3, <2>2
    <3>2. n \in Int /\ n = b.activeVcs - 1
      BY <1>1, <1>3
    <3>3. held \in Int
      <4> HIDE DEF n
      <4> QED BY <2>0, <3>2, HeldShareType DEF BufferStatesOf
    <3>4. ey \in BOOLEAN /\ (ey <=> y.err \/ f)
      BY Zenon
    <3>5. /\ s \in BufferStatesOf(Owners) /\ s.policy = y.policy /\ s.wait = y.wait
          /\ s.occ = y.occ /\ s.vcOcc = y.vcOcc /\ s.inUseBy = y.inUseBy
          /\ s.tailSent = y.tailSent /\ s.reserved = y.reserved /\ s.activeVcs = n
          /\ s.privOcc = y.privOcc /\ s.sharedOcc = y.sharedOcc /\ s.err = ey
      <4> HIDE DEF n, held, ey, f
      <4> QED BY <2>0, <3>2, <3>3, <3>4 DEF BufferStatesOf
    <3> HIDE DEF s, z, n, f, ey, o, r0
    <3>6. Held(s) = Held(y)
      BY <3>5 DEF Held
    <3>7. b.policy \in SharedPolicies => Accounts(s, Held(s)) /\ s.sharedOcc <= SharedSize
      BY <2>0, <3>5, <3>6 DEF Accounts
    <3>8. s.err <=> b.err \/ b.occ + 1 > Size \/ (tail /\ b.policy \in LimitedPolicies /\ f)
      BY <2>0, <2>2, <3>4, <3>5
    <3> QED BY <2>0, <2>2, <3>1, <3>2, <3>5, <3>7, <3>8
  <2> QED BY <2>1, <2>2
<1>7. (~f /\ n >= 0) \/ ~(Workable(b.policy) /\ tail /\ b.policy \in LimitedPolicies)
  <2> SUFFICES ASSUME Workable(b.policy), b.policy \in LimitedPolicies
               PROVE  ~f /\ n >= 0
    OBVIOUS
  <2>1. b.activeVcs = Cardinality(Taken(b)) /\ b.activeVcs \in 1 .. NumVcs
    <3>1. IsFiniteSet(Taken(b)) /\ Cardinality(Taken(b)) \in 0 .. NumVcs
      BY TakenCount
    <3>2. Cardinality(Taken(b)) # 0
      BY <3>1, FS_EmptySet
    <3> QED BY <3>1, <3>2, BufferStateAssumption DEF Sound, ActiveSound
  <2>2. n = b.activeVcs - 1
    BY <1>3
  <2>3. n \in 0 .. NumVcs
    BY <2>1, <2>2, BufferStateAssumption
  <2>4. n > 0 => n \in 1 .. NumVcs
    BY <2>3, BufferStateAssumption
  <2>5. b.policy = "limited" \/ b.policy \in {"dynamic", "shifting"}
    BY DEF LimitedPolicies, SharedPolicies, Policies
  <2> HIDE DEF n
  <2> QED BY <1>3, <2>3, <2>4, <2>5 DEF Workable
<1> HIDE DEF z
<1>8. /\ c \in BufferStatesOf(Owners) /\ c.policy = b.policy /\ c.wait = b.wait
      /\ c.occ = b.occ + 1 /\ c.vcOcc = o /\ c.reserved = r0
      /\ c.inUseBy = IF tail /\ ~b.wait THEN [b.inUseBy EXCEPT ![v] = None] ELSE b.inUseBy
      /\ c.tailSent = IF tail THEN [b.tailSent EXCEPT ![v] = TRUE] ELSE b.tailSent
      /\ c.activeVcs = IF tail /\ b.policy \in LimitedPolicies THEN b.activeVcs - 1 ELSE b.activeVcs
      /\ b.policy \in SharedPolicies => Accounts(c, Held(c)) /\ c.sharedOcc <= SharedSize
      /\ c.err <=> b.err \/ b.occ + 1 > Size
                  \/ (tail /\ b.policy \in LimitedPolicies /\ f)
  <2>1. CASE ~tail
    <3>1. c = z
      BY <1>2, <2>1
    <3> HIDE DEF c, f, o, r0
    <3> QED BY <1>6, <2>1, <3>1
  <2>2. CASE tail
    <3> DEFINE s == [z EXCEPT !.tailSent = t, !.inUseBy = u, !.err = ez]
    <3>1. c = s
      BY <1>2, <2>2
    <3>2. /\ t = [b.tailSent EXCEPT ![v] = TRUE] /\ t \in [Vcs -> BOOLEAN]
          /\ u = IF ~b.wait THEN [b.inUseBy EXCEPT ![v] = None] ELSE b.inUseBy
          /\ u \in [Vcs -> Owners \cup {None}]
      BY <1>1, <1>6
    <3>3. ez \in BOOLEAN /\ (ez <=> z.err)
      <4>1. ~IsAvailableFor(b, v)
        BY <1>1 DEF IsAvailableFor
      <4> QED BY <4>1, Zenon
    <3>4. ez <=> b.err \/ b.occ + 1 > Size
                   \/ (tail /\ b.policy \in LimitedPolicies /\ f)
      <4> HIDE DEF ez, f
      <4> QED BY <1>6, <3>3
    <3>5. /\ s \in BufferStatesOf(Owners) /\ s.policy = z.policy /\ s.wait = z.wait
          /\ s.occ = z.occ /\ s.vcOcc = z.vcOcc /\ s.inUseBy = u
          /\ s.tailSent = t /\ s.reserved = z.reserved /\ s.activeVcs = z.activeVcs
          /\ s.privOcc = z.privOcc /\ s.sharedOcc = z.sharedOcc /\ s.err = ez
      <4> HIDE DEF t, u, ez
      <4> QED BY <1>6, <3>2, <3>3 DEF BufferStatesOf
    <3> HIDE DEF s, c, t, u, ez, f, o, r0
    <3>6. Held(s) = Held(z)
      BY <3>5 DEF Held
    <3>7. b.policy \in SharedPolicies => Accounts(s, Held(s)) /\ s.sharedOcc <= SharedSize
      BY <1>6, <3>5, <3>6 DEF Accounts
    <3>8. s.err <=> b.err \/ b.occ + 1 > Size
                      \/ (tail /\ b.policy \in LimitedPolicies /\ f)
      BY <3>4, <3>5
    <3> QED BY <1>6, <2>2, <3>1, <3>2, <3>5, <3>7, <3>8
  <2> QED BY <2>1, <2>2
<1> HIDE DEF c
<1>9. /\ o \in [Vcs -> Nat] /\ o[v] = b.vcOcc[v] + 1
      /\ \A w \in Vcs \ {v} : o[w] = b.vcOcc[w]
      /\ r0[v] = 0 /\ \A w \in Vcs \ {v} : r0[w] = b.reserved[w]
  BY <1>1
<1>10. OccupancySound(c)
  <2>1. SumFunction(o) = b.occ + 1
    <3> DEFINE S == Vcs
               g == b.vcOcc
    <3>1. /\ IsFiniteSet(S) /\ v \in S /\ o[v] \in Int
          /\ \A w \in S : g[w] \in Int
          /\ \A w \in S \ {v} : o[w] = g[w]
      BY <1>1, <1>9, Partition
    <3>2. SumFunctionOnSet(o, S) = SumFunctionOnSet(g, S) - g[v] + o[v]
      <4> HIDE DEF o, S, g
      <4> QED BY ONLY <3>1, SumUpdate
    <3>3. b.occ = SumFunctionOnSet(g, S) /\ SumFunction(o) = SumFunctionOnSet(o, S)
      BY <1>1 DEF SumFunction, Sound, OccupancySound
    <3>4. g[v] \in Int /\ o[v] = g[v] + 1
      BY <1>1
    <3> HIDE DEF o, S, g
    <3> QED BY <1>1, <3>2, <3>3, <3>4
  <2>2. b.policy = "private" => \A w \in Vcs : o[w] <= VcLimit
    <3> SUFFICES ASSUME b.policy = "private", NEW w \in Vcs PROVE o[w] <= VcLimit
      OBVIOUS
    <3>1. b.vcOcc[w] <= VcLimit /\ b.vcOcc[v] < VcLimit
      BY <1>1, SizesAreIntegers DEF HasSlot, Sound, OccupancySound
    <3> HIDE DEF o
    <3> QED BY <1>1, <1>9, <3>1, SizesAreIntegers
  <2>3. \A w \in Vcs : b.wait /\ c.inUseBy[w] = None => o[w] = 0
    <3> SUFFICES ASSUME NEW w \in Vcs, b.wait, c.inUseBy[w] = None PROVE o[w] = 0
      OBVIOUS
    <3>1. c.inUseBy = b.inUseBy
      BY <1>8
    <3>2. w # v
      BY <1>1, <3>1
    <3> HIDE DEF o
    <3> QED BY <1>9, <3>1, <3>2 DEF Sound, OccupancySound
  <2>4. \A w \in Vcs : o[w] >= 0
    BY <1>9
  <2> HIDE DEF o
  <2> QED BY <1>8, <2>1, <2>2, <2>3, <2>4 DEF OccupancySound
<1>11. Taken(c) = IF tail THEN Taken(b) \ {v} ELSE Taken(b)
  <2> HIDE DEF o, r0, f
  <2> QED BY <1>1, <1>8 DEF Taken
<1>12. ReserveSound(c)
  <2>1. \A w \in Vcs : b.reserved[w] # 0 =>
          b.policy # "private" /\ b.reserved[w] = 1 /\ w \in Taken(b) /\ b.vcOcc[w] = 0
    BY DEF Sound, ReserveSound
  <2> HIDE DEF o, r0
  <2> QED BY <1>8, <1>9, <1>11, <2>1 DEF ReserveSound
<1>13. SharingSound(c)
  BY <1>8 DEF SharingSound
<1>14. ActiveSound(c)
  <2>1. b.policy \in LimitedPolicies => b.activeVcs = Cardinality(Taken(b))
    BY DEF Sound, ActiveSound
  <2>2. IsFiniteSet(Taken(b)) /\ Cardinality(Taken(b)) \in Nat
    BY TakenCount
  <2>3. Cardinality(Taken(b) \ {v}) = Cardinality(Taken(b)) - 1
    BY <2>2, FS_RemoveElement
  <2> QED BY <1>8, <1>11, <2>1, <2>3 DEF ActiveSound
<1>15. OwnerSound(c)
  <2> HIDE DEF o, r0, f
  <2> QED BY <1>1, <1>8 DEF Sound, OwnerSound
<1>16. Sound(c)
  BY <1>10, <1>12, <1>13, <1>14, <1>15 DEF Sound
<1>17. ASSUME Workable(b.policy), ~b.err
       PROVE  ~c.err
  <2>1. SumFunction(c.vcOcc) <= Size /\ c.occ = SumFunction(c.vcOcc)
    <3>1. c \in BufferStatesOf(Owners) /\ Workable(c.policy)
      BY <1>8, <1>17
    <3>2. SumFunction(c.vcOcc) <= Size
      BY <1>16, <3>1, SoundCapacity
    <3> QED BY <1>10, <3>2 DEF OccupancySound
  <2>2. ~(b.occ + 1 > Size)
    BY <1>1, <1>8, <2>1, SizesAreIntegers
  <2> HIDE DEF f, n, o, r0
  <2> QED BY <1>7, <1>8, <1>17, <2>2
<1> QED BY <1>16, <1>17 DEF c

\* Sending a flit on a taken VC that is not full keeps a BufferState sound; it
\* is no error in a workable configuration.
LEMMA SendSound ==
  ASSUME NEW Owners, NEW b \in BufferStatesOf(Owners), NEW v \in Vcs, NEW tail \in BOOLEAN,
         Sound(b), v \in Taken(b), ~IsFullFor(b, v)
  PROVE  LET c == SendingFlit(b, v, tail)
         IN  Sound(c) /\ (Workable(b.policy) /\ ~b.err => ~c.err)
<1>1. HasSlot(b, v)
  BY NotFullHasSlot
<1> QED BY <1>1, SendSlotSound
=============================================================================
