--------------------------- MODULE IQRouterProofs ---------------------------
(***************************************************************************)
(* Theorems about IQRouter, for every number of inputs, outputs and VCs,   *)
(* every crossbar speedup, allocator and workload, with their proofs.      *)
(***************************************************************************)
EXTENDS IQRouter, BufferStateProofs

-----------------------------------------------------------------------------
(***************************************************************************)
(* What is kept of the VCs, the queues and the tables of the crossbar.     *)
(***************************************************************************)
\* x holds the crossbar.
Holds(s, x) == s.holdVc[ExpandedIn(x)] = x[2]

\* Flit g comes behind f on a VC.
Follows(f, g) ==
  IF IsTail(f) THEN IsHead(g) ELSE g.pid = f.pid /\ g.idx = f.idx + 1

\* What upstream was sending before flit g.
Before(g) == IF IsHead(g) THEN Idle ELSE [pid |-> g.pid, idx |-> g.idx - 1]
\* What it is sending after it.
Beyond(g) == IF IsTail(g) THEN Idle ELSE g

\* The flits q of a VC with state st and output VC c: each follows the one before
\* it, and n is what upstream sends after the last one.
Linked(q, st, c, n) ==
  /\ \A k \in 1 .. Len(q) - 1 : Follows(q[k], q[k + 1])
  /\ st = "idle" => q = <<>> /\ n = Idle
  /\ st \in {"routing", "vc_alloc"} => q # <<>> /\ IsHead(q[1])
  /\ st = "active" => IF q = <<>> THEN n # Idle /\ c \in pkt[n.pid].route
                      ELSE c \in pkt[q[1].pid].route
  /\ q # <<>> => n = Beyond(q[Len(q)])

\* In queue q, or among the entries S of it that have still to be updated.
Among(q, S, x) == x \in Range(q) \/ x \in S
Apart(q, S, x) == ~(x \in Range(q) /\ x \in S)

\* The queues x is in, A, V, H and W being the entries still to be updated.
Placed(s, A, V, H, W, x) ==
  /\ Among(s.routeQ, A, x) <=> s.state[x] = "routing"
  /\ Among(s.vcQ, V, x) <=> s.state[x] = "vc_alloc" /\ ~cfg.piggyback
  /\ Among(s.holdQ, H, x) <=> Holds(s, x)
  /\ Among(s.swQ, W, x) <=>
       \/ s.state[x] = "active" /\ s.fifo[x] # <<>> /\ ~Holds(s, x)
       \/ s.state[x] = "vc_alloc" /\ cfg.spec
  /\ Apart(s.routeQ, A, x) /\ Apart(s.vcQ, V, x) /\ Apart(s.holdQ, H, x) /\ Apart(s.swQ, W, x)
  /\ Holds(s, x) => /\ s.state[x] = "active" /\ s.fifo[x] # <<>>
                    /\ s.holdIn[ExpandedIn(x)] = ExpandedOut(x, s.out[x][1])
  /\ x \in H \cup W => x[2] \notin s.credits[x[1]]

\* What upstream is sending on x, but for an arrival of D that has not entered.
Sending(s, D, x) == IF x \in D THEN Before(FlitOn(s.inFlit, x)) ELSE feed[x]

Counted(s, D, x) ==
  used[x] = Len(s.fifo[x]) + (IF x \in D THEN 1 ELSE 0)
            + (IF x[2] \in s.credits[x[1]] THEN 1 ELSE 0)

Local(s, D, A, V, H, W, x) ==
  /\ Placed(s, A, V, H, W, x)
  /\ Linked(s.fifo[x], s.state[x], s.out[x], Sending(s, D, x))
  /\ Counted(s, D, x)

\* The tables of the held ports agree with each other.
Tables(s) ==
  /\ \A p \in InPorts :
       /\ s.holdVc[p] = None <=> s.holdIn[p] = None
       /\ s.holdIn[p] # None => /\ s.holdOut[s.holdIn[p]] = p
                                /\ \E x \in InVcs : ExpandedIn(x) = p /\ Holds(s, x)
  /\ \A p \in OutPorts : s.holdOut[p] # None => s.holdIn[s.holdOut[p]] = p

\* The ports x is granted, to port p, are free.
Free(s, x, p) ==
  s.holdVc[ExpandedIn(x)] = None /\ s.holdIn[ExpandedIn(x)] = None /\ s.holdOut[p] = None

\* What x is granted of the switch can be used.
Granted(s, V, x, p) ==
  /\ p \in OutPorts /\ Free(s, x, p)
  /\ p = ExpandedOut(x, OutputOf(p)) /\ OutputOf(p) \in Outputs
  /\ s.state[x] = "active" => OutputOf(p) = s.out[x][1]
  /\ s.state[x] # "active" =>
       IF cfg.piggyback THEN Candidates(s, x, OutputOf(p)) # {}
       ELSE x \in V /\ s.vcRes[x] # None /\ s.vcRes[x][1] = OutputOf(p)

Grants(s, V, W) ==
  /\ \A x \in V : s.vcRes[x] # None => s.vcRes[x] \in Route(s, x)
  /\ \A x \in W : s.swRes[x] # None => Granted(s, V, x, s.swRes[x])
  /\ \A x, y \in W : x # y /\ s.swRes[x] # None /\ s.swRes[y] # None =>
       ExpandedIn(x) # ExpandedIn(y) /\ s.swRes[x] # s.swRes[y]

Asleep(s) ==
  /\ s.routeQ = <<>> /\ s.vcQ = <<>> /\ s.holdQ = <<>> /\ s.swQ = <<>>
  /\ \A o \in Outputs : s.crossbar[o] = <<>>

Arrived(a) == a = None \/ a \in [vc : Vcs, pid : Pids, idx : Nat \ {0}]

\* Room: outputs whose flits the buffers bound.
Spacious(s, o) ==
  cfg.outSize < 0 \/ Len(s.outBuf[o]) < cfg.outSize \/ cfg.outSp = 1

-----------------------------------------------------------------------------
\* The steps of the folds of IQRouter.
EnterStep(a, s, i)  == Enter(s, i)
RouteStep(a, s, x)  == ToAllocation(s, x)
VcStep(a, s, x)     == AllocateVc(s, x)
HeldStep(a, s, x)   == UpdateHeld(s, x)
SwitchStep(a, s, x) == UpdateSwitched(s, x, a)

Entering  == INSTANCE FoldSteps WITH Op <- EnterStep
Routing   == INSTANCE FoldSteps WITH Op <- RouteStep
Taking    == INSTANCE FoldSteps WITH Op <- VcStep
Holding   == INSTANCE FoldSteps WITH Op <- HeldStep
Switching == INSTANCE FoldSteps WITH Op <- SwitchStep

\* The hypothesis of FoldLeftSteps, for each instance.
LEMMA FoldsOrdered ==
  Entering!Ordered /\ Routing!Ordered /\ Taking!Ordered /\ Holding!Ordered /\ Switching!Ordered
BY WellOrdered DEF Entering!Ordered, Routing!Ordered, Taking!Ordered, Holding!Ordered, Switching!Ordered

-----------------------------------------------------------------------------
(***************************************************************************)
(* The router and what its methods change of it.                           *)
(***************************************************************************)
Fields ==
  {"active", "activity", "inFlit", "inCredit", "fifo", "state", "out", "routeQ", "vcQ", "holdQ",
   "swQ", "vcRes", "holdRes", "swRes", "holdVc", "holdIn", "holdOut", "nextBuf", "crossbar",
   "crossing", "outBuf", "credits", "unmatched", "failed"}

Router(s) == DOMAIN s = Fields /\ s = [f \in Fields |-> s[f]]

\* Table h is g but for v at k.
Put(g, h, k, v) == h = [g EXCEPT ![k] = v]

\* t is s but for the fields F.
Keeps(s, t, F) == \A f \in Fields \ F : t[f] = s[f]

LEMMA ToAllocationEffect ==
  ASSUME NEW s, Router(s), NEW x \in InVcs, NEW t, t = ToAllocation(s, x)
  PROVE  /\ Router(t) /\ Keeps(s, t, {"state", "swQ", "vcQ"})
         /\ t.state = [s.state EXCEPT ![x] = "vc_alloc"]
         /\ t.swQ = IF cfg.spec THEN Append(s.swQ, x) ELSE s.swQ
         /\ t.vcQ = IF cfg.piggyback THEN s.vcQ ELSE Append(s.vcQ, x)
BY DEF ToAllocation, Router, Keeps, Fields

\* One of the queues grows by x.
LEMMA PushEffect ==
  ASSUME NEW s, Router(s), NEW x
  PROVE  /\ LET t == [s EXCEPT !.swQ = Append(@, x)]
            IN  Router(t) /\ Keeps(s, t, {"swQ"}) /\ t.swQ = Append(s.swQ, x)
         /\ LET t == [s EXCEPT !.holdQ = Append(@, x)]
            IN  Router(t) /\ Keeps(s, t, {"holdQ"}) /\ t.holdQ = Append(s.holdQ, x)
         /\ LET t == [s EXCEPT !.vcQ = Append(@, x)]
            IN  Router(t) /\ Keeps(s, t, {"vcQ"}) /\ t.vcQ = Append(s.vcQ, x)
BY DEF Router, Keeps, Fields

LEMMA NewHeadEffect ==
  ASSUME NEW s, Router(s), NEW x \in InVcs, NEW t, t = NewHead(s, x)
  PROVE  /\ Router(t) /\ Keeps(s, t, {"state", "routeQ", "swQ", "vcQ"})
         /\ t.state = [s.state EXCEPT ![x] = IF cfg.lookahead THEN "vc_alloc" ELSE "routing"]
         /\ t.routeQ = IF cfg.lookahead THEN s.routeQ ELSE Append(s.routeQ, x)
         /\ t.swQ = IF cfg.lookahead /\ cfg.spec THEN Append(s.swQ, x) ELSE s.swQ
         /\ t.vcQ = IF cfg.lookahead /\ ~cfg.piggyback THEN Append(s.vcQ, x) ELSE s.vcQ
<1>1. CASE cfg.lookahead
  <2>1. t = ToAllocation(s, x)
    BY <1>1 DEF NewHead
  <2>2. /\ Router(t) /\ Keeps(s, t, {"state", "swQ", "vcQ"})
        /\ t.state = [s.state EXCEPT ![x] = "vc_alloc"]
        /\ t.swQ = IF cfg.spec THEN Append(s.swQ, x) ELSE s.swQ
        /\ t.vcQ = IF cfg.piggyback THEN s.vcQ ELSE Append(s.vcQ, x)
    BY <2>1, ToAllocationEffect
  <2>3. t.routeQ = s.routeQ /\ Keeps(s, t, {"state", "routeQ", "swQ", "vcQ"})
    BY <2>2 DEF Keeps, Fields
  <2> QED BY <1>1, <2>2, <2>3
<1>2. CASE ~cfg.lookahead
  <2>1. t = [s EXCEPT !.state[x] = "routing", !.routeQ = Append(@, x)]
    BY <1>2 DEF NewHead
  <2> QED BY <1>2, <2>1 DEF Router, Keeps, Fields
<1> QED BY <1>1, <1>2

-----------------------------------------------------------------------------
(***************************************************************************)
(* The ports of the crossbar, and queues.                                  *)
(***************************************************************************)
LEMMA ConfigType ==
  ASSUME cfg \in Configs
  PROVE  /\ cfg.inSp \in Nat \ {0} /\ cfg.outSp \in Nat \ {0} /\ cfg.outSize \in Int
         /\ cfg.piggyback => cfg.spec
         /\ cfg.policy \in Policies /\ cfg.wait \in BOOLEAN
BY IQRouterAssumption DEF Config

\* Of several ports with the numbers n * k to n * k + k - 1, n has the quotients.
LEMMA PortOf ==
  ASSUME NEW k \in Nat \ {0}, NEW n \in Nat, NEW m \in 0 .. k-1
  PROVE  n * k + m \in Nat /\ (n * k + m) \div k = n
<1> DEFINE p == n * k + m
           d == p \div k
<1>1. p \in Nat
  OBVIOUS
<1>2. d \in Int /\ d * k <= p /\ p < (d + 1) * k
  <2> HIDE DEF p
  <2> QED BY <1>1
<1>3. ~(d < n)
  <2> SUFFICES ASSUME d + 1 <= n PROVE FALSE
    BY <1>2
  <2>1. (d + 1) * k <= n * k
    BY <1>2
  <2> QED BY <1>2, <2>1
<1>4. ~(n < d)
  <2> SUFFICES ASSUME n + 1 <= d PROVE FALSE
    BY <1>2
  <2>1. (n + 1) * k <= d * k /\ (n + 1) * k = n * k + k
    BY <1>2
  <2> QED BY <1>2, <2>1
<1> QED BY <1>1, <1>2, <1>3, <1>4

LEMMA PortBound ==
  ASSUME NEW k \in Nat \ {0}, NEW b \in Nat, NEW n \in 0 .. b-1, NEW m \in 0 .. k-1
  PROVE  n * k + m \in 0 .. b * k - 1
<1>1. n + 1 <= b /\ n \in Nat
  OBVIOUS
<1>2. (n + 1) * k <= b * k /\ (n + 1) * k = n * k + k
  BY <1>1
<1>3. n * k + m \in Nat /\ n * k \in Int /\ b * k \in Int
  BY PortOf, <1>1
<1> QED BY <1>2, <1>3

\* Ports of the VCs of a router.
LEMMA PortFacts ==
  ASSUME cfg \in Configs
  PROVE  /\ \A x \in InVcs : ExpandedIn(x) \in InPorts
         /\ \A x, y \in InVcs : ExpandedIn(x) = ExpandedIn(y) /\ x[2] = y[2] => x = y
         /\ \A x \in InVcs, o \in Outputs : ExpandedOut(x, o) \in OutPorts /\ OutputOf(ExpandedOut(x, o)) = o
<1>0. cfg.inSp \in Nat \ {0} /\ cfg.outSp \in Nat \ {0} /\ NumInputs \in Nat /\ NumOutputs \in Nat
      /\ NumVcs \in Nat
  BY ConfigType, IQRouterAssumption, BufferStateAssumption
<1>1. ASSUME NEW x \in InVcs
      PROVE  /\ ExpandedIn(x) \in InPorts /\ ExpandedIn(x) \div cfg.inSp = x[1]
             /\ \A o \in Outputs : ExpandedOut(x, o) \in OutPorts /\ OutputOf(ExpandedOut(x, o)) = o
  <2>1. x[1] \in 0 .. NumInputs - 1 /\ x[2] \in 0 .. NumVcs - 1
    BY DEF InVcs, Inputs, Vcs
  <2>2. x[2] % cfg.inSp \in 0 .. cfg.inSp - 1 /\ x[1] % cfg.outSp \in 0 .. cfg.outSp - 1
    BY <1>0, <2>1
  <2>3. x[1] * cfg.inSp + (x[2] % cfg.inSp) \in 0 .. NumInputs * cfg.inSp - 1
    BY <1>0, <2>1, <2>2, PortBound
  <2>4. (x[1] * cfg.inSp + (x[2] % cfg.inSp)) \div cfg.inSp = x[1]
    BY <1>0, <2>1, <2>2, PortOf
  <2>5. ASSUME NEW o \in Outputs
        PROVE  ExpandedOut(x, o) \in OutPorts /\ OutputOf(ExpandedOut(x, o)) = o
    <3>1. o \in 0 .. NumOutputs - 1 /\ o \in Nat
      BY <1>0 DEF Outputs
    <3>2. o * cfg.outSp + (x[1] % cfg.outSp) \in 0 .. NumOutputs * cfg.outSp - 1
      BY <1>0, <2>2, <3>1, PortBound
    <3>3. (o * cfg.outSp + (x[1] % cfg.outSp)) \div cfg.outSp = o
      BY <1>0, <2>2, <3>1, PortOf
    <3> QED BY <3>2, <3>3 DEF ExpandedOut, OutPorts, OutputOf
  <2> QED BY <2>3, <2>4, <2>5 DEF ExpandedIn, InPorts
<1>2. ASSUME NEW x \in InVcs, NEW y \in InVcs, ExpandedIn(x) = ExpandedIn(y), x[2] = y[2]
      PROVE  x = y
  <2>1. x[1] = y[1]
    BY <1>1, <1>2
  <2> QED BY <1>2, <2>1 DEF InVcs
<1> QED BY <1>1, <1>2

\* A queue of VCs, none twice and none of S.
Listed(q, S) == q \in Seq(InVcs) /\ IsInjective(q) /\ \A x \in S : x \notin Range(q)

LEMMA EmptyListed == Listed(<<>>, {}) /\ Range(<<>>) = {} /\ \A S : Listed(<<>>, S)
BY DEF Listed, Range, IsInjective

LEMMA PushListed ==
  ASSUME NEW q, NEW S, NEW T \in SUBSET S, Listed(q, S), NEW x \in InVcs, x \notin Range(q), x \notin T
  PROVE  /\ Listed(Append(q, x), T)
         /\ \A y : y \in Range(Append(q, x)) <=> y = x \/ y \in Range(q)
         /\ Append(q, x) # <<>>
<1> DEFINE n == Len(q)
           a == Append(q, x)
<1>1. q \in Seq(InVcs) /\ n \in Nat /\ DOMAIN q = 1 .. n
  BY DEF Listed
<1>2. a \in Seq(InVcs) /\ DOMAIN a = 1 .. n+1 /\ a[n+1] = x /\ \A k \in 1 .. n : a[k] = q[k]
  BY <1>1
<1>3. \A k \in 1 .. n : q[k] \in Range(q)
  BY <1>1 DEF Range
<1>4. IsInjective(a)
  <2> SUFFICES ASSUME NEW j \in 1 .. n+1, NEW k \in 1 .. n+1, a[j] = a[k] PROVE j = k
    BY <1>2 DEF IsInjective
  <2>1. CASE j \in 1 .. n /\ k \in 1 .. n
    BY <1>1, <1>2, <2>1 DEF Listed, IsInjective
  <2>2. CASE j = n+1 /\ k \in 1 .. n
    BY <1>1, <1>2, <1>3, <2>2
  <2>3. CASE k = n+1 /\ j \in 1 .. n
    BY <1>1, <1>2, <1>3, <2>3
  <2>4. CASE j = n+1 /\ k = n+1
    BY <2>4
  <2> QED BY <1>1, <2>1, <2>2, <2>3, <2>4
<1>5. \A y : y \in Range(a) <=> y = x \/ y \in Range(q)
  <2>1. \A y \in Range(a) : y = x \/ y \in Range(q)
    <3> TAKE y \in Range(a)
    <3>1. PICK k \in 1 .. n+1 : y = a[k]
      BY <1>2 DEF Range
    <3> QED BY <1>1, <1>2, <1>3, <3>1
  <2>2. x \in Range(a)
    BY <1>1, <1>2 DEF Range
  <2>3. \A y \in Range(q) : y \in Range(a)
    <3> TAKE y \in Range(q)
    <3>1. PICK k \in 1 .. n : y = q[k]
      BY <1>1 DEF Range
    <3> QED BY <1>1, <1>2, <3>1 DEF Range
  <2> QED BY <2>1, <2>2, <2>3
<1> QED BY <1>1, <1>2, <1>4, <1>5 DEF Listed

\* The entries of a queue after the first k.
Rest(q, k) == {q[j] : j \in k+1 .. Len(q)}

LEMMA RestStep ==
  ASSUME NEW q \in Seq(InVcs), IsInjective(q), NEW k \in 1 .. Len(q)
  PROVE  /\ q[k] \in Rest(q, k-1) /\ q[k] \in InVcs
         /\ Rest(q, k) = Rest(q, k-1) \ {q[k]}
         /\ Rest(q, 0) = Range(q) /\ Rest(q, Len(q)) = {}
<1> DEFINE n == Len(q)
<1>1. n \in Nat /\ DOMAIN q = 1 .. n
  OBVIOUS
<1>2. (k-1)+1 = k /\ k \in Nat
  OBVIOUS
<1>3. q[k] \in Rest(q, k-1) /\ q[k] \in InVcs
  BY <1>1, <1>2 DEF Rest
<1>4. \A j \in k+1 .. n : q[j] # q[k]
  BY <1>1 DEF IsInjective
<1>5. Rest(q, k) = Rest(q, k-1) \ {q[k]}
  <2>1. \A j \in k .. n : j = k \/ j \in k+1 .. n
    BY <1>1, <1>2
  <2>2. k+1 .. n \subseteq k .. n
    BY <1>1, <1>2
  <2> QED BY <1>2, <1>4, <2>1, <2>2 DEF Rest
<1>6. Rest(q, 0) = Range(q)
  BY <1>1 DEF Rest, Range
<1>7. Rest(q, n) = {}
  <2>1. n+1 .. n = {}
    BY <1>1
  <2> QED BY <2>1 DEF Rest
<1> QED BY <1>3, <1>5, <1>6, <1>7

LEMMA RestEnds ==
  ASSUME NEW q \in Seq(InVcs)
  PROVE  Rest(q, 0) = Range(q) /\ Rest(q, Len(q)) = {}
<1> DEFINE n == Len(q)
<1>1. n \in Nat /\ DOMAIN q = 1 .. n /\ n+1 .. n = {}
  OBVIOUS
<1> QED BY <1>1 DEF Rest, Range

-----------------------------------------------------------------------------
(***************************************************************************)
(* Types, and what a method that is about x leaves as it was.              *)
(***************************************************************************)
States == {"idle", "routing", "vc_alloc", "active"}

Distinct(q) == q \in Seq(InVcs) /\ IsInjective(q)

Typed(s) ==
  /\ Router(s)
  /\ s.fifo \in [InVcs -> Seq(Flit)]
  /\ s.state \in [InVcs -> States]
  /\ s.out \in [InVcs -> OutVcs \cup {None}]
  /\ Distinct(s.routeQ) /\ Distinct(s.vcQ) /\ Distinct(s.holdQ) /\ Distinct(s.swQ)
  /\ s.holdVc \in [InPorts -> Vcs \cup {None}]
  /\ s.holdIn \in [InPorts -> OutPorts \cup {None}]
  /\ s.holdOut \in [OutPorts -> InPorts \cup {None}]
  /\ s.crossbar \in [Outputs -> Seq(Moving)]
  /\ s.crossing \in [Outputs -> Seq(Moving)]
  /\ s.outBuf \in [Outputs -> Seq(Moving)]
  /\ s.credits \in [Inputs -> SUBSET Vcs]
  /\ DOMAIN s.nextBuf = Outputs /\ s.nextBuf = [o \in Outputs |-> s.nextBuf[o]]

\* The fields the updates of the queues' entries change.
Moved ==
  {"fifo", "state", "out", "routeQ", "vcQ", "holdQ", "swQ", "holdVc", "holdIn", "holdOut",
   "nextBuf", "crossbar", "credits", "failed", "unmatched"}

\* Of y, s and t say the same.
Same(s, t, y) ==
  /\ t.fifo[y] = s.fifo[y] /\ t.state[y] = s.state[y] /\ t.out[y] = s.out[y]
  /\ y \in Range(t.routeQ) <=> y \in Range(s.routeQ)
  /\ y \in Range(t.vcQ) <=> y \in Range(s.vcQ)
  /\ y \in Range(t.holdQ) <=> y \in Range(s.holdQ)
  /\ y \in Range(t.swQ) <=> y \in Range(s.swQ)
  /\ Holds(t, y) <=> Holds(s, y)
  /\ Holds(s, y) => t.holdIn[ExpandedIn(y)] = s.holdIn[ExpandedIn(y)]
  /\ y[2] \in t.credits[y[1]] <=> y[2] \in s.credits[y[1]]

\* t differs from s in what is about x.
Only(s, t, x) ==
  /\ Typed(t)
  /\ Keeps(s, t, Moved)
  /\ \A y \in InVcs : y # x => Same(s, t, y)

LEMMA OnlyTrans ==
  ASSUME NEW s, NEW t, NEW u, NEW x, Only(s, t, x), Only(t, u, x)
  PROVE  Only(s, u, x)
<1>1. Keeps(s, u, Moved)
  BY DEF Only, Keeps
<1>2. ASSUME NEW y \in InVcs, y # x PROVE Same(s, u, y)
  BY <1>2 DEF Only, Same
<1> QED BY <1>1, <1>2 DEF Only

LEMMA OnlyRefl ==
  ASSUME NEW s, NEW x, Typed(s)
  PROVE  Only(s, s, x)
BY DEF Only, Keeps, Same

\* A queue that grows by x.
LEMMA PushDistinct ==
  ASSUME NEW q, Distinct(q), NEW x \in InVcs, x \notin Range(q)
  PROVE  /\ Distinct(Append(q, x)) /\ Append(q, x) # <<>>
         /\ \A y : y \in Range(Append(q, x)) <=> y = x \/ y \in Range(q)
<1>1. Listed(q, {})
  BY DEF Distinct, Listed
<1>2. {} \in SUBSET {} /\ x \notin {}
  OBVIOUS
<1>3. /\ Listed(Append(q, x), {}) /\ Append(q, x) # <<>>
      /\ \A y : y \in Range(Append(q, x)) <=> y = x \/ y \in Range(q)
  BY ONLY <1>1, <1>2, x \in InVcs, x \notin Range(q), PushListed
<1> QED BY <1>3 DEF Distinct, Listed

\* x joins swQ.
LEMMA PushSwQ ==
  ASSUME NEW s, Typed(s), NEW x \in InVcs, x \notin Range(s.swQ),
         NEW t, t = [s EXCEPT !.swQ = Append(@, x)]
  PROVE  /\ Only(s, t, x) /\ Keeps(s, t, {"swQ"})
         /\ x \in Range(t.swQ) /\ t.swQ # <<>>
<1>1. Router(t) /\ Keeps(s, t, {"swQ"}) /\ t.swQ = Append(s.swQ, x)
  BY PushEffect DEF Typed
<1>2. /\ Distinct(t.swQ) /\ t.swQ # <<>>
      /\ \A y : y \in Range(t.swQ) <=> y = x \/ y \in Range(s.swQ)
  <2>1. Distinct(s.swQ)
    BY DEF Typed
  <2> QED BY <1>1, <2>1, PushDistinct
<1>3. Typed(t)
  BY <1>1, <1>2 DEF Typed, Keeps, Fields
<1>4. \A y \in InVcs : y # x => Same(s, t, y)
  BY <1>1, <1>2 DEF Same, Keeps, Fields, Holds
<1>5. Keeps(s, t, Moved)
  BY <1>1 DEF Keeps, Moved
<1> QED BY <1>1, <1>2, <1>3, <1>4, <1>5 DEF Only

\* x joins holdQ.
LEMMA PushHoldQ ==
  ASSUME NEW s, Typed(s), NEW x \in InVcs, x \notin Range(s.holdQ),
         NEW t, t = [s EXCEPT !.holdQ = Append(@, x)]
  PROVE  /\ Only(s, t, x) /\ Keeps(s, t, {"holdQ"})
         /\ x \in Range(t.holdQ) /\ t.holdQ # <<>>
<1>1. Router(t) /\ Keeps(s, t, {"holdQ"}) /\ t.holdQ = Append(s.holdQ, x)
  BY PushEffect DEF Typed
<1>2. /\ Distinct(t.holdQ) /\ t.holdQ # <<>>
      /\ \A y : y \in Range(t.holdQ) <=> y = x \/ y \in Range(s.holdQ)
  <2>1. Distinct(s.holdQ)
    BY DEF Typed
  <2> QED BY <1>1, <2>1, PushDistinct
<1>3. Typed(t)
  BY <1>1, <1>2 DEF Typed, Keeps, Fields
<1>4. \A y \in InVcs : y # x => Same(s, t, y)
  BY <1>1, <1>2 DEF Same, Keeps, Fields, Holds
<1>5. Keeps(s, t, Moved)
  BY <1>1 DEF Keeps, Moved
<1> QED BY <1>1, <1>2, <1>3, <1>4, <1>5 DEF Only

\* x joins vcQ.
LEMMA PushVcQ ==
  ASSUME NEW s, Typed(s), NEW x \in InVcs, x \notin Range(s.vcQ),
         NEW t, t = [s EXCEPT !.vcQ = Append(@, x)]
  PROVE  /\ Only(s, t, x) /\ Keeps(s, t, {"vcQ"})
         /\ x \in Range(t.vcQ) /\ t.vcQ # <<>>
<1>1. Router(t) /\ Keeps(s, t, {"vcQ"}) /\ t.vcQ = Append(s.vcQ, x)
  BY PushEffect DEF Typed
<1>2. /\ Distinct(t.vcQ) /\ t.vcQ # <<>>
      /\ \A y : y \in Range(t.vcQ) <=> y = x \/ y \in Range(s.vcQ)
  <2>1. Distinct(s.vcQ)
    BY DEF Typed
  <2> QED BY <1>1, <2>1, PushDistinct
<1>3. Typed(t)
  BY <1>1, <1>2 DEF Typed, Keeps, Fields
<1>4. \A y \in InVcs : y # x => Same(s, t, y)
  BY <1>1, <1>2 DEF Same, Keeps, Fields, Holds
<1>5. Keeps(s, t, Moved)
  BY <1>1 DEF Keeps, Moved
<1> QED BY <1>1, <1>2, <1>3, <1>4, <1>5 DEF Only

LEMMA ToAllocationOnly ==
  ASSUME NEW s, Typed(s), NEW x \in InVcs, NEW t, t = ToAllocation(s, x),
         cfg.spec => x \notin Range(s.swQ), ~cfg.piggyback => x \notin Range(s.vcQ)
  PROVE  /\ Only(s, t, x) /\ Keeps(s, t, {"state", "swQ", "vcQ"})
         /\ t.state[x] = "vc_alloc"
         /\ x \in Range(t.swQ) <=> cfg.spec \/ x \in Range(s.swQ)
         /\ x \in Range(t.vcQ) <=> ~cfg.piggyback \/ x \in Range(s.vcQ)
<1>0. Router(s)
  BY DEF Typed
<1>1. /\ Router(t) /\ Keeps(s, t, {"state", "swQ", "vcQ"})
      /\ t.state = [s.state EXCEPT ![x] = "vc_alloc"]
      /\ t.swQ = IF cfg.spec THEN Append(s.swQ, x) ELSE s.swQ
      /\ t.vcQ = IF cfg.piggyback THEN s.vcQ ELSE Append(s.vcQ, x)
  BY ToAllocationEffect, <1>0
<1>2. Distinct(s.swQ) /\ Distinct(s.vcQ)
  BY DEF Typed
<1>3. /\ Distinct(t.swQ)
      /\ \A y : y \in Range(t.swQ) <=> (y = x /\ cfg.spec) \/ y \in Range(s.swQ)
  <2>1. CASE cfg.spec
    BY <1>1, <1>2, <2>1, PushDistinct
  <2>2. CASE ~cfg.spec
    BY <1>1, <1>2, <2>2
  <2> QED BY <2>1, <2>2
<1>4. /\ Distinct(t.vcQ)
      /\ \A y : y \in Range(t.vcQ) <=> (y = x /\ ~cfg.piggyback) \/ y \in Range(s.vcQ)
  <2>1. CASE ~cfg.piggyback
    BY <1>1, <1>2, <2>1, PushDistinct
  <2>2. CASE cfg.piggyback
    BY <1>1, <1>2, <2>2
  <2> QED BY <2>1, <2>2
<1>5. Typed(t) /\ t.state[x] = "vc_alloc"
  <2>1. t.state \in [InVcs -> States] /\ t.state[x] = "vc_alloc"
    BY <1>1 DEF Typed, States
  <2> QED BY <1>1, <1>3, <1>4, <2>1 DEF Typed, Keeps, Fields
<1>6. \A y \in InVcs : y # x => Same(s, t, y)
  BY <1>1, <1>3, <1>4 DEF Same, Keeps, Fields, Holds, Typed
<1>7. Keeps(s, t, Moved)
  BY <1>1 DEF Keeps, Moved
<1> QED BY <1>1, <1>3, <1>4, <1>5, <1>6, <1>7 DEF Only

LEMMA NewHeadOnly ==
  ASSUME NEW s, Typed(s), NEW x \in InVcs, NEW t, t = NewHead(s, x),
         x \notin Range(s.routeQ), x \notin Range(s.swQ), x \notin Range(s.vcQ)
  PROVE  /\ Only(s, t, x) /\ Keeps(s, t, {"state", "routeQ", "swQ", "vcQ"})
         /\ t.state[x] = IF cfg.lookahead THEN "vc_alloc" ELSE "routing"
         /\ x \in Range(t.routeQ) <=> ~cfg.lookahead
         /\ x \in Range(t.swQ) <=> cfg.lookahead /\ cfg.spec
         /\ x \in Range(t.vcQ) <=> cfg.lookahead /\ ~cfg.piggyback
<1>0. Router(s)
  BY DEF Typed
<1>1. CASE cfg.lookahead
  <2>1. t = ToAllocation(s, x)
    BY <1>1 DEF NewHead
  <2>2. /\ Only(s, t, x) /\ Keeps(s, t, {"state", "swQ", "vcQ"})
        /\ t.state[x] = "vc_alloc"
        /\ x \in Range(t.swQ) <=> cfg.spec \/ x \in Range(s.swQ)
        /\ x \in Range(t.vcQ) <=> ~cfg.piggyback \/ x \in Range(s.vcQ)
    BY <2>1, ToAllocationOnly
  <2>3. t.routeQ = s.routeQ /\ Keeps(s, t, {"state", "routeQ", "swQ", "vcQ"})
    BY <2>2 DEF Keeps, Fields
  <2> QED BY <1>1, <2>2, <2>3
<1>2. CASE ~cfg.lookahead
  <2>1. /\ Router(t) /\ Keeps(s, t, {"state", "routeQ", "swQ", "vcQ"})
        /\ t.state = [s.state EXCEPT ![x] = "routing"]
        /\ t.routeQ = Append(s.routeQ, x) /\ t.swQ = s.swQ /\ t.vcQ = s.vcQ
    BY <1>2, NewHeadEffect, <1>0
  <2>2. Distinct(s.routeQ)
    BY DEF Typed
  <2>3. /\ Distinct(t.routeQ)
        /\ \A y : y \in Range(t.routeQ) <=> y = x \/ y \in Range(s.routeQ)
    BY <2>1, <2>2, PushDistinct
  <2>4. Typed(t) /\ t.state[x] = "routing"
    <3>1. t.state \in [InVcs -> States] /\ t.state[x] = "routing"
      BY <2>1 DEF Typed, States
    <3> QED BY <2>1, <2>3, <3>1 DEF Typed, Keeps, Fields
  <2>5. \A y \in InVcs : y # x => Same(s, t, y)
    BY <2>1, <2>3 DEF Same, Keeps, Fields, Holds, Typed
  <2>6. Keeps(s, t, Moved)
    BY <2>1 DEF Keeps, Moved
  <2> QED BY <1>2, <2>1, <2>3, <2>4, <2>5, <2>6 DEF Only
<1> QED BY <1>1, <1>2

LEMMA TakeOnly ==
  ASSUME NEW s, Typed(s), NEW x \in InVcs, NEW c \in OutVcs, NEW t, t = Take(s, x, c)
  PROVE  /\ Only(s, t, x) /\ Keeps(s, t, {"state", "out", "nextBuf"})
         /\ t.state[x] = "active" /\ t.out[x] = c
         /\ Put(s.nextBuf, t.nextBuf, c[1],
                TakeBuffer(s.nextBuf[c[1]], c[2], x))
<1>0. Router(s)
  BY DEF Typed
<1>1. /\ Router(t) /\ Keeps(s, t, {"state", "out", "nextBuf"})
      /\ t.state = [s.state EXCEPT ![x] = "active"]
      /\ t.out = [s.out EXCEPT ![x] = c]
      /\ Put(s.nextBuf, t.nextBuf, c[1],
             TakeBuffer(s.nextBuf[c[1]], c[2], x))
  BY <1>0 DEF Put, Take, Router, Keeps, Fields
<1>2. Typed(t) /\ t.state[x] = "active" /\ t.out[x] = c
  <2>1. t.state \in [InVcs -> States] /\ t.state[x] = "active"
    BY <1>1 DEF Typed, States
  <2>2. t.out \in [InVcs -> OutVcs \cup {None}] /\ t.out[x] = c
    BY <1>1 DEF Typed
  <2>3. DOMAIN t.nextBuf = Outputs /\ t.nextBuf = [o \in Outputs |-> t.nextBuf[o]]
    BY <1>1 DEF Put, Typed
  <2> QED BY <1>1, <2>1, <2>2, <2>3 DEF Typed, Keeps, Fields
<1>3. \A y \in InVcs : y # x => Same(s, t, y)
  <2>1. \A y \in InVcs : y # x => t.state[y] = s.state[y] /\ t.out[y] = s.out[y]
    BY <1>1 DEF Typed
  <2> QED BY <1>1, <2>1 DEF Same, Keeps, Fields, Holds
<1>4. Keeps(s, t, Moved)
  BY <1>1 DEF Keeps, Moved
<1> QED BY <1>1, <1>2, <1>3, <1>4 DEF Only


LEMMA ForwardOnly ==
  ASSUME NEW s, Typed(s), NEW x \in InVcs, s.fifo[x] # <<>>, NEW c \in OutVcs, s.out[x] = c,
         NEW p, OutputOf(p) = c[1], NEW t, t = Forward(s, x, p)
  PROVE  /\ Only(s, t, x)
         /\ Keeps(s, t, {"fifo", "nextBuf", "crossbar", "credits", "failed"})
         /\ t.fifo[x] = Tail(s.fifo[x]) /\ x[2] \in t.credits[x[1]]
         /\ ~s.failed => ~t.failed
         /\ Put(s.nextBuf, t.nextBuf, c[1],
                SendingFlit(s.nextBuf[c[1]], c[2], IsTail(FrontFlit(s, x))))
         /\ Put(s.crossbar, t.crossbar, c[1],
                Append(s.crossbar[c[1]], [vc |-> c[2], flit |-> FrontFlit(s, x)]))
<1>0. Router(s) /\ c[1] \in Outputs /\ c[2] \in Vcs /\ x[1] \in Inputs /\ x[2] \in Vcs
  BY DEF Typed, InVcs, OutVcs
<1>1. /\ Router(t) /\ Keeps(s, t, {"fifo", "nextBuf", "crossbar", "credits", "failed"})
      /\ t.fifo = [s.fifo EXCEPT ![x] = Tail(@)]
      /\ Put(s.nextBuf, t.nextBuf, c[1],
             SendingFlit(s.nextBuf[c[1]], c[2], IsTail(FrontFlit(s, x))))
      /\ Put(s.crossbar, t.crossbar, c[1],
             Append(s.crossbar[c[1]], [vc |-> c[2], flit |-> FrontFlit(s, x)]))
      /\ t.credits = [s.credits EXCEPT ![x[1]] = @ \cup {x[2]}]
      /\ t.failed = (s.failed \/ c[1] # c[1])
  BY <1>0 DEF Put, Forward, Router, Keeps, Fields
<1>2. t.fifo \in [InVcs -> Seq(Flit)] /\ t.fifo[x] = Tail(s.fifo[x])
  BY <1>1 DEF Typed
<1>3. FrontFlit(s, x) \in Flit
  BY DEF Typed, FrontFlit
<1>4. t.crossbar \in [Outputs -> Seq(Moving)]
  <2>1. [vc |-> c[2], flit |-> FrontFlit(s, x)] \in Moving
    BY <1>0, <1>3 DEF Moving
  <2>2. s.crossbar \in [Outputs -> Seq(Moving)]
    BY DEF Typed
  <2> QED BY <1>0, <1>1, <2>1, <2>2 DEF Put
<1>5. /\ t.credits \in [Inputs -> SUBSET Vcs] /\ x[2] \in t.credits[x[1]]
      /\ \A y \in InVcs : y # x => (y[2] \in t.credits[y[1]] <=> y[2] \in s.credits[y[1]])
  <2>1. s.credits \in [Inputs -> SUBSET Vcs]
    BY DEF Typed
  <2>2. t.credits \in [Inputs -> SUBSET Vcs] /\ x[2] \in t.credits[x[1]]
    BY <1>0, <1>1, <2>1
  <2>3. ASSUME NEW y \in InVcs, y # x
        PROVE  y[2] \in t.credits[y[1]] <=> y[2] \in s.credits[y[1]]
    <3>1. y[1] \in Inputs /\ (y[1] # x[1] \/ y[2] # x[2])
      BY <2>3 DEF InVcs
    <3> QED BY <1>0, <1>1, <2>1, <3>1
  <2> QED BY <2>2, <2>3
<1>6. DOMAIN t.nextBuf = Outputs /\ t.nextBuf = [o \in Outputs |-> t.nextBuf[o]]
  BY <1>1 DEF Put, Typed
<1>7. Typed(t)
  BY <1>1, <1>2, <1>4, <1>5, <1>6 DEF Typed, Keeps, Fields
<1>8. \A y \in InVcs : y # x => Same(s, t, y)
  <2>1. \A y \in InVcs : y # x => t.fifo[y] = s.fifo[y]
    BY <1>1 DEF Typed
  <2> QED BY <1>1, <1>5, <2>1 DEF Same, Keeps, Fields, Holds
<1>9. Keeps(s, t, Moved)
  BY <1>1 DEF Keeps, Moved
<1> QED BY <1>1, <1>2, <1>5, <1>7, <1>8, <1>9 DEF Only

\* The port of another holder is another port.
LEMMA OtherHolder ==
  ASSUME cfg \in Configs, NEW s, NEW x \in InVcs, NEW y \in InVcs, y # x, Holds(s, x)
  PROVE  ~(ExpandedIn(y) = ExpandedIn(x) /\ Holds(s, y))
BY PortFacts DEF Holds

\* x gives its ports back.
LEMMA ReleaseOnly ==
  ASSUME cfg \in Configs, NEW s, Typed(s), Tables(s), NEW x \in InVcs, Holds(s, x),
         NEW t, t = Release(s, x)
  PROVE  /\ Only(s, t, x) /\ Keeps(s, t, {"holdVc", "holdIn", "holdOut"})
         /\ Tables(t) /\ ~Holds(t, x)
         /\ \A y \in InVcs, p \in OutPorts : Free(s, y, p) => Free(t, y, p)
<1> DEFINE i == ExpandedIn(x)
           q == s.holdIn[i]
<1>0. Router(s) /\ i \in InPorts /\ x[2] \in Vcs /\ s.holdVc[i] = x[2] /\ x[2] # None
  BY PortFacts, IQRouterAssumption, BufferStateAssumption DEF Typed, InVcs, Holds, Vcs
<1>1. q \in OutPorts /\ s.holdOut[q] = i
  BY <1>0 DEF Typed, Tables
<1>2. /\ Router(t) /\ Keeps(s, t, {"holdVc", "holdIn", "holdOut"})
      /\ t.holdVc = [s.holdVc EXCEPT ![i] = None]
      /\ t.holdIn = [s.holdIn EXCEPT ![i] = None]
      /\ t.holdOut = [s.holdOut EXCEPT ![q] = None]
  BY <1>0 DEF Release, Router, Keeps, Fields
<1> HIDE DEF i, q
<1>3. /\ s.holdVc \in [InPorts -> Vcs \cup {None}] /\ s.holdIn \in [InPorts -> OutPorts \cup {None}]
      /\ s.holdOut \in [OutPorts -> InPorts \cup {None}]
  BY DEF Typed
<1>4. /\ t.holdVc \in [InPorts -> Vcs \cup {None}] /\ t.holdIn \in [InPorts -> OutPorts \cup {None}]
      /\ t.holdOut \in [OutPorts -> InPorts \cup {None}]
      /\ t.holdVc[i] = None /\ t.holdIn[i] = None /\ t.holdOut[q] = None
      /\ \A p \in InPorts : p # i => t.holdVc[p] = s.holdVc[p] /\ t.holdIn[p] = s.holdIn[p]
      /\ \A p \in OutPorts : p # q => t.holdOut[p] = s.holdOut[p]
  BY <1>0, <1>1, <1>2, <1>3
<1>5. Typed(t)
  BY <1>2, <1>4 DEF Typed, Keeps, Fields
<1>6. ~Holds(t, x)
  BY <1>0, <1>4 DEF Holds, i
<1>7. ASSUME NEW y \in InVcs, y # x PROVE Same(s, t, y)
  <2>1. ExpandedIn(y) \in InPorts
    BY PortFacts
  <2>2. CASE ExpandedIn(y) = i
    <3>1. ~Holds(s, y)
      BY <1>7, <2>2, OtherHolder DEF i
    <3>2. ~Holds(t, y)
      <4>1. y[2] # None
        BY IQRouterAssumption, BufferStateAssumption DEF InVcs, Vcs
      <4> QED BY <1>4, <2>2, <4>1 DEF Holds
    <3> QED BY <1>2, <3>1, <3>2 DEF Same, Keeps, Fields
  <2>3. CASE ExpandedIn(y) # i
    <3>1. (Holds(t, y) <=> Holds(s, y)) /\ t.holdIn[ExpandedIn(y)] = s.holdIn[ExpandedIn(y)]
      BY <1>4, <2>1, <2>3 DEF Holds
    <3> QED BY <1>2, <3>1 DEF Same, Keeps, Fields
  <2> QED BY <2>2, <2>3
<1>8. Tables(t)
  <2>1. ASSUME NEW p \in InPorts
        PROVE  /\ t.holdVc[p] = None <=> t.holdIn[p] = None
               /\ t.holdIn[p] # None => /\ t.holdOut[t.holdIn[p]] = p
                                        /\ \E y \in InVcs : ExpandedIn(y) = p /\ Holds(t, y)
    <3>1. CASE p = i
      BY <1>4, <3>1
    <3>2. CASE p # i
      <4>1. t.holdVc[p] = s.holdVc[p] /\ t.holdIn[p] = s.holdIn[p]
        BY <1>4, <3>2
      <4>2. s.holdVc[p] = None <=> s.holdIn[p] = None
        BY DEF Tables
      <4>3. ASSUME s.holdIn[p] # None
            PROVE  /\ t.holdOut[s.holdIn[p]] = p
                   /\ \E y \in InVcs : ExpandedIn(y) = p /\ Holds(t, y)
        <5>1. s.holdOut[s.holdIn[p]] = p /\ s.holdIn[p] \in OutPorts
          BY <1>3, <4>3 DEF Tables
        <5>2. s.holdIn[p] # q
          BY <1>1, <3>2, <5>1
        <5>3. PICK y \in InVcs : ExpandedIn(y) = p /\ Holds(s, y)
          BY <4>3 DEF Tables
        <5>4. Holds(t, y)
          BY <4>1, <5>3 DEF Holds
        <5> QED BY <1>4, <5>1, <5>2, <5>3, <5>4
      <4> QED BY <4>1, <4>2, <4>3
    <3> QED BY <3>1, <3>2
  <2>2. ASSUME NEW p \in OutPorts, t.holdOut[p] # None
        PROVE  t.holdIn[t.holdOut[p]] = p
    <3>1. p # q /\ t.holdOut[p] = s.holdOut[p]
      BY <1>4, <2>2
    <3>2. s.holdIn[s.holdOut[p]] = p /\ s.holdOut[p] \in InPorts
      BY <1>3, <2>2, <3>1 DEF Tables
    <3>3. s.holdOut[p] # i
      BY <3>1, <3>2 DEF q
    <3> QED BY <1>4, <3>1, <3>2, <3>3
  <2> QED BY <2>1, <2>2 DEF Tables
<1>9. ASSUME NEW y \in InVcs, NEW p \in OutPorts, Free(s, y, p) PROVE Free(t, y, p)
  <2>1. ExpandedIn(y) \in InPorts
    BY PortFacts
  <2> QED BY <1>4, <1>9, <2>1 DEF Free
<1>10. Keeps(s, t, Moved)
  BY <1>2 DEF Keeps, Moved
<1> QED BY <1>2, <1>5, <1>6, <1>7, <1>8, <1>9, <1>10 DEF Only

\* x takes ports that are free.
LEMMA HoldOnly ==
  ASSUME cfg \in Configs, NEW s, Typed(s), Tables(s), NEW x \in InVcs, NEW p \in OutPorts,
         Free(s, x, p), x \notin Range(s.holdQ), NEW t, t = Hold(s, x, p)
  PROVE  /\ Only(s, t, x) /\ Keeps(s, t, {"holdVc", "holdIn", "holdOut", "holdQ"})
         /\ Tables(t) /\ Holds(t, x) /\ t.holdIn[ExpandedIn(x)] = p
         /\ x \in Range(t.holdQ)
         /\ \A y \in InVcs, q \in OutPorts :
              ExpandedIn(y) # ExpandedIn(x) /\ q # p /\ Free(s, y, q) => Free(t, y, q)
<1> DEFINE i == ExpandedIn(x)
<1>0. Router(s) /\ i \in InPorts /\ x[2] \in Vcs /\ x[2] # None /\ i # None /\ p # None
  <2>1. Router(s) /\ i \in InPorts /\ x[2] \in Vcs /\ x[2] # None
    BY PortFacts, IQRouterAssumption, BufferStateAssumption DEF Typed, InVcs, Vcs
  <2>2. \A k \in InPorts \cup OutPorts : k # None
    BY IQRouterAssumption DEF InPorts, OutPorts
  <2> QED BY <2>1, <2>2
<1>1. s.holdVc[i] = None /\ s.holdIn[i] = None /\ s.holdOut[p] = None
  BY DEF Free
<1>2. /\ Router(t) /\ Keeps(s, t, {"holdVc", "holdIn", "holdOut", "holdQ"})
      /\ t.holdVc = [s.holdVc EXCEPT ![i] = x[2]]
      /\ t.holdIn = [s.holdIn EXCEPT ![i] = p]
      /\ t.holdOut = [s.holdOut EXCEPT ![p] = i]
      /\ t.holdQ = Append(s.holdQ, x)
  BY <1>0 DEF Hold, Router, Keeps, Fields
<1> HIDE DEF i
<1>3. /\ s.holdVc \in [InPorts -> Vcs \cup {None}] /\ s.holdIn \in [InPorts -> OutPorts \cup {None}]
      /\ s.holdOut \in [OutPorts -> InPorts \cup {None}] /\ Distinct(s.holdQ)
  BY DEF Typed
<1>4. /\ t.holdVc \in [InPorts -> Vcs \cup {None}] /\ t.holdIn \in [InPorts -> OutPorts \cup {None}]
      /\ t.holdOut \in [OutPorts -> InPorts \cup {None}]
      /\ t.holdVc[i] = x[2] /\ t.holdIn[i] = p /\ t.holdOut[p] = i
      /\ \A k \in InPorts : k # i => t.holdVc[k] = s.holdVc[k] /\ t.holdIn[k] = s.holdIn[k]
      /\ \A k \in OutPorts : k # p => t.holdOut[k] = s.holdOut[k]
  BY <1>0, <1>2, <1>3
<1>5. /\ Distinct(t.holdQ)
      /\ \A y : y \in Range(t.holdQ) <=> y = x \/ y \in Range(s.holdQ)
  BY <1>2, <1>3, PushDistinct
<1>6. Typed(t)
  BY <1>2, <1>4, <1>5 DEF Typed, Keeps, Fields
<1>7. Holds(t, x) /\ t.holdIn[ExpandedIn(x)] = p
  BY <1>0, <1>4 DEF Holds, i
<1>8. ASSUME NEW y \in InVcs, y # x PROVE Same(s, t, y)
  <2>1. ExpandedIn(y) \in InPorts
    BY PortFacts
  <2>2. CASE ExpandedIn(y) = i
    <3>1. ~Holds(t, y)
      BY <1>7, <1>8, <2>2, OtherHolder DEF i
    <3>2. ~Holds(s, y)
      <4>1. y[2] # None
        BY IQRouterAssumption, BufferStateAssumption DEF InVcs, Vcs
      <4> QED BY <1>1, <2>2, <4>1 DEF Holds
    <3> QED BY <1>2, <1>5, <1>8, <3>1, <3>2 DEF Same, Keeps, Fields
  <2>3. CASE ExpandedIn(y) # i
    <3>1. (Holds(t, y) <=> Holds(s, y)) /\ t.holdIn[ExpandedIn(y)] = s.holdIn[ExpandedIn(y)]
      BY <1>4, <2>1, <2>3 DEF Holds
    <3> QED BY <1>2, <1>5, <1>8, <3>1 DEF Same, Keeps, Fields
  <2> QED BY <2>2, <2>3
<1>9. Tables(t)
  <2>1. ASSUME NEW k \in InPorts
        PROVE  /\ t.holdVc[k] = None <=> t.holdIn[k] = None
               /\ t.holdIn[k] # None => /\ t.holdOut[t.holdIn[k]] = k
                                        /\ \E y \in InVcs : ExpandedIn(y) = k /\ Holds(t, y)
    <3>1. CASE k = i
      BY <1>0, <1>4, <1>7, <3>1 DEF i
    <3>2. CASE k # i
      <4>1. t.holdVc[k] = s.holdVc[k] /\ t.holdIn[k] = s.holdIn[k]
        BY <1>4, <3>2
      <4>2. s.holdVc[k] = None <=> s.holdIn[k] = None
        BY DEF Tables
      <4>3. ASSUME s.holdIn[k] # None
            PROVE  /\ t.holdOut[s.holdIn[k]] = k
                   /\ \E y \in InVcs : ExpandedIn(y) = k /\ Holds(t, y)
        <5>1. s.holdOut[s.holdIn[k]] = k /\ s.holdIn[k] \in OutPorts
          BY <1>3, <4>3 DEF Tables
        <5>2. s.holdIn[k] # p
          <6>1. \A j \in InPorts : j # None
            BY IQRouterAssumption DEF InPorts
          <6> QED BY <1>1, <5>1, <6>1
        <5>3. PICK y \in InVcs : ExpandedIn(y) = k /\ Holds(s, y)
          BY <4>3 DEF Tables
        <5>4. Holds(t, y)
          BY <4>1, <5>3 DEF Holds
        <5> QED BY <1>4, <5>1, <5>2, <5>3, <5>4
      <4> QED BY <4>1, <4>2, <4>3
    <3> QED BY <3>1, <3>2
  <2>2. ASSUME NEW k \in OutPorts, t.holdOut[k] # None
        PROVE  t.holdIn[t.holdOut[k]] = k
    <3>1. CASE k = p
      BY <1>4, <3>1
    <3>2. CASE k # p
      <4>1. t.holdOut[k] = s.holdOut[k]
        BY <1>4, <3>2
      <4>2. s.holdIn[s.holdOut[k]] = k /\ s.holdOut[k] \in InPorts
        BY <1>3, <2>2, <4>1 DEF Tables
      <4>3. s.holdOut[k] # i
        <5>1. \A j \in OutPorts : j # None
          BY IQRouterAssumption DEF OutPorts
        <5> QED BY <1>1, <4>2, <5>1
      <4> QED BY <1>4, <4>1, <4>2, <4>3
    <3> QED BY <3>1, <3>2
  <2> QED BY <2>1, <2>2 DEF Tables
<1>10. ASSUME NEW y \in InVcs, NEW q \in OutPorts, ExpandedIn(y) # i, q # p, Free(s, y, q)
       PROVE  Free(t, y, q)
  <2>1. ExpandedIn(y) \in InPorts
    BY PortFacts
  <2> QED BY <1>4, <1>10, <2>1 DEF Free
<1>11. Keeps(s, t, Moved)
  BY <1>2 DEF Keeps, Moved
<1> QED BY <1>2, <1>5, <1>6, <1>7, <1>8, <1>9, <1>10, <1>11 DEF Only, i

-----------------------------------------------------------------------------
(***************************************************************************)
(* The flits of one VC.                                                    *)
(***************************************************************************)
LEMMA FlitType == \A f \in Flit : f # Idle /\ f.pid \in Pids /\ f.idx \in Nat \ {0}
BY DEF Flit, Idle

\* The flit at the front is sent.
LEMMA SendLinked ==
  ASSUME NEW q \in Seq(Flit), q # <<>>, NEW c, NEW c0, NEW n, NEW st, NEW st2,
         Linked(q, st, c0, n), c \in pkt[q[1].pid].route,
         IF IsTail(q[1]) THEN IF Tail(q) = <<>> THEN st2 = "idle" ELSE st2 \in {"routing", "vc_alloc"}
         ELSE st2 = "active"
  PROVE  Linked(Tail(q), st2, c, n)
<1> DEFINE u == Tail(q)
           m == Len(q)
<1>1. /\ m \in Nat \ {0} /\ u \in Seq(Flit) /\ Len(u) = m - 1 /\ \A k \in 1 .. m-1 : u[k] = q[k+1]
      /\ q[1] \in Flit /\ q[m] \in Flit
  OBVIOUS
<1>2. n = Beyond(q[m]) /\ \A k \in 1 .. m-1 : Follows(q[k], q[k+1])
  BY DEF Linked
<1>3. CASE u = <<>>
  <2>1. m = 1 /\ Len(u) = 0
    <3>1. Len(<<>>) = 0
      OBVIOUS
    <3> HIDE DEF u, m
    <3> QED BY <1>1, <1>3, <3>1
  <2>2. 1 .. Len(u) - 1 = {}
    <3>1. 1 .. 0 - 1 = {}
      OBVIOUS
    <3> HIDE DEF u
    <3> QED BY <2>1, <3>1
  <2>3. \A k \in 1 .. Len(u) - 1 : Follows(u[k], u[k+1])
    BY <2>2
  <2>4. IF IsTail(q[1]) THEN n = Idle ELSE n = q[1]
    BY <1>2, <2>1 DEF Beyond
  <2>5. q[1] # Idle
    BY <1>1, FlitType
  <2> QED BY <1>3, <2>3, <2>4, <2>5 DEF Linked
<1>4. CASE u # <<>>
  <2>1. m \in Nat /\ m > 1
    BY <1>1, <1>4
  <2>2. \A k \in 1 .. Len(u) - 1 : Follows(u[k], u[k+1])
    <3> SUFFICES ASSUME NEW k \in 1 .. m-2 PROVE Follows(u[k], u[k+1])
      BY <1>1, <2>1
    <3>1. k+1 \in 1 .. m-1 /\ k \in 1 .. m-1
      BY <2>1
    <3> QED BY <1>1, <1>2, <3>1
  <2>3. u[Len(u)] = q[m] /\ u[1] = q[2] /\ Follows(q[1], q[2])
    <3>1. m-1 \in 1 .. m-1 /\ (m-1)+1 = m /\ 1 \in 1 .. m-1
      BY <2>1
    <3>2. u[m-1] = q[(m-1)+1] /\ u[1] = q[1+1] /\ Follows(q[1], q[1+1])
      BY <1>1, <1>2, <3>1
    <3> QED BY <1>1, <3>1, <3>2
  <2>4. CASE IsTail(q[1])
    <3>1. IsHead(u[1])
      BY <2>3, <2>4 DEF Follows
    <3> QED BY <1>2, <1>4, <2>2, <2>3, <2>4, <3>1 DEF Linked
  <2>5. CASE ~IsTail(q[1])
    <3>1. u[1].pid = q[1].pid
      BY <2>3, <2>5 DEF Follows
    <3> QED BY <1>2, <1>4, <2>2, <2>3, <2>5, <3>1 DEF Linked
  <2> QED BY <2>4, <2>5
<1> QED BY <1>3, <1>4

\* A flit arrives behind the others.
LEMMA EnterLinked ==
  ASSUME NEW q \in Seq(Flit), NEW g \in Flit, NEW c, NEW st, NEW st2,
         Linked(q, st, c, Before(g)),
         IF st = "idle" THEN st2 \in {"routing", "vc_alloc"} ELSE st2 = st
  PROVE  Linked(Append(q, g), st2, c, Beyond(g))
<1> DEFINE u == Append(q, g)
           m == Len(q)
<1>1. /\ m \in Nat /\ u \in Seq(Flit) /\ u # <<>> /\ Len(u) = m + 1 /\ u[m+1] = g
      /\ \A k \in 1 .. m : u[k] = q[k]
  OBVIOUS
<1>2. g # Idle /\ Beyond(g) = Beyond(u[Len(u)]) /\ g.idx \in Nat \ {0}
  BY <1>1, FlitType
<1>3. CASE q = <<>>
  <2>1. m = 0 /\ u[1] = g
    BY <1>1, <1>3
  <2>2. \A k \in 1 .. Len(u) - 1 : Follows(u[k], u[k+1])
    BY <1>1, <2>1
  <2>3. st = "idle" => IsHead(g)
    <3> SUFFICES ASSUME st = "idle", ~IsHead(g) PROVE FALSE
      OBVIOUS
    <3>0. Before(g) = Idle
      BY DEF Linked
    <3>1. [pid |-> g.pid, idx |-> g.idx - 1] = Idle
      BY <3>0 DEF Before
    <3>2. g.idx - 1 = 0
      BY <3>1 DEF Idle
    <3> QED BY <1>2, <3>2 DEF IsHead
  <2>4. st = "active" => c \in pkt[g.pid].route
    <3> SUFFICES ASSUME st = "active" PROVE c \in pkt[g.pid].route
      OBVIOUS
    <3>1. Before(g) # Idle /\ c \in pkt[Before(g).pid].route
      BY <1>3 DEF Linked
    <3>2. Before(g) = [pid |-> g.pid, idx |-> g.idx - 1]
      BY <3>1 DEF Before
    <3> QED BY <3>1, <3>2
  <2>5. st \notin {"routing", "vc_alloc"}
    BY <1>3 DEF Linked
  <2> QED BY <1>1, <1>2, <2>1, <2>2, <2>3, <2>4, <2>5 DEF Linked
<1>4. CASE q # <<>>
  <2>1. m >= 1 /\ u[1] = q[1] /\ q[m] \in Flit
    BY <1>1, <1>4
  <2>2. Before(g) = Beyond(q[m])
    BY <1>4 DEF Linked
  <2>3. Follows(q[m], g)
    <3>1. CASE IsTail(q[m])
      <4>1. Before(g) = Idle
        BY <2>2, <3>1 DEF Beyond
      <4>2. IsHead(g)
        <5> SUFFICES ASSUME ~IsHead(g) PROVE FALSE
          OBVIOUS
        <5>1. [pid |-> g.pid, idx |-> g.idx - 1] = Idle
          BY <4>1 DEF Before
        <5>2. g.idx - 1 = 0
          BY <5>1 DEF Idle
        <5> QED BY <1>2, <5>2 DEF IsHead
      <4> QED BY <3>1, <4>2 DEF Follows
    <3>2. CASE ~IsTail(q[m])
      <4>1. Before(g) = q[m] /\ q[m] # Idle
        <5>1. Beyond(q[m]) = q[m]
          BY <3>2 DEF Beyond
        <5> QED BY <2>1, <2>2, <5>1, FlitType
      <4>2. q[m] = [pid |-> g.pid, idx |-> g.idx - 1]
        BY <4>1 DEF Before
      <4>3. g.pid = q[m].pid /\ q[m].idx = g.idx - 1
        BY <4>2
      <4> QED BY <1>2, <3>2, <4>3 DEF Follows
    <3> QED BY <3>1, <3>2
  <2>4. \A k \in 1 .. Len(u) - 1 : Follows(u[k], u[k+1])
    <3> SUFFICES ASSUME NEW k \in 1 .. m PROVE Follows(u[k], u[k+1])
      BY <1>1
    <3>1. CASE k = m
      BY <1>1, <2>1, <2>3, <3>1
    <3>2. CASE k \in 1 .. m-1
      <4>1. k+1 \in 1 .. m
        BY <1>1, <3>2
      <4>2. Follows(q[k], q[k+1])
        BY <3>2 DEF Linked
      <4> QED BY <1>1, <4>1, <4>2
    <3> QED BY <1>1, <3>1, <3>2
  <2>5. st # "idle" /\ st2 = st
    BY <1>4 DEF Linked
  <2> QED BY <1>1, <1>2, <1>4, <2>1, <2>4, <2>5 DEF Linked
<1> QED BY <1>3, <1>4

\* A head at the front goes on in its states.
LEMMA HeadLinked ==
  ASSUME NEW q, NEW c, NEW c0, NEW n, NEW st,
         Linked(q, st, c0, n), st \in {"routing", "vc_alloc"}
  PROVE  /\ Linked(q, "vc_alloc", c, n)
         /\ c \in pkt[q[1].pid].route => Linked(q, "active", c, n)
BY DEF Linked

-----------------------------------------------------------------------------
(***************************************************************************)
(* The invariant of the update half, and what a step leaves of it.         *)
(***************************************************************************)
Everywhere(s, D, A, V, H, W) == \A x \in InVcs : Local(s, D, A, V, H, W, x)

\* The entries A2 are A, perhaps without x.
Less(A2, A, x) == \A y : y # x => (y \in A2 <=> y \in A)

LEMMA StepLocal ==
  ASSUME NEW s, NEW t, NEW D, NEW A, NEW V, NEW H, NEW W,
         NEW D2, NEW A2, NEW V2, NEW H2, NEW W2, NEW x, Only(s, t, x),
         Everywhere(s, D, A, V, H, W), Local(t, D2, A2, V2, H2, W2, x),
         Less(D2, D, x), Less(A2, A, x), Less(V2, V, x), Less(H2, H, x), Less(W2, W, x)
  PROVE  Everywhere(t, D2, A2, V2, H2, W2)
<1> SUFFICES ASSUME NEW y \in InVcs, y # x PROVE Local(t, D2, A2, V2, H2, W2, y)
  BY DEF Everywhere
<1>1. Same(s, t, y) /\ t.inFlit = s.inFlit
  BY DEF Only, Keeps, Fields, Moved
<1>2. (y \in D2 <=> y \in D) /\ (y \in A2 <=> y \in A) /\ (y \in V2 <=> y \in V)
      /\ (y \in H2 <=> y \in H) /\ (y \in W2 <=> y \in W)
  BY DEF Less
<1>3. Placed(s, A, V, H, W, y) /\ Linked(s.fifo[y], s.state[y], s.out[y], Sending(s, D, y))
      /\ Counted(s, D, y)
  BY DEF Everywhere, Local
<1>4. Placed(t, A2, V2, H2, W2, y)
  BY <1>1, <1>2, <1>3 DEF Placed, Same, Among, Apart
<1>5. Sending(t, D2, y) = Sending(s, D, y)
  BY <1>1, <1>2 DEF Sending
<1>6. Counted(t, D2, y)
  BY <1>1, <1>2, <1>3 DEF Counted, Same
<1> QED BY <1>1, <1>3, <1>4, <1>5, <1>6 DEF Local, Same

\* What x does not disturb of the grants of W.
Undisturbed(s, t, W, x) ==
  \A y \in W : y # x /\ s.swRes[y] # None =>
    /\ Free(t, y, s.swRes[y])
    /\ cfg.piggyback => t.nextBuf[OutputOf(s.swRes[y])] = s.nextBuf[OutputOf(s.swRes[y])]

LEMMA StepGrants ==
  ASSUME NEW s, NEW t, NEW V \in SUBSET InVcs, NEW W \in SUBSET InVcs,
         NEW V2 \in SUBSET V, NEW W2 \in SUBSET W, NEW x,
         Only(s, t, x), Grants(s, V, W), Less(V2, V, x), x \notin V2,
         x \in W2 /\ s.swRes[x] # None => Granted(t, V2, x, s.swRes[x]),
         Undisturbed(s, t, W2, x)
  PROVE  Grants(t, V2, W2)
<1>1. t.vcRes = s.vcRes /\ t.swRes = s.swRes
  BY DEF Only, Keeps, Fields, Moved
<1>2. \A y \in InVcs : y # x => t.fifo[y] = s.fifo[y] /\ t.state[y] = s.state[y] /\ t.out[y] = s.out[y]
  BY DEF Only, Same
<1>3. ASSUME NEW y \in V2, t.vcRes[y] # None PROVE t.vcRes[y] \in Route(t, y)
  BY <1>1, <1>2, <1>3 DEF Grants, Route, FrontFlit
<1>4. ASSUME NEW y \in W2, t.swRes[y] # None PROVE Granted(t, V2, y, t.swRes[y])
  <2>1. CASE y = x
    BY <1>1, <1>4, <2>1
  <2>2. CASE y # x
    <3> DEFINE p == s.swRes[y]
    <3>1. Granted(s, V, y, p) /\ Free(t, y, p)
          /\ (cfg.piggyback => t.nextBuf[OutputOf(p)] = s.nextBuf[OutputOf(p)])
      BY <1>1, <1>4, <2>2 DEF Grants, Undisturbed
    <3> HIDE DEF p
    <3>2. cfg.piggyback => Candidates(t, y, OutputOf(p)) = Candidates(s, y, OutputOf(p))
      BY <1>2, <2>2, <3>1 DEF Candidates, Route, FrontFlit
    <3>3. y \in V => y \in V2
      BY <2>2 DEF Less
    <3>4. Granted(t, V2, y, p)
      BY <1>1, <1>2, <2>2, <3>1, <3>2, <3>3 DEF Granted
    <3> QED BY <1>1, <3>4 DEF p
  <2> QED BY <2>1, <2>2
<1>5. \A y, z \in W2 : y # z /\ t.swRes[y] # None /\ t.swRes[z] # None =>
        ExpandedIn(y) # ExpandedIn(z) /\ t.swRes[y] # t.swRes[z]
  BY <1>1 DEF Grants
<1> QED BY <1>3, <1>4, <1>5 DEF Grants

\* Part of an update: entries A, V, H and W of the queues are still to be updated.
Updating(s, A, V, H, W) ==
  /\ Typed(s) /\ Tables(s) /\ ~s.failed /\ ~s.unmatched
  /\ A \subseteq InVcs /\ V \subseteq InVcs /\ H \subseteq InVcs /\ W \subseteq InVcs
  /\ Everywhere(s, {}, A, V, H, W)
  /\ Grants(s, V, W)

Ready == cfg \in Configs /\ pkt \in Workloads

LEMMA RouteType ==
  ASSUME Ready, NEW s, Typed(s), NEW x \in InVcs, s.fifo[x] # <<>>
  PROVE  /\ FrontFlit(s, x) = s.fifo[x][1] /\ FrontFlit(s, x) \in Flit
         /\ Route(s, x) = pkt[s.fifo[x][1].pid].route /\ Route(s, x) \subseteq OutVcs
         /\ s.fifo[x] \in Seq(Flit)
<1>1. s.fifo[x] \in Seq(Flit)
  BY DEF Typed
<1>2. FrontFlit(s, x) = s.fifo[x][1] /\ FrontFlit(s, x) \in Flit
  BY <1>1 DEF FrontFlit
<1>3. FrontFlit(s, x).pid \in Pids
  BY <1>2, FlitType
<1>4. pkt \in [Pids -> [in : Inputs, route : (SUBSET OutVcs) \ {{}}, len : Nat \ {0}]]
  BY IQRouterAssumption DEF Ready
<1>5. pkt[FrontFlit(s, x).pid].route \subseteq OutVcs
  BY <1>3, <1>4
<1> QED BY <1>1, <1>2, <1>5 DEF Route

\* A head is routed.
LEMMA RouteUpdating ==
  ASSUME Ready, NEW s, NEW A, NEW V, NEW H, NEW W, Updating(s, A, V, H, W), NEW x \in A,
         NEW t, t = ToAllocation(s, x)
  PROVE  /\ Updating(t, A \ {x}, V, H, W)
         /\ Only(s, t, x) /\ Keeps(s, t, {"state", "swQ", "vcQ"})
         /\ s.state[x] # "active" /\ t.state[x] # "active"
<1>1. /\ x \in InVcs /\ Typed(s) /\ Tables(s) /\ Everywhere(s, {}, A, V, H, W) /\ Grants(s, V, W)
      /\ A \subseteq InVcs /\ V \subseteq InVcs /\ H \subseteq InVcs /\ W \subseteq InVcs
  BY DEF Updating
<1>2. /\ Placed(s, A, V, H, W, x) /\ Linked(s.fifo[x], s.state[x], s.out[x], Sending(s, {}, x))
      /\ Counted(s, {}, x)
  BY <1>1 DEF Everywhere, Local
<1>3. s.state[x] = "routing"
  BY <1>2 DEF Placed, Among
<1>4. /\ x \notin Range(s.routeQ) /\ x \notin Range(s.vcQ) /\ x \notin Range(s.holdQ)
      /\ x \notin Range(s.swQ) /\ x \notin V /\ x \notin H /\ x \notin W /\ ~Holds(s, x)
  BY <1>2, <1>3 DEF Placed, Among, Apart
<1>5. /\ Only(s, t, x) /\ Keeps(s, t, {"state", "swQ", "vcQ"})
      /\ t.state[x] = "vc_alloc"
      /\ x \in Range(t.swQ) <=> cfg.spec \/ x \in Range(s.swQ)
      /\ x \in Range(t.vcQ) <=> ~cfg.piggyback \/ x \in Range(s.vcQ)
  BY <1>1, <1>4, ToAllocationOnly
<1>6. /\ t.fifo = s.fifo /\ t.out = s.out /\ t.routeQ = s.routeQ /\ t.holdQ = s.holdQ
      /\ t.holdVc = s.holdVc /\ t.holdIn = s.holdIn /\ t.holdOut = s.holdOut
      /\ t.credits = s.credits /\ t.nextBuf = s.nextBuf /\ t.failed = s.failed
      /\ t.unmatched = s.unmatched /\ t.inFlit = s.inFlit
  BY <1>5 DEF Keeps, Fields
<1>7. Placed(t, A \ {x}, V, H, W, x)
  BY <1>4, <1>5, <1>6 DEF Placed, Among, Apart, Holds
<1>8. Linked(t.fifo[x], t.state[x], t.out[x], Sending(t, {}, x))
  BY <1>2, <1>3, <1>5, <1>6, HeadLinked DEF Sending
<1>9. Counted(t, {}, x)
  BY <1>2, <1>6 DEF Counted
<1>10. Everywhere(t, {}, A \ {x}, V, H, W)
  <2>1. Local(t, {}, A \ {x}, V, H, W, x)
    BY <1>7, <1>8, <1>9 DEF Local
  <2>2. Less(A \ {x}, A, x) /\ \A S : Less(S, S, x)
    BY DEF Less
  <2> QED BY <1>1, <1>5, <2>1, <2>2, StepLocal
<1>11. Grants(t, V, W)
  <2>1. Undisturbed(s, t, W, x)
    <3> SUFFICES ASSUME NEW y \in W, s.swRes[y] # None
                 PROVE  Free(t, y, s.swRes[y])
      BY <1>6 DEF Undisturbed
    <3>1. Free(s, y, s.swRes[y])
      BY <1>1 DEF Grants, Granted
    <3> QED BY <1>6, <3>1 DEF Free
  <2>2. Less(V, V, x)
    BY DEF Less
  <2> QED BY <1>1, <1>4, <1>5, <2>1, <2>2, StepGrants
<1>12. Tables(t)
  BY <1>1, <1>6 DEF Tables, Holds
<1> QED BY <1>1, <1>3, <1>5, <1>6, <1>10, <1>11, <1>12 DEF Updating, Only

\* A head takes an output VC, or asks again.
LEMMA VcUpdating ==
  ASSUME Ready, NEW s, NEW A, NEW V, NEW H, NEW W, Updating(s, A, V, H, W), NEW x \in V,
         NEW t, t = AllocateVc(s, x)
  PROVE  /\ Updating(t, A, V \ {x}, H, W)
         /\ Only(s, t, x) /\ Keeps(s, t, {"state", "out", "nextBuf", "vcQ", "swQ"})
         /\ s.state[x] # "active"
         /\ IF s.vcRes[x] = None THEN t.state = s.state /\ t.out = s.out /\ t.nextBuf = s.nextBuf
            ELSE /\ s.vcRes[x] \in OutVcs /\ s.vcRes[x] \in Route(s, x)
                 /\ t.state[x] = "active" /\ t.out[x] = s.vcRes[x]
                 /\ Put(s.nextBuf, t.nextBuf, s.vcRes[x][1],
                        TakeBuffer(s.nextBuf[s.vcRes[x][1]], s.vcRes[x][2], x))
<1>1. /\ x \in InVcs /\ Typed(s) /\ Tables(s) /\ Everywhere(s, {}, A, V, H, W) /\ Grants(s, V, W)
      /\ A \subseteq InVcs /\ V \subseteq InVcs /\ H \subseteq InVcs /\ W \subseteq InVcs
      /\ ~s.failed /\ ~s.unmatched
  BY DEF Updating
<1>2. /\ Placed(s, A, V, H, W, x) /\ Linked(s.fifo[x], s.state[x], s.out[x], Sending(s, {}, x))
      /\ Counted(s, {}, x)
  BY <1>1 DEF Everywhere, Local
<1>3. s.state[x] = "vc_alloc" /\ ~cfg.piggyback
  BY <1>2 DEF Placed, Among
<1>4. /\ x \notin Range(s.routeQ) /\ x \notin Range(s.vcQ) /\ x \notin Range(s.holdQ)
      /\ x \notin A /\ x \notin H /\ ~Holds(s, x)
      /\ (x \in W \/ x \in Range(s.swQ)) <=> cfg.spec
      /\ x \in W => x \notin Range(s.swQ) /\ x[2] \notin s.credits[x[1]]
  BY <1>2, <1>3 DEF Placed, Among, Apart
<1>5. s.fifo[x] # <<>>
  BY <1>2, <1>3 DEF Linked
<1>6. Less(V \ {x}, V, x) /\ \A S : Less(S, S, x)
  BY DEF Less
<1>7. ASSUME NEW y \in W, s.swRes[y] # None PROVE Free(s, y, s.swRes[y])
  BY <1>1, <1>7 DEF Grants, Granted
<1>8. CASE s.vcRes[x] = None
  <2>1. t = [s EXCEPT !.vcQ = Append(@, x)]
    BY <1>8 DEF AllocateVc
  <2>2. Only(s, t, x) /\ Keeps(s, t, {"vcQ"}) /\ x \in Range(t.vcQ)
    BY <1>1, <1>4, <2>1, PushVcQ
  <2>3. /\ t.fifo = s.fifo /\ t.out = s.out /\ t.routeQ = s.routeQ /\ t.holdQ = s.holdQ
        /\ t.holdVc = s.holdVc /\ t.holdIn = s.holdIn /\ t.holdOut = s.holdOut
        /\ t.credits = s.credits /\ t.nextBuf = s.nextBuf /\ t.failed = s.failed
        /\ t.unmatched = s.unmatched /\ t.inFlit = s.inFlit /\ t.state = s.state /\ t.swQ = s.swQ
    BY <2>2 DEF Keeps, Fields
  <2>4. Placed(t, A, V \ {x}, H, W, x)
    BY <1>2, <1>3, <1>4, <2>2, <2>3 DEF Placed, Among, Apart, Holds
  <2>5. Local(t, {}, A, V \ {x}, H, W, x)
    BY <1>2, <2>3, <2>4 DEF Local, Sending, Counted
  <2>6. Everywhere(t, {}, A, V \ {x}, H, W)
    BY <1>1, <1>6, <2>2, <2>5, StepLocal
  <2>7. Undisturbed(s, t, W, x)
    BY <1>7, <2>3 DEF Undisturbed, Free
  <2>8. ~(x \in W /\ s.swRes[x] # None)
    BY <1>1, <1>3, <1>8 DEF Grants, Granted
  <2>9. Grants(t, V \ {x}, W)
    BY <1>1, <1>6, <2>2, <2>7, <2>8, StepGrants
  <2>10. Tables(t)
    BY <1>1, <2>3 DEF Tables, Holds
  <2>11. Keeps(s, t, {"state", "out", "nextBuf", "vcQ", "swQ"})
    BY <2>2 DEF Keeps
  <2> QED BY <1>1, <1>3, <1>8, <2>2, <2>3, <2>6, <2>9, <2>10, <2>11 DEF Updating, Only
<1>9. CASE s.vcRes[x] # None
  <2> DEFINE c == s.vcRes[x]
             u == Take(s, x, c)
  <2>1. c \in Route(s, x) /\ c \in OutVcs /\ Route(s, x) = pkt[s.fifo[x][1].pid].route
    BY <1>1, <1>5, <1>9, RouteType DEF Grants
  <2>2. t = [u EXCEPT !.swQ = IF cfg.spec THEN @ ELSE Append(@, x)]
    BY <1>9 DEF AllocateVc
  <2>3. /\ Only(s, u, x) /\ Keeps(s, u, {"state", "out", "nextBuf"})
        /\ u.state[x] = "active" /\ u.out[x] = c
        /\ Put(s.nextBuf, u.nextBuf, c[1],
               TakeBuffer(s.nextBuf[c[1]], c[2], x))
    <3> HIDE DEF c
    <3> QED BY <1>1, <2>1, TakeOnly
  <2> HIDE DEF u
  <2>4. Typed(u) /\ u.swQ = s.swQ
    BY <2>3 DEF Only, Keeps, Fields
  <2>5. /\ Only(u, t, x) /\ Keeps(u, t, {"swQ"})
        /\ x \in Range(t.swQ) <=> x \in Range(s.swQ) \/ ~cfg.spec
    <3>1. CASE cfg.spec
      <4>1. t = u
        <5>1. u = [f \in Fields |-> u[f]]
          BY <2>4 DEF Typed, Router
        <5> QED BY <2>2, <3>1, <5>1 DEF Fields
      <4> QED BY <2>4, <3>1, <4>1, OnlyRefl DEF Keeps
    <3>2. CASE ~cfg.spec
      <4>1. t = [u EXCEPT !.swQ = Append(@, x)]
        BY <2>2, <3>2
      <4>2. x \notin Range(u.swQ)
        BY <1>4, <2>4, <3>2
      <4> QED BY <1>1, <2>4, <3>2, <4>1, <4>2, PushSwQ
    <3> QED BY <3>1, <3>2
  <2>6. Only(s, t, x)
    BY <2>3, <2>5, OnlyTrans
  <2>7. /\ t.fifo = s.fifo /\ t.routeQ = s.routeQ /\ t.holdQ = s.holdQ /\ t.vcQ = s.vcQ
        /\ t.holdVc = s.holdVc /\ t.holdIn = s.holdIn /\ t.holdOut = s.holdOut
        /\ t.credits = s.credits /\ t.failed = s.failed
        /\ t.unmatched = s.unmatched /\ t.inFlit = s.inFlit
        /\ t.state[x] = "active" /\ t.out[x] = c /\ t.nextBuf = u.nextBuf
    BY <2>3, <2>5 DEF Keeps, Fields
  <2>8. Placed(t, A, V \ {x}, H, W, x)
    BY <1>4, <1>5, <2>5, <2>7 DEF Placed, Among, Apart, Holds
  <2>9. Linked(t.fifo[x], t.state[x], t.out[x], Sending(t, {}, x))
    BY <1>2, <1>3, <2>1, <2>7, HeadLinked DEF Sending
  <2>10. Everywhere(t, {}, A, V \ {x}, H, W)
    <3>1. Local(t, {}, A, V \ {x}, H, W, x)
      BY <1>2, <2>7, <2>8, <2>9 DEF Local, Counted
    <3> QED BY <1>1, <1>6, <2>6, <3>1, StepLocal
  <2>11. Undisturbed(s, t, W, x)
    BY <1>3, <1>7, <2>7 DEF Undisturbed, Free
  <2>12. x \in W /\ s.swRes[x] # None => Granted(t, V \ {x}, x, s.swRes[x])
    <3> SUFFICES ASSUME x \in W, s.swRes[x] # None PROVE Granted(t, V \ {x}, x, s.swRes[x])
      OBVIOUS
    <3>1. Granted(s, V, x, s.swRes[x])
      BY <1>1 DEF Grants
    <3>2. OutputOf(s.swRes[x]) = c[1]
      BY <1>3, <3>1 DEF Granted
    <3> HIDE DEF c
    <3> QED BY <2>7, <3>1, <3>2 DEF Granted, Free
  <2>13. Grants(t, V \ {x}, W)
    BY <1>1, <1>6, <2>6, <2>11, <2>12, StepGrants
  <2>14. Tables(t)
    BY <1>1, <2>7 DEF Tables, Holds
  <2>15. Keeps(s, t, {"state", "out", "nextBuf", "vcQ", "swQ"})
    BY <2>3, <2>5 DEF Keeps, Fields
  <2>16. Typed(t)
    BY <2>6 DEF Only
  <2> QED BY <1>1, <1>3, <1>9, <2>1, <2>3, <2>6, <2>7, <2>10, <2>13, <2>14, <2>15, <2>16 DEF Updating
<1> QED BY <1>8, <1>9

-----------------------------------------------------------------------------
(***************************************************************************)
(* What an entry of holdQ or swQ does.                                     *)
(***************************************************************************)
\* Nothing moves.
Stays(s, t) ==
  /\ t.fifo = s.fifo /\ t.crossbar = s.crossbar /\ t.nextBuf = s.nextBuf
  /\ t.state = s.state /\ t.out = s.out /\ t.credits = s.credits
  /\ t.routeQ = s.routeQ /\ t.vcQ = s.vcQ /\ t.holdQ = s.holdQ

\* The flit at the front of x goes to port p, on output VC c, that has buffer b.
Sends(s, t, x, p, c, b) ==
  /\ s.fifo[x] # <<>> /\ c \in OutVcs /\ c \in Route(s, x)
  /\ p \in OutPorts /\ OutputOf(p) = c[1]
  /\ t.out[x] = c /\ (t.state[x] = "active" <=> ~IsTail(FrontFlit(s, x)))
  /\ t.fifo[x] = Tail(s.fifo[x])
  /\ Put(s.crossbar, t.crossbar, c[1],
         Append(s.crossbar[c[1]], [vc |-> c[2], flit |-> FrontFlit(s, x)]))
  /\ Put(s.nextBuf, t.nextBuf, c[1],
         SendingFlit(b, c[2], IsTail(FrontFlit(s, x))))

\* x has sent q[1], a tail or all it had, on output VC c, and is in no queue.
Spent(u, x, q, c) ==
  /\ q \in Seq(Flit) /\ q # <<>> /\ Linked(q, "active", c, feed[x]) /\ c \in pkt[q[1].pid].route
  /\ u.fifo[x] = Tail(q) /\ u.out[x] = c /\ u.state[x] = "active"
  /\ IsTail(q[1]) \/ Tail(q) = <<>>
  /\ ~Holds(u, x) /\ Counted(u, {}, x)
  /\ x \notin Range(u.routeQ) /\ x \notin Range(u.vcQ) /\ x \notin Range(u.holdQ)
  /\ x \notin Range(u.swQ)

\* It goes to the queue its next state calls for.
LEMMA AfterLocal ==
  ASSUME Ready, NEW u, Typed(u), NEW x \in InVcs, NEW q, NEW c, Spent(u, x, q, c),
         NEW A, NEW V, NEW H, NEW W, x \notin A, x \notin V, x \notin H, x \notin W,
         NEW t, t = AfterFlit(u, x, q[1])
  PROVE  /\ Only(u, t, x) /\ Keeps(u, t, {"state", "routeQ", "swQ", "vcQ"})
         /\ Local(t, {}, A, V, H, W, x)
         /\ t.state[x] = "active" <=> ~IsTail(q[1])
<1>0. /\ q \in Seq(Flit) /\ q # <<>> /\ Linked(q, "active", c, feed[x]) /\ c \in pkt[q[1].pid].route
      /\ u.fifo[x] = Tail(q) /\ u.out[x] = c /\ u.state[x] = "active"
      /\ IsTail(q[1]) \/ Tail(q) = <<>>
      /\ ~Holds(u, x) /\ Counted(u, {}, x)
      /\ x \notin Range(u.routeQ) /\ x \notin Range(u.vcQ) /\ x \notin Range(u.holdQ)
      /\ x \notin Range(u.swQ)
  BY DEF Spent
<1> DEFINE st == IF ~IsTail(q[1]) THEN "active"
                 ELSE IF Tail(q) = <<>> THEN "idle"
                 ELSE IF cfg.lookahead THEN "vc_alloc" ELSE "routing"
           head == st \in {"routing", "vc_alloc"}
<1>1. /\ Only(u, t, x) /\ Keeps(u, t, {"state", "routeQ", "swQ", "vcQ"})
      /\ t.state[x] = st
      /\ x \in Range(t.routeQ) <=> st = "routing"
      /\ x \in Range(t.swQ) <=> st = "vc_alloc" /\ cfg.spec
      /\ x \in Range(t.vcQ) <=> st = "vc_alloc" /\ ~cfg.piggyback
  <2>1. CASE ~IsTail(q[1])
    <3>1. t = u
      BY <1>0, <2>1 DEF AfterFlit
    <3> QED BY <1>0, <2>1, <3>1, OnlyRefl DEF Keeps
  <2>2. CASE IsTail(q[1]) /\ Tail(q) = <<>>
    <3>1. t = [u EXCEPT !.state[x] = "idle"]
      BY <1>0, <2>2 DEF AfterFlit
    <3>2. /\ Router(t) /\ Keeps(u, t, {"state"}) /\ t.state = [u.state EXCEPT ![x] = "idle"]
      BY <3>1 DEF Typed, Router, Keeps, Fields
    <3>3. t.state \in [InVcs -> States] /\ t.state[x] = "idle"
      BY <3>2 DEF Typed, States
    <3>4. Typed(t)
      BY <3>2, <3>3 DEF Typed, Keeps, Fields
    <3>5. \A y \in InVcs : y # x => Same(u, t, y)
      BY <3>2 DEF Same, Keeps, Fields, Holds, Typed
    <3>6. Keeps(u, t, Moved) /\ Keeps(u, t, {"state", "routeQ", "swQ", "vcQ"})
      BY <3>2 DEF Keeps, Moved
    <3>7. t.routeQ = u.routeQ /\ t.swQ = u.swQ /\ t.vcQ = u.vcQ
      BY <3>2 DEF Keeps, Fields
    <3> QED BY <1>0, <2>2, <3>3, <3>4, <3>5, <3>6, <3>7 DEF Only
  <2>3. CASE IsTail(q[1]) /\ Tail(q) # <<>>
    <3>1. t = NewHead(u, x)
      BY <1>0, <2>3 DEF AfterFlit
    <3> QED BY <1>0, <2>3, <3>1, NewHeadOnly
  <2> QED BY <2>1, <2>2, <2>3
<1>2. /\ t.fifo = u.fifo /\ t.out = u.out /\ t.holdQ = u.holdQ /\ t.holdVc = u.holdVc
      /\ t.credits = u.credits /\ t.inFlit = u.inFlit
  BY <1>1 DEF Keeps, Fields
<1>3. Linked(Tail(q), st, c, feed[x])
  BY <1>0, SendLinked
<1>4. Placed(t, A, V, H, W, x)
  <2>1. ~Holds(t, x)
    BY <1>0, <1>2 DEF Holds
  <2>2. ~(st = "active" /\ t.fifo[x] # <<>>)
    BY <1>0, <1>2
  <2> HIDE DEF st
  <2> QED BY <1>0, <1>1, <1>2, <2>1, <2>2 DEF Placed, Among, Apart
<1>5. Local(t, {}, A, V, H, W, x)
  <2>1. Sending(t, {}, x) = feed[x] /\ Counted(t, {}, x)
    BY <1>0, <1>2 DEF Sending, Counted
  <2> HIDE DEF st
  <2> QED BY <1>0, <1>1, <1>2, <1>3, <1>4, <2>1 DEF Local
<1> QED BY <1>1, <1>5

\* Upstream's count of the slots of x after a flit has been sent.
LEMMA SentCounted ==
  ASSUME NEW s, NEW u, NEW x, s.fifo[x] \in Seq(Flit), s.fifo[x] # <<>>, Counted(s, {}, x),
         x[2] \notin s.credits[x[1]], u.fifo[x] = Tail(s.fifo[x]), x[2] \in u.credits[x[1]]
  PROVE  Counted(u, {}, x)
<1> DEFINE m == Len(s.fifo[x])
<1>1. m \in Nat /\ m # 0 /\ Len(u.fifo[x]) = m - 1
  BY DEF Flit
<1>2. used[x] = m + 0 + 0
  BY DEF Counted
<1> HIDE DEF m
<1>3. used[x] = (m - 1) + 0 + 1
  BY <1>1, <1>2
<1> QED BY <1>1, <1>3 DEF Counted

\* A VC that holds the crossbar sends, or gives it up.
LEMMA HeldUpdating ==
  ASSUME Ready, cfg.piggyback => cfg.outSp = 1,
         NEW s, NEW H, NEW W, Updating(s, {}, {}, H, W), NEW x \in H,
         NEW t, t = UpdateHeld(s, x)
  PROVE  /\ Updating(t, {}, {}, H \ {x}, W)
         /\ Only(s, t, x) /\ Holds(s, x)
         /\ \/ Stays(s, t)
            \/ /\ Sends(s, t, x, s.holdIn[ExpandedIn(x)], s.out[x], s.nextBuf[s.out[x][1]])
               /\ s.state[x] = "active" /\ s.holdRes[x] /\ ~IsOutFull(s, s.out[x][1])
<1> DEFINE i == ExpandedIn(x)
           p == s.holdIn[i]
           c == s.out[x]
           f == s.fifo[x][1]
<1>1. /\ x \in InVcs /\ Typed(s) /\ Tables(s) /\ Everywhere(s, {}, {}, {}, H, W) /\ Grants(s, {}, W)
      /\ H \subseteq InVcs /\ W \subseteq InVcs /\ ~s.failed /\ ~s.unmatched
  BY DEF Updating
<1>2. /\ Placed(s, {}, {}, H, W, x) /\ Linked(s.fifo[x], s.state[x], s.out[x], feed[x])
      /\ Counted(s, {}, x)
  BY <1>1 DEF Everywhere, Local, Sending
<1>3. Holds(s, x) /\ s.state[x] = "active" /\ s.fifo[x] # <<>> /\ p = ExpandedOut(x, c[1])
      /\ x[2] \notin s.credits[x[1]]
  BY <1>2 DEF Placed, Among
<1>4. /\ x \notin Range(s.routeQ) /\ x \notin Range(s.vcQ) /\ x \notin Range(s.holdQ)
      /\ x \notin Range(s.swQ) /\ x \notin W
  BY <1>2, <1>3 DEF Placed, Among, Apart
<1>5. c \in Route(s, x) /\ c \in OutVcs /\ Route(s, x) = pkt[f.pid].route /\ FrontFlit(s, x) = f
      /\ s.fifo[x] \in Seq(Flit)
  BY <1>1, <1>2, <1>3, RouteType DEF Linked
<1>6. c[1] \in Outputs /\ p \in OutPorts /\ OutputOf(p) = c[1]
  BY <1>1, <1>3, <1>5, PortFacts DEF OutVcs, Ready
<1>7. Less(H \ {x}, H, x) /\ \A S : Less(S, S, x)
  BY DEF Less
<1>8. s.holdOut[p] = i /\ i # None
  <2>1. i \in InPorts
    BY <1>1, PortFacts DEF Ready
  <2>2. p # None
    BY <1>6, IQRouterAssumption DEF OutPorts
  <2>3. i # None
    BY <2>1, IQRouterAssumption DEF InPorts
  <2> QED BY <1>1, <2>1, <2>2, <2>3 DEF Tables
\* The grants are for other ports.
<1>9. ASSUME NEW y \in W, s.swRes[y] # None
      PROVE  /\ Free(s, y, s.swRes[y]) /\ s.swRes[y] \in OutPorts
             /\ cfg.piggyback => OutputOf(s.swRes[y]) # c[1]
  <2> DEFINE q == s.swRes[y]
  <2>1. Free(s, y, q) /\ q \in OutPorts
    BY <1>1, <1>9 DEF Grants, Granted
  <2>2. q # p
    BY <1>8, <2>1 DEF Free
  <2>3. cfg.piggyback => OutputOf(q) = q /\ OutputOf(p) = p
    BY <1>6, <2>1 DEF OutPorts, OutputOf
  <2> HIDE DEF q
  <2>4. cfg.piggyback => OutputOf(q) # c[1]
    BY <1>6, <2>2, <2>3
  <2> QED BY <2>1, <2>4 DEF q
<1>10. CASE ~s.holdRes[x] \/ IsOutFull(s, s.out[x][1])
  <2> DEFINE u == Release(s, x)
  <2>1. t = [u EXCEPT !.swQ = Append(@, x)]
    BY <1>10 DEF UpdateHeld
  <2>2. /\ Only(s, u, x) /\ Keeps(s, u, {"holdVc", "holdIn", "holdOut"})
        /\ Tables(u) /\ ~Holds(u, x)
        /\ \A y \in InVcs, k \in OutPorts : Free(s, y, k) => Free(u, y, k)
    BY <1>1, <1>3, ReleaseOnly DEF Ready
  <2> HIDE DEF u
  <2>3. Typed(u) /\ u.swQ = s.swQ
    BY <2>2 DEF Only, Keeps, Fields
  <2>4. Only(u, t, x) /\ Keeps(u, t, {"swQ"}) /\ x \in Range(t.swQ)
    BY <1>1, <1>4, <2>1, <2>3, PushSwQ
  <2>5. Only(s, t, x)
    BY <2>2, <2>4, OnlyTrans
  <2>6. /\ t.fifo = s.fifo /\ t.crossbar = s.crossbar /\ t.nextBuf = s.nextBuf
        /\ t.state = s.state /\ t.out = s.out /\ t.credits = s.credits
        /\ t.routeQ = s.routeQ /\ t.vcQ = s.vcQ /\ t.holdQ = s.holdQ
        /\ t.failed = s.failed /\ t.unmatched = s.unmatched
        /\ t.holdVc = u.holdVc /\ t.holdIn = u.holdIn /\ t.holdOut = u.holdOut
    BY <2>2, <2>4 DEF Keeps, Fields
  <2>7. Placed(t, {}, {}, H \ {x}, W, x)
    BY <1>3, <1>4, <2>2, <2>4, <2>6 DEF Placed, Among, Apart, Holds
  <2>8. Everywhere(t, {}, {}, {}, H \ {x}, W)
    <3>1. Local(t, {}, {}, {}, H \ {x}, W, x)
      BY <1>2, <2>6, <2>7 DEF Local, Sending, Counted
    <3> QED BY <1>1, <1>7, <2>5, <3>1, StepLocal
  <2>9. Undisturbed(s, t, W, x)
    <3> SUFFICES ASSUME NEW y \in W, s.swRes[y] # None PROVE Free(t, y, s.swRes[y])
      BY <2>6 DEF Undisturbed
    <3>1. Free(u, y, s.swRes[y])
      BY <1>1, <1>9, <2>2
    <3> QED BY <2>6, <3>1 DEF Free
  <2>10. Grants(t, {}, W)
    BY <1>1, <1>4, <1>7, <2>5, <2>9, StepGrants
  <2>11. Tables(t)
    BY <2>2, <2>6 DEF Tables, Holds
  <2>12. Stays(s, t)
    BY <2>6 DEF Stays
  <2>13. Typed(t)
    BY <2>5 DEF Only
  <2> QED BY <1>1, <1>3, <2>5, <2>6, <2>8, <2>10, <2>11, <2>12, <2>13 DEF Updating
<1>11. CASE s.holdRes[x] /\ ~IsOutFull(s, s.out[x][1])
  <2> DEFINE u == Forward(s, x, p)
  <2>1. t = IF GoesOn(u, x, FrontFlit(s, x)) THEN [u EXCEPT !.holdQ = Append(@, x)]
            ELSE AfterFlit(Release(u, x), x, FrontFlit(s, x))
    BY <1>11 DEF UpdateHeld
  <2>2. /\ Only(s, u, x)
        /\ Keeps(s, u, {"fifo", "nextBuf", "crossbar", "credits", "failed"})
        /\ u.fifo[x] = Tail(s.fifo[x]) /\ x[2] \in u.credits[x[1]]
        /\ ~s.failed => ~u.failed
        /\ Put(s.nextBuf, u.nextBuf, c[1],
               SendingFlit(s.nextBuf[c[1]], c[2], IsTail(FrontFlit(s, x))))
        /\ Put(s.crossbar, u.crossbar, c[1],
               Append(s.crossbar[c[1]], [vc |-> c[2], flit |-> FrontFlit(s, x)]))
    <3>1. c \in OutVcs /\ s.out[x] = c /\ OutputOf(p) = c[1]
      BY <1>5, <1>6
    <3> HIDE DEF c, p
    <3> QED BY <1>1, <1>3, <3>1, ForwardOnly
  <2> HIDE DEF u
  <2>3. /\ u.state = s.state /\ u.out = s.out /\ u.unmatched = s.unmatched
        /\ u.routeQ = s.routeQ /\ u.vcQ = s.vcQ /\ u.holdQ = s.holdQ /\ u.swQ = s.swQ
        /\ u.holdVc = s.holdVc /\ u.holdIn = s.holdIn /\ u.holdOut = s.holdOut
    BY <2>2 DEF Keeps, Fields
  <2>4. Typed(u)
    BY <2>2 DEF Only
  <2>5. Tables(u) /\ Holds(u, x)
    BY <1>1, <1>3, <2>3 DEF Tables, Holds
  <2>6. Counted(u, {}, x)
    BY <1>2, <1>3, <1>5, <2>2, SentCounted
  <2>7. \A y \in InVcs, k \in OutPorts : Free(s, y, k) => Free(u, y, k)
    BY <2>3 DEF Free
  \* In both cases the rest is as after u.
  <2>8. /\ Only(u, t, x) /\ Local(t, {}, {}, {}, H \ {x}, W, x) /\ Tables(t)
        /\ Keeps(u, t, {"state", "routeQ", "swQ", "vcQ", "holdQ", "holdVc", "holdIn", "holdOut"})
        /\ t.state[x] = "active" <=> ~IsTail(FrontFlit(s, x))
        /\ \A y \in InVcs, k \in OutPorts : Free(u, y, k) => Free(t, y, k)
    <3>1. CASE GoesOn(u, x, FrontFlit(s, x))
      <4>1. t = [u EXCEPT !.holdQ = Append(@, x)]
        BY <2>1, <3>1
      <4>2. Only(u, t, x) /\ Keeps(u, t, {"holdQ"}) /\ x \in Range(t.holdQ)
        BY <1>1, <1>4, <2>3, <2>4, <4>1, PushHoldQ
      <4>3. /\ t.state = u.state /\ t.fifo = u.fifo /\ t.out = u.out /\ t.routeQ = u.routeQ
            /\ t.vcQ = u.vcQ /\ t.swQ = u.swQ /\ t.credits = u.credits
            /\ t.holdVc = u.holdVc /\ t.holdIn = u.holdIn /\ t.holdOut = u.holdOut
        BY <4>2 DEF Keeps, Fields
      <4>4. ~IsTail(f) /\ Tail(s.fifo[x]) # <<>>
        BY <1>5, <2>2, <3>1 DEF GoesOn
      <4>5. Linked(t.fifo[x], t.state[x], t.out[x], Sending(t, {}, x))
        <5>1. Linked(Tail(s.fifo[x]), "active", c, feed[x])
          BY <1>2, <1>3, <1>5, <4>4, SendLinked
        <5> QED BY <1>3, <2>2, <2>3, <4>3, <5>1 DEF Sending
      <4>6. Placed(t, {}, {}, H \ {x}, W, x)
        <5>1. t.fifo[x] # <<>> /\ t.state[x] = "active" /\ t.out[x] = c /\ t.holdIn[i] = p
          BY <1>3, <2>2, <2>3, <4>3, <4>4
        <5>2. Holds(t, x)
          BY <2>5, <4>3 DEF Holds
        <5> QED BY <1>3, <1>4, <2>3, <4>2, <4>3, <5>1, <5>2 DEF Placed, Among, Apart
      <4>7. Local(t, {}, {}, {}, H \ {x}, W, x)
        BY <2>6, <4>3, <4>5, <4>6 DEF Local, Counted
      <4>8. Tables(t)
        BY <2>5, <4>3 DEF Tables, Holds
      <4>9. t.state[x] = "active" /\ ~IsTail(FrontFlit(s, x))
        BY <1>3, <1>5, <2>3, <4>3, <4>4
      <4>10. \A y \in InVcs, k \in OutPorts : Free(u, y, k) => Free(t, y, k)
        BY <4>3 DEF Free
      <4>11. Keeps(u, t, {"state", "routeQ", "swQ", "vcQ", "holdQ", "holdVc", "holdIn", "holdOut"})
        BY <4>2 DEF Keeps
      <4> QED BY <4>2, <4>7, <4>8, <4>9, <4>10, <4>11
    <3>2. CASE ~GoesOn(u, x, FrontFlit(s, x))
      <4> DEFINE v == Release(u, x)
      <4>1. t = AfterFlit(v, x, f)
        BY <1>5, <2>1, <3>2
      <4>2. /\ Only(u, v, x) /\ Keeps(u, v, {"holdVc", "holdIn", "holdOut"})
            /\ Tables(v) /\ ~Holds(v, x)
            /\ \A y \in InVcs, k \in OutPorts : Free(u, y, k) => Free(v, y, k)
        BY <1>1, <2>4, <2>5, ReleaseOnly DEF Ready
      <4> HIDE DEF v
      <4>3. /\ v.state = u.state /\ v.fifo = u.fifo /\ v.out = u.out /\ v.routeQ = u.routeQ
            /\ v.vcQ = u.vcQ /\ v.swQ = u.swQ /\ v.credits = u.credits /\ v.holdQ = u.holdQ
        BY <4>2 DEF Keeps, Fields
      <4>4. IsTail(f) \/ Tail(s.fifo[x]) = <<>>
        BY <1>5, <2>2, <3>2 DEF GoesOn
      <4>5. Counted(v, {}, x) /\ Typed(v)
        BY <2>6, <4>2, <4>3 DEF Counted, Only
      <4>6. /\ v.fifo[x] = Tail(s.fifo[x]) /\ v.out[x] = c /\ v.state[x] = "active"
            /\ x \notin Range(v.routeQ) /\ x \notin Range(v.vcQ) /\ x \notin Range(v.holdQ)
            /\ x \notin Range(v.swQ)
        BY <1>3, <1>4, <2>2, <2>3, <4>3
      <4>7. /\ Only(v, t, x) /\ Keeps(v, t, {"state", "routeQ", "swQ", "vcQ"})
            /\ Local(t, {}, {}, {}, H \ {x}, W, x)
            /\ t.state[x] = "active" <=> ~IsTail(f)
        <5>1. Linked(s.fifo[x], "active", c, feed[x]) /\ c \in pkt[s.fifo[x][1].pid].route
          BY <1>2, <1>3, <1>5
        <5>2. Spent(v, x, s.fifo[x], c)
          BY <1>3, <1>5, <4>2, <4>4, <4>5, <4>6, <5>1 DEF Spent
        <5> DEFINE I == H \ {x}
                   N == {}
        <5>3. x \notin N /\ x \notin I /\ x \notin W /\ t = AfterFlit(v, x, s.fifo[x][1])
          BY <1>4, <4>1
        <5>4. /\ Only(v, t, x) /\ Keeps(v, t, {"state", "routeQ", "swQ", "vcQ"})
              /\ Local(t, {}, N, N, I, W, x)
              /\ t.state[x] = "active" <=> ~IsTail(s.fifo[x][1])
          <6>1. x \in InVcs /\ Typed(v)
            BY <1>1, <4>5
          <6> HIDE DEF c, I, N, f
          <6> QED BY ONLY Ready, <6>1, <5>2, <5>3, AfterLocal
        <5> QED BY <5>4
      <4>8. /\ t.holdVc = v.holdVc /\ t.holdIn = v.holdIn /\ t.holdOut = v.holdOut
        BY <4>7 DEF Keeps, Fields
      <4>9. Tables(t)
        BY <4>2, <4>8 DEF Tables, Holds
      <4>10. \A y \in InVcs, k \in OutPorts : Free(u, y, k) => Free(t, y, k)
        BY <4>2, <4>8 DEF Free
      <4>11. Keeps(u, t, {"state", "routeQ", "swQ", "vcQ", "holdQ", "holdVc", "holdIn", "holdOut"})
        BY <4>2, <4>7 DEF Keeps, Fields
      <4>12. Only(u, t, x)
        BY <4>2, <4>7, OnlyTrans
      <4> QED BY <1>5, <4>7, <4>9, <4>10, <4>11, <4>12
    <3> QED BY <3>1, <3>2
  <2>9. Only(s, t, x) /\ Typed(t)
    <3>1. Only(s, t, x)
      BY <2>2, <2>8, OnlyTrans
    <3> QED BY <3>1 DEF Only
  <2>10. /\ t.fifo = u.fifo /\ t.out = u.out /\ t.nextBuf = u.nextBuf /\ t.crossbar = u.crossbar
         /\ t.failed = u.failed /\ t.unmatched = s.unmatched
    BY <2>3, <2>8 DEF Keeps, Fields
  <2>11. Everywhere(t, {}, {}, {}, H \ {x}, W)
    BY <1>1, <1>7, <2>8, <2>9, StepLocal
  <2>12. Undisturbed(s, t, W, x)
    <3> SUFFICES ASSUME NEW y \in W, s.swRes[y] # None
                 PROVE  /\ Free(t, y, s.swRes[y])
                        /\ cfg.piggyback => t.nextBuf[OutputOf(s.swRes[y])] =
                                              s.nextBuf[OutputOf(s.swRes[y])]
      BY DEF Undisturbed
    <3>1. Free(t, y, s.swRes[y])
      BY <1>1, <1>9, <2>7, <2>8
    <3>2. OutputOf(s.swRes[y]) \in Outputs
      BY <1>1 DEF Grants, Granted
    <3>3. DOMAIN s.nextBuf = Outputs
      BY <1>1 DEF Typed
    <3> HIDE DEF c
    <3>4. cfg.piggyback => t.nextBuf[OutputOf(s.swRes[y])] = s.nextBuf[OutputOf(s.swRes[y])]
      BY <1>9, <2>2, <2>10, <3>2, <3>3 DEF Put
    <3> QED BY <3>1, <3>4
  <2>13. Grants(t, {}, W)
    BY <1>1, <1>4, <1>7, <2>9, <2>12, StepGrants
  <2>14. Updating(t, {}, {}, H \ {x}, W)
    BY <1>1, <2>2, <2>8, <2>9, <2>10, <2>11, <2>13 DEF Updating
  <2>15. Sends(s, t, x, p, c, s.nextBuf[c[1]])
    <3>1. t.out[x] = c /\ t.fifo[x] = Tail(s.fifo[x]) /\ t.crossbar = u.crossbar /\ t.nextBuf = u.nextBuf
      BY <2>2, <2>3, <2>10
    <3> HIDE DEF c, p
    <3> QED BY <1>3, <1>5, <1>6, <2>2, <2>8, <3>1 DEF Sends
  <2> QED BY <1>3, <1>11, <2>9, <2>14, <2>15
<1> QED BY <1>10, <1>11

\* The round robin picks one of the output VCs.
LEMMA FirstIn ==
  ASSUME NEW choices \in SUBSET OutVcs, choices # {}, NEW offset \in Nat
  PROVE  FirstFrom(offset, choices) \in choices
<1> DEFINE place(c) == (c[2] + offset) % NumVcs
           T == {place(c) : c \in choices}
<1>1. \A c \in choices : place(c) \in Nat
  <2> TAKE c \in choices
  <2>1. c[2] \in Nat /\ NumVcs \in Nat \ {0}
    BY BufferStateAssumption DEF OutVcs, Vcs
  <2> QED BY <2>1
<1>2. T \subseteq Nat /\ T # {}
  BY <1>1
<1>3. PICK n \in T : \A m \in T : n <= m
  <2> HIDE DEF T
  <2> QED BY <1>2, LeastNumber
<1>4. PICK c \in choices : n = place(c)
  BY <1>3
<1>5. \A d \in choices : place(c) <= place(d)
  BY <1>3, <1>4
<1> QED BY <1>5 DEF FirstFrom

LEMMA PutTwice ==
  ASSUME NEW S, NEW g, g = [o \in S |-> g[o]], DOMAIN g = S, NEW h, NEW i, NEW k, NEW v, NEW w,
         Put(g, h, k, v), Put(h, i, k, w)
  PROVE  Put(g, i, k, w)
BY DEF Put

\* The output VC c the front of x is sent on, with buffer b: its own, or one
\* that is free and is taken now.
Chosen(s, x, p, c, b) ==
  \/ s.state[x] = "active" /\ c = s.out[x] /\ b = s.nextBuf[c[1]]
  \/ /\ s.state[x] = "vc_alloc" /\ cfg.piggyback /\ c \in Candidates(s, x, OutputOf(p))
     /\ b = TakeBuffer(s.nextBuf[c[1]], c[2], x)

\* What the entry of swQ sends is ready.
LEMMA PickUpdating ==
  ASSUME Ready, NEW s, NEW W, Updating(s, {}, {}, {}, W), NEW x \in W, s.swRes[x] # None,
         NEW a \in [Outputs -> Nat],
         NEW y, y = [s EXCEPT !.failed = @ \/ PortsBusy(s, x, s.swRes[x])],
         NEW t, t = Picked(y, x, s.swRes[x], a)
  PROVE  \E c, b :
           /\ c \in OutVcs /\ Chosen(s, x, s.swRes[x], c, b) /\ c \in Route(s, x) /\ c[1] = OutputOf(s.swRes[x])
           /\ s.fifo[x] # <<>> /\ Linked(s.fifo[x], "active", c, feed[x])
           /\ Only(s, t, x) /\ Keeps(s, t, {"failed", "state", "out", "nextBuf"})
           /\ t.state[x] = "active" /\ t.out[x] = c /\ ~t.failed /\ ~t.unmatched
           /\ Put(s.nextBuf, t.nextBuf, c[1], b)
<1> DEFINE p == s.swRes[x]
           o == OutputOf(p)
<1>1. /\ x \in InVcs /\ Typed(s) /\ Tables(s) /\ Everywhere(s, {}, {}, {}, {}, W)
      /\ Grants(s, {}, W) /\ W \subseteq InVcs /\ ~s.failed /\ ~s.unmatched
  BY DEF Updating
<1>2. /\ Placed(s, {}, {}, {}, W, x) /\ Linked(s.fifo[x], s.state[x], s.out[x], feed[x])
  BY <1>1 DEF Everywhere, Local, Sending
<1>3. s.state[x] \in {"active", "vc_alloc"} /\ s.fifo[x] # <<>>
  BY <1>2 DEF Placed, Among, Linked
<1>4. /\ Granted(s, {}, x, p) /\ p \in OutPorts /\ Free(s, x, p) /\ o \in Outputs
  BY <1>1 DEF Grants, Granted
<1>5. Route(s, x) = pkt[s.fifo[x][1].pid].route /\ Route(s, x) \subseteq OutVcs
  BY <1>1, <1>3, RouteType
<1>6. ~PortsBusy(s, x, p)
  BY <1>4 DEF PortsBusy, Free
<1>7. /\ Router(y) /\ Keeps(s, y, {"failed"}) /\ ~y.failed
  BY <1>1, <1>6 DEF Typed, Router, Keeps, Fields
<1>8. Typed(y) /\ Only(s, y, x)
  <2>1. Typed(y)
    BY <1>1, <1>7 DEF Typed, Keeps, Fields
  <2>2. \A z \in InVcs : z # x => Same(s, y, z)
    BY <1>7 DEF Same, Keeps, Fields, Holds
  <2>3. Keeps(s, y, Moved)
    BY <1>7 DEF Keeps, Moved
  <2> QED BY <2>1, <2>2, <2>3 DEF Only
<1>9. y.state = s.state /\ y.out = s.out /\ y.nextBuf = s.nextBuf /\ y.fifo = s.fifo
      /\ y.unmatched = s.unmatched
  BY <1>7 DEF Keeps, Fields
<1> HIDE DEF p
<1>10. CASE s.state[x] = "active"
  <2> DEFINE c == s.out[x]
  <2>1. t = y
    BY <1>9, <1>10 DEF Picked
  <2>2. c \in Route(s, x) /\ c[1] = o
    BY <1>2, <1>3, <1>4, <1>5, <1>10 DEF Linked, Granted
  <2>3. Put(s.nextBuf, t.nextBuf, c[1], s.nextBuf[c[1]])
    BY <1>1, <1>9, <2>1 DEF Put, Typed
  <2>4. Keeps(s, t, {"failed", "state", "out", "nextBuf"})
    BY <1>7, <2>1 DEF Keeps
  <2>5. Chosen(s, x, p, c, s.nextBuf[c[1]])
    BY <1>10 DEF Chosen
  <2>6. Linked(s.fifo[x], "active", c, feed[x]) /\ t.state[x] = "active" /\ t.out[x] = c
        /\ ~t.failed /\ ~t.unmatched /\ Only(s, t, x) /\ c \in OutVcs
    BY <1>1, <1>2, <1>5, <1>7, <1>8, <1>9, <1>10, <2>1, <2>2
  <2> HIDE DEF c, o
  <2> QED BY <1>3, <2>2, <2>3, <2>4, <2>5, <2>6 DEF o, p
<1>11. CASE s.state[x] # "active"
  <2> DEFINE S == Candidates(s, x, o)
             c == FirstFrom(a[o], S)
  <2>1. cfg.piggyback /\ S # {}
    BY <1>4, <1>11 DEF Granted
  <2>2. S \subseteq Route(s, x) /\ \A d \in S : d[1] = o
    BY DEF Candidates
  <2>3. c \in S /\ c \in OutVcs
    <3>1. a[o] \in Nat /\ S \in SUBSET OutVcs
      BY <1>4, <1>5, <2>2
    <3> HIDE DEF S, o
    <3> QED BY <2>1, <3>1, FirstIn
  <2>4. Candidates(y, x, o) = S
    BY <1>9 DEF Candidates, Route, FrontFlit
  <2>5. t = Take(y, x, c)
    BY <1>9, <1>11, <2>1, <2>4 DEF Picked, p
  <2> HIDE DEF c, S
  <2>6. /\ Only(y, t, x) /\ Keeps(y, t, {"state", "out", "nextBuf"})
        /\ t.state[x] = "active" /\ t.out[x] = c
        /\ Put(y.nextBuf, t.nextBuf, c[1], TakeBuffer(y.nextBuf[c[1]], c[2], x))
    <3>1. x \in InVcs
      BY <1>1
    <3> QED BY ONLY <3>1, <1>8, <2>3, <2>5, TakeOnly
  <2>7. Only(s, t, x)
    BY <1>8, <2>6, OnlyTrans
  <2>8. Keeps(s, t, {"failed", "state", "out", "nextBuf"}) /\ ~t.failed /\ ~t.unmatched
    BY <1>1, <1>7, <2>6 DEF Keeps, Fields
  <2>9. Linked(s.fifo[x], "active", c, feed[x])
    BY <1>2, <1>3, <1>5, <1>11, <2>2, <2>3, HeadLinked
  <2>10. Chosen(s, x, p, c, TakeBuffer(s.nextBuf[c[1]], c[2], x))
    BY <1>3, <1>11, <2>1, <2>3 DEF Chosen, S
  <2>11. Put(s.nextBuf, t.nextBuf, c[1], TakeBuffer(s.nextBuf[c[1]], c[2], x))
    BY <1>9, <2>6
  <2> DEFINE b == TakeBuffer(s.nextBuf[c[1]], c[2], x)
  <2>12. Chosen(s, x, p, c, b) /\ Put(s.nextBuf, t.nextBuf, c[1], b)
    BY <2>10, <2>11
  <2> HIDE DEF b
  <2> QED BY <1>3, <2>2, <2>3, <2>6, <2>7, <2>8, <2>9, <2>12 DEF p
<1> QED BY <1>10, <1>11

\* An entry of swQ sends, or asks again.
LEMMA SwitchUpdating ==
  ASSUME Ready, cfg.piggyback => cfg.outSp = 1,
         NEW s, NEW W, Updating(s, {}, {}, {}, W), NEW x \in W, NEW a \in [Outputs -> Nat],
         NEW t, t = UpdateSwitched(s, x, a)
  PROVE  /\ Updating(t, {}, {}, {}, W \ {x})
         /\ Only(s, t, x)
         /\ IF s.swRes[x] = None THEN Stays(s, t)
            ELSE \E c, b : /\ c \in OutVcs /\ Chosen(s, x, s.swRes[x], c, b)
                            /\ Sends(s, t, x, s.swRes[x], c, b)
<1> DEFINE p == s.swRes[x]
           f == s.fifo[x][1]
<1>1. /\ x \in InVcs /\ Typed(s) /\ Tables(s) /\ Everywhere(s, {}, {}, {}, {}, W)
      /\ Grants(s, {}, W) /\ W \subseteq InVcs /\ ~s.failed /\ ~s.unmatched
  BY DEF Updating
<1>2. /\ Placed(s, {}, {}, {}, W, x) /\ Linked(s.fifo[x], s.state[x], s.out[x], feed[x])
      /\ Counted(s, {}, x)
  BY <1>1 DEF Everywhere, Local, Sending
<1>3. /\ \/ s.state[x] = "active" /\ s.fifo[x] # <<>> /\ ~Holds(s, x)
         \/ s.state[x] = "vc_alloc" /\ cfg.spec
      /\ x[2] \notin s.credits[x[1]] /\ x \notin Range(s.swQ)
  BY <1>2 DEF Placed, Among, Apart
<1>4. Less(W \ {x}, W, x) /\ \A S : Less(S, S, x)
  BY DEF Less
<1>5. CASE p = None
  <2>1. t = [s EXCEPT !.swQ = Append(@, x)]
    BY <1>1, <1>5 DEF UpdateSwitched
  <2>2. Only(s, t, x) /\ Keeps(s, t, {"swQ"}) /\ x \in Range(t.swQ)
    BY <1>1, <1>3, <2>1, PushSwQ
  <2>3. /\ t.fifo = s.fifo /\ t.crossbar = s.crossbar /\ t.nextBuf = s.nextBuf
        /\ t.state = s.state /\ t.out = s.out /\ t.credits = s.credits
        /\ t.routeQ = s.routeQ /\ t.vcQ = s.vcQ /\ t.holdQ = s.holdQ
        /\ t.failed = s.failed /\ t.unmatched = s.unmatched
        /\ t.holdVc = s.holdVc /\ t.holdIn = s.holdIn /\ t.holdOut = s.holdOut
    BY <2>2 DEF Keeps, Fields
  <2>4. Placed(t, {}, {}, {}, W \ {x}, x)
    BY <1>2, <1>3, <2>2, <2>3 DEF Placed, Among, Apart, Holds
  <2>5. Everywhere(t, {}, {}, {}, {}, W \ {x})
    <3>1. Local(t, {}, {}, {}, {}, W \ {x}, x)
      BY <1>2, <2>3, <2>4 DEF Local, Sending, Counted
    <3> QED BY <1>1, <1>4, <2>2, <3>1, StepLocal
  <2>6. Undisturbed(s, t, W \ {x}, x)
    <3> SUFFICES ASSUME NEW y \in W, s.swRes[y] # None PROVE Free(t, y, s.swRes[y])
      BY <2>3 DEF Undisturbed
    <3>1. Free(s, y, s.swRes[y])
      BY <1>1 DEF Grants, Granted
    <3> QED BY <2>3, <3>1 DEF Free
  <2>7. Grants(t, {}, W \ {x})
    BY <1>1, <1>4, <2>2, <2>6, StepGrants
  <2>8. Tables(t)
    BY <1>1, <2>3 DEF Tables, Holds
  <2>9. Stays(s, t) /\ Typed(t)
    BY <2>2, <2>3 DEF Stays, Only
  <2> QED BY <1>1, <1>5, <2>2, <2>3, <2>5, <2>7, <2>8, <2>9 DEF Updating
<1>6. CASE p # None
  <2> DEFINE y == [s EXCEPT !.failed = @ \/ PortsBusy(s, x, p)]
             v == Picked(y, x, p, a)
             u == Forward(v, x, p)
  <2>1. PICK c, b :
           /\ c \in OutVcs /\ Chosen(s, x, p, c, b) /\ c \in Route(s, x) /\ c[1] = OutputOf(p)
           /\ s.fifo[x] # <<>> /\ Linked(s.fifo[x], "active", c, feed[x])
           /\ Only(s, v, x) /\ Keeps(s, v, {"failed", "state", "out", "nextBuf"})
           /\ v.state[x] = "active" /\ v.out[x] = c /\ ~v.failed /\ ~v.unmatched
           /\ Put(s.nextBuf, v.nextBuf, c[1], b)
    BY <1>6, PickUpdating
  <2>2. t = IF ~GoesOn(u, x, FrontFlit(s, x)) THEN AfterFlit(u, x, FrontFlit(s, x))
            ELSE IF cfg.hold THEN Hold(u, x, p)
            ELSE [u EXCEPT !.swQ = Append(@, x)]
    BY <1>1, <1>6, <2>1 DEF UpdateSwitched
  <2> HIDE DEF v
  <2>3. /\ v.fifo = s.fifo /\ v.crossbar = s.crossbar /\ v.credits = s.credits
        /\ v.routeQ = s.routeQ /\ v.vcQ = s.vcQ /\ v.holdQ = s.holdQ /\ v.swQ = s.swQ
        /\ v.holdVc = s.holdVc /\ v.holdIn = s.holdIn /\ v.holdOut = s.holdOut
    BY <2>1 DEF Keeps, Fields
  <2>4. Typed(v) /\ FrontFlit(v, x) = FrontFlit(s, x)
    BY <2>1, <2>3 DEF Only, FrontFlit
  <2>5. /\ Only(v, u, x)
        /\ Keeps(v, u, {"fifo", "nextBuf", "crossbar", "credits", "failed"})
        /\ u.fifo[x] = Tail(v.fifo[x]) /\ x[2] \in u.credits[x[1]]
        /\ ~v.failed => ~u.failed
        /\ Put(v.nextBuf, u.nextBuf, c[1],
               SendingFlit(v.nextBuf[c[1]], c[2], IsTail(FrontFlit(v, x))))
        /\ Put(v.crossbar, u.crossbar, c[1],
               Append(v.crossbar[c[1]], [vc |-> c[2], flit |-> FrontFlit(v, x)]))
    <3>1. v.fifo[x] # <<>> /\ v.out[x] = c /\ OutputOf(p) = c[1]
      BY <2>1, <2>3
    <3>2. x \in InVcs /\ c \in OutVcs /\ u = Forward(v, x, p)
      BY <1>1, <2>1
    <3> HIDE DEF p, u
    <3> QED BY ONLY <2>4, <3>1, <3>2, ForwardOnly
  <2> HIDE DEF u
  <2>6. /\ u.state = v.state /\ u.out = v.out /\ u.unmatched = v.unmatched
        /\ u.routeQ = s.routeQ /\ u.vcQ = s.vcQ /\ u.holdQ = s.holdQ /\ u.swQ = s.swQ
        /\ u.holdVc = s.holdVc /\ u.holdIn = s.holdIn /\ u.holdOut = s.holdOut
    BY <2>3, <2>5 DEF Keeps, Fields
  <2>7. Typed(u) /\ Only(s, u, x)
    <3>1. Only(s, u, x)
      BY <2>1, <2>5, OnlyTrans
    <3> QED BY <3>1 DEF Only
  <2>8. p \in OutPorts /\ Free(s, x, p) /\ p = ExpandedOut(x, c[1])
    BY <1>1, <1>6, <2>1 DEF Grants, Granted
  <2>9. ~Holds(s, x) /\ Tables(u) /\ ~Holds(u, x) /\ Free(u, x, p)
    <3>1. x[2] # None
      BY <1>1, IQRouterAssumption, BufferStateAssumption DEF InVcs, Vcs
    <3>2. ~Holds(s, x)
      BY <2>8, <3>1 DEF Free, Holds
    <3> QED BY <1>1, <2>6, <2>8, <3>2 DEF Tables, Holds, Free
  <2>10. x \notin Range(s.routeQ) /\ x \notin Range(s.vcQ) /\ x \notin Range(s.holdQ)
    <3>1. Chosen(s, x, p, c, b)
      BY <2>1
    <3>2. s.state[x] = "active" \/ (s.state[x] = "vc_alloc" /\ cfg.piggyback)
      BY ONLY <3>1 DEF Chosen
    <3> QED BY <1>2, <2>9, <3>2 DEF Placed, Among
  <2>11. s.fifo[x] \in Seq(Flit) /\ FrontFlit(s, x) = f /\ Route(s, x) = pkt[f.pid].route
    BY <1>1, <2>1, RouteType
  <2>12. u.fifo[x] = Tail(s.fifo[x]) /\ u.state[x] = "active" /\ u.out[x] = c
    BY <2>1, <2>3, <2>5, <2>6
  <2>13. Counted(u, {}, x)
    BY <1>2, <1>3, <2>1, <2>5, <2>11, <2>12, SentCounted
  <2>14. ASSUME NEW z \in W \ {x}, s.swRes[z] # None
         PROVE  /\ ExpandedIn(z) # ExpandedIn(x) /\ s.swRes[z] # p
                /\ Free(u, z, s.swRes[z]) /\ s.swRes[z] \in OutPorts
                /\ OutputOf(s.swRes[z]) \in Outputs
                /\ cfg.piggyback => OutputOf(s.swRes[z]) # c[1]
    <3> DEFINE q == s.swRes[z]
    <3>1. q \in OutPorts /\ Free(s, z, q) /\ OutputOf(q) \in Outputs
      BY <1>1, <2>14 DEF Grants, Granted
    <3>2. ExpandedIn(z) # ExpandedIn(x) /\ q # p
      BY <1>1, <1>6, <2>14 DEF Grants
    <3>3. Free(u, z, q)
      BY <2>6, <3>1 DEF Free
    <3>4. cfg.piggyback => OutputOf(q) = q /\ OutputOf(p) = p
      BY <2>8, <3>1 DEF OutPorts, OutputOf
    <3> HIDE DEF p, q
    <3>5. cfg.piggyback => OutputOf(q) # c[1]
      BY <2>1, <3>2, <3>4
    <3> QED BY <3>1, <3>2, <3>3, <3>5 DEF q, p
  \* In all three cases the rest is as after u.
  <2>15. /\ Only(u, t, x) /\ Local(t, {}, {}, {}, {}, W \ {x}, x) /\ Tables(t)
         /\ Keeps(u, t, {"state", "routeQ", "swQ", "vcQ", "holdQ", "holdVc", "holdIn", "holdOut"})
         /\ t.state[x] = "active" <=> ~IsTail(f)
         /\ \A z \in W \ {x} : s.swRes[z] # None => Free(t, z, s.swRes[z])
    <3>1. CASE ~GoesOn(u, x, FrontFlit(s, x))
      <4>1. t = AfterFlit(u, x, s.fifo[x][1])
        BY <2>2, <2>11, <3>1
      <4>2. IsTail(f) \/ Tail(s.fifo[x]) = <<>>
        BY <2>11, <2>12, <3>1 DEF GoesOn
      <4>3. Spent(u, x, s.fifo[x], c)
        <5>1. x \notin Range(u.routeQ) /\ x \notin Range(u.vcQ) /\ x \notin Range(u.holdQ)
              /\ x \notin Range(u.swQ) 
          BY <1>3, <2>6, <2>10
        <5>2. c \in pkt[s.fifo[x][1].pid].route
          BY <2>1, <2>11
        <5> HIDE DEF p
        <5> QED BY <2>1, <2>9, <2>11, <2>12, <2>13, <4>2, <5>1, <5>2 DEF Spent
      <4> DEFINE I == W \ {x}
                 N == {}
      <4>4. x \notin N /\ x \notin I
        OBVIOUS
      <4>5. /\ Only(u, t, x) /\ Keeps(u, t, {"state", "routeQ", "swQ", "vcQ"})
            /\ Local(t, {}, N, N, N, I, x)
            /\ t.state[x] = "active" <=> ~IsTail(s.fifo[x][1])
        <5>1. x \in InVcs /\ Typed(u)
          BY <1>1, <2>7
        <5> HIDE DEF I, N
        <5> QED BY ONLY Ready, <5>1, <4>1, <4>3, <4>4, AfterLocal
      <4>6. /\ t.holdVc = u.holdVc /\ t.holdIn = u.holdIn /\ t.holdOut = u.holdOut
        BY <4>5 DEF Keeps, Fields
      <4>7. Tables(t)
        BY <2>9, <4>6 DEF Tables, Holds
      <4>8. ASSUME NEW z \in W \ {x}, s.swRes[z] # None PROVE Free(t, z, s.swRes[z])
        BY <2>14, <4>6, <4>8 DEF Free
      <4>9. Keeps(u, t, {"state", "routeQ", "swQ", "vcQ", "holdQ", "holdVc", "holdIn", "holdOut"})
        BY <4>5 DEF Keeps
      <4> QED BY <4>5, <4>7, <4>8, <4>9
    <3>2. CASE GoesOn(u, x, FrontFlit(s, x))
      <4>1. ~IsTail(f) /\ Tail(s.fifo[x]) # <<>>
        BY <2>11, <2>12, <3>2 DEF GoesOn
      <4>2. Linked(Tail(s.fifo[x]), "active", c, feed[x])
        <5>1. c \in pkt[s.fifo[x][1].pid].route
          BY <2>1, <2>11
        <5> HIDE DEF p
        <5> QED BY <2>1, <2>11, <4>1, <5>1, SendLinked
      <4>3. CASE cfg.hold
        <5>1. t = Hold(u, x, p)
          BY <2>2, <3>2, <4>3
        <5>2. /\ Only(u, t, x) /\ Keeps(u, t, {"holdVc", "holdIn", "holdOut", "holdQ"})
              /\ Tables(t) /\ Holds(t, x) /\ t.holdIn[ExpandedIn(x)] = p
              /\ x \in Range(t.holdQ)
              /\ \A z \in InVcs, q \in OutPorts :
                   ExpandedIn(z) # ExpandedIn(x) /\ q # p /\ Free(u, z, q) => Free(t, z, q)
          <6>1. x \notin Range(u.holdQ) /\ cfg \in Configs
            BY <2>6, <2>10 DEF Ready
          <6> HIDE DEF p
          <6> QED BY <1>1, <2>7, <2>8, <2>9, <5>1, <6>1, HoldOnly
        <5>3. /\ t.state = u.state /\ t.fifo = u.fifo /\ t.out = u.out /\ t.routeQ = u.routeQ
              /\ t.vcQ = u.vcQ /\ t.swQ = u.swQ /\ t.credits = u.credits
          BY <5>2 DEF Keeps, Fields
        <5>4. Placed(t, {}, {}, {}, W \ {x}, x)
          <6>1. t.fifo[x] # <<>> /\ t.state[x] = "active" /\ t.out[x] = c
            BY <2>12, <4>1, <5>3
          <6>2. x \notin Range(t.routeQ) /\ x \notin Range(t.vcQ) /\ x \notin Range(t.swQ)
            BY <1>3, <2>6, <2>10, <5>3
          <6> HIDE DEF p
          <6> QED BY <2>8, <5>2, <6>1, <6>2 DEF Placed, Among, Apart
        <5>5. Local(t, {}, {}, {}, {}, W \ {x}, x)
          BY <2>12, <2>13, <4>2, <5>3, <5>4 DEF Local, Sending, Counted
        <5>6. t.state[x] = "active"
          BY <2>12, <5>3
        <5>7. ASSUME NEW z \in W \ {x}, s.swRes[z] # None PROVE Free(t, z, s.swRes[z])
          BY <1>1, <2>14, <5>2, <5>7
        <5>8. Keeps(u, t, {"state", "routeQ", "swQ", "vcQ", "holdQ", "holdVc", "holdIn", "holdOut"})
          BY <5>2 DEF Keeps
        <5> QED BY <4>1, <5>2, <5>5, <5>6, <5>7, <5>8
      <4>4. CASE ~cfg.hold
        <5>1. t = [u EXCEPT !.swQ = Append(@, x)]
          BY <2>2, <3>2, <4>4
        <5>2. Only(u, t, x) /\ Keeps(u, t, {"swQ"}) /\ x \in Range(t.swQ)
          BY <1>1, <1>3, <2>6, <2>7, <5>1, PushSwQ
        <5>3. /\ t.state = u.state /\ t.fifo = u.fifo /\ t.out = u.out /\ t.routeQ = u.routeQ
              /\ t.vcQ = u.vcQ /\ t.holdQ = u.holdQ /\ t.credits = u.credits
              /\ t.holdVc = u.holdVc /\ t.holdIn = u.holdIn /\ t.holdOut = u.holdOut
          BY <5>2 DEF Keeps, Fields
        <5>4. Placed(t, {}, {}, {}, W \ {x}, x)
          <6>1. t.fifo[x] # <<>> /\ t.state[x] = "active" /\ ~Holds(t, x)
            BY <2>9, <2>12, <4>1, <5>3 DEF Holds
          <6>2. x \notin Range(t.routeQ) /\ x \notin Range(t.vcQ) /\ x \notin Range(t.holdQ)
            BY <2>6, <2>10, <5>3
          <6> QED BY <5>2, <6>1, <6>2 DEF Placed, Among, Apart
        <5>5. Local(t, {}, {}, {}, {}, W \ {x}, x)
          BY <2>12, <2>13, <4>2, <5>3, <5>4 DEF Local, Sending, Counted
        <5>6. t.state[x] = "active" /\ Tables(t)
          BY <2>9, <2>12, <5>3 DEF Tables, Holds
        <5>7. ASSUME NEW z \in W \ {x}, s.swRes[z] # None PROVE Free(t, z, s.swRes[z])
          BY <2>14, <5>3, <5>7 DEF Free
        <5>8. Keeps(u, t, {"state", "routeQ", "swQ", "vcQ", "holdQ", "holdVc", "holdIn", "holdOut"})
          BY <5>2 DEF Keeps
        <5> QED BY <4>1, <5>2, <5>5, <5>6, <5>7, <5>8
      <4> QED BY <4>3, <4>4
    <3> QED BY <3>1, <3>2
  <2>16. Only(s, t, x) /\ Typed(t)
    <3>1. Only(s, t, x)
      BY <2>7, <2>15, OnlyTrans
    <3> QED BY <3>1 DEF Only
  <2>17. /\ t.fifo = u.fifo /\ t.out = u.out /\ t.nextBuf = u.nextBuf /\ t.crossbar = u.crossbar
         /\ t.failed = u.failed /\ t.unmatched = u.unmatched
    BY <2>15 DEF Keeps, Fields
  <2>18. Everywhere(t, {}, {}, {}, {}, W \ {x})
    BY <1>1, <1>4, <2>15, <2>16, StepLocal
  <2>19. Put(s.nextBuf, t.nextBuf, c[1], SendingFlit(b, c[2], IsTail(FrontFlit(s, x))))
    <3>1. s.nextBuf = [o \in Outputs |-> s.nextBuf[o]] /\ DOMAIN s.nextBuf = Outputs /\ c[1] \in Outputs
      BY <1>1, <2>1 DEF Typed, OutVcs
    <3>2. v.nextBuf[c[1]] = b
      BY <2>1, <3>1 DEF Put
    <3> HIDE DEF p
    <3> QED BY <2>1, <2>4, <2>5, <2>17, <3>1, <3>2, PutTwice
  <2>20. Undisturbed(s, t, W \ {x}, x)
    <3> SUFFICES ASSUME NEW z \in W \ {x}, s.swRes[z] # None
                 PROVE  /\ Free(t, z, s.swRes[z])
                        /\ cfg.piggyback => t.nextBuf[OutputOf(s.swRes[z])] =
                                              s.nextBuf[OutputOf(s.swRes[z])]
      BY DEF Undisturbed
    <3>1. Free(t, z, s.swRes[z])
      BY <2>15
    <3>2. DOMAIN s.nextBuf = Outputs
      BY <1>1 DEF Typed
    <3>3. cfg.piggyback => t.nextBuf[OutputOf(s.swRes[z])] = s.nextBuf[OutputOf(s.swRes[z])]
      BY <2>14, <2>19, <3>2 DEF Put
    <3> QED BY <3>1, <3>3
  <2>21. Grants(t, {}, W \ {x})
    BY <1>1, <1>4, <2>16, <2>20, StepGrants
  <2>22. Updating(t, {}, {}, {}, W \ {x})
    BY <1>1, <2>1, <2>5, <2>6, <2>15, <2>16, <2>17, <2>18, <2>21 DEF Updating
  <2>23. Sends(s, t, x, p, c, b)
    <3>1. t.out[x] = c /\ t.fifo[x] = Tail(s.fifo[x]) /\ t.crossbar = u.crossbar
          /\ (t.state[x] = "active" <=> ~IsTail(FrontFlit(s, x)))
      BY <2>11, <2>12, <2>15, <2>17
    <3>2. Put(s.crossbar, t.crossbar, c[1],
              Append(s.crossbar[c[1]], [vc |-> c[2], flit |-> FrontFlit(s, x)]))
      BY <2>3, <2>4, <2>5, <2>17
    <3> HIDE DEF p
    <3> QED BY <2>1, <2>8, <2>19, <3>1, <3>2 DEF Sends
  <2> QED BY <1>6, <2>1, <2>16, <2>22, <2>23
<1> QED BY <1>5, <1>6

-----------------------------------------------------------------------------
(***************************************************************************)
(* Flits enter.                                                            *)
(***************************************************************************)
\* Between reads and updates: the arrivals of D have still to enter.
Resting(s, D) ==
  /\ Typed(s) /\ Tables(s) /\ ~s.failed /\ ~s.unmatched
  /\ Everywhere(s, D, {}, {}, {}, {})
  /\ \A x \in D : x \in InVcs /\ FlitOn(s.inFlit, x) \in Flit /\ feed[x] = Beyond(FlitOn(s.inFlit, x))

LEMMA AddOnly ==
  ASSUME NEW s, Typed(s), NEW x \in InVcs, NEW g \in Flit,
         NEW t, t = [s EXCEPT !.fifo[x] = Append(@, g)]
  PROVE  Only(s, t, x) /\ Keeps(s, t, {"fifo"}) /\ t.fifo[x] = Append(s.fifo[x], g)
<1>1. Router(t) /\ Keeps(s, t, {"fifo"}) /\ t.fifo = [s.fifo EXCEPT ![x] = Append(@, g)]
  BY DEF Typed, Router, Keeps, Fields
<1>2. t.fifo \in [InVcs -> Seq(Flit)] /\ t.fifo[x] = Append(s.fifo[x], g)
      /\ \A y \in InVcs : y # x => t.fifo[y] = s.fifo[y]
  <2>1. s.fifo \in [InVcs -> Seq(Flit)]
    BY DEF Typed
  <2> QED BY <1>1, <2>1
<1>3. Typed(t)
  BY <1>1, <1>2 DEF Typed, Keeps, Fields
<1>4. \A y \in InVcs : y # x => Same(s, t, y)
  BY <1>1, <1>2 DEF Same, Keeps, Fields, Holds
<1>5. Keeps(s, t, Moved)
  BY <1>1 DEF Keeps, Moved
<1> QED BY <1>1, <1>2, <1>3, <1>4, <1>5 DEF Only

LEMMA EnterResting ==
  ASSUME Ready, NEW s, NEW D, Resting(s, D), NEW i \in Inputs,
         NEW x, x = <<i, s.inFlit[i].vc>>, s.inFlit[i] # None, x \in D,
         NEW t, t = Enter(s, i)
  PROVE  /\ Resting(t, D \ {x})
         /\ Keeps(s, t, {"fifo", "state", "routeQ", "vcQ", "swQ"}) /\ Only(s, t, x)
         /\ t.state[x] = "active" <=> s.state[x] = "active"
         /\ t.fifo[x] = Append(s.fifo[x], FlitOn(s.inFlit, x))
<1> DEFINE g == FlitOn(s.inFlit, x)
           u == [s EXCEPT !.fifo[x] = Append(@, g)]
           q == s.fifo[x]
<1>1. /\ x \in InVcs /\ g \in Flit /\ Typed(s) /\ Tables(s) /\ ~s.failed /\ ~s.unmatched
      /\ Everywhere(s, D, {}, {}, {}, {}) /\ q \in Seq(Flit)
      /\ feed[x] = Beyond(g)
  BY DEF Resting, Typed
<1>2. /\ Placed(s, {}, {}, {}, {}, x) /\ Linked(q, s.state[x], s.out[x], Before(g))
      /\ Counted(s, D, x)
  BY <1>1 DEF Everywhere, Local, Sending
<1>3. t = IF s.state[x] = "idle" THEN NewHead(u, x)
          ELSE IF s.state[x] = "active" /\ q = <<>> THEN [u EXCEPT !.swQ = Append(@, x)]
          ELSE u
  <2>1. Holds(s, x) => q # <<>>
    BY <1>2 DEF Placed
  <2>2. CASE s.state[x] = "idle"
    BY <2>2 DEF Enter
  <2>3. CASE s.state[x] = "active" /\ q = <<>>
    <3>1. s.holdVc[ExpandedIn(x)] # x[2]
      BY <2>1, <2>3 DEF Holds
    <3>2. t = [u EXCEPT !.holdQ = @, !.swQ = Append(@, x)]
      BY <2>3, <3>1 DEF Enter
    <3>3. Router(s)
      BY <1>1 DEF Typed
    <3>4. [u EXCEPT !.holdQ = @, !.swQ = Append(@, x)] = [u EXCEPT !.swQ = Append(@, x)]
      BY <3>3 DEF Router, Fields
    <3> QED BY <2>3, <3>2, <3>4
  <2>4. CASE ~(s.state[x] = "idle") /\ ~(s.state[x] = "active" /\ q = <<>>)
    BY <2>4 DEF Enter
  <2> QED BY <2>2, <2>3, <2>4
<1>4. Only(s, u, x) /\ Keeps(s, u, {"fifo"}) /\ u.fifo[x] = Append(q, g)
  BY <1>1, AddOnly
<1> HIDE DEF u
<1>5. /\ u.state = s.state /\ u.out = s.out /\ u.routeQ = s.routeQ /\ u.vcQ = s.vcQ
      /\ u.holdQ = s.holdQ /\ u.swQ = s.swQ /\ u.holdVc = s.holdVc /\ u.holdIn = s.holdIn
      /\ u.holdOut = s.holdOut /\ u.credits = s.credits
  BY <1>4 DEF Keeps, Fields
<1>6. Typed(u) /\ Append(q, g) # <<>>
  <2>1. Typed(u)
    BY <1>4 DEF Only
  <2>2. Append(q, g) # <<>>
    <3> HIDE DEF q, g
    <3> QED BY <1>1
  <2> QED BY <2>1, <2>2
<1>7. Counted(u, D \ {x}, x)
  <2>1. Len(Append(q, g)) = Len(q) + 1 /\ Len(q) \in Nat
    BY <1>1
  <2>2. used[x] = Len(q) + 1 + (IF x[2] \in s.credits[x[1]] THEN 1 ELSE 0)
    BY <1>2 DEF Counted
  <2>3. used[x] = (Len(q) + 1) + 0 + (IF x[2] \in s.credits[x[1]] THEN 1 ELSE 0)
    BY <2>1, <2>2
  <2> QED BY <1>4, <1>5, <2>1, <2>3 DEF Counted
<1>8. /\ Only(u, t, x) /\ Keeps(u, t, {"state", "routeQ", "vcQ", "swQ"})
      /\ Placed(t, {}, {}, {}, {}, x)
      /\ IF s.state[x] = "idle" THEN t.state[x] \in {"routing", "vc_alloc"}
         ELSE t.state[x] = s.state[x]
  <2>1. CASE s.state[x] = "idle"
    <3>1. x \notin Range(u.routeQ) /\ x \notin Range(u.vcQ) /\ x \notin Range(u.swQ)
          /\ x \notin Range(u.holdQ) /\ ~Holds(u, x)
      BY <1>2, <1>5, <2>1 DEF Placed, Among, Holds
    <3>2. /\ Only(u, t, x) /\ Keeps(u, t, {"state", "routeQ", "swQ", "vcQ"})
          /\ t.state[x] = IF cfg.lookahead THEN "vc_alloc" ELSE "routing"
          /\ x \in Range(t.routeQ) <=> ~cfg.lookahead
          /\ x \in Range(t.swQ) <=> cfg.lookahead /\ cfg.spec
          /\ x \in Range(t.vcQ) <=> cfg.lookahead /\ ~cfg.piggyback
      BY <1>1, <1>3, <1>6, <2>1, <3>1, NewHeadOnly
    <3>3. t.holdVc = u.holdVc /\ t.holdQ = u.holdQ
      BY <3>2 DEF Keeps, Fields
    <3>4. Placed(t, {}, {}, {}, {}, x)
      BY <3>1, <3>2, <3>3 DEF Placed, Among, Apart, Holds
    <3>5. Keeps(u, t, {"state", "routeQ", "vcQ", "swQ"})
      BY <3>2 DEF Keeps
    <3> QED BY <2>1, <3>2, <3>4, <3>5
  <2>2. CASE s.state[x] = "active" /\ q = <<>>
    <3>1. x \notin Range(u.swQ) /\ ~Holds(u, x)
      BY <1>2, <1>5, <2>2 DEF Placed, Among, Holds
    <3>2. Only(u, t, x) /\ Keeps(u, t, {"swQ"}) /\ x \in Range(t.swQ)
      BY <1>1, <1>3, <1>6, <2>2, <3>1, PushSwQ
    <3>3. /\ t.state = u.state /\ t.fifo = u.fifo /\ t.routeQ = u.routeQ /\ t.vcQ = u.vcQ
          /\ t.holdQ = u.holdQ /\ t.holdVc = u.holdVc
      BY <3>2 DEF Keeps, Fields
    <3>4. /\ t.fifo[x] # <<>> /\ t.state[x] = "active" /\ ~Holds(t, x)
          /\ x \notin Range(t.routeQ) /\ x \notin Range(t.vcQ) /\ x \notin Range(t.holdQ)
      <4>1. t.fifo[x] # <<>> /\ t.state[x] = "active"
        BY <1>4, <1>5, <1>6, <2>2, <3>3
      <4>2. ~Holds(t, x)
        BY <3>1, <3>3 DEF Holds
      <4>3. x \notin Range(s.routeQ) /\ x \notin Range(s.vcQ) /\ x \notin Range(s.holdQ)
        BY <1>2, <1>5, <2>2, <3>1 DEF Placed, Among, Holds
      <4> QED BY <1>5, <3>3, <4>1, <4>2, <4>3
    <3>5. Placed(t, {}, {}, {}, {}, x)
      <4> HIDE DEF q
      <4> QED BY <3>2, <3>4 DEF Placed, Among, Apart
    <3>6. Keeps(u, t, {"state", "routeQ", "vcQ", "swQ"})
      BY <3>2 DEF Keeps
    <3> QED BY <1>5, <2>2, <3>2, <3>3, <3>5, <3>6
  <2>3. CASE ~(s.state[x] = "idle") /\ ~(s.state[x] = "active" /\ q = <<>>)
    <3>1. t = u
      BY <1>3, <2>3
    <3>2. Placed(t, {}, {}, {}, {}, x)
      BY <1>2, <1>4, <1>5, <1>6, <2>3, <3>1 DEF Placed, Among, Apart, Holds
    <3> QED BY <1>5, <1>6, <2>3, <3>1, <3>2, OnlyRefl DEF Keeps
  <2> QED BY <2>1, <2>2, <2>3
<1>9. /\ t.fifo = u.fifo /\ t.out = s.out /\ t.credits = s.credits /\ t.inFlit = s.inFlit
      /\ t.failed = s.failed /\ t.unmatched = s.unmatched
      /\ t.holdVc = s.holdVc /\ t.holdIn = s.holdIn /\ t.holdOut = s.holdOut
  BY <1>4, <1>8 DEF Keeps, Fields
<1>10. Linked(t.fifo[x], t.state[x], t.out[x], Sending(t, D \ {x}, x))
  <2>1. Linked(Append(q, g), t.state[x], s.out[x], Beyond(g))
    <3> HIDE DEF g, q
    <3> QED BY <1>1, <1>2, <1>8, EnterLinked
  <2> QED BY <1>1, <1>4, <1>9, <2>1 DEF Sending
<1>11. Local(t, D \ {x}, {}, {}, {}, {}, x)
  <2>1. Counted(t, D \ {x}, x)
    <3> HIDE DEF g, q
    <3> QED BY <1>5, <1>7, <1>9 DEF Counted
  <2> HIDE DEF g, q
  <2> QED BY <1>8, <1>10, <2>1 DEF Local
<1>12. Only(s, t, x)
  BY <1>4, <1>8, OnlyTrans
<1>13. Everywhere(t, D \ {x}, {}, {}, {}, {})
  <2>1. Less(D \ {x}, D, x) /\ Less({}, {}, x)
    BY DEF Less
  <2> QED BY <1>1, <1>11, <1>12, <2>1, StepLocal
<1>14. Tables(t)
  BY <1>1, <1>9 DEF Tables, Holds
<1>15. Resting(t, D \ {x})
  <2>1. Typed(t)
    BY <1>12 DEF Only
  <2> QED BY <1>1, <1>9, <1>13, <1>14, <2>1 DEF Resting
<1>16. Keeps(s, t, {"fifo", "state", "routeQ", "vcQ", "swQ"})
  BY <1>4, <1>8 DEF Keeps, Fields
<1> QED BY <1>4, <1>8, <1>9, <1>12, <1>15, <1>16

-----------------------------------------------------------------------------
(***************************************************************************)
(* The queues, entry by entry.                                             *)
(***************************************************************************)
LEMMA CountAll ==
  ASSUME NEW n \in Nat, NEW P, 0 \in P, \A k \in 1 .. n : k-1 \in P => k \in P
  PROVE  \A k \in 0 .. n : k \in P
<1> TAKE k \in 0 .. n
<1>1. k \in Nat /\ \A j \in 1 .. k : j \in 1 .. n
  OBVIOUS
<1> QED BY <1>1, CountUp

LEMMA DistinctFacts ==
  ASSUME NEW q, Distinct(q)
  PROVE  /\ q \in Seq(InVcs) /\ IsInjective(q) /\ Len(q) \in Nat
         /\ Rest(q, 0) = Range(q) /\ Rest(q, Len(q)) = {}
         /\ \A k \in 1 .. Len(q) : /\ q[k] \in Rest(q, k-1) /\ q[k] \in InVcs
                                    /\ Rest(q, k) = Rest(q, k-1) \ {q[k]}
<1>1. q \in Seq(InVcs) /\ IsInjective(q) /\ Len(q) \in Nat
  BY DEF Distinct
<1> QED BY <1>1, RestStep, RestEnds

\* The heads of the routing queue.
LEMMA RouteRun ==
  ASSUME Ready, NEW s, NEW q, Distinct(q), NEW V, NEW H, NEW W, Updating(s, Range(q), V, H, W),
         NEW t, t = RouteUpdate(s, q)
  PROVE  \E h : /\ h[0] = s /\ h[Len(q)] = t
                /\ \A k \in 0 .. Len(q) : Updating(h[k], Rest(q, k), V, H, W)
                /\ \A k \in 1 .. Len(q) : h[k] = ToAllocation(h[k-1], q[k])
<1> DEFINE n == Len(q)
<1>1. /\ q \in Seq(InVcs) /\ n \in Nat /\ Rest(q, 0) = Range(q)
      /\ \A k \in 1 .. n : q[k] \in Rest(q, k-1) /\ Rest(q, k) = Rest(q, k-1) \ {q[k]}
  BY DistinctFacts
<1>2. Routing!LeftFold(0, s, q) = t
  BY DEF RouteStep, RouteUpdate, FoldLeft, MapThenFoldSet, Max, Routing!LeftFold
<1>3. PICK h : /\ Routing!LeftFold(0, s, q) = h[Len(q)]
               /\ h[0] = s
               /\ \A k \in 1 .. Len(q) : h[k] = RouteStep(0, h[k - 1], q[k])
  <2> DEFINE S == InVcs
  <2>1. q \in Seq(S)
    BY <1>1
  <2> HIDE DEF S
  <2> QED BY ONLY <2>1, Routing!FoldLeftSteps, FoldsOrdered, SMTT(40)
<1>4. \A k \in 1 .. n : h[k] = ToAllocation(h[k-1], q[k])
  BY <1>3 DEF RouteStep
<1> DEFINE P == {k \in 0 .. n : Updating(h[k], Rest(q, k), V, H, W)}
<1>5. 0 \in P
  BY <1>1, <1>3
<1>6. ASSUME NEW k \in 1 .. n, k-1 \in P
      PROVE  k \in P
  <2>1. Updating(h[k-1], Rest(q, k-1), V, H, W)
    BY <1>6
  <2>2. q[k] \in Rest(q, k-1) /\ h[k] = ToAllocation(h[k-1], q[k])
    BY <1>1, <1>4
  <2>3. Updating(h[k], Rest(q, k-1) \ {q[k]}, V, H, W)
    BY <2>1, <2>2, RouteUpdating
  <2>4. k \in 0 .. n
    OBVIOUS
  <2> QED BY <1>1, <2>3, <2>4
<1>7. \A k \in 0 .. n : k \in P
  <2> HIDE DEF P, n
  <2> QED BY <1>1, <1>5, <1>6, CountAll
<1> QED BY <1>2, <1>3, <1>4, <1>7

Allocated(s, q) == FoldLeft(AllocateVc, s, q)

\* The heads that wait for an output VC.
LEMMA VcRun ==
  ASSUME Ready, NEW s, NEW q, Distinct(q), NEW H, NEW W, Updating(s, {}, Range(q), H, W),
         NEW t, t = Allocated(s, q)
  PROVE  \E h : /\ h[0] = s /\ h[Len(q)] = t
                /\ \A k \in 0 .. Len(q) : Updating(h[k], {}, Rest(q, k), H, W)
                /\ \A k \in 1 .. Len(q) : h[k] = AllocateVc(h[k-1], q[k])
<1> DEFINE n == Len(q)
<1>1. /\ q \in Seq(InVcs) /\ n \in Nat /\ Rest(q, 0) = Range(q)
      /\ \A k \in 1 .. n : q[k] \in Rest(q, k-1) /\ Rest(q, k) = Rest(q, k-1) \ {q[k]}
  BY DistinctFacts
<1>2. Taking!LeftFold(0, s, q) = t
  BY DEF VcStep, Allocated, FoldLeft, MapThenFoldSet, Max, Taking!LeftFold
<1>3. PICK h : /\ Taking!LeftFold(0, s, q) = h[Len(q)]
               /\ h[0] = s
               /\ \A k \in 1 .. Len(q) : h[k] = VcStep(0, h[k - 1], q[k])
  <2> DEFINE S == InVcs
  <2>1. q \in Seq(S)
    BY <1>1
  <2> HIDE DEF S
  <2> QED BY ONLY <2>1, Taking!FoldLeftSteps, FoldsOrdered, SMTT(40)
<1>4. \A k \in 1 .. n : h[k] = AllocateVc(h[k-1], q[k])
  BY <1>3 DEF VcStep
<1> DEFINE P == {k \in 0 .. n : Updating(h[k], {}, Rest(q, k), H, W)}
<1>5. 0 \in P
  BY <1>1, <1>3
<1>6. ASSUME NEW k \in 1 .. n, k-1 \in P
      PROVE  k \in P
  <2>1. Updating(h[k-1], {}, Rest(q, k-1), H, W)
    BY <1>6
  <2>2. q[k] \in Rest(q, k-1) /\ h[k] = AllocateVc(h[k-1], q[k])
    BY <1>1, <1>4
  <2>3. Updating(h[k], {}, Rest(q, k-1) \ {q[k]}, H, W)
    BY <2>1, <2>2, VcUpdating
  <2>4. k \in 0 .. n
    OBVIOUS
  <2> QED BY <1>1, <2>3, <2>4
<1>7. \A k \in 0 .. n : k \in P
  <2> HIDE DEF P, n
  <2> QED BY <1>1, <1>5, <1>6, CountAll
<1> QED BY <1>2, <1>3, <1>4, <1>7

Advanced(s, q) == FoldLeft(UpdateHeld, s, q)

\* The VCs that hold the crossbar.
LEMMA HeldRun ==
  ASSUME Ready, cfg.piggyback => cfg.outSp = 1, NEW s, NEW q, Distinct(q), NEW W, Updating(s, {}, {}, Range(q), W),
         NEW t, t = Advanced(s, q)
  PROVE  \E h : /\ h[0] = s /\ h[Len(q)] = t
                /\ \A k \in 0 .. Len(q) : Updating(h[k], {}, {}, Rest(q, k), W)
                /\ \A k \in 1 .. Len(q) : h[k] = UpdateHeld(h[k-1], q[k])
<1> DEFINE n == Len(q)
<1>1. /\ q \in Seq(InVcs) /\ n \in Nat /\ Rest(q, 0) = Range(q)
      /\ \A k \in 1 .. n : q[k] \in Rest(q, k-1) /\ Rest(q, k) = Rest(q, k-1) \ {q[k]}
  BY DistinctFacts
<1>2. Holding!LeftFold(0, s, q) = t
  BY DEF HeldStep, Advanced, FoldLeft, MapThenFoldSet, Max, Holding!LeftFold
<1>3. PICK h : /\ Holding!LeftFold(0, s, q) = h[Len(q)]
               /\ h[0] = s
               /\ \A k \in 1 .. Len(q) : h[k] = HeldStep(0, h[k - 1], q[k])
  <2> DEFINE S == InVcs
  <2>1. q \in Seq(S)
    BY <1>1
  <2> HIDE DEF S
  <2> QED BY ONLY <2>1, Holding!FoldLeftSteps, FoldsOrdered, SMTT(40)
<1>4. \A k \in 1 .. n : h[k] = UpdateHeld(h[k-1], q[k])
  BY <1>3 DEF HeldStep
<1> DEFINE P == {k \in 0 .. n : Updating(h[k], {}, {}, Rest(q, k), W)}
<1>5. 0 \in P
  BY <1>1, <1>3
<1>6. ASSUME NEW k \in 1 .. n, k-1 \in P
      PROVE  k \in P
  <2>1. Updating(h[k-1], {}, {}, Rest(q, k-1), W)
    BY <1>6
  <2>2. q[k] \in Rest(q, k-1) /\ h[k] = UpdateHeld(h[k-1], q[k])
    BY <1>1, <1>4
  <2>3. Updating(h[k], {}, {}, Rest(q, k-1) \ {q[k]}, W)
    BY <2>1, <2>2, HeldUpdating
  <2>4. k \in 0 .. n
    OBVIOUS
  <2> QED BY <1>1, <2>3, <2>4
<1>7. \A k \in 0 .. n : k \in P
  <2> HIDE DEF P, n
  <2> QED BY <1>1, <1>5, <1>6, CountAll
<1> QED BY <1>2, <1>3, <1>4, <1>7

Switched(s, q, a) == FoldLeft(LAMBDA b, x : UpdateSwitched(b, x, a), s, q)

\* The VCs that ask for the crossbar.
LEMMA SwitchRun ==
  ASSUME Ready, cfg.piggyback => cfg.outSp = 1, NEW s, NEW q, Distinct(q), NEW a \in [Outputs -> Nat], Updating(s, {}, {}, {}, Range(q)),
         NEW t, t = Switched(s, q, a)
  PROVE  \E h : /\ h[0] = s /\ h[Len(q)] = t
                /\ \A k \in 0 .. Len(q) : Updating(h[k], {}, {}, {}, Rest(q, k))
                /\ \A k \in 1 .. Len(q) : h[k] = UpdateSwitched(h[k-1], q[k], a)
<1> DEFINE n == Len(q)
<1>1. /\ q \in Seq(InVcs) /\ n \in Nat /\ Rest(q, 0) = Range(q)
      /\ \A k \in 1 .. n : q[k] \in Rest(q, k-1) /\ Rest(q, k) = Rest(q, k-1) \ {q[k]}
  BY DistinctFacts
<1>2. Switching!LeftFold(a, s, q) = t
  BY DEF SwitchStep, Switched, FoldLeft, MapThenFoldSet, Max, Switching!LeftFold
<1>3. PICK h : /\ Switching!LeftFold(a, s, q) = h[Len(q)]
               /\ h[0] = s
               /\ \A k \in 1 .. Len(q) : h[k] = SwitchStep(a, h[k - 1], q[k])
  <2> DEFINE S == InVcs
  <2>1. q \in Seq(S)
    BY <1>1
  <2> HIDE DEF S
  <2> HIDE DEF n
  <2>2. \A b : \E h : /\ Switching!LeftFold(b, s, q) = h[Len(q)]
                      /\ h[0] = s
                      /\ \A k \in 1 .. Len(q) : h[k] = SwitchStep(b, h[k - 1], q[k])
    BY ONLY <2>1, Switching!FoldLeftSteps, FoldsOrdered, SMTT(40)
  <2> QED BY <2>2
<1>4. \A k \in 1 .. n : h[k] = UpdateSwitched(h[k-1], q[k], a)
  BY <1>3 DEF SwitchStep
<1> DEFINE P == {k \in 0 .. n : Updating(h[k], {}, {}, {}, Rest(q, k))}
<1>5. 0 \in P
  BY <1>1, <1>3
<1>6. ASSUME NEW k \in 1 .. n, k-1 \in P
      PROVE  k \in P
  <2>1. Updating(h[k-1], {}, {}, {}, Rest(q, k-1))
    BY <1>6
  <2>2. q[k] \in Rest(q, k-1) /\ h[k] = UpdateSwitched(h[k-1], q[k], a)
    BY <1>1, <1>4
  <2>3. Updating(h[k], {}, {}, {}, Rest(q, k-1) \ {q[k]})
    BY <2>1, <2>2, SwitchUpdating
  <2>4. k \in 0 .. n
    OBVIOUS
  <2> QED BY <1>1, <2>3, <2>4
<1>7. \A k \in 0 .. n : k \in P
  <2> HIDE DEF P, n
  <2> QED BY <1>1, <1>5, <1>6, CountAll
<1> QED BY <1>2, <1>3, <1>4, <1>7

-----------------------------------------------------------------------------
(***************************************************************************)
(* The update of a router.                                                 *)
(***************************************************************************)
\* The results of evaluated entries are forgotten.
LEMMA ForgetUpdating ==
  ASSUME NEW s, NEW u, NEW H, NEW W, Updating(s, {}, {}, H, W), Router(u),
         Keeps(s, u, {"vcRes", "holdRes", "activity"})
  PROVE  Updating(u, {}, {}, H, W)
<1>1. /\ Typed(s) /\ Tables(s) /\ Everywhere(s, {}, {}, {}, H, W) /\ Grants(s, {}, W)
      /\ H \subseteq InVcs /\ W \subseteq InVcs /\ ~s.failed /\ ~s.unmatched
  BY DEF Updating
<1>2. /\ u.fifo = s.fifo /\ u.state = s.state /\ u.out = s.out /\ u.inFlit = s.inFlit
      /\ u.routeQ = s.routeQ /\ u.vcQ = s.vcQ /\ u.holdQ = s.holdQ /\ u.swQ = s.swQ
      /\ u.holdVc = s.holdVc /\ u.holdIn = s.holdIn /\ u.holdOut = s.holdOut
      /\ u.nextBuf = s.nextBuf /\ u.crossbar = s.crossbar /\ u.credits = s.credits
      /\ u.failed = s.failed /\ u.unmatched = s.unmatched /\ u.swRes = s.swRes
      /\ u.crossing = s.crossing /\ u.outBuf = s.outBuf
  BY DEF Keeps, Fields
<1>3. Typed(u)
  BY <1>1, <1>2 DEF Typed
<1>4. Tables(u)
  BY <1>1, <1>2 DEF Tables, Holds
<1>5. Everywhere(u, {}, {}, {}, H, W)
  <2> SUFFICES ASSUME NEW x \in InVcs PROVE Local(u, {}, {}, {}, H, W, x)
    BY DEF Everywhere
  <2>1. Local(s, {}, {}, {}, H, W, x)
    BY <1>1 DEF Everywhere
  <2>2. Placed(u, {}, {}, H, W, x)
    BY <1>2, <2>1 DEF Local, Placed, Holds
  <2>3. Sending(u, {}, x) = Sending(s, {}, x) /\ Counted(u, {}, x)
    BY <1>2, <2>1 DEF Local, Sending, Counted
  <2> QED BY <1>2, <2>1, <2>2, <2>3 DEF Local
<1>6. Grants(u, {}, W)
  <2>1. ASSUME NEW x, NEW p, Granted(s, {}, x, p) PROVE Granted(u, {}, x, p)
    <3>1. Candidates(u, x, OutputOf(p)) = Candidates(s, x, OutputOf(p))
      BY <1>2 DEF Candidates, Route, FrontFlit
    <3> QED BY <1>2, <2>1, <3>1 DEF Granted, Free
  <2> QED BY <1>1, <1>2, <2>1 DEF Grants
<1> QED BY <1>1, <1>2, <1>3, <1>4, <1>5, <1>6 DEF Updating

\* Between two updates of a router; its entries are evaluated before the next.
Settled(s) ==
  /\ Typed(s) /\ Tables(s) /\ ~s.failed /\ ~s.unmatched
  /\ Everywhere(s, {}, {}, {}, {}, {})

LEMMA ForgetSettled ==
  ASSUME NEW s, NEW u, Settled(s), Typed(u), ~u.failed,
         Keeps(s, u, {"vcRes", "holdRes", "swRes", "activity", "active", "outBuf", "crossing",
                      "crossbar", "failed", "nextBuf", "inCredit"})
  PROVE  Settled(u)
<1>2. /\ u.fifo = s.fifo /\ u.state = s.state /\ u.out = s.out /\ u.inFlit = s.inFlit
      /\ u.routeQ = s.routeQ /\ u.vcQ = s.vcQ /\ u.holdQ = s.holdQ /\ u.swQ = s.swQ
      /\ u.holdVc = s.holdVc /\ u.holdIn = s.holdIn /\ u.holdOut = s.holdOut
      /\ u.credits = s.credits /\ u.unmatched = s.unmatched
  BY DEF Keeps, Fields
<1>4. Tables(u)
  BY <1>2 DEF Settled, Tables, Holds
<1>5. Everywhere(u, {}, {}, {}, {}, {})
  <2> SUFFICES ASSUME NEW x \in InVcs PROVE Local(u, {}, {}, {}, {}, {}, x)
    BY DEF Everywhere
  <2>1. Local(s, {}, {}, {}, {}, {}, x)
    BY DEF Settled, Everywhere
  <2>2. Placed(u, {}, {}, {}, {}, x)
    BY <1>2, <2>1 DEF Local, Placed, Holds
  <2>3. Sending(u, {}, x) = Sending(s, {}, x) /\ Counted(u, {}, x)
    BY <1>2, <2>1 DEF Local, Sending, Counted
  <2> QED BY <1>2, <2>1, <2>2, <2>3 DEF Local
<1> QED BY <1>2, <1>4, <1>5 DEF Settled

\* The entries that have been evaluated leave their queues.
LEMMA DequeuedUpdating ==
  ASSUME NEW s, Settled(s), Grants(s, Range(s.vcQ), Range(s.swQ)),
         s.credits = [i \in Inputs |-> {}], NEW t, t = Dequeued(s)
  PROVE  /\ Updating(t, Range(s.routeQ), Range(s.vcQ), Range(s.holdQ), Range(s.swQ))
         /\ Keeps(s, t, {"routeQ", "vcQ", "holdQ", "swQ"})
         /\ t.routeQ = <<>>
<1> DEFINE A == Range(s.routeQ)
           V == Range(s.vcQ)
           H == Range(s.holdQ)
           W == Range(s.swQ)
<1>1. /\ Router(t) /\ Keeps(s, t, {"routeQ", "vcQ", "holdQ", "swQ"})
      /\ t.routeQ = <<>> /\ t.vcQ = <<>> /\ t.holdQ = <<>> /\ t.swQ = <<>>
  BY DEF Settled, Typed, Dequeued, Router, Keeps, Fields
<1>2. /\ t.fifo = s.fifo /\ t.state = s.state /\ t.out = s.out /\ t.inFlit = s.inFlit
      /\ t.holdVc = s.holdVc /\ t.holdIn = s.holdIn /\ t.holdOut = s.holdOut
      /\ t.nextBuf = s.nextBuf /\ t.crossbar = s.crossbar /\ t.credits = s.credits
      /\ t.failed = s.failed /\ t.unmatched = s.unmatched /\ t.swRes = s.swRes
      /\ t.crossing = s.crossing /\ t.outBuf = s.outBuf /\ t.vcRes = s.vcRes
  BY <1>1 DEF Keeps, Fields
<1>3. Distinct(<<>>) /\ Range(<<>>) = {}
  BY EmptyListed DEF Distinct, Listed
<1>4. Typed(t)
  BY <1>1, <1>2, <1>3 DEF Settled, Typed
<1>5. Tables(t)
  BY <1>2 DEF Settled, Tables, Holds
<1>6. A \subseteq InVcs /\ V \subseteq InVcs /\ H \subseteq InVcs /\ W \subseteq InVcs
  <2>1. \A q : Distinct(q) => Range(q) \subseteq InVcs
    BY DEF Distinct, Range
  <2> QED BY <2>1 DEF Settled, Typed
<1>7. Everywhere(t, {}, A, V, H, W)
  <2> SUFFICES ASSUME NEW x \in InVcs PROVE Local(t, {}, A, V, H, W, x)
    BY DEF Everywhere
  <2>1. Local(s, {}, {}, {}, {}, {}, x)
    BY DEF Settled, Everywhere
  <2>2. x[2] \notin s.credits[x[1]]
    BY DEF InVcs
  <2>3. Placed(s, {}, {}, {}, {}, x)
    BY <2>1 DEF Local
  <2>4. Placed(t, A, V, H, W, x)
    BY <1>1, <1>2, <1>3, <2>2, <2>3 DEF Placed, Among, Apart, Holds
  <2>5. Sending(t, {}, x) = Sending(s, {}, x) /\ Counted(t, {}, x)
    BY <1>2, <2>1 DEF Local, Sending, Counted
  <2> QED BY <1>2, <2>1, <2>4, <2>5 DEF Local
<1>8. Grants(t, V, W)
  <2>1. ASSUME NEW x, NEW p, Granted(s, V, x, p) PROVE Granted(t, V, x, p)
    <3>1. Candidates(t, x, OutputOf(p)) = Candidates(s, x, OutputOf(p))
      BY <1>2 DEF Candidates, Route, FrontFlit
    <3> HIDE DEF V
    <3> QED BY <1>2, <2>1, <3>1 DEF Granted, Free
  <2>2. \A x : Route(t, x) = Route(s, x)
    BY <1>2 DEF Route, FrontFlit
  <2> QED BY <1>2, <2>1, <2>2 DEF Grants
<1> QED BY <1>1, <1>2, <1>4, <1>5, <1>6, <1>7, <1>8 DEF Updating, Settled

\* No flit is in the crossbar.
Quiet(s) == \A o \in Outputs : s.crossbar[o] = <<>>

\* What fills a queue, but for swQ, fills the crossbar too.
Calm(s, t) == Quiet(t) => Quiet(s) /\ t.routeQ = s.routeQ /\ t.vcQ = s.vcQ /\ t.holdQ = s.holdQ

LEMMA SendsLoud ==
  ASSUME NEW s, Typed(s), NEW t, NEW x, NEW p, NEW c, NEW b, Sends(s, t, x, p, c, b)
  PROVE  c[1] \in Outputs /\ ~Quiet(t)
<1> DEFINE m == [vc |-> c[2], flit |-> FrontFlit(s, x)]
<1>1. c[1] \in Outputs
  BY DEF Sends, OutVcs
<1>2. Put(s.crossbar, t.crossbar, c[1], Append(s.crossbar[c[1]], m))
  BY DEF Sends
<1>3. s.crossbar[c[1]] \in Seq(Moving) /\ DOMAIN s.crossbar = Outputs
  BY <1>1 DEF Typed
<1> HIDE DEF m
<1>4. t.crossbar[c[1]] = Append(s.crossbar[c[1]], m)
  BY <1>1, <1>2, <1>3 DEF Put
<1>5. Append(s.crossbar[c[1]], m) # <<>>
  <2>1. Len(Append(s.crossbar[c[1]], m)) = Len(s.crossbar[c[1]]) + 1 /\ Len(s.crossbar[c[1]]) \in Nat
    BY <1>3
  <2>2. Len(<<>>) = 0
    OBVIOUS
  <2> QED BY <2>1, <2>2
<1> QED BY <1>1, <1>4, <1>5 DEF Quiet

LEMMA StaysCalm ==
  ASSUME NEW s, NEW t, Stays(s, t)
  PROVE  Calm(s, t)
BY DEF Stays, Calm, Quiet

LEMMA RouteStage ==
  ASSUME Ready, NEW s, NEW q, Distinct(q), NEW V, NEW H, NEW W, Updating(s, Range(q), V, H, W),
         NEW t, t = RouteUpdate(s, q)
  PROVE  Updating(t, {}, V, H, W) /\ Keeps(s, t, {"state", "swQ", "vcQ"})
<1> DEFINE n == Len(q)
<1>1. PICK h : /\ h[0] = s /\ h[n] = t
               /\ \A k \in 0 .. n : Updating(h[k], Rest(q, k), V, H, W)
               /\ \A k \in 1 .. n : h[k] = ToAllocation(h[k-1], q[k])
  BY RouteRun
<1>2. n \in Nat /\ Rest(q, n) = {} /\ \A k \in 1 .. n : q[k] \in Rest(q, k-1)
  BY DistinctFacts
<1> DEFINE P == {k \in 0 .. n : Keeps(s, h[k], {"state", "swQ", "vcQ"})}
<1>3. 0 \in P
  BY <1>1, <1>2 DEF Keeps
<1>4. ASSUME NEW k \in 1 .. n, k-1 \in P PROVE k \in P
  <2>1. Updating(h[k-1], Rest(q, k-1), V, H, W) /\ q[k] \in Rest(q, k-1)
        /\ h[k] = ToAllocation(h[k-1], q[k])
    BY <1>1, <1>2, <1>4
  <2>2. Keeps(h[k-1], h[k], {"state", "swQ", "vcQ"})
    BY <2>1, RouteUpdating
  <2>3. Keeps(s, h[k-1], {"state", "swQ", "vcQ"}) /\ k \in 0 .. n
    BY <1>4
  <2> QED BY <2>2, <2>3 DEF Keeps
<1>5. n \in P
  <2> HIDE DEF P, n
  <2> QED BY <1>2, <1>3, <1>4, CountUp
<1>6. Updating(t, {}, V, H, W)
  <2>1. n \in 0 .. n
    BY <1>2
  <2> QED BY <1>1, <1>2, <2>1
<1> QED BY <1>1, <1>5, <1>6

LEMMA VcStage ==
  ASSUME Ready, NEW s, NEW q, Distinct(q), NEW H, NEW W, Updating(s, {}, Range(q), H, W),
         NEW t, t = VCAllocUpdate(s, q)
  PROVE  /\ Updating(t, {}, {}, H, W)
         /\ Keeps(s, t, {"state", "out", "nextBuf", "vcQ", "swQ", "vcRes", "activity"})
         /\ ~t.activity => ~s.activity /\ t.vcQ = <<>>
<1> DEFINE n == Len(q)
           u == Allocated(s, q)
<1>1. PICK h : /\ h[0] = s /\ h[n] = u
               /\ \A k \in 0 .. n : Updating(h[k], {}, Rest(q, k), H, W)
               /\ \A k \in 1 .. n : h[k] = AllocateVc(h[k-1], q[k])
  BY VcRun
<1>2. n \in Nat /\ Rest(q, n) = {} /\ \A k \in 1 .. n : q[k] \in Rest(q, k-1)
  BY DistinctFacts
<1> DEFINE P == {k \in 0 .. n : Keeps(s, h[k], {"state", "out", "nextBuf", "vcQ", "swQ"})}
<1>3. 0 \in P
  BY <1>1, <1>2 DEF Keeps
<1>4. ASSUME NEW k \in 1 .. n, k-1 \in P PROVE k \in P
  <2>1. Updating(h[k-1], {}, Rest(q, k-1), H, W) /\ q[k] \in Rest(q, k-1)
        /\ h[k] = AllocateVc(h[k-1], q[k])
    BY <1>1, <1>2, <1>4
  <2>2. Keeps(h[k-1], h[k], {"state", "out", "nextBuf", "vcQ", "swQ"})
    <3> DEFINE N == {}
               y == h[k-1]
               z == h[k]
               x == q[k]
               R == Rest(q, k-1)
    <3>1. Updating(y, N, R, H, W) /\ x \in R /\ z = AllocateVc(y, x)
      BY <2>1
    <3>2. Keeps(y, z, {"state", "out", "nextBuf", "vcQ", "swQ"})
      <4> HIDE DEF N, y, z, x, R
      <4> QED BY ONLY Ready, <3>1, VcUpdating
    <3> QED BY <3>2
  <2>3. Keeps(s, h[k-1], {"state", "out", "nextBuf", "vcQ", "swQ"}) /\ k \in 0 .. n
    BY <1>4
  <2> QED BY <2>2, <2>3 DEF Keeps
<1>5. n \in P
  <2> HIDE DEF P, n
  <2> QED BY <1>2, <1>3, <1>4, CountUp
<1>6. Updating(u, {}, {}, H, W)
  <2>1. n \in 0 .. n
    BY <1>2
  <2> QED BY <1>1, <1>2, <2>1
<1>7. Keeps(s, u, {"state", "out", "nextBuf", "vcQ", "swQ"})
  BY <1>1, <1>5
<1>8. t = [u EXCEPT !.vcRes = <<>>, !.activity = @ \/ u.vcQ # <<>>]
  BY DEF VCAllocUpdate, Allocated
<1> HIDE DEF u
<1>9. /\ Router(t) /\ Keeps(u, t, {"vcRes", "activity"})
      /\ t.activity = (u.activity \/ u.vcQ # <<>>)
  <2>1. Router(u)
    BY <1>6 DEF Updating, Typed
  <2> QED BY <1>8, <2>1 DEF Router, Keeps, Fields
<1>10. Updating(t, {}, {}, H, W)
  <2>1. Keeps(u, t, {"vcRes", "holdRes", "activity"})
    BY <1>9 DEF Keeps
  <2> QED BY <1>6, <1>9, <2>1, ForgetUpdating
<1>11. Keeps(s, t, {"state", "out", "nextBuf", "vcQ", "swQ", "vcRes", "activity"})
  BY <1>7, <1>9 DEF Keeps
<1>12. u.activity = s.activity /\ t.vcQ = u.vcQ
  BY <1>7, <1>9 DEF Keeps, Fields
<1> QED BY <1>9, <1>10, <1>11, <1>12

LEMMA HeldStage ==
  ASSUME Ready, cfg.piggyback => cfg.outSp = 1,
         NEW s, NEW q, Distinct(q), NEW W, Updating(s, {}, {}, Range(q), W),
         NEW t, t = SWHoldUpdate(s, q)
  PROVE  /\ Updating(t, {}, {}, {}, W)
         /\ Keeps(s, t, Moved \cup {"holdRes", "activity"})
         /\ ~t.activity => ~s.activity /\ t.holdQ = <<>>
         /\ Calm(s, t)
<1> DEFINE n == Len(q)
           u == Advanced(s, q)
<1>1. PICK h : /\ h[0] = s /\ h[n] = u
               /\ \A k \in 0 .. n : Updating(h[k], {}, {}, Rest(q, k), W)
               /\ \A k \in 1 .. n : h[k] = UpdateHeld(h[k-1], q[k])
  <2>1. u = Advanced(s, q)
    OBVIOUS
  <2> HIDE DEF u
  <2> QED BY <2>1, HeldRun
<1>2. n \in Nat /\ Rest(q, n) = {} /\ \A k \in 1 .. n : q[k] \in Rest(q, k-1)
  BY DistinctFacts
<1> DEFINE P == {k \in 0 .. n : Keeps(s, h[k], Moved) /\ Calm(s, h[k])}
<1>3. 0 \in P
  BY <1>1, <1>2 DEF Keeps, Calm
<1>4. ASSUME NEW k \in 1 .. n, k-1 \in P PROVE k \in P
  <2> DEFINE x == q[k]
  <2>1. Updating(h[k-1], {}, {}, Rest(q, k-1), W) /\ x \in Rest(q, k-1)
        /\ h[k] = UpdateHeld(h[k-1], x)
    BY <1>1, <1>2, <1>4
  <2>2. /\ Only(h[k-1], h[k], x)
        /\ \/ Stays(h[k-1], h[k])
           \/ Sends(h[k-1], h[k], x, h[k-1].holdIn[ExpandedIn(x)], h[k-1].out[x],
                    h[k-1].nextBuf[h[k-1].out[x][1]])
    BY <2>1, HeldUpdating
  <2>3. Keeps(s, h[k-1], Moved) /\ Calm(s, h[k-1]) /\ k \in 0 .. n
    BY <1>4
  <2>4. Calm(h[k-1], h[k])
    <3>1. Typed(h[k-1])
      BY <2>1 DEF Updating
    <3> HIDE DEF x
    <3>2. CASE Stays(h[k-1], h[k])
      BY <3>2, StaysCalm
    <3>3. CASE ~Stays(h[k-1], h[k])
      BY <2>2, <3>1, <3>3, SendsLoud DEF Calm
    <3> QED BY <3>2, <3>3
  <2>5. Keeps(h[k-1], h[k], Moved)
    BY <2>2 DEF Only
  <2>6. Keeps(s, h[k], Moved)
    BY <2>3, <2>5 DEF Keeps
  <2>7. Calm(s, h[k])
    BY <2>3, <2>4 DEF Calm
  <2> QED BY <2>3, <2>6, <2>7
<1>5. n \in P
  <2> HIDE DEF P, n
  <2> QED BY <1>2, <1>3, <1>4, CountUp
<1>6. Updating(u, {}, {}, {}, W)
  <2>1. n \in 0 .. n
    BY <1>2
  <2> QED BY <1>1, <1>2, <2>1
<1>7. Keeps(s, u, Moved) /\ Calm(s, u)
  BY <1>1, <1>5
<1>8. t = [u EXCEPT !.holdRes = <<>>, !.activity = @ \/ u.holdQ # <<>>]
  BY DEF SWHoldUpdate, Advanced
<1> HIDE DEF u
<1>9. /\ Router(t) /\ Keeps(u, t, {"holdRes", "activity"})
      /\ t.activity = (u.activity \/ u.holdQ # <<>>)
  <2>1. Router(u)
    BY <1>6 DEF Updating, Typed
  <2> QED BY <1>8, <2>1 DEF Router, Keeps, Fields
<1>10. Updating(t, {}, {}, {}, W)
  <2>1. Keeps(u, t, {"vcRes", "holdRes", "activity"})
    BY <1>9 DEF Keeps
  <2> QED BY <1>6, <1>9, <2>1, ForgetUpdating
<1>11. Keeps(s, t, Moved \cup {"holdRes", "activity"})
  BY <1>7, <1>9 DEF Keeps
<1>12. u.activity = s.activity /\ t.holdQ = u.holdQ
  BY <1>7, <1>9 DEF Keeps, Fields, Moved
<1>13. Calm(s, t)
  BY <1>7, <1>9 DEF Keeps, Fields, Calm, Quiet
<1> QED BY <1>9, <1>10, <1>11, <1>12, <1>13

LEMMA SwitchStage ==
  ASSUME Ready, cfg.piggyback => cfg.outSp = 1,
         NEW s, NEW q, Distinct(q), NEW a \in [Outputs -> Nat], Updating(s, {}, {}, {}, Range(q)),
         NEW t, t = SWAllocUpdate(s, q, a)
  PROVE  /\ Settled(t)
         /\ Keeps(s, t, Moved \cup {"swRes", "activity"})
         /\ ~t.activity => ~s.activity /\ t.swQ = <<>>
         /\ Calm(s, t)
<1> DEFINE n == Len(q)
           u == Switched(s, q, a)
<1>1. PICK h : /\ h[0] = s /\ h[n] = u
               /\ \A k \in 0 .. n : Updating(h[k], {}, {}, {}, Rest(q, k))
               /\ \A k \in 1 .. n : h[k] = UpdateSwitched(h[k-1], q[k], a)
  BY SwitchRun
<1>2. n \in Nat /\ Rest(q, n) = {} /\ \A k \in 1 .. n : q[k] \in Rest(q, k-1)
  BY DistinctFacts
<1> DEFINE P == {k \in 0 .. n : Keeps(s, h[k], Moved) /\ Calm(s, h[k])}
<1>3. 0 \in P
  BY <1>1, <1>2 DEF Keeps, Calm
<1>4. ASSUME NEW k \in 1 .. n, k-1 \in P PROVE k \in P
  <2> DEFINE x == q[k]
             y == h[k-1]
  <2>1. Updating(y, {}, {}, {}, Rest(q, k-1)) /\ x \in Rest(q, k-1)
        /\ h[k] = UpdateSwitched(y, x, a)
    BY <1>1, <1>2, <1>4
  <2>2. /\ Only(y, h[k], x)
        /\ IF y.swRes[x] = None THEN Stays(y, h[k])
           ELSE \E c, b : /\ c \in OutVcs /\ Chosen(y, x, y.swRes[x], c, b)
                           /\ Sends(y, h[k], x, y.swRes[x], c, b)
    <3> HIDE DEF x, y
    <3> QED BY <2>1, SwitchUpdating
  <2>3. Keeps(s, y, Moved) /\ Calm(s, y) /\ k \in 0 .. n
    BY <1>4
  <2>4. Calm(y, h[k])
    <3>1. Typed(y)
      BY <2>1 DEF Updating
    <3> HIDE DEF x, y
    <3>2. CASE Stays(y, h[k])
      BY <3>2, StaysCalm
    <3>3. CASE ~Stays(y, h[k])
      BY <2>2, <3>1, <3>3, SendsLoud DEF Calm
    <3> QED BY <3>2, <3>3
  <2>5. Keeps(y, h[k], Moved)
    BY <2>2 DEF Only
  <2> HIDE DEF y
  <2>6. Keeps(s, h[k], Moved)
    BY <2>3, <2>5 DEF Keeps
  <2>7. Calm(s, h[k])
    BY <2>3, <2>4 DEF Calm
  <2> QED BY <2>3, <2>6, <2>7
<1>5. n \in P
  <2> HIDE DEF P, n
  <2> QED BY <1>2, <1>3, <1>4, CountUp
<1>6. Updating(u, {}, {}, {}, {})
  <2>1. n \in 0 .. n
    BY <1>2
  <2> QED BY <1>1, <1>2, <2>1
<1>7. Keeps(s, u, Moved) /\ Calm(s, u)
  BY <1>1, <1>5
<1>8. t = [u EXCEPT !.swRes = <<>>, !.activity = @ \/ u.swQ # <<>>]
  BY DEF SWAllocUpdate, Switched
<1> HIDE DEF u
<1>9. /\ Router(t) /\ Keeps(u, t, {"swRes", "activity"})
      /\ t.activity = (u.activity \/ u.swQ # <<>>)
  <2>1. Router(u)
    BY <1>6 DEF Updating, Typed
  <2> QED BY <1>8, <2>1 DEF Router, Keeps, Fields
<1>10. Settled(t)
  <2>1. Settled(u)
    BY <1>6 DEF Updating, Settled
  <2>2. Typed(t) /\ ~t.failed
    BY <1>9, <2>1 DEF Settled, Typed, Keeps, Fields
  <2>3. Keeps(u, t, {"vcRes", "holdRes", "swRes", "activity", "active", "outBuf", "crossing",
                     "crossbar", "failed", "nextBuf", "inCredit"})
    BY <1>9 DEF Keeps
  <2> QED BY <2>1, <2>2, <2>3, ForgetSettled
<1>11. Keeps(s, t, Moved \cup {"swRes", "activity"})
  BY <1>7, <1>9 DEF Keeps
<1>12. u.activity = s.activity /\ t.swQ = u.swQ
  BY <1>7, <1>9 DEF Keeps, Fields, Moved
<1>13. Calm(s, t)
  BY <1>7, <1>9 DEF Keeps, Fields, Calm, Quiet
<1> QED BY <1>9, <1>10, <1>11, <1>12, <1>13

\* The parts of an update, one after another; if they leave the router inactive
\* there is nothing to do.
LEMMA PhasesUpdating ==
  ASSUME Ready, cfg.piggyback => cfg.outSp = 1,
         NEW s, Settled(s), Grants(s, Range(s.vcQ), Range(s.swQ)),
         s.credits = [i \in Inputs |-> {}], NEW a \in [Outputs -> Nat],
         NEW d, d = Dequeued(s), NEW s1, s1 = RouteUpdate(d, s.routeQ),
         NEW s2, s2 = VCAllocUpdate(s1, s.vcQ), NEW s3, s3 = SWHoldUpdate(s2, s.holdQ),
         NEW s4, s4 = SWAllocUpdate(s3, s.swQ, a)
  PROVE  /\ Updating(d, Range(s.routeQ), Range(s.vcQ), Range(s.holdQ), Range(s.swQ))
         /\ Updating(s1, {}, Range(s.vcQ), Range(s.holdQ), Range(s.swQ))
         /\ Updating(s2, {}, {}, Range(s.holdQ), Range(s.swQ))
         /\ Updating(s3, {}, {}, {}, Range(s.swQ))
         /\ Settled(s4)
         /\ Keeps(s, s2, {"routeQ", "vcQ", "holdQ", "swQ", "state", "out", "nextBuf", "vcRes", "activity"})
         /\ Keeps(s, s3, Moved \cup {"vcRes", "holdRes", "activity"})
         /\ Keeps(s, s4, Moved \cup {"vcRes", "holdRes", "swRes", "activity"})
         /\ ~s4.activity /\ Quiet(s4) => Asleep(s4)
<1>0. Distinct(s.routeQ) /\ Distinct(s.vcQ) /\ Distinct(s.holdQ) /\ Distinct(s.swQ)
  BY DEF Settled, Typed
<1>1. /\ Updating(d, Range(s.routeQ), Range(s.vcQ), Range(s.holdQ), Range(s.swQ))
      /\ Keeps(s, d, {"routeQ", "vcQ", "holdQ", "swQ"})
      /\ d.routeQ = <<>>
  BY DequeuedUpdating
<1>2. /\ Updating(s1, {}, Range(s.vcQ), Range(s.holdQ), Range(s.swQ))
      /\ Keeps(d, s1, {"state", "swQ", "vcQ"})
  BY <1>0, <1>1, RouteStage
<1>3. /\ Updating(s2, {}, {}, Range(s.holdQ), Range(s.swQ))
      /\ Keeps(s1, s2, {"state", "out", "nextBuf", "vcQ", "swQ", "vcRes", "activity"})
      /\ ~s2.activity => ~s1.activity /\ s2.vcQ = <<>>
  BY <1>0, <1>2, VcStage
<1>4. /\ Updating(s3, {}, {}, {}, Range(s.swQ))
      /\ Keeps(s2, s3, Moved \cup {"holdRes", "activity"})
      /\ ~s3.activity => ~s2.activity /\ s3.holdQ = <<>>
      /\ Calm(s2, s3)
  <2> DEFINE W == Range(s.swQ)
             q == s.holdQ
  <2>1. Updating(s2, {}, {}, Range(q), W) /\ Distinct(q) /\ s3 = SWHoldUpdate(s2, q)
    BY <1>0, <1>3
  <2> HIDE DEF W, q
  <2>2. /\ Updating(s3, {}, {}, {}, W) /\ Keeps(s2, s3, Moved \cup {"holdRes", "activity"})
        /\ ~s3.activity => ~s2.activity /\ s3.holdQ = <<>>
        /\ Calm(s2, s3)
    BY ONLY Ready, cfg.piggyback => cfg.outSp = 1, <2>1, HeldStage
  <2> QED BY <2>2 DEF W
<1>5. /\ Settled(s4)
      /\ Keeps(s3, s4, Moved \cup {"swRes", "activity"})
      /\ ~s4.activity => ~s3.activity /\ s4.swQ = <<>>
      /\ Calm(s3, s4)
  <2> DEFINE q == s.swQ
  <2>1. Updating(s3, {}, {}, {}, Range(q)) /\ Distinct(q) /\ s4 = SWAllocUpdate(s3, q, a)
    BY <1>0, <1>4
  <2> HIDE DEF q
  <2> QED BY ONLY Ready, cfg.piggyback => cfg.outSp = 1, a \in [Outputs -> Nat], <2>1, SwitchStage
<1>6. Keeps(s, s4, Moved \cup {"vcRes", "holdRes", "swRes", "activity"})
  <2>1. Keeps(s, s1, Moved \cup {"vcRes", "holdRes", "swRes", "activity"})
    BY <1>1, <1>2 DEF Keeps, Moved
  <2>2. Keeps(s1, s2, Moved \cup {"vcRes", "holdRes", "swRes", "activity"})
    BY <1>3 DEF Keeps, Moved
  <2>3. Keeps(s2, s4, Moved \cup {"vcRes", "holdRes", "swRes", "activity"})
    BY <1>4, <1>5 DEF Keeps
  <2> QED BY <2>1, <2>2, <2>3 DEF Keeps
<1>8. Keeps(s, s2, {"routeQ", "vcQ", "holdQ", "swQ", "state", "out", "nextBuf", "vcRes", "activity"})
  BY <1>1, <1>2, <1>3 DEF Keeps
<1>9. Keeps(s, s3, Moved \cup {"vcRes", "holdRes", "activity"})
  <2>1. Keeps(s, s2, Moved \cup {"vcRes", "holdRes", "activity"})
    BY <1>8 DEF Keeps, Moved
  <2> QED BY <1>4, <2>1 DEF Keeps
<1>7. ASSUME ~s4.activity, Quiet(s4) PROVE Asleep(s4)
  <2>1. /\ s4.swQ = <<>> /\ Quiet(s3) /\ s4.routeQ = s3.routeQ /\ s4.vcQ = s3.vcQ
        /\ s4.holdQ = s3.holdQ /\ ~s3.activity
    BY <1>5, <1>7 DEF Calm
  <2>2. s3.holdQ = <<>> /\ s3.routeQ = s2.routeQ /\ s3.vcQ = s2.vcQ /\ ~s2.activity
    BY <1>4, <2>1 DEF Calm
  <2>3. s2.vcQ = <<>> /\ s2.routeQ = s1.routeQ
    BY <1>3, <2>2 DEF Keeps, Fields
  <2>4. s1.routeQ = <<>>
    BY <1>1, <1>2 DEF Keeps, Fields
  <2> QED BY <1>7, <2>1, <2>2, <2>3, <2>4 DEF Asleep, Quiet
<1> QED BY <1>1, <1>2, <1>3, <1>4, <1>5, <1>6, <1>7, <1>8, <1>9

\* Flits reach the output buffers, and the router goes on if it has to.
LEMMA SwitchFinal ==
  ASSUME NEW s, Settled(s), ~s.activity /\ Quiet(s) => Asleep(s),
         \A o \in Outputs : cfg.outSize >= 0 /\ s.crossing[o] # <<>> =>
           ~(Len(s.outBuf[o] \o s.crossing[o]) > cfg.outSize + 2 * cfg.outSp - 1),
         NEW t, t = [SwitchUpdate(s) EXCEPT !.active = SwitchUpdate(s).activity]
  PROVE  /\ Settled(t) /\ (t.active \/ Asleep(t))
         /\ Keeps(s, t, {"outBuf", "crossing", "activity", "failed", "active"})
         /\ t.outBuf = [o \in Outputs |-> s.outBuf[o] \o s.crossing[o]]
         /\ t.crossing = [o \in Outputs |-> <<>>]
<1> DEFINE u == SwitchUpdate(s)
           full == \E o \in Outputs :
             /\ cfg.outSize >= 0 /\ s.crossing[o] # <<>>
             /\ Len(s.outBuf[o] \o s.crossing[o]) > cfg.outSize + 2 * cfg.outSp - 1
           loud == \E o \in Outputs : s.crossbar[o] # <<>>
           buf == [o \in Outputs |-> s.outBuf[o] \o s.crossing[o]]
           none == [o \in Outputs |-> <<>>]
<1>1. ~full
  OBVIOUS
<1>2. u = [s EXCEPT !.outBuf = buf, !.crossing = none, !.activity = @ \/ loud, !.failed = @ \/ full]
  BY DEF SwitchUpdate
<1>3. Router(s) /\ t = [u EXCEPT !.active = u.activity]
  BY DEF Settled, Typed
<1> HIDE DEF buf, none, full, loud, u
<1>4. /\ Router(u) /\ Keeps(s, u, {"outBuf", "crossing", "activity", "failed"})
      /\ u.outBuf = buf /\ u.crossing = none /\ u.activity = (s.activity \/ loud)
      /\ u.failed = (s.failed \/ full)
  BY <1>2, <1>3 DEF Router, Keeps, Fields
<1>5. /\ Router(t) /\ Keeps(u, t, {"active"}) /\ t.active = u.activity
  BY <1>3, <1>4 DEF Router, Keeps, Fields
<1>6. /\ Keeps(s, t, {"outBuf", "crossing", "activity", "failed", "active"})
      /\ t.outBuf = buf /\ t.crossing = none /\ ~t.failed
      /\ t.active = (s.activity \/ loud)
  BY <1>1, <1>4, <1>5 DEF Keeps, Fields, Settled
<1>7. buf \in [Outputs -> Seq(Moving)] /\ none \in [Outputs -> Seq(Moving)]
  BY DEF Settled, Typed, buf, none
<1>8. Typed(t)
  BY <1>5, <1>6, <1>7 DEF Settled, Typed, Keeps, Fields
<1>9. Settled(t)
  <2>1. Keeps(s, t, {"vcRes", "holdRes", "swRes", "activity", "active", "outBuf", "crossing",
                     "crossbar", "failed", "nextBuf", "inCredit"})
    BY <1>6 DEF Keeps
  <2> QED BY <1>6, <1>8, <2>1, ForgetSettled
<1>10. t.active \/ Asleep(t)
  <2> SUFFICES ASSUME ~t.active PROVE Asleep(t)
    OBVIOUS
  <2>1. ~s.activity /\ Quiet(s)
    BY <1>6 DEF loud, Quiet
  <2>2. Asleep(s)
    BY <2>1
  <2> QED BY <1>6, <2>2 DEF Asleep, Keeps, Fields
<1> QED BY <1>6, <1>9, <1>10 DEF buf, none

-----------------------------------------------------------------------------
(***************************************************************************)
(* The arrivals of a cycle.                                                *)
(***************************************************************************)
Ports == [k \in 1 .. NumInputs |-> k - 1]

\* The arrivals on the inputs from k on.
From(D, k) == {x \in D : x[1] >= k}

Entered(s) == FoldLeft(Enter, s, Ports)

\* The same VCs are active.
AsActive(s, t) == \A x \in InVcs : t.state[x] = "active" <=> s.state[x] = "active"

\* h[k] is s after the arrivals of the first k inputs, and t after all of them.
EntryRun(s, t, h) ==
  /\ h[0] = s /\ h[NumInputs] = t
  /\ \A k \in 0 .. NumInputs :
       /\ Resting(h[k], From(Arriving(s.inFlit), k))
       /\ Keeps(s, h[k], {"fifo", "state", "routeQ", "vcQ", "swQ"})
       /\ AsActive(s, h[k])
  /\ \A k \in 1 .. NumInputs : h[k] = Enter(h[k-1], k-1)

LEMMA EnterRun ==
  ASSUME Ready, NEW s, Resting(s, Arriving(s.inFlit)), NEW t, t = Entered(s)
  PROVE  \E h : EntryRun(s, t, h)
<1> DEFINE n == NumInputs
           D == Arriving(s.inFlit)
<1>1. /\ Ports \in Seq(Inputs) /\ n \in Nat /\ Len(Ports) = n
      /\ \A k \in 1 .. n : Ports[k] = k - 1 /\ k - 1 \in Inputs
  BY IQRouterAssumption DEF Ports, Inputs
<1>2. Entering!LeftFold(0, s, Ports) = t
  BY DEF EnterStep, Entered, FoldLeft, MapThenFoldSet, Max, Entering!LeftFold
<1>3. PICK h : /\ Entering!LeftFold(0, s, Ports) = h[Len(Ports)]
               /\ h[0] = s
               /\ \A k \in 1 .. Len(Ports) : h[k] = EnterStep(0, h[k - 1], Ports[k])
  <2> DEFINE S == Inputs
             q == Ports
  <2>1. q \in Seq(S)
    BY <1>1
  <2> HIDE DEF S, q, n
  <2>2. \E h : /\ Entering!LeftFold(0, s, q) = h[Len(q)]
               /\ h[0] = s
               /\ \A k \in 1 .. Len(q) : h[k] = EnterStep(0, h[k - 1], q[k])
    BY ONLY <2>1, Entering!FoldLeftSteps, FoldsOrdered, SMTT(40)
  <2> QED BY <2>2 DEF q
<1>4. h[n] = t /\ \A k \in 1 .. n : h[k] = Enter(h[k-1], k-1)
  BY <1>1, <1>2, <1>3 DEF EnterStep
<1> DEFINE P == {k \in 0 .. n : /\ Resting(h[k], From(D, k))
                                /\ Keeps(s, h[k], {"fifo", "state", "routeQ", "vcQ", "swQ"})
                                /\ AsActive(s, h[k])}
<1>5. 0 \in P
  <2>1. \A x \in D : x[1] >= 0
    BY DEF Resting, InVcs, Inputs
  <2>2. From(D, 0) = D
    BY <2>1 DEF From
  <2> QED BY <1>1, <1>3, <2>2 DEF Keeps, AsActive
<1>6. ASSUME NEW k \in 1 .. n, k-1 \in P
      PROVE  k \in P
  <2> DEFINE y == h[k-1]
             i == k-1
  <2>1. /\ Resting(y, From(D, k-1)) /\ Keeps(s, y, {"fifo", "state", "routeQ", "vcQ", "swQ"})
        /\ AsActive(s, y)
        /\ h[k] = Enter(y, i) /\ i \in Inputs /\ k \in 0 .. n /\ i + 1 = k /\ k \in Int
    BY <1>1, <1>4, <1>6
  <2>2. y.inFlit = s.inFlit
    BY <2>1 DEF Keeps, Fields
  <2> HIDE DEF y
  <2>3. \A x \in D : x \in InVcs /\ x[1] \in Int
    BY DEF Resting, InVcs, Inputs
  <2>4. CASE s.inFlit[i] = None
    <3>1. h[k] = y
      BY <2>1, <2>2, <2>4 DEF Enter
    <3>2. \A x \in D : x[1] # i
      BY <2>4 DEF Arriving
    <3>3. \A x \in D : x[1] >= k-1 <=> x[1] >= k
      BY <2>1, <2>3, <3>2
    <3>4. From(D, k) = From(D, k-1)
      BY <3>3 DEF From
    <3> QED BY <2>1, <3>1, <3>4
  <2>5. CASE s.inFlit[i] # None
    <3> DEFINE x == <<i, s.inFlit[i].vc>>
    <3>1. x \in D /\ x[1] = i
      BY <2>1, <2>5 DEF Arriving
    <3>2. x \in From(D, k-1) /\ \A z \in D : z[1] = i => z = x
      BY <2>1, <3>1 DEF From, Arriving
    <3>3. From(D, k) = From(D, k-1) \ {x}
      <4>1. \A z \in D : z[1] >= k <=> z[1] >= k-1 /\ z # x
        BY <2>1, <2>3, <3>1, <3>2
      <4> HIDE DEF x
      <4> QED BY <4>1 DEF From
    <3> DEFINE z == h[k]
               E == From(D, k-1)
    <3>4. x = <<i, y.inFlit[i].vc>> /\ y.inFlit[i] # None /\ x \in E /\ z = Enter(y, i)
          /\ Resting(y, E) /\ i \in Inputs
      BY <2>1, <2>2, <2>5, <3>2
    <3>5. /\ Resting(z, E \ {x})
          /\ Keeps(y, z, {"fifo", "state", "routeQ", "vcQ", "swQ"}) /\ Only(y, z, x)
          /\ z.state[x] = "active" <=> y.state[x] = "active"
      <4> HIDE DEF x, z, E, i
      <4> QED BY ONLY Ready, <3>4, EnterResting, SMTT(60)
    <3>7. AsActive(y, z)
      <4> HIDE DEF x, z
      <4>1. \A v \in InVcs : v # x => z.state[v] = y.state[v]
        BY <3>5 DEF Only, Same
      <4>2. z.state[x] = "active" <=> y.state[x] = "active"
        BY <3>5
      <4> QED BY <4>1, <4>2 DEF AsActive
    <3>8. AsActive(s, h[k])
      BY <2>1, <3>7 DEF AsActive
    <3>6. Keeps(s, h[k], {"fifo", "state", "routeQ", "vcQ", "swQ"})
      BY <2>1, <3>5 DEF Keeps
    <3> QED BY <2>1, <3>3, <3>5, <3>6, <3>8
  <2> QED BY <2>4, <2>5
<1>7. \A k \in 0 .. n : k \in P
  <2> HIDE DEF P, n
  <2> QED BY <1>1, <1>5, <1>6, CountAll
<1> QED BY <1>3, <1>4, <1>7 DEF EntryRun

\* t is s after InputQueuing, with the buffers b.
Queued(s, b, t) ==
  /\ b = [o \in Outputs |-> b[o]]
  /\ t = [Entered(s) EXCEPT !.inFlit = [i \in Inputs |-> None],
                            !.inCredit = [o \in Outputs |-> {}],
                            !.nextBuf = b, !.activity = FALSE]

\* All of them have entered.
LEMMA EnteredSettled ==
  ASSUME Ready, NEW s, Resting(s, Arriving(s.inFlit)), NEW b, NEW t, Queued(s, b, t)
  PROVE  /\ Settled(t) /\ t.inFlit = [i \in Inputs |-> None]
         /\ t.inCredit = [o \in Outputs |-> {}] /\ t.nextBuf = b /\ ~t.activity
         /\ Keeps(s, t, {"fifo", "state", "routeQ", "vcQ", "swQ", "inFlit", "inCredit", "nextBuf",
                         "activity"})
         /\ AsActive(s, t)
<1> DEFINE u == Entered(s)
           D == Arriving(s.inFlit)
<1>1. /\ Resting(u, {})
      /\ Keeps(s, u, {"fifo", "state", "routeQ", "vcQ", "swQ"})
      /\ AsActive(s, u)
  <2>1. PICK h : /\ h[0] = s /\ h[NumInputs] = u
                 /\ \A k \in 0 .. NumInputs :
                      /\ Resting(h[k], From(Arriving(s.inFlit), k))
                      /\ Keeps(s, h[k], {"fifo", "state", "routeQ", "vcQ", "swQ"})
                      /\ AsActive(s, h[k])
    <3>1. u = Entered(s)
      OBVIOUS
    <3> HIDE DEF u
    <3>2. PICK h : EntryRun(s, u, h)
      BY ONLY Ready, Resting(s, Arriving(s.inFlit)), <3>1, EnterRun
    <3> QED BY ONLY <3>2 DEF EntryRun
  <2>2. NumInputs \in 0 .. NumInputs
    BY IQRouterAssumption
  <2>3. \A x \in D : x[1] < NumInputs /\ x[1] \in Int
    BY IQRouterAssumption DEF Resting, InVcs, Inputs
  <2>4. From(D, NumInputs) = {}
    BY <2>3, IQRouterAssumption DEF From
  <2> QED BY <2>1, <2>2, <2>4
<1> HIDE DEF u
<1>2. Router(u)
  BY <1>1 DEF Resting, Typed
<1> DEFINE f == [i \in Inputs |-> None]
           e == [o \in Outputs |-> {}]
<1> HIDE DEF f, e
<1>3. t = [u EXCEPT !.inFlit = f, !.inCredit = e, !.nextBuf = b, !.activity = FALSE]
  BY DEF u, f, e, Queued
<1>4. /\ Router(t) /\ Keeps(u, t, {"inFlit", "inCredit", "nextBuf", "activity"})
      /\ t.inFlit = f /\ t.inCredit = e /\ t.nextBuf = b /\ ~t.activity
  <2>1. Router(t)
    BY ONLY <1>2, <1>3, Zenon DEF Router
  <2>2. Keeps(u, t, {"inFlit", "inCredit", "nextBuf", "activity"})
    BY ONLY <1>2, <1>3 DEF Router, Keeps, Fields
  <2>3. t.inFlit = f /\ t.inCredit = e /\ t.nextBuf = b /\ ~t.activity
    BY ONLY <1>2, <1>3 DEF Router
  <2> QED BY <2>1, <2>2, <2>3
<1>5. /\ t.fifo = u.fifo /\ t.state = u.state /\ t.out = u.out
      /\ t.routeQ = u.routeQ /\ t.vcQ = u.vcQ /\ t.holdQ = u.holdQ /\ t.swQ = u.swQ
      /\ t.holdVc = u.holdVc /\ t.holdIn = u.holdIn /\ t.holdOut = u.holdOut
      /\ t.crossbar = u.crossbar /\ t.credits = u.credits
      /\ t.failed = u.failed /\ t.unmatched = u.unmatched
      /\ t.crossing = u.crossing /\ t.outBuf = u.outBuf
  BY <1>4 DEF Keeps, Fields
<1>6. Typed(t)
  <2>1. DOMAIN b = Outputs /\ b = [o \in Outputs |-> b[o]]
    BY DEF Queued
  <2> QED BY <1>1, <1>4, <1>5, <2>1 DEF Resting, Typed
<1>7. Tables(t)
  BY <1>1, <1>5 DEF Resting, Tables, Holds
<1>8. Everywhere(t, {}, {}, {}, {}, {})
  <2> SUFFICES ASSUME NEW x \in InVcs PROVE Local(t, {}, {}, {}, {}, {}, x)
    BY DEF Everywhere
  <2>1. Local(u, {}, {}, {}, {}, {}, x)
    BY <1>1 DEF Resting, Everywhere
  <2>2. Placed(t, {}, {}, {}, {}, x)
    BY <1>5, <2>1 DEF Local, Placed, Holds
  <2>3. Sending(t, {}, x) = Sending(u, {}, x) /\ Counted(t, {}, x)
    BY <1>5, <2>1 DEF Local, Sending, Counted
  <2> QED BY <1>5, <2>1, <2>2, <2>3 DEF Local
<1>9. Keeps(s, t, {"fifo", "state", "routeQ", "vcQ", "swQ", "inFlit", "inCredit", "nextBuf",
                   "activity"})
  BY <1>1, <1>4 DEF Keeps
<1>10. AsActive(s, t)
  BY <1>1, <1>5 DEF AsActive
<1> QED BY <1>1, <1>4, <1>5, <1>6, <1>7, <1>8, <1>9, <1>10 DEF Settled, Resting, f, e

-----------------------------------------------------------------------------
\* The output ports the entries H and W would send to.
Pending(s, H, W) ==
  {s.holdIn[ExpandedIn(x)] : x \in H} \cup ({s.swRes[x] : x \in W} \ {None})

\* The ports of S at output o.
PortsAt(S, o) == {p \in S : OutputOf(p) = o}

\* The flits in the crossbar came to different ports, the ports U, that nobody
\* else is going to use, and to outputs that have room.
Crossed(s, H, W, U) ==
  /\ U \subseteq OutPorts /\ U \cap Pending(s, H, W) = {}
  /\ \A o \in Outputs : /\ Len(s.crossbar[o]) <= Cardinality(PortsAt(U, o))
                        /\ s.crossbar[o] # <<>> => Spacious(s, o)

LEMMA PortsAtBound ==
  ASSUME cfg \in Configs, NEW U \in SUBSET OutPorts, NEW o \in Outputs
  PROVE  /\ IsFiniteSet(PortsAt(U, o)) /\ Cardinality(PortsAt(U, o)) \in Nat
         /\ Cardinality(PortsAt(U, o)) <= cfg.outSp
<1> DEFINE k == cfg.outSp
           a == o * k
           b == a + k - 1
<1>1. k \in Nat \ {0} /\ o \in Nat /\ a \in Int /\ b \in Int /\ b - a + 1 = k /\ ~(a > b)
  <2>1. k \in Nat \ {0} /\ o \in Nat
    BY ConfigType DEF Outputs
  <2>2. a \in Int
    BY <2>1
  <2> HIDE DEF a, k
  <2> QED BY <2>1, <2>2
<1>2. IsFiniteSet(a .. b) /\ Cardinality(a .. b) = k
  BY <1>1, FS_Interval
<1>3. PortsAt(U, o) \subseteq a .. b
  <2> SUFFICES ASSUME NEW p \in U, p \div k = o PROVE p \in a .. b
    BY DEF PortsAt, OutputOf
  <2>1. p \in Nat
    BY ConfigType, IQRouterAssumption DEF OutPorts
  <2> DEFINE d == p \div k
  <2>2. d * k <= p /\ p < (d + 1) * k /\ d \in Int
    <3> HIDE DEF k
    <3> QED BY <1>1, <2>1
  <2>3. (o + 1) * k = a + k /\ o * k = a /\ d = o
    <3>1. (o + 1) * k = o * k + k /\ k \in Int /\ o \in Int
      BY <1>1
    <3> QED BY <3>1
  <2>4. a <= p /\ p < a + k
    <3> HIDE DEF d, k
    <3> QED BY <2>2, <2>3
  <2> HIDE DEF a, k
  <2> QED BY <1>1, <2>1, <2>4
<1>4. IsFiniteSet(PortsAt(U, o)) /\ Cardinality(PortsAt(U, o)) <= Cardinality(a .. b)
  BY <1>2, <1>3, FS_Subset
<1>5. Cardinality(PortsAt(U, o)) \in Nat
  BY <1>4, FS_CardinalityType
<1> QED BY <1>2, <1>4, <1>5

\* One more port.
LEMMA PortsAtAdd ==
  ASSUME cfg \in Configs, NEW U \in SUBSET OutPorts, NEW p \in OutPorts, p \notin U, NEW o \in Outputs
  PROVE  Cardinality(PortsAt(U \cup {p}, o)) =
           Cardinality(PortsAt(U, o)) + (IF OutputOf(p) = o THEN 1 ELSE 0)
<1>1. IsFiniteSet(PortsAt(U, o)) /\ Cardinality(PortsAt(U, o)) \in Nat
  BY PortsAtBound
<1>2. CASE OutputOf(p) = o
  <2>1. PortsAt(U \cup {p}, o) = PortsAt(U, o) \cup {p} /\ p \notin PortsAt(U, o)
    BY <1>2 DEF PortsAt
  <2> QED BY <1>1, <1>2, <2>1, FS_AddElement
<1>3. CASE OutputOf(p) # o
  <2>1. PortsAt(U \cup {p}, o) = PortsAt(U, o)
    BY <1>3 DEF PortsAt
  <2> QED BY <1>1, <1>3, <2>1
<1> QED BY <1>2, <1>3

\* A flit crosses to port p.
LEMMA SendCrossed ==
  ASSUME cfg \in Configs, NEW s, Typed(s), NEW H, NEW W, NEW U, Crossed(s, H, W, U),
         NEW t, NEW x, NEW p, NEW c, NEW b, Sends(s, t, x, p, c, b), t.outBuf = s.outBuf,
         Spacious(s, c[1]), p \in Pending(s, H, W), NEW H2, NEW W2,
         Pending(t, H2, W2) \subseteq Pending(s, H, W) \ {p}
  PROVE  Crossed(t, H2, W2, U \cup {p})
<1> DEFINE o == c[1]
           m == [vc |-> c[2], flit |-> FrontFlit(s, x)]
           Y == U \cup {p}
<1>1. /\ p \in OutPorts /\ OutputOf(p) = o /\ o \in Outputs
      /\ Put(s.crossbar, t.crossbar, o, Append(s.crossbar[o], m))
  BY DEF Sends, OutVcs
<1>2. U \subseteq OutPorts /\ p \notin U
  BY DEF Crossed
<1>3. Y \subseteq OutPorts /\ Y \cap Pending(t, H2, W2) = {}
  BY <1>1, <1>2 DEF Crossed
<1>4. DOMAIN s.crossbar = Outputs /\ \A n \in Outputs : s.crossbar[n] \in Seq(Moving)
  BY DEF Typed
<1> HIDE DEF m
<1>5. t.crossbar[o] = Append(s.crossbar[o], m)
      /\ \A n \in Outputs : n # o => t.crossbar[n] = s.crossbar[n]
  BY <1>1, <1>4 DEF Put
<1> HIDE DEF o
<1>6. ASSUME NEW n \in Outputs
      PROVE  Len(t.crossbar[n]) <= Cardinality(PortsAt(Y, n))
  <2>1. Cardinality(PortsAt(Y, n)) = Cardinality(PortsAt(U, n)) + (IF o = n THEN 1 ELSE 0)
    BY <1>1, <1>2, PortsAtAdd
  <2>2. Len(s.crossbar[n]) <= Cardinality(PortsAt(U, n)) /\ Cardinality(PortsAt(U, n)) \in Nat
    BY <1>2, PortsAtBound DEF Crossed
  <2>3. s.crossbar[n] \in Seq(Moving) /\ Len(s.crossbar[n]) \in Nat
    BY <1>4
  <2> HIDE DEF Y
  <2>4. CASE n = o
    <3>1. Len(t.crossbar[n]) = Len(s.crossbar[n]) + 1
      BY <1>5, <2>3, <2>4
    <3> QED BY <2>1, <2>2, <2>3, <2>4, <3>1
  <2>5. CASE n # o
    BY <1>5, <2>1, <2>2, <2>3, <2>5
  <2> QED BY <2>4, <2>5
<1>7. ASSUME NEW n \in Outputs, t.crossbar[n] # <<>> PROVE Spacious(t, n)
  <2>1. Spacious(s, n)
    BY <1>5, <1>7 DEF Crossed, o
  <2> QED BY <2>1 DEF Spacious
<1> QED BY <1>3, <1>6, <1>7 DEF Crossed

\* Nothing moves.
LEMMA StayCrossed ==
  ASSUME NEW s, NEW H, NEW W, NEW U, Crossed(s, H, W, U), NEW t, NEW H2, NEW W2,
         t.crossbar = s.crossbar, t.outBuf = s.outBuf,
         Pending(t, H2, W2) \subseteq Pending(s, H, W)
  PROVE  Crossed(t, H2, W2, U)
BY DEF Crossed, Spacious

\* There are such ports.
Clear(s, H, W) == \E U : Crossed(s, H, W, U)

\* The grants go where there is room.
Welcome(s, W) == \A x \in W : s.swRes[x] # None => Spacious(s, OutputOf(s.swRes[x]))

LEMMA HeldCrossed ==
  ASSUME Ready, cfg.piggyback => cfg.outSp = 1,
         NEW s, NEW H, NEW W, Updating(s, {}, {}, H, W), NEW x \in H, Clear(s, H, W),
         NEW t, t = UpdateHeld(s, x)
  PROVE  Clear(t, H \ {x}, W)
<1>0. PICK U : Crossed(s, H, W, U)
  BY DEF Clear
<1> DEFINE p == s.holdIn[ExpandedIn(x)]
           c == s.out[x]
           I == H \ {x}
<1>1. /\ Only(s, t, x) /\ Holds(s, x)
      /\ \/ Stays(s, t)
         \/ /\ Sends(s, t, x, p, c, s.nextBuf[c[1]]) /\ ~IsOutFull(s, c[1])
            /\ s.holdRes[x] /\ s.state[x] = "active"
  BY HeldUpdating
<1>2. /\ H \subseteq InVcs /\ W \subseteq InVcs /\ Typed(s) /\ Tables(s) /\ Grants(s, {}, W)
      /\ Everywhere(s, {}, {}, {}, H, W)
  BY DEF Updating
<1>3. t.outBuf = s.outBuf /\ t.swRes = s.swRes
  BY <1>1 DEF Only, Keeps, Moved, Fields
<1>4. ASSUME NEW y \in I
      PROVE  t.holdIn[ExpandedIn(y)] = s.holdIn[ExpandedIn(y)] /\ Holds(s, y) /\ y \in InVcs /\ y # x
             /\ y \in H
  <2>1. y \in InVcs /\ y # x /\ y \in H
    BY <1>2
  <2>2. Holds(s, y)
    BY <1>2, <2>1 DEF Everywhere, Local, Placed, Among
  <2>3. Same(s, t, y)
    BY <1>1, <2>1 DEF Only
  <2> QED BY <2>1, <2>2, <2>3 DEF Same
<1>5. Pending(t, I, W) \subseteq Pending(s, H, W)
  <2> HIDE DEF I
  <2> QED BY <1>3, <1>4 DEF Pending
<1>6. CASE Stays(s, t)
  <2>1. t.crossbar = s.crossbar
    BY <1>6 DEF Stays
  <2>2. Crossed(t, I, W, U)
    <3> HIDE DEF I
    <3> QED BY <1>0, <1>3, <1>5, <2>1, StayCrossed
  <2> QED BY <2>2 DEF Clear
<1>7. CASE ~Stays(s, t)
  <2>1. Sends(s, t, x, p, c, s.nextBuf[c[1]]) /\ ~IsOutFull(s, c[1])
    BY <1>1, <1>7
  <2>2. p \in OutPorts /\ c[1] \in Outputs /\ p # None
    BY <2>1, ConfigType, IQRouterAssumption DEF Sends, OutVcs, OutPorts, Ready
  <2>3. Spacious(s, c[1])
    <3>1. Len(s.outBuf[c[1]]) \in Nat /\ cfg.outSize \in Int
      BY <1>2, <2>2, ConfigType DEF Typed, Ready
    <3> QED BY <2>1, <3>1 DEF Spacious, IsOutFull
  <2>4. \A y \in InVcs : ExpandedIn(y) \in InPorts /\ ExpandedIn(y) # None
    BY PortFacts, ConfigType, IQRouterAssumption DEF InPorts, Ready
  <2>5. x \in InVcs /\ s.holdOut[p] = ExpandedIn(x) /\ ExpandedIn(x) # None
    BY <1>2, <2>2, <2>4 DEF Tables
  <2>6. p \notin Pending(t, I, W)
    <3>1. ASSUME NEW y \in I, t.holdIn[ExpandedIn(y)] = p PROVE FALSE
      <4>1. s.holdIn[ExpandedIn(y)] = p /\ y \in InVcs /\ y # x /\ Holds(s, y)
        BY <1>4, <3>1
      <4>2. s.holdOut[p] = ExpandedIn(y)
        BY <1>2, <2>2, <2>4, <4>1 DEF Tables
      <4>3. ExpandedIn(y) = ExpandedIn(x) /\ y[2] = x[2]
        BY <1>1, <2>5, <4>1, <4>2 DEF Holds
      <4> QED BY <2>5, <4>1, <4>3, PortFacts DEF Ready
    <3>2. ASSUME NEW y \in W, t.swRes[y] = p PROVE FALSE
      <4>1. Free(s, y, p)
        BY <1>2, <1>3, <2>2, <3>2 DEF Grants, Granted
      <4> QED BY <2>5, <4>1 DEF Free
    <3> QED BY <3>1, <3>2 DEF Pending
  <2>7. p \in Pending(s, H, W)
    BY DEF Pending
  <2>8. Crossed(t, I, W, U \cup {p})
    <3> DEFINE b == s.nextBuf[c[1]]
    <3>1. Sends(s, t, x, p, c, b) /\ Pending(t, I, W) \subseteq Pending(s, H, W) \ {p} /\ cfg \in Configs
      BY <1>5, <2>1, <2>6 DEF Ready
    <3> HIDE DEF I, p, c, b
    <3> QED BY <1>0, <1>2, <1>3, <2>3, <2>7, <3>1, SendCrossed
  <2> QED BY <2>8 DEF Clear
<1> QED BY <1>6, <1>7

LEMMA SwitchCrossed ==
  ASSUME Ready, cfg.piggyback => cfg.outSp = 1,
         NEW s, NEW W, Updating(s, {}, {}, {}, W), NEW x \in W, Clear(s, {}, W),
         Welcome(s, W), NEW a \in [Outputs -> Nat], NEW t, t = UpdateSwitched(s, x, a)
  PROVE  Welcome(t, W \ {x}) /\ Clear(t, {}, W \ {x})
<1>0. PICK U : Crossed(s, {}, W, U)
  BY DEF Clear
<1> DEFINE p == s.swRes[x]
           I == W \ {x}
           N == {}
<1>1. /\ Only(s, t, x)
      /\ IF p = None THEN Stays(s, t)
         ELSE \E c, b : c \in OutVcs /\ Chosen(s, x, p, c, b) /\ Sends(s, t, x, p, c, b)
  BY SwitchUpdating
<1>2. W \subseteq InVcs /\ Typed(s) /\ Grants(s, {}, W)
  BY DEF Updating
<1>3. t.outBuf = s.outBuf /\ t.swRes = s.swRes
  BY <1>1 DEF Only, Keeps, Moved, Fields
<1>4. Welcome(t, I)
  BY <1>3 DEF Welcome, Spacious
<1>5. Pending(t, N, I) \subseteq Pending(s, N, W)
  BY <1>3 DEF Pending
<1>6. CASE p = None
  <2>1. t.crossbar = s.crossbar
    BY <1>1, <1>6 DEF Stays
  <2>2. Crossed(t, N, I, U)
    <3>1. Crossed(s, N, W, U)
      BY <1>0
    <3> HIDE DEF I, N
    <3> QED BY <1>3, <1>5, <2>1, <3>1, StayCrossed
  <2> QED BY <1>4, <2>2 DEF Clear
<1>7. CASE p # None
  <2>1. PICK c, b : Sends(s, t, x, p, c, b)
    BY <1>1, <1>7
  <2>2. Spacious(s, c[1])
    BY <1>7, <2>1 DEF Welcome, Sends
  <2>3. p \in Pending(s, N, W) /\ p \notin Pending(t, N, I)
    <3>1. \A y \in I : s.swRes[y] # p
      BY <1>2, <1>7 DEF Grants
    <3> QED BY <1>3, <1>7, <3>1 DEF Pending
  <2>4. Crossed(t, N, I, U \cup {p})
    <3>1. Crossed(s, N, W, U) /\ Pending(t, N, I) \subseteq Pending(s, N, W) \ {p} /\ cfg \in Configs
      BY <1>0, <1>5, <2>3 DEF Ready
    <3> HIDE DEF I, p, N
    <3> QED BY <1>2, <1>3, <2>1, <2>2, <2>3, <3>1, SendCrossed
  <2> QED BY <1>4, <2>4 DEF Clear
<1> QED BY <1>6, <1>7

LEMMA HeldRoom ==
  ASSUME Ready, cfg.piggyback => cfg.outSp = 1,
         NEW s, NEW q, Distinct(q), NEW W, Updating(s, {}, {}, Range(q), W),
         Clear(s, Range(q), W), NEW t, t = SWHoldUpdate(s, q)
  PROVE  Clear(t, {}, W)
<1> DEFINE n == Len(q)
           u == Advanced(s, q)
<1>1. PICK h : /\ h[0] = s /\ h[n] = u
               /\ \A k \in 0 .. n : Updating(h[k], {}, {}, Rest(q, k), W)
               /\ \A k \in 1 .. n : h[k] = UpdateHeld(h[k-1], q[k])
  <2>1. u = Advanced(s, q)
    OBVIOUS
  <2> HIDE DEF u
  <2> QED BY <2>1, HeldRun
<1>2. /\ n \in Nat /\ Rest(q, 0) = Range(q) /\ Rest(q, n) = {}
      /\ \A k \in 1 .. n : q[k] \in Rest(q, k-1) /\ Rest(q, k) = Rest(q, k-1) \ {q[k]}
  BY DistinctFacts
<1> DEFINE P == {k \in 0 .. n : Clear(h[k], Rest(q, k), W)}
<1>3. 0 \in P
  BY <1>1, <1>2
<1>4. ASSUME NEW k \in 1 .. n, k-1 \in P PROVE k \in P
  <2> DEFINE x == q[k]
             y == h[k-1]
             z == h[k]
             H == Rest(q, k-1)
  <2>1. Updating(y, {}, {}, H, W) /\ x \in H /\ z = UpdateHeld(y, x) /\ k \in 0 .. n
    BY <1>1, <1>2, <1>4
  <2>2. Clear(y, H, W)
    BY <1>4
  <2>3. Clear(z, H \ {x}, W)
    <3> HIDE DEF x, y, z, H
    <3> QED BY <2>1, <2>2, HeldCrossed
  <2>4. Clear(h[k], Rest(q, k), W)
    BY <1>2, <2>3
  <2> HIDE DEF x, y, z, H
  <2> QED BY <2>1, <2>4
<1>5. n \in P
  <2>1. n \in Nat
    BY <1>2
  <2> HIDE DEF P, n
  <2> QED BY ONLY <2>1, <1>3, <1>4, CountUp
<1>6. Clear(u, {}, W)
  BY <1>1, <1>2, <1>5
<1>7. Typed(u)
  <2>1. n \in 0 .. n
    BY <1>2
  <2> QED BY <1>1, <2>1 DEF Updating
<1>8. t = [u EXCEPT !.holdRes = <<>>, !.activity = @ \/ u.holdQ # <<>>]
  BY DEF SWHoldUpdate, Advanced
<1> HIDE DEF u
<1>9. t.crossbar = u.crossbar /\ t.outBuf = u.outBuf /\ t.holdIn = u.holdIn /\ t.swRes = u.swRes
  BY <1>7, <1>8 DEF Typed, Router, Fields
<1> QED BY <1>6, <1>9 DEF Clear, Crossed, Spacious, Pending

LEMMA SwitchRoom ==
  ASSUME Ready, cfg.piggyback => cfg.outSp = 1,
         NEW s, NEW q, Distinct(q), Updating(s, {}, {}, {}, Range(q)), 
         Clear(s, {}, Range(q)), Welcome(s, Range(q)),
         NEW a \in [Outputs -> Nat], NEW t, t = SWAllocUpdate(s, q, a)
  PROVE  \A o \in Outputs : /\ Len(t.crossbar[o]) <= cfg.outSp
                            /\ t.crossbar[o] # <<>> => Spacious(t, o)
<1> DEFINE n == Len(q)
           u == Switched(s, q, a)
<1>1. PICK h : /\ h[0] = s /\ h[n] = u
               /\ \A k \in 0 .. n : Updating(h[k], {}, {}, {}, Rest(q, k))
               /\ \A k \in 1 .. n : h[k] = UpdateSwitched(h[k-1], q[k], a)
  BY SwitchRun
<1>2. /\ n \in Nat /\ Rest(q, 0) = Range(q) /\ Rest(q, n) = {}
      /\ \A k \in 1 .. n : q[k] \in Rest(q, k-1) /\ Rest(q, k) = Rest(q, k-1) \ {q[k]}
  BY DistinctFacts
<1> DEFINE P == {k \in 0 .. n : /\ Welcome(h[k], Rest(q, k))
                                /\ Clear(h[k], {}, Rest(q, k))}
<1>3. 0 \in P
  BY <1>1, <1>2
<1>4. ASSUME NEW k \in 1 .. n, k-1 \in P PROVE k \in P
  <2> DEFINE x == q[k]
             y == h[k-1]
             z == h[k]
             R == Rest(q, k-1)
  <2>1. Updating(y, {}, {}, {}, R) /\ x \in R /\ z = UpdateSwitched(y, x, a) /\ k \in 0 .. n
    BY <1>1, <1>2, <1>4
  <2>2. Clear(y, {}, R)
    BY <1>4
  <2>3. Welcome(y, R)
    BY <1>4
  <2>4. Welcome(z, R \ {x}) /\ Clear(z, {}, R \ {x})
    <3> HIDE DEF x, y, z, R
    <3> QED BY <2>1, <2>2, <2>3, SwitchCrossed
  <2>5. Welcome(h[k], Rest(q, k)) /\ Clear(h[k], {}, Rest(q, k))
    BY <1>2, <2>4
  <2> HIDE DEF x, y, z, R
  <2> QED BY <2>1, <2>5
<1>5. n \in P
  <2>1. n \in Nat
    BY <1>2
  <2> HIDE DEF P, n
  <2> QED BY ONLY <2>1, <1>3, <1>4, CountUp
<1>6. PICK V : Crossed(u, {}, {}, V)
  <2>1. Clear(u, {}, {})
    BY <1>1, <1>2, <1>5
  <2> QED BY <2>1 DEF Clear
<1>7. Typed(u)
  <2>1. n \in 0 .. n
    BY <1>2
  <2> QED BY <1>1, <2>1 DEF Updating
<1>8. t = [u EXCEPT !.swRes = <<>>, !.activity = @ \/ u.swQ # <<>>]
  BY DEF SWAllocUpdate, Switched
<1> HIDE DEF u
<1>9. t.crossbar = u.crossbar /\ t.outBuf = u.outBuf
  BY <1>7, <1>8 DEF Typed, Router, Fields
<1> TAKE o \in Outputs
<1>10. Len(u.crossbar[o]) <= Cardinality(PortsAt(V, o)) /\ (u.crossbar[o] # <<>> => Spacious(u, o))
  BY <1>6 DEF Crossed
<1>11. Cardinality(PortsAt(V, o)) \in Nat /\ Cardinality(PortsAt(V, o)) <= cfg.outSp
  BY <1>6, PortsAtBound DEF Crossed, Ready
<1>12. Len(u.crossbar[o]) \in Nat /\ cfg.outSp \in Nat
  BY <1>7, ConfigType DEF Typed, Ready
<1>13. Len(u.crossbar[o]) <= cfg.outSp
  BY <1>10, <1>11, <1>12
<1> QED BY <1>9, <1>10, <1>13 DEF Spacious

\* The output buffers are never overrun: e is 2 until the update of a cycle has
\* filled them, and then 1 until a flit has left.
Roomy(s, e) ==
  \A o \in Outputs :
    /\ Len(s.crossbar[o]) <= cfg.outSp /\ Len(s.crossing[o]) <= cfg.outSp
    /\ cfg.outSize >= 0 /\ (s.crossbar[o] # <<>> \/ s.crossing[o] # <<>>) /\ cfg.outSp > 1 =>
         Len(s.outBuf[o]) <= cfg.outSize + cfg.outSp - e
    /\ cfg.outSp = 1 => Len(s.outBuf[o]) <= 2 - e

\* The crossbar is clear before any flit crosses.
LEMMA ClearFirst ==
  ASSUME Ready, NEW s, NEW H, NEW W, \A o \in Outputs : s.crossbar[o] = <<>>
  PROVE  Clear(s, H, W)
<1> DEFINE U == {}
<1>1. U \in SUBSET OutPorts /\ U \cap Pending(s, H, W) = {}
  OBVIOUS
<1> HIDE DEF U
<1>2. ASSUME NEW o \in Outputs
      PROVE  Len(s.crossbar[o]) <= Cardinality(PortsAt(U, o)) /\ s.crossbar[o] = <<>>
  <2>1. Cardinality(PortsAt(U, o)) \in Nat
    BY <1>1, PortsAtBound DEF Ready
  <2>2. Len(<<>>) = 0 /\ s.crossbar[o] = <<>>
    OBVIOUS
  <2> QED BY <2>1, <2>2
<1>3. Crossed(s, H, W, U)
  BY <1>1, <1>2 DEF Crossed
<1> QED BY <1>3 DEF Clear

LEMMA RoomArithmetic ==
  ASSUME NEW z \in Int, NEW k \in Nat \ {0}, NEW m \in Nat, NEW n \in Nat, n <= k
  PROVE  /\ z >= 0 /\ (k > 1 => m <= z + k - 2) /\ (k = 1 => m <= 2 - 2) => m + n <= z + 2 * k - 1
         /\ m < z => m + n <= z + k - 1
         /\ k = 1 /\ m <= 2 - 2 => m + n <= 2 - 1
OBVIOUS

\* t is s after Update, with the offsets a.
Updated(s, a, t) ==
  LET held == SWHoldUpdate(VCAllocUpdate(RouteUpdate(Dequeued(s), s.routeQ), s.vcQ), s.holdQ)
      u == SwitchUpdate(SWAllocUpdate(held, s.swQ, a))
  IN  t = [u EXCEPT !.active = u.activity]

\* The whole update.
LEMMA UpdateSettled ==
  ASSUME Ready, cfg.piggyback => cfg.outSp = 1,
         NEW s, Settled(s), Grants(s, Range(s.vcQ), Range(s.swQ)),
         s.credits = [i \in Inputs |-> {}], \A o \in Outputs : s.crossbar[o] = <<>>,
         Welcome(s, Range(s.swQ)), Roomy(s, 2), NEW a \in [Outputs -> Nat],
         NEW t, Updated(s, a, t)
  PROVE  /\ Settled(t) /\ (t.active \/ Asleep(t)) /\ Roomy(t, 1) /\ t.inFlit = s.inFlit
<1> DEFINE d == Dequeued(s)
           s1 == RouteUpdate(d, s.routeQ)
           s2 == VCAllocUpdate(s1, s.vcQ)
           s3 == SWHoldUpdate(s2, s.holdQ)
           s4 == SWAllocUpdate(s3, s.swQ, a)
           u == SwitchUpdate(s4)
           A == Range(s.routeQ)
           V == Range(s.vcQ)
           H == Range(s.holdQ)
           W == Range(s.swQ)
<1>0. Distinct(s.routeQ) /\ Distinct(s.vcQ) /\ Distinct(s.holdQ) /\ Distinct(s.swQ)
  BY DEF Settled, Typed
<1>1. d = Dequeued(s) /\ s1 = RouteUpdate(d, s.routeQ) /\ s2 = VCAllocUpdate(s1, s.vcQ)
      /\ s3 = SWHoldUpdate(s2, s.holdQ) /\ s4 = SWAllocUpdate(s3, s.swQ, a)
  OBVIOUS
<1>2. u = SwitchUpdate(s4) /\ t = [u EXCEPT !.active = u.activity]
  BY DEF Updated
<1> HIDE DEF d, s1, s2, s3, s4, u
<1>3. /\ Updating(s2, {}, {}, H, W)
      /\ Updating(s3, {}, {}, {}, W)
      /\ Settled(s4)
      /\ Keeps(s, s2, {"routeQ", "vcQ", "holdQ", "swQ", "state", "out", "nextBuf", "vcRes", "activity"})
      /\ Keeps(s, s3, Moved \cup {"vcRes", "holdRes", "activity"})
      /\ Keeps(s, s4, Moved \cup {"vcRes", "holdRes", "swRes", "activity"})
      /\ ~s4.activity /\ Quiet(s4) => Asleep(s4)
  BY <1>1, PhasesUpdating
<1>4. Clear(s2, H, W)
  <2>1. s2.crossbar = s.crossbar
    BY <1>3 DEF Keeps, Fields
  <2> HIDE DEF H, W
  <2> QED BY <2>1, ClearFirst
<1>5. Clear(s3, {}, W)
  <2> DEFINE q == s.holdQ
  <2>1. Clear(s2, Range(q), W) /\ Updating(s2, {}, {}, Range(q), W) /\ s3 = SWHoldUpdate(s2, q)
        /\ Distinct(q)
    BY <1>0, <1>1, <1>3, <1>4
  <2> HIDE DEF q, H, W
  <2> QED BY ONLY Ready, cfg.piggyback => cfg.outSp = 1, <2>1, HeldRoom
<1>6. \A o \in Outputs : /\ Len(s4.crossbar[o]) <= cfg.outSp
                         /\ s4.crossbar[o] # <<>> => Spacious(s4, o)
  <2>1. s3.outBuf = s.outBuf /\ s3.swRes = s.swRes
    BY <1>3 DEF Keeps, Fields, Moved
  <2>2. Welcome(s3, W)
    BY <2>1 DEF Welcome, Spacious
  <2> DEFINE q == s.swQ
  <2>3. /\ Clear(s3, {}, Range(q)) /\ Updating(s3, {}, {}, {}, Range(q)) /\ Distinct(q)
        /\ s4 = SWAllocUpdate(s3, q, a) /\ Welcome(s3, Range(q))
    BY <1>0, <1>1, <1>3, <1>5, <2>2
  <2> HIDE DEF q
  <2> QED BY ONLY Ready, cfg.piggyback => cfg.outSp = 1, a \in [Outputs -> Nat], <2>3, SwitchRoom
<1>7. s4.outBuf = s.outBuf /\ s4.crossing = s.crossing /\ s4.inFlit = s.inFlit
  BY <1>3 DEF Keeps, Fields, Moved
<1>8. cfg.outSize \in Int /\ cfg.outSp \in Nat \ {0}
  BY ConfigType DEF Ready
<1>9. ASSUME NEW o \in Outputs
      PROVE  /\ s.outBuf[o] \in Seq(Moving) /\ s.crossing[o] \in Seq(Moving)
             /\ Len(s.outBuf[o]) \in Nat /\ Len(s.crossing[o]) \in Nat
             /\ Len(s.outBuf[o] \o s.crossing[o]) = Len(s.outBuf[o]) + Len(s.crossing[o])
  <2>1. s.outBuf[o] \in Seq(Moving) /\ s.crossing[o] \in Seq(Moving)
    BY DEF Settled, Typed
  <2> QED BY <2>1
<1>10. \A o \in Outputs : cfg.outSize >= 0 /\ s4.crossing[o] # <<>> =>
         ~(Len(s4.outBuf[o] \o s4.crossing[o]) > cfg.outSize + 2 * cfg.outSp - 1)
  <2> SUFFICES ASSUME NEW o \in Outputs, cfg.outSize >= 0, s.crossing[o] # <<>>
               PROVE  Len(s.outBuf[o]) + Len(s.crossing[o]) <= cfg.outSize + 2 * cfg.outSp - 1
    <3> SUFFICES ASSUME NEW o \in Outputs, cfg.outSize >= 0, s4.crossing[o] # <<>>
                 PROVE  ~(Len(s4.outBuf[o] \o s4.crossing[o]) > cfg.outSize + 2 * cfg.outSp - 1)
      OBVIOUS
    <3> DEFINE m == Len(s.outBuf[o])
               n == Len(s.crossing[o])
               z == cfg.outSize
               k == cfg.outSp
    <3>1. Len(s4.outBuf[o] \o s4.crossing[o]) = m + n /\ s.crossing[o] # <<>>
      BY <1>7, <1>9
    <3>2. m + n <= z + 2 * k - 1
      BY <3>1
    <3>3. m \in Nat /\ n \in Nat /\ z \in Int /\ k \in Nat
      BY <1>8, <1>9
    <3> HIDE DEF m, n
    <3> QED BY <3>1, <3>2, <3>3
  <2>1. /\ Len(s.crossing[o]) <= cfg.outSp
        /\ cfg.outSp > 1 => Len(s.outBuf[o]) <= cfg.outSize + cfg.outSp - 2
        /\ cfg.outSp = 1 => Len(s.outBuf[o]) <= 2 - 2
    BY DEF Roomy
  <2> QED BY <1>8, <1>9, <2>1, RoomArithmetic
<1>11. /\ Settled(t) /\ (t.active \/ Asleep(t))
       /\ Keeps(s4, t, {"outBuf", "crossing", "activity", "failed", "active"})
       /\ t.outBuf = [o \in Outputs |-> s4.outBuf[o] \o s4.crossing[o]]
       /\ t.crossing = [o \in Outputs |-> <<>>]
  <2>1. t = [SwitchUpdate(s4) EXCEPT !.active = SwitchUpdate(s4).activity]
    BY <1>2
  <2> QED BY ONLY <1>3, <1>10, <2>1, SwitchFinal
<1>12. t.crossbar = s4.crossbar /\ t.inFlit = s4.inFlit
  BY <1>11 DEF Keeps, Fields
<1>13. ASSUME NEW o \in Outputs
       PROVE  /\ Len(t.crossbar[o]) <= cfg.outSp /\ Len(t.crossing[o]) <= cfg.outSp
              /\ cfg.outSize >= 0 /\ (t.crossbar[o] # <<>> \/ t.crossing[o] # <<>>) /\ cfg.outSp > 1 =>
                   Len(t.outBuf[o]) <= cfg.outSize + cfg.outSp - 1
              /\ cfg.outSp = 1 => Len(t.outBuf[o]) <= 2 - 1
  <2>1. t.crossing[o] = <<>> /\ Len(<<>>) = 0
    BY <1>11
  <2>2. Len(t.outBuf[o]) = Len(s.outBuf[o]) + Len(s.crossing[o])
    <3>1. t.outBuf[o] = s.outBuf[o] \o s.crossing[o]
      BY <1>7, <1>11
    <3> QED BY <1>9, <3>1
  <2>3. Len(s.crossing[o]) <= cfg.outSp /\ (cfg.outSp = 1 => Len(s.outBuf[o]) <= 2 - 2)
    BY DEF Roomy
  <2>4. t.crossbar[o] # <<>> => cfg.outSize < 0 \/ Len(s.outBuf[o]) < cfg.outSize \/ cfg.outSp = 1
    BY <1>6, <1>7, <1>12 DEF Spacious
  <2>5. Len(t.crossbar[o]) <= cfg.outSp
    BY <1>6, <1>12
  <2> DEFINE m == Len(s.outBuf[o])
             n == Len(s.crossing[o])
             l == Len(t.outBuf[o])
             z == cfg.outSize
             k == cfg.outSp
  <2>6. m \in Nat /\ n \in Nat /\ n <= k /\ z \in Int /\ k \in Nat \ {0} /\ l = m + n
    BY <1>8, <1>9, <2>2, <2>3
  <2>7. z >= 0 /\ t.crossbar[o] # <<>> /\ k > 1 => l <= z + k - 1
    <3>1. z >= 0 /\ t.crossbar[o] # <<>> /\ k > 1 => m < z
      BY <1>8, <2>4
    <3> HIDE DEF m, n, l, z, k
    <3> QED BY <2>6, <3>1, RoomArithmetic
  <2>8. k = 1 => l <= 2 - 1
    <3>1. k = 1 => m <= 2 - 2
      BY <2>3
    <3> HIDE DEF m, n, l, z, k
    <3> QED BY <2>6, <3>1, RoomArithmetic
  <2>9. Len(t.crossing[o]) <= k
    BY <1>8, <2>1
  <2> QED BY <2>1, <2>5, <2>7, <2>8, <2>9
<1> QED BY <1>7, <1>11, <1>12, <1>13 DEF Roomy

-----------------------------------------------------------------------------
(***************************************************************************)
(* The inductive invariant.                                                *)
(***************************************************************************)
Steps == {"read", "queue", "vc_evaluate", "sw_evaluate", "update", "write"}

NoArrival == \A i \in Inputs : r.inFlit[i] = None

\* What upstream has sent.
ArrivalsExact ==
  /\ feed \in [InVcs -> {Idle} \cup Flit] /\ used \in [InVcs -> 0 .. VcLimit]
  /\ \A i \in Inputs : Arrived(r.inFlit[i])
  /\ \A x \in Arriving(r.inFlit) : feed[x] = Beyond(FlitOn(r.inFlit, x))
  /\ pc # "queue" \/ ~r.active => NoArrival

\* What has been evaluated.
ResultsExact ==
  /\ pc \in {"sw_evaluate", "update"} =>
       \A x \in Range(r.vcQ) : r.vcRes[x] # None => r.vcRes[x] \in Route(r, x)
  /\ pc = "update" => /\ Grants(r, Range(r.vcQ), Range(r.swQ)) /\ Welcome(r, Range(r.swQ))
                      /\ \A o \in Outputs : r.crossbar[o] = <<>>

IInv ==
  /\ Ready /\ pc \in Steps
  /\ Typed(r) /\ Tables(r) /\ ~r.failed /\ ~r.unmatched
  /\ Everywhere(r, Arriving(r.inFlit), {}, {}, {}, {})
  /\ ArrivalsExact
  /\ pc # "write" => r.credits = [i \in Inputs |-> {}]
  /\ ResultsExact
  /\ pc \in {"read", "queue", "write"} => r.active \/ Asleep(r)
  /\ Roomy(r, IF pc = "write" THEN 1 ELSE 2)

-----------------------------------------------------------------------------
(***************************************************************************)
(* What is known of the next state of the router is known in the next      *)
(* state.                                                                  *)
(***************************************************************************)
LEMMA TypedNext ==
  ASSUME NEW t, r' = t, cfg' = cfg, Typed(t)
  PROVE  Typed(r)'
BY DEF Typed, InPorts, OutPorts

LEMMA TablesNext ==
  ASSUME NEW t, r' = t, cfg' = cfg, Tables(t)
  PROVE  Tables(r)'
BY DEF Tables, Holds, ExpandedIn, InPorts, OutPorts

LEMMA PlacedNext ==
  ASSUME NEW t, r' = t, cfg' = cfg, NEW A, NEW V, NEW H, NEW W, NEW x, Placed(t, A, V, H, W, x)
  PROVE  Placed(r, A, V, H, W, x)'
BY DEF Placed, Among, Apart, Holds, ExpandedIn, ExpandedOut

LEMMA LinkedNext ==
  ASSUME pkt' = pkt, NEW q, NEW st, NEW c, NEW n, Linked(q, st, c, n)
  PROVE  Linked(q, st, c, n)'
BY DEF Linked, Follows, IsTail, IsHead, Beyond, Idle

LEMMA EverywhereNext ==
  ASSUME NEW t, r' = t, UNCHANGED <<cfg, pkt, feed, used>>, Everywhere(t, {}, {}, {}, {}, {}),
         Arriving(t.inFlit) = {}
  PROVE  Everywhere(r, Arriving(r.inFlit), {}, {}, {}, {})'
<1>1. Arriving(r.inFlit)' = {}
  BY DEF Arriving
<1>2. ASSUME NEW x \in InVcs PROVE Local(r, {}, {}, {}, {}, {}, x)'
  <2>1. Local(t, {}, {}, {}, {}, {}, x)
    BY DEF Everywhere
  <2>2. Placed(r, {}, {}, {}, {}, x)'
    BY <2>1, PlacedNext DEF Local
  <2>3. Linked(r.fifo[x], r.state[x], r.out[x], Sending(r, {}, x))'
    BY <2>1 DEF Local, Linked, Follows, IsTail, IsHead, Beyond, Idle, Sending
  <2>4. Counted(r, {}, x)'
    BY <2>1 DEF Local, Counted
  <2> QED BY <2>2, <2>3, <2>4 DEF Local
<1> QED BY <1>1, <1>2 DEF Everywhere

LEMMA GrantsNext ==
  ASSUME NEW t, r' = t, cfg' = cfg, pkt' = pkt, NEW V, NEW W, Grants(t, V, W)
  PROVE  Grants(r, V, W)'
<1>1. \A x, p : Candidates(t, x, OutputOf(p)) = Candidates(r, x, OutputOf(p))'
  BY DEF Candidates, Route, FrontFlit, OutputOf
<1>2. \A x, p : Granted(t, V, x, p) => Granted(r, V, x, p)'
  BY <1>1 DEF Granted, Free, ExpandedOut, ExpandedIn, OutputOf, OutPorts
<1>3. \A x : Route(t, x) = Route(r, x)'
  BY DEF Route, FrontFlit
<1> QED BY <1>2, <1>3 DEF Grants, ExpandedIn

LEMMA RoomyNext ==
  ASSUME NEW t, r' = t, cfg' = cfg, NEW e, Roomy(t, e)
  PROVE  Roomy(r, e)'
BY DEF Roomy

\* The invariant after a part of a cycle that is the router's own.
LEMMA OwnStep ==
  ASSUME IInv, NEW t, r' = t, UNCHANGED <<cfg, pkt, feed, used>>, pc' \in Steps,
         Settled(t), \A i \in Inputs : t.inFlit[i] = None,
         pc' # "write" => t.credits = [i \in Inputs |-> {}],
         pc' \in {"read", "queue", "write"} => t.active \/ Asleep(t),
         Roomy(t, IF pc' = "write" THEN 1 ELSE 2), ResultsExact'
  PROVE  IInv'
<1>1. Ready'
  BY DEF IInv, Ready
<1>2. Typed(r)' /\ Tables(r)' /\ ~r'.failed /\ ~r'.unmatched
  BY TypedNext, TablesNext DEF Settled
<1>3. Arriving(t.inFlit) = {}
  BY DEF Arriving
<1>4. Everywhere(r, Arriving(r.inFlit), {}, {}, {}, {})'
  BY <1>3, EverywhereNext DEF Settled
<1>5. ArrivalsExact'
  <2>1. feed' \in [InVcs -> {Idle} \cup Flit] /\ used' \in [InVcs -> 0 .. VcLimit]
    BY DEF IInv, ArrivalsExact
  <2>2. (\A i \in Inputs : Arrived(r.inFlit[i]))' /\ NoArrival'
    BY DEF Arrived, NoArrival
  <2>3. Arriving(r.inFlit)' = {}
    BY <1>3
  <2> QED BY <2>1, <2>2, <2>3 DEF ArrivalsExact, Idle
<1>6. Roomy(r, IF pc = "write" THEN 1 ELSE 2)'
  BY RoomyNext
<1>7. pc' \in {"read", "queue", "write"} => r'.active \/ Asleep(r)'
  BY DEF Asleep
<1> QED BY <1>1, <1>2, <1>4, <1>5, <1>6, <1>7 DEF IInv

-----------------------------------------------------------------------------
(***************************************************************************)
(* The invariant holds at the start, and every step preserves it.          *)
(***************************************************************************)
LEMMA InitIInv ==
  ASSUME Init
  PROVE  IInv
<1>1. Ready /\ pc \in Steps
  BY DEF Init, Ready, Steps
<1>2. Router(r)
  BY DEF Init, Router, Fields
<1>3. /\ r.fifo = [x \in InVcs |-> <<>>] /\ r.state = [x \in InVcs |-> "idle"]
      /\ r.out = [x \in InVcs |-> None]
      /\ r.routeQ = <<>> /\ r.vcQ = <<>> /\ r.holdQ = <<>> /\ r.swQ = <<>>
      /\ r.holdVc = [p \in InPorts |-> None] /\ r.holdIn = [p \in InPorts |-> None]
      /\ r.holdOut = [p \in OutPorts |-> None]
      /\ r.nextBuf = [o \in Outputs |-> New(cfg.policy, cfg.wait)]
      /\ r.crossbar = [o \in Outputs |-> <<>>] /\ r.crossing = [o \in Outputs |-> <<>>]
      /\ r.outBuf = [o \in Outputs |-> <<>>] /\ r.credits = [i \in Inputs |-> {}]
      /\ r.inFlit = [i \in Inputs |-> None] /\ ~r.failed /\ ~r.unmatched
  BY DEF Init
<1>4. Typed(r)
  <2>1. Distinct(<<>>)
    BY EmptyListed DEF Distinct, Listed
  <2>2. DOMAIN r.nextBuf = Outputs /\ r.nextBuf = [o \in Outputs |-> r.nextBuf[o]]
    BY <1>3
  <2>3. /\ r.fifo \in [InVcs -> Seq(Flit)] /\ r.state \in [InVcs -> States]
        /\ r.out \in [InVcs -> OutVcs \cup {None}]
    BY <1>3 DEF States
  <2>4. /\ r.crossbar \in [Outputs -> Seq(Moving)] /\ r.crossing \in [Outputs -> Seq(Moving)]
        /\ r.outBuf \in [Outputs -> Seq(Moving)] /\ r.credits \in [Inputs -> SUBSET Vcs]
    BY <1>3
  <2>5. /\ r.holdVc \in [InPorts -> Vcs \cup {None}] /\ r.holdIn \in [InPorts -> OutPorts \cup {None}]
        /\ r.holdOut \in [OutPorts -> InPorts \cup {None}]
    BY <1>3
  <2> QED BY <1>2, <1>3, <2>1, <2>2, <2>3, <2>4, <2>5 DEF Typed
<1>5. Tables(r)
  BY <1>3 DEF Tables
<1>6. Arriving(r.inFlit) = {} /\ NoArrival
  BY <1>3 DEF Arriving, NoArrival
<1>7. Everywhere(r, Arriving(r.inFlit), {}, {}, {}, {})
  <2> SUFFICES ASSUME NEW x \in InVcs PROVE Local(r, {}, {}, {}, {}, {}, x)
    BY <1>6 DEF Everywhere
  <2>1. ExpandedIn(x) \in InPorts /\ x[2] # None /\ x[1] \in Inputs
    <3>1. x[2] \in Nat /\ x[1] \in Inputs
      BY BufferStateAssumption DEF InVcs, Vcs
    <3> QED BY <1>1, <3>1, PortFacts, IQRouterAssumption DEF Ready
  <2>2. ~Holds(r, x) /\ Range(<<>>) = {}
    BY <1>3, <2>1, EmptyListed DEF Holds
  <2>3. Placed(r, {}, {}, {}, {}, x)
    BY <1>3, <2>2 DEF Placed, Among, Apart
  <2>4. feed[x] = Idle /\ used[x] = 0
    BY DEF Init
  <2>5. Linked(<<>>, "idle", r.out[x], Idle)
    <3>1. Len(<<>>) = 0 /\ 1 .. 0-1 = {}
      OBVIOUS
    <3> QED BY <3>1 DEF Linked
  <2>6. Counted(r, {}, x)
    <3>1. Len(<<>>) = 0 /\ r.fifo[x] = <<>> /\ x[2] \notin r.credits[x[1]]
      BY <1>3, <2>1
    <3> QED BY <2>4, <3>1 DEF Counted
  <2> QED BY <1>3, <2>3, <2>4, <2>5, <2>6 DEF Local, Sending
<1>8. ArrivalsExact
  <2>1. VcLimit \in Nat
    BY VcLimitType
  <2>2. feed \in [InVcs -> {Idle} \cup Flit] /\ used \in [InVcs -> 0 .. VcLimit]
    BY <2>1 DEF Init
  <2> QED BY <1>3, <1>6, <2>2 DEF ArrivalsExact, Arrived
<1>9. ResultsExact /\ Asleep(r) /\ pc = "read"
  BY <1>3 DEF Init, ResultsExact, Asleep
<1>10. Roomy(r, 2)
  <2>1. Len(<<>>) = 0 /\ cfg.outSp \in Nat
    BY <1>1, ConfigType DEF Ready
  <2> QED BY <1>3, <2>1 DEF Roomy
<1> QED BY <1>1, <1>3, <1>4, <1>5, <1>7, <1>8, <1>9, <1>10 DEF IInv

LEMMA SleepIInv ==
  ASSUME IInv, Sleep
  PROVE  IInv'
<1>1. r' = r /\ UNCHANGED <<cfg, pkt, feed, used>> /\ pc = "queue" /\ ~r.active /\ pc' = "write"
  BY DEF Sleep
<1>2. NoArrival
  BY <1>1 DEF IInv, ArrivalsExact
<1>3. Settled(r)
  <2>1. Arriving(r.inFlit) = {}
    BY <1>2 DEF Arriving, NoArrival
  <2> QED BY <2>1 DEF IInv, Settled
<1>4. Roomy(r, 1)
  <2>1. cfg.outSp \in Nat /\ cfg.outSize \in Int
    BY ConfigType DEF IInv, Ready
  <2>2. \A o \in Outputs : Len(r.outBuf[o]) \in Nat
    BY DEF IInv, Typed
  <2>3. Roomy(r, 2)
    BY <1>1 DEF IInv
  <2> QED BY <2>1, <2>2, <2>3 DEF Roomy
<1>5. ResultsExact'
  BY <1>1 DEF ResultsExact
<1>6. Asleep(r)
  BY <1>1 DEF IInv
<1> DEFINE t == r
<1>7. /\ r' = t /\ Settled(t) /\ Roomy(t, 1) /\ Asleep(t)
      /\ \A i \in Inputs : t.inFlit[i] = None
  BY <1>1, <1>2, <1>3, <1>4, <1>6 DEF NoArrival
<1> QED BY <1>1, <1>5, <1>7, OwnStep DEF Steps

\* Settled, but for the flits that are about to enter.
LEMMA QueueState ==
  ASSUME IInv, pc = "queue"
  PROVE  Resting(r, Arriving(r.inFlit)) /\ Ready
<1>1. ASSUME NEW x \in Arriving(r.inFlit)
      PROVE  x \in InVcs /\ FlitOn(r.inFlit, x) \in Flit /\ feed[x] = Beyond(FlitOn(r.inFlit, x))
  <2>1. PICK i \in Inputs : r.inFlit[i] # None /\ x = <<i, r.inFlit[i].vc>>
    BY <1>1 DEF Arriving
  <2>2. r.inFlit[i] \in [vc : Vcs, pid : Pids, idx : Nat \ {0}]
    BY <2>1 DEF IInv, ArrivalsExact, Arrived
  <2>3. x \in InVcs /\ FlitOn(r.inFlit, x) \in Flit
    BY <2>1, <2>2 DEF InVcs, FlitOn, Flit
  <2> QED BY <1>1, <2>3 DEF IInv, ArrivalsExact
<1> QED BY <1>1 DEF IInv, Resting

LEMMA InputQueuingIInv ==
  ASSUME IInv, InputQueuing
  PROVE  IInv'
<1> DEFINE credited == [o \in Outputs |->
             FoldSet(LAMBDA w, b : ProcessCreditFor(b, w), r.nextBuf[o], r.inCredit[o])]
<1>1. PICK b : b = credited
  OBVIOUS
<1>2. b = [o \in Outputs |-> b[o]]
  BY <1>1
<1>3. /\ r' = [Entered(r) EXCEPT !.inFlit = [i \in Inputs |-> None],
                                 !.inCredit = [o \in Outputs |-> {}],
                                 !.nextBuf = credited, !.activity = FALSE]
      /\ UNCHANGED <<cfg, pkt, feed, used>> /\ pc = "queue" /\ pc' = "vc_evaluate"
  BY DEF InputQueuing, Entered, Ports
<1> HIDE DEF credited
<1>4. PICK t : t = r'
  OBVIOUS
<1>5. Resting(r, Arriving(r.inFlit)) /\ Ready
  BY <1>3, QueueState
<1>6. /\ Settled(t) /\ t.inFlit = [i \in Inputs |-> None]
      /\ Keeps(r, t, {"fifo", "state", "routeQ", "vcQ", "swQ", "inFlit", "inCredit", "nextBuf",
                      "activity"})
  <2>1. Queued(r, b, t)
    BY <1>1, <1>2, <1>3, <1>4 DEF Queued
  <2> QED BY <1>5, <2>1, EnteredSettled
<1>7. /\ t.credits = r.credits /\ t.crossbar = r.crossbar /\ t.crossing = r.crossing
      /\ t.outBuf = r.outBuf
  BY <1>6 DEF Keeps, Fields
<1>8. Roomy(t, 2) /\ t.credits = [i \in Inputs |-> {}]
  <2>1. Roomy(r, 2) /\ r.credits = [i \in Inputs |-> {}]
    BY <1>3 DEF IInv
  <2> QED BY <1>7, <2>1 DEF Roomy
<1>9. ResultsExact'
  BY <1>3 DEF ResultsExact
<1>10. pc' \in Steps /\ r' = t /\ \A i \in Inputs : t.inFlit[i] = None
  BY <1>3, <1>4, <1>6 DEF Steps
<1> QED BY <1>3, <1>6, <1>8, <1>9, <1>10, OwnStep

\* Settled, in a state in which no flit is about to enter.
LEMMA QuietState ==
  ASSUME IInv, pc \notin {"read", "queue"}
  PROVE  Settled(r) /\ Ready /\ \A i \in Inputs : r.inFlit[i] = None
<1>1. NoArrival
  BY DEF IInv, ArrivalsExact
<1>2. Arriving(r.inFlit) = {}
  BY <1>1 DEF Arriving, NoArrival
<1> QED BY <1>1, <1>2 DEF IInv, Settled, NoArrival

LEMMA VCAllocEvaluateIInv ==
  ASSUME IInv, VCAllocEvaluate
  PROVE  IInv'
<1>1. PICK G \in Matchings(VcRequests, [x \in InVcs |-> x]) :
        r' = [r EXCEPT !.vcRes = [x \in Range(r.vcQ) |->
               IF \E g \in G : g[1] = x THEN (CHOOSE g \in G : g[1] = x)[2] ELSE None]]
  BY DEF VCAllocEvaluate
<1>2. pc = "vc_evaluate" /\ pc' = "sw_evaluate" /\ UNCHANGED <<cfg, pkt, feed, used>>
  BY DEF VCAllocEvaluate
<1>3. Settled(r) /\ Ready /\ \A i \in Inputs : r.inFlit[i] = None
  BY <1>2, QuietState
<1>4. PICK t : t = r'
  OBVIOUS
<1> DEFINE res == [x \in Range(r.vcQ) |->
             IF \E g \in G : g[1] = x THEN (CHOOSE g \in G : g[1] = x)[2] ELSE None]
<1>5. ASSUME NEW x \in Range(r.vcQ), res[x] # None PROVE res[x] \in Route(r, x)
  <2>1. \E g \in G : g[1] = x
    BY <1>5
  <2>2. PICK g : g \in G /\ g[1] = x /\ res[x] = g[2]
    BY <2>1
  <2>3. g \in VcRequests
    BY <2>2 DEF Matchings
  <2> QED BY <2>2, <2>3 DEF VcRequests
<1> HIDE DEF res
<1>6. Router(t) /\ Keeps(r, t, {"vcRes"}) /\ t.vcRes = res
  BY <1>1, <1>3, <1>4 DEF Settled, Typed, Router, Keeps, Fields, res
<1>7. Settled(t)
  <2>1. Typed(t) /\ ~t.failed
    BY <1>3, <1>6 DEF Settled, Typed, Keeps, Fields
  <2>2. Keeps(r, t, {"vcRes", "holdRes", "swRes", "activity", "active", "outBuf", "crossing",
                     "crossbar", "failed", "nextBuf", "inCredit"})
    BY <1>6 DEF Keeps
  <2> QED BY <1>3, <2>1, <2>2, ForgetSettled
<1>8. /\ t.credits = r.credits /\ t.crossbar = r.crossbar /\ t.crossing = r.crossing
      /\ t.outBuf = r.outBuf /\ t.inFlit = r.inFlit /\ t.fifo = r.fifo /\ t.vcQ = r.vcQ
  BY <1>6 DEF Keeps, Fields
<1>9. Roomy(t, 2) /\ t.credits = [i \in Inputs |-> {}]
  <2>1. Roomy(r, 2) /\ r.credits = [i \in Inputs |-> {}]
    BY <1>2 DEF IInv
  <2> QED BY <1>8, <2>1 DEF Roomy
<1>10. ResultsExact'
  <2>1. ASSUME NEW x \in Range(r'.vcQ), r'.vcRes[x] # None PROVE r'.vcRes[x] \in Route(r, x)'
    <3>1. r'.vcQ = r.vcQ /\ r'.vcRes = res /\ r'.fifo = r.fifo /\ pkt' = pkt
      BY <1>2, <1>4, <1>6, <1>8
    <3>2. res[x] \in Route(r, x)
      BY <1>5, <2>1, <3>1
    <3> QED BY <3>1, <3>2 DEF Route, FrontFlit
  <2> QED BY <1>2, <2>1 DEF ResultsExact
<1>11. pc' \in Steps /\ r' = t /\ \A i \in Inputs : t.inFlit[i] = None
  BY <1>2, <1>3, <1>4, <1>8 DEF Steps
<1> QED BY <1>2, <1>7, <1>9, <1>10, <1>11, OwnStep

\* The checks of speculative requests that keep an output buffer from being
\* overrun are made, or it cannot be.
RoomCondition ==
  cfg.spec /\ ~cfg.elig /\ ~cfg.cred => cfg.outSize < 0 \/ cfg.outSp = 1

\* What a request of a matching of SwRequests is for.
LEMMA RequestFacts ==
  ASSUME IInv, pc = "sw_evaluate", NEW Q \in SUBSET Range(r.swQ), NEW g \in SwRequests(Q)
  PROVE  /\ g[1] \in Q /\ g[1] \in InVcs /\ g[2] \in OutPorts
         /\ r.state[g[1]] \in {"active", "vc_alloc"}
         /\ Free(r, g[1], g[2]) /\ OutputOf(g[2]) \in Outputs
         /\ g[2] = ExpandedOut(g[1], OutputOf(g[2])) /\ OutputOf(g[2]) \in Wanted(r, g[1])
         /\ MayAsk(r, g[1], OutputOf(g[2]))
<1> DEFINE x == g[1]
           p == g[2]
<1>1. PICK o \in Wanted(r, x) : p = ExpandedOut(x, o) /\ MayAsk(r, x, o) /\ PortsFree(r, x, o)
  BY DEF SwRequests
<1>2. x \in Q /\ p \in OutPorts
  BY DEF SwRequests
<1>3. x \in Range(r.swQ)
  BY <1>2
<1>4. Settled(r) /\ Ready
  BY QuietState
<1>5. x \in InVcs
  BY <1>3, <1>4 DEF Settled, Typed, Distinct, Range
<1> HIDE DEF x, p
<1>6. /\ Placed(r, {}, {}, {}, {}, x) /\ Linked(r.fifo[x], r.state[x], r.out[x], feed[x])
  BY <1>4, <1>5 DEF Settled, Everywhere, Local, Sending
<1>7. r.state[x] \in {"active", "vc_alloc"} /\ r.fifo[x] # <<>>
  BY <1>3, <1>6 DEF Placed, Among, Linked
<1>8. Route(r, x) = pkt[r.fifo[x][1].pid].route /\ Route(r, x) \subseteq OutVcs
  BY <1>4, <1>5, <1>7, RouteType DEF Settled
<1>9. o \in Outputs
  <2>1. CASE r.state[x] = "active"
    <3>1. r.out[x] \in Route(r, x)
      BY <1>6, <1>7, <1>8, <2>1 DEF Linked
    <3> QED BY <1>1, <1>8, <2>1, <3>1 DEF Wanted, OutVcs
  <2>2. CASE r.state[x] # "active"
    BY <1>1, <1>8, <2>2 DEF Wanted, OutVcs
  <2> QED BY <2>1, <2>2
<1>10. OutputOf(p) = o
  BY <1>1, <1>4, <1>5, <1>9, PortFacts DEF Ready
<1>11. Free(r, x, p)
  <2>1. r.holdIn[ExpandedIn(x)] = None /\ r.holdOut[p] = None
    BY <1>1 DEF PortsFree
  <2>2. ExpandedIn(x) \in InPorts
    BY <1>4, <1>5, PortFacts DEF Ready
  <2> QED BY <1>4, <2>1, <2>2 DEF Settled, Tables, Free
<1> QED BY <1>1, <1>2, <1>5, <1>7, <1>9, <1>10, <1>11 DEF x, p

\* A request of an output that is not stalled finds room there.
LEMMA AskedSpacious ==
  ASSUME IInv, RoomCondition, pc = "sw_evaluate", NEW x \in Range(r.swQ), NEW o \in Outputs,
         MayAsk(r, x, o), r.state[x] = "active" \/ cfg.spec
  PROVE  Spacious(r, o)
<1>1. Settled(r) /\ Ready
  BY QuietState
<1>2. Len(r.outBuf[o]) \in Nat /\ cfg.outSize \in Int
  BY <1>1, ConfigType DEF Settled, Typed, Ready
<1>3. CASE r.state[x] = "active" \/ cfg.elig \/ cfg.cred
  <2>1. ~IsOutFull(r, o)
    BY <1>3 DEF MayAsk, SpecEligible
  <2> QED BY <1>2, <2>1 DEF IsOutFull, Spacious
<1>4. CASE r.state[x] # "active" /\ ~cfg.elig /\ ~cfg.cred
  BY <1>4 DEF RoomCondition, Spacious
<1> QED BY <1>3, <1>4

\* The grants C that count: G of the requests R, and E of speculative requests,
\* of the VCs S, if there is an allocator for them.
Allocates(separate, S, R, G, E, C) ==
  /\ S = {x \in Range(r.swQ) : r.state[x] # "active"}
  /\ R = Preferred(SwRequests(IF separate THEN Range(r.swQ) \ S ELSE Range(r.swQ)))
  /\ G \in SwGrants(R) /\ E \in SwGrants(IF separate THEN SwRequests(S) ELSE {})
  /\ C = G \cup {g \in E : SpecGrantCounts(g, R, G)}

\* They are for different ports.
LEMMA CountedApart ==
  ASSUME IInv, pc = "sw_evaluate", NEW separate \in BOOLEAN, NEW S, NEW R, NEW G, NEW E, NEW C,
         Allocates(separate, S, R, G, E, C)
  PROVE  /\ C \subseteq SwRequests(Range(r.swQ))
         /\ \A g, h \in C : g # h => ExpandedIn(g[1]) # ExpandedIn(h[1]) /\ g[2] # h[2]
<1>0. /\ S = {x \in Range(r.swQ) : r.state[x] # "active"}
      /\ R = Preferred(SwRequests(IF separate THEN Range(r.swQ) \ S ELSE Range(r.swQ)))
      /\ G \in SwGrants(R) /\ E \in SwGrants(IF separate THEN SwRequests(S) ELSE {})
      /\ C = G \cup {g \in E : SpecGrantCounts(g, R, G)}
  BY DEF Allocates
<1>1. /\ G \subseteq R /\ \A g, h \in G : g # h => ExpandedIn(g[1]) # ExpandedIn(h[1]) /\ g[2] # h[2]
      /\ R \subseteq SwRequests(Range(r.swQ))
  <2>1. R \subseteq SwRequests(Range(r.swQ))
    BY <1>0 DEF Preferred, SwRequests
  <2>2. G \subseteq R
    BY <1>0 DEF SwGrants, Matchings
  <2>3. \A g \in G : g[1] \in InVcs
    <3> DEFINE Q == Range(r.swQ)
    <3>1. Q \in SUBSET Range(r.swQ)
      OBVIOUS
    <3> QED BY <2>1, <2>2, <3>1, RequestFacts
  <2> QED BY <1>0, <2>1, <2>2, <2>3 DEF SwGrants, Matchings
<1>2. /\ E \subseteq SwRequests(Range(r.swQ))
      /\ \A g, h \in E : g # h => ExpandedIn(g[1]) # ExpandedIn(h[1]) /\ g[2] # h[2]
  <2>1. E \subseteq SwRequests(Range(r.swQ))
    <3>1. E \subseteq SwRequests(S) \cup {}
      BY <1>0 DEF SwGrants, Matchings
    <3> QED BY <1>0, <3>1 DEF SwRequests
  <2>2. \A g \in E : g[1] \in InVcs
    <3>1. Range(r.swQ) \in SUBSET Range(r.swQ)
      OBVIOUS
    <3> QED BY <2>1, <3>1, RequestFacts
  <2> QED BY <1>0, <2>1, <2>2 DEF SwGrants, Matchings
<1>3. ASSUME NEW g \in E, SpecGrantCounts(g, R, G), NEW h \in G
      PROVE  ExpandedIn(g[1]) # ExpandedIn(h[1]) /\ g[2] # h[2]
  BY <1>1, <1>3 DEF SpecGrantCounts
<1>4. \A g, h \in C : g # h => ExpandedIn(g[1]) # ExpandedIn(h[1]) /\ g[2] # h[2]
  BY <1>0, <1>1, <1>2, <1>3
<1> QED BY <1>0, <1>1, <1>2, <1>4

LEMMA SWAllocEvaluateIInv ==
  ASSUME IInv, RoomCondition, SWAllocEvaluate
  PROVE  IInv'
<1> DEFINE Q == Range(r.swQ)
           S == {x \in Q : r.state[x] # "active"}
           separate == cfg.spec /\ ~cfg.prio
           R == Preferred(SwRequests(IF separate THEN Q \ S ELSE Q))
           stalled == {x \in Q : \E o \in Wanted(r, x) : ~MayAsk(r, x, o)}
           Counts(G, E) == G \cup {g \in E : SpecGrantCounts(g, R, G)}
           Kept(C) == {g \in C : g[1] \notin stalled /\ Stands(r, g[1], g[2])}
           Result(K) == [x \in Q |-> IF \E g \in K : g[1] = x
                                     THEN (CHOOSE g \in K : g[1] = x)[2] ELSE None]
           hold == [x \in Range(r.holdQ) |-> ~IsFullFor(r.nextBuf[r.out[x][1]], r.out[x][2])]
           none == [o \in Outputs |-> <<>>]
<1>1. PICK G \in SwGrants(R), E \in SwGrants(IF separate THEN SwRequests(S) ELSE {}) :
        r' = [r EXCEPT !.swRes = Result(Kept(Counts(G, E))), !.holdRes = hold,
                       !.crossing = r.crossbar, !.crossbar = none]
  BY DEF SWAllocEvaluate
<1>2. pc = "sw_evaluate" /\ pc' = "update" /\ UNCHANGED <<cfg, pkt, feed, used>>
  BY DEF SWAllocEvaluate
<1>3. Settled(r) /\ Ready /\ \A i \in Inputs : r.inFlit[i] = None
  BY <1>2, QuietState
<1> DEFINE C == Counts(G, E)
           K == Kept(C)
           res == Result(K)
<1>4. /\ C \subseteq SwRequests(Q)
      /\ \A g, h \in C : g # h => ExpandedIn(g[1]) # ExpandedIn(h[1]) /\ g[2] # h[2]
  <2>1. separate \in BOOLEAN
    BY <1>3, IQRouterAssumption DEF Ready, Config
  <2>2. Allocates(separate, S, R, G, E, C)
    BY <1>1 DEF Allocates
  <2>3. /\ C \subseteq SwRequests(Range(r.swQ))
        /\ \A g, h \in C : g # h => ExpandedIn(g[1]) # ExpandedIn(h[1]) /\ g[2] # h[2]
    <3> HIDE DEF C, separate, R, S, Q
    <3> QED BY ONLY IInv, <1>2, <2>1, <2>2, CountedApart
  <2> QED BY <2>3
<1>5. ASSUME NEW x \in Q, res[x] # None
      PROVE  \E g \in C : g[1] = x /\ g[2] = res[x] /\ x \notin stalled /\ Stands(r, x, res[x])
  <2>1. \E g \in K : g[1] = x
    BY <1>5
  <2>2. PICK g : g \in K /\ g[1] = x /\ res[x] = g[2]
    BY <2>1
  <2> QED BY <2>2
<1> HIDE DEF C, K, res
\* What a VC is granted can be used.
<1>6. ASSUME NEW x \in Q, res[x] # None
      PROVE  Granted(r, Range(r.vcQ), x, res[x]) /\ Spacious(r, OutputOf(res[x]))
  <2> DEFINE p == res[x]
             o == OutputOf(p)
  <2>1. PICK g \in C : g[1] = x /\ g[2] = p /\ x \notin stalled /\ Stands(r, x, p)
    BY <1>5, <1>6
  <2>2. /\ x \in InVcs /\ p \in OutPorts /\ r.state[x] \in {"active", "vc_alloc"}
        /\ Free(r, x, p) /\ o \in Outputs /\ p = ExpandedOut(x, o)
        /\ o \in Wanted(r, x) /\ MayAsk(r, x, o)
    <3>1. Q \in SUBSET Range(r.swQ) /\ g \in SwRequests(Q)
      BY <1>4, <2>1
    <3> HIDE DEF Q
    <3> QED BY <1>2, <2>1, <3>1, RequestFacts
  <2>3. Placed(r, {}, {}, {}, {}, x)
    BY <1>3, <2>2 DEF Settled, Everywhere, Local
  <2> HIDE DEF p
  <2>4. r.state[x] = "active" => o = r.out[x][1]
    BY <2>2 DEF Wanted
  <2>5. r.state[x] # "active" => IF cfg.piggyback THEN Candidates(r, x, o) # {}
                                 ELSE x \in Range(r.vcQ) /\ r.vcRes[x] # None /\ r.vcRes[x][1] = o
    <3>1. CASE r.state[x] # "active" /\ cfg.piggyback
      BY <2>1, <3>1 DEF Stands, Candidates
    <3>2. CASE r.state[x] # "active" /\ ~cfg.piggyback
      <4>1. x \in Range(r.vcQ)
        BY <2>2, <2>3, <3>2 DEF Placed, Among
      <4> QED BY <2>1, <3>2, <4>1 DEF Stands
    <3> QED BY <3>1, <3>2
  <2>6. Granted(r, Range(r.vcQ), x, p)
    BY <2>2, <2>4, <2>5 DEF Granted
  <2>7. Spacious(r, o)
    <3>1. r.state[x] = "active" \/ cfg.spec
      BY <2>2, <2>3 DEF Placed, Among
    <3> QED BY <1>2, <2>2, <3>1, AskedSpacious
  <2> QED BY <2>6, <2>7 DEF p
<1>7. ASSUME NEW x \in Q, NEW y \in Q, x # y, res[x] # None, res[y] # None
      PROVE  ExpandedIn(x) # ExpandedIn(y) /\ res[x] # res[y]
  <2>1. PICK g \in C : g[1] = x /\ g[2] = res[x]
    BY <1>5, <1>7
  <2>2. PICK h \in C : h[1] = y /\ h[2] = res[y]
    BY <1>5, <1>7
  <2> QED BY <1>4, <1>7, <2>1, <2>2
<1>8. PICK t : t = r'
  OBVIOUS
<1>9. t = [r EXCEPT !.swRes = res, !.holdRes = hold, !.crossing = r.crossbar, !.crossbar = none]
  BY <1>1, <1>8 DEF C, K, res
<1> HIDE DEF hold, none
<1>10. /\ Router(t) /\ Keeps(r, t, {"swRes", "holdRes", "crossing", "crossbar"})
       /\ t.swRes = res /\ t.crossing = r.crossbar /\ t.crossbar = none
  BY <1>3, <1>9 DEF Settled, Typed, Router, Keeps, Fields
<1>11. Settled(t)
  <2>1. none \in [Outputs -> Seq(Moving)]
    BY DEF none
  <2>2. Typed(t) /\ ~t.failed
    BY <1>3, <1>10, <2>1 DEF Settled, Typed, Keeps, Fields
  <2>3. Keeps(r, t, {"vcRes", "holdRes", "swRes", "activity", "active", "outBuf", "crossing",
                     "crossbar", "failed", "nextBuf", "inCredit"})
    BY <1>10 DEF Keeps
  <2> QED BY <1>3, <2>2, <2>3, ForgetSettled
<1>12. /\ t.credits = r.credits /\ t.outBuf = r.outBuf /\ t.inFlit = r.inFlit /\ t.fifo = r.fifo
       /\ t.vcQ = r.vcQ /\ t.swQ = r.swQ /\ t.vcRes = r.vcRes /\ t.state = r.state /\ t.out = r.out
       /\ t.holdVc = r.holdVc /\ t.holdIn = r.holdIn /\ t.holdOut = r.holdOut /\ t.nextBuf = r.nextBuf
  BY <1>10 DEF Keeps, Fields
<1>13. Roomy(t, 2) /\ t.credits = [i \in Inputs |-> {}]
  <2>1. Roomy(r, 2) /\ r.credits = [i \in Inputs |-> {}]
    BY <1>2 DEF IInv
  <2>2. Len(<<>>) = 0 /\ cfg.outSp \in Nat /\ \A o \in Outputs : none[o] = <<>>
    BY <1>3, ConfigType DEF Ready, none
  <2> QED BY <1>10, <1>12, <2>1, <2>2 DEF Roomy
<1>14. Grants(t, Range(t.vcQ), Range(t.swQ))
  <2>1. \A x, p : Candidates(t, x, OutputOf(p)) = Candidates(r, x, OutputOf(p))
    BY <1>12 DEF Candidates, Route, FrontFlit
  <2>2. \A x, p : Granted(r, Range(r.vcQ), x, p) => Granted(t, Range(r.vcQ), x, p)
    BY <1>12, <2>1 DEF Granted, Free
  <2>3. \A x \in Range(r.vcQ) : r.vcRes[x] # None => r.vcRes[x] \in Route(t, x)
    BY <1>2, <1>12 DEF IInv, ResultsExact, Route, FrontFlit
  <2> QED BY <1>6, <1>7, <1>10, <1>12, <2>2, <2>3 DEF Grants
<1>15. ResultsExact'
  <2>1. Welcome(t, Range(t.swQ))
    BY <1>6, <1>10, <1>12 DEF Welcome, Spacious
  <2>2. Grants(r, Range(r.vcQ), Range(r.swQ))'
    BY <1>2, <1>8, <1>14, GrantsNext
  <2>3. Welcome(r, Range(r.swQ))'
    BY <1>2, <1>8, <2>1 DEF Welcome, Spacious, OutputOf
  <2>4. \A o \in Outputs : r'.crossbar[o] = <<>>
    BY <1>8, <1>10 DEF none
  <2>5. ASSUME NEW x \in Range(r'.vcQ), r'.vcRes[x] # None PROVE r'.vcRes[x] \in Route(r, x)'
    <3>1. r'.vcQ = r.vcQ /\ r'.vcRes = r.vcRes /\ r'.fifo = r.fifo /\ pkt' = pkt
      BY <1>2, <1>8, <1>12
    <3>2. r.vcRes[x] \in Route(r, x)
      BY <1>2, <2>5, <3>1 DEF IInv, ResultsExact
    <3> QED BY <3>1, <3>2 DEF Route, FrontFlit
  <2> QED BY <2>2, <2>3, <2>4, <2>5 DEF ResultsExact
<1>16. pc' \in Steps /\ r' = t /\ \A i \in Inputs : t.inFlit[i] = None
  BY <1>2, <1>3, <1>8, <1>12 DEF Steps
<1> QED BY <1>2, <1>11, <1>13, <1>15, <1>16, OwnStep

-----------------------------------------------------------------------------
LEMMA UpdateIInv ==
  ASSUME IInv, cfg.piggyback => cfg.outSp = 1, Update
  PROVE  IInv'
<1>1. PICK a \in IF cfg.piggyback THEN [Outputs -> Vcs] ELSE {[o \in Outputs |-> 0]} :
        Updated(r, a, r')
  BY DEF Update, Updated
<1>2. pc = "update" /\ pc' = "write" /\ UNCHANGED <<cfg, pkt, feed, used>>
  BY DEF Update
<1>3. Settled(r) /\ Ready /\ \A i \in Inputs : r.inFlit[i] = None
  BY <1>2, QuietState
<1>4. a \in [Outputs -> Nat]
  <2>1. Vcs \subseteq Nat /\ [o \in Outputs |-> 0] \in [Outputs -> Nat]
    BY BufferStateAssumption DEF Vcs
  <2>2. a \in [Outputs -> Vcs] \/ a = [o \in Outputs |-> 0]
    BY <1>1
  <2>3. ASSUME a \in [Outputs -> Vcs] PROVE a \in [Outputs -> Nat]
    BY <2>1, <2>3
  <2> QED BY <2>1, <2>2, <2>3
<1>5. /\ Grants(r, Range(r.vcQ), Range(r.swQ)) /\ Welcome(r, Range(r.swQ))
      /\ \A o \in Outputs : r.crossbar[o] = <<>>
  BY <1>2 DEF IInv, ResultsExact
<1>6. Roomy(r, 2) /\ r.credits = [i \in Inputs |-> {}]
  BY <1>2 DEF IInv
<1>7. PICK t : t = r'
  OBVIOUS
<1>8. Settled(t) /\ (t.active \/ Asleep(t)) /\ Roomy(t, 1) /\ t.inFlit = r.inFlit
  <2>1. Updated(r, a, t)
    BY <1>1, <1>7
  <2> QED BY <1>3, <1>4, <1>5, <1>6, <2>1, UpdateSettled
<1>9. ResultsExact'
  BY <1>2 DEF ResultsExact
<1>10. pc' \in Steps /\ r' = t /\ \A i \in Inputs : t.inFlit[i] = None
  BY <1>2, <1>3, <1>7, <1>8 DEF Steps
<1> QED BY <1>2, <1>8, <1>9, <1>10, OwnStep

\* What upstream has sent and what it sends now fit together.
LEMMA OfferFacts ==
  ASSUME IInv, NEW A \in Arrivals, NEW x \in Arriving(A)
  PROVE  /\ x \in InVcs /\ A[x[1]] \in [vc : Vcs, pid : Pids, idx : Nat \ {0}]
         /\ FlitOn(A, x) \in Flit /\ Before(FlitOn(A, x)) = feed[x] /\ used[x] < VcLimit
<1>1. PICK i \in Inputs : A[i] # None /\ x = <<i, A[i].vc>>
  BY DEF Arriving
<1>2. A[i] \in Offers(i)
  BY <1>1 DEF Arrivals
<1>3. PICK v \in Vcs, p \in Pids : A[i] = [vc |-> v, pid |-> p, idx |-> feed[<<i, v>>].idx + 1]
                                   /\ Legal(i, A[i])
  <2>1. PICK v \in Vcs, p \in Pids : A[i] = NextOn(i, v, p)
    BY <1>2 DEF Offers
  <2>2. Legal(i, A[i])
    BY <1>2 DEF Offers
  <2> QED BY <2>1, <2>2 DEF NextOn
<1>4. x = <<i, v>> /\ x \in InVcs /\ x[1] = i
  BY <1>1, <1>3 DEF InVcs
<1>5. feed[x] \in {Idle} \cup Flit
  BY <1>4 DEF IInv, ArrivalsExact
<1>6. feed[x] = Idle \/ (feed[x] \in [pid : Pids, idx : Nat \ {0}] /\ feed[x] # Idle)
  <2>1. CASE feed[x] \in Flit
    BY <2>1, FlitType DEF Flit
  <2> QED BY <1>5, <2>1
<1>7. feed[x].idx \in Nat /\ Idle.idx = 0 /\ feed[x].idx + 1 \in Nat \ {0}
  BY <1>6 DEF Idle
<1>8. /\ used[x] < VcLimit
      /\ feed[x] # Idle => p = feed[x].pid
  BY <1>3, <1>4 DEF Legal
<1>9. FlitOn(A, x) = [pid |-> p, idx |-> feed[x].idx + 1]
  BY <1>3, <1>4 DEF FlitOn
<1>10. Before(FlitOn(A, x)) = feed[x]
  <2>1. CASE feed[x] = Idle
    BY <1>7, <1>9, <2>1 DEF Before, IsHead
  <2>2. CASE feed[x] # Idle
    <3>1. feed[x].idx \in Nat \ {0} /\ feed[x] = [pid |-> feed[x].pid, idx |-> feed[x].idx]
      BY <1>6, <2>2
    <3>2. feed[x].idx + 1 # 1 /\ feed[x].idx + 1 - 1 = feed[x].idx
      BY <3>1
    <3>3. p = feed[x].pid
      BY <1>8, <2>2
    <3> HIDE DEF Idle
    <3> QED BY <1>9, <3>1, <3>2, <3>3 DEF Before, IsHead
  <2> QED BY <2>1, <2>2
<1> QED BY <1>3, <1>4, <1>7, <1>8, <1>9, <1>10 DEF Flit

LEMMA ReadInputsIInv ==
  ASSUME IInv, NEW A \in Arrivals, NEW C, ReadInputs(A, C)
  PROVE  IInv'
<1>1. pc = "read" /\ pc' = "queue" /\ UNCHANGED <<cfg, pkt>>
  BY DEF ReadInputs
<1>2. /\ r' = [r EXCEPT !.inFlit = A, !.inCredit = C,
                  !.active = @ \/ Arriving(A) # {} \/ \E o \in Outputs : C[o] # {}]
      /\ feed' = [x \in InVcs |-> IF x \notin Arriving(A) THEN feed[x] ELSE Beyond(FlitOn(A, x))]
      /\ used' = [x \in InVcs |-> IF x \in Arriving(A) THEN used[x] + 1 ELSE used[x]]
  BY DEF ReadInputs, Beyond
<1>3. PICK t : t = r'
  OBVIOUS
<1>4. Typed(r) /\ Tables(r) /\ ~r.failed /\ ~r.unmatched /\ Ready
  BY DEF IInv
<1>5. /\ Router(t) /\ Keeps(r, t, {"inFlit", "inCredit", "active"})
      /\ t.inFlit = A /\ (t.active \/ (~r.active /\ Arriving(A) = {}))
  BY <1>2, <1>3, <1>4 DEF Typed, Router, Keeps, Fields
<1>6. /\ t.fifo = r.fifo /\ t.state = r.state /\ t.out = r.out
      /\ t.routeQ = r.routeQ /\ t.vcQ = r.vcQ /\ t.holdQ = r.holdQ /\ t.swQ = r.swQ
      /\ t.holdVc = r.holdVc /\ t.holdIn = r.holdIn /\ t.holdOut = r.holdOut
      /\ t.credits = r.credits /\ t.crossbar = r.crossbar /\ t.crossing = r.crossing
      /\ t.outBuf = r.outBuf /\ t.nextBuf = r.nextBuf
      /\ t.failed = r.failed /\ t.unmatched = r.unmatched
  BY <1>5 DEF Keeps, Fields
<1>7. Typed(t) /\ Tables(t)
  BY <1>4, <1>5, <1>6 DEF Typed, Tables, Holds
<1>8. Arriving(r.inFlit) = {} /\ r.credits = [i \in Inputs |-> {}] /\ Roomy(r, 2)
  <2>1. NoArrival
    BY <1>1 DEF IInv, ArrivalsExact
  <2> QED BY <1>1, <2>1 DEF IInv, Arriving, NoArrival
<1>9. feed \in [InVcs -> {Idle} \cup Flit] /\ used \in [InVcs -> 0 .. VcLimit] /\ VcLimit \in Nat
  BY VcLimitType DEF IInv, ArrivalsExact
<1>10. ASSUME NEW x \in InVcs PROVE Local(r, Arriving(A), {}, {}, {}, {}, x)'
  <2>1. Local(r, {}, {}, {}, {}, {}, x)
    BY <1>8 DEF IInv, Everywhere
  <2>2. Placed(r, {}, {}, {}, {}, x)'
    <3>1. Placed(t, {}, {}, {}, {}, x)
      BY <1>6, <2>1 DEF Local, Placed, Holds
    <3> QED BY <1>1, <1>3, <3>1, PlacedNext
  <2>3. feed[x] = IF x \in Arriving(A) THEN Before(FlitOn(A, x)) ELSE feed'[x]
    BY <1>2, OfferFacts
  <2>4. Linked(r.fifo[x], r.state[x], r.out[x], Sending(r, Arriving(A), x))'
    <3>1. Linked(t.fifo[x], t.state[x], t.out[x], feed[x])
      BY <1>6, <2>1 DEF Local, Sending
    <3>2. Sending(r, Arriving(A), x)' = feed[x]
      BY <1>3, <1>5, <2>3 DEF Sending, Before, FlitOn, IsHead, Idle, Arriving
    <3> QED BY <1>1, <1>3, <3>1, <3>2 DEF Linked, Follows, IsTail, IsHead, Beyond, Idle
  <2>5. Counted(r, Arriving(A), x)'
    <3>1. x[2] \notin r.credits[x[1]] /\ Len(r.fifo[x]) \in Nat
      BY <1>4, <1>8 DEF InVcs, Typed
    <3>2. used[x] = Len(r.fifo[x])
      BY <2>1, <3>1 DEF Local, Counted
    <3>3. used'[x] = IF x \in Arriving(A) THEN used[x] + 1 ELSE used[x]
      BY <1>2
    <3>4. r'.fifo = r.fifo /\ r'.credits = r.credits
      BY <1>3, <1>6
    <3> DEFINE n == Len(r.fifo[x])
    <3> HIDE DEF n
    <3>5. n \in Nat /\ used[x] = n /\ n = Len(r.fifo[x])
      BY <3>1, <3>2 DEF n
    <3>6. used'[x] = n + (IF x \in Arriving(A) THEN 1 ELSE 0) + 0
      <4>1. CASE x \in Arriving(A)
        BY <3>3, <3>5, <4>1
      <4>2. CASE x \notin Arriving(A)
        BY <3>3, <3>5, <4>2
      <4> QED BY <4>1, <4>2
    <3>7. Len(r'.fifo[x]) = n /\ ~(x[2] \in r'.credits[x[1]])
      BY <3>1, <3>4, <3>5
    <3>8. Arriving(A)' = Arriving(A)
      BY DEF Arriving
    <3> DEFINE D == Arriving(A)
    <3>9. used'[x] = Len(r'.fifo[x]) + (IF x \in D THEN 1 ELSE 0)
                     + (IF x[2] \in r'.credits[x[1]] THEN 1 ELSE 0)
      BY <3>6, <3>7
    <3> HIDE DEF D
    <3> QED BY <3>8, <3>9 DEF Counted, D
  <2> QED BY <2>2, <2>4, <2>5 DEF Local, Arriving
<1>11. Arriving(r.inFlit)' = Arriving(A)
  BY <1>3, <1>5 DEF Arriving
<1>12. Everywhere(r, Arriving(r.inFlit), {}, {}, {}, {})'
  BY <1>3, <1>5, <1>10 DEF Everywhere, Arriving
<1>13. ArrivalsExact'
  <2>1. \A x \in Arriving(A) : FlitOn(A, x) \in Flit /\ used[x] < VcLimit
    BY OfferFacts
  <2>2. feed' \in [InVcs -> {Idle} \cup Flit]
    BY <1>2, <1>9, <2>1 DEF Beyond
  <2>3. used' \in [InVcs -> 0 .. VcLimit]
    BY <1>2, <1>9, <2>1
  <2>4. ASSUME NEW i \in Inputs PROVE Arrived(A[i])
    <3>1. CASE A[i] = None
      BY <3>1 DEF Arrived
    <3>2. CASE A[i] # None
      <4>1. <<i, A[i].vc>> \in Arriving(A)
        BY <3>2 DEF Arriving
      <4> QED BY <4>1, OfferFacts DEF Arrived
    <3> QED BY <3>1, <3>2
  <2>5. \A x \in Arriving(A) : feed'[x] = Beyond(FlitOn(A, x))
    BY <1>2, OfferFacts
  <2>6. ~r'.active => NoArrival'
    BY <1>3, <1>5 DEF NoArrival, Arriving
  <2>7. (\A i \in Inputs : Arrived(r.inFlit[i]))'
    BY <1>3, <1>5, <2>4 DEF Arrived
  <2>8. (\A x \in Arriving(r.inFlit) : feed[x] = Beyond(FlitOn(r.inFlit, x)))'
    BY <1>1, <1>3, <1>5, <2>5 DEF Arriving, Beyond, FlitOn, IsTail, Idle
  <2>9. (feed \in [InVcs -> {Idle} \cup Flit] /\ used \in [InVcs -> 0 .. VcLimit])'
    BY <2>2, <2>3 DEF Idle
  <2> QED BY <1>1, <2>6, <2>7, <2>8, <2>9 DEF ArrivalsExact
<1>14. Ready' /\ pc' \in Steps /\ Typed(r)' /\ Tables(r)' /\ ~r'.failed /\ ~r'.unmatched
  BY <1>1, <1>3, <1>4, <1>6, <1>7, TypedNext, TablesNext DEF Ready, Steps
<1>15. r'.credits = [i \in Inputs |-> {}] /\ ResultsExact'
  BY <1>1, <1>3, <1>6, <1>8 DEF ResultsExact
<1>16. r'.active \/ Asleep(r)'
  <2>1. r.active \/ Asleep(r)
    BY <1>1 DEF IInv
  <2>2. r.active => t.active
    BY <1>5
  <2> QED BY <1>3, <1>6, <2>1, <2>2 DEF Asleep
<1>17. Roomy(r, 2)'
  <2>1. Roomy(t, 2)
    BY <1>6, <1>8 DEF Roomy
  <2> QED BY <1>1, <1>3, <2>1, RoomyNext
<1> QED BY <1>1, <1>12, <1>13, <1>14, <1>15, <1>16, <1>17 DEF IInv

LEMMA WriteOutputsIInv ==
  ASSUME IInv, WriteOutputs
  PROVE  IInv'
<1>1. pc = "write" /\ pc' = "read" /\ UNCHANGED <<cfg, pkt, feed>>
  BY DEF WriteOutputs
<1> DEFINE rest == [o \in Outputs |-> IF r.outBuf[o] = <<>> THEN <<>> ELSE Tail(r.outBuf[o])]
           none == [i \in Inputs |-> {}]
<1>2. /\ r' = [r EXCEPT !.outBuf = rest, !.credits = none]
      /\ used' = [x \in InVcs |-> IF x[2] \in r.credits[x[1]] THEN used[x] - 1 ELSE used[x]]
  BY DEF WriteOutputs
<1>3. PICK t : t = r'
  OBVIOUS
<1>4. Settled(r) /\ Ready /\ \A i \in Inputs : r.inFlit[i] = None
  BY <1>1, QuietState
<1> HIDE DEF rest, none
<1>5. /\ Router(t) /\ Keeps(r, t, {"outBuf", "credits"}) /\ t.outBuf = rest /\ t.credits = none
  BY <1>2, <1>3, <1>4 DEF Settled, Typed, Router, Keeps, Fields
<1>6. /\ t.fifo = r.fifo /\ t.state = r.state /\ t.out = r.out
      /\ t.routeQ = r.routeQ /\ t.vcQ = r.vcQ /\ t.holdQ = r.holdQ /\ t.swQ = r.swQ
      /\ t.holdVc = r.holdVc /\ t.holdIn = r.holdIn /\ t.holdOut = r.holdOut
      /\ t.crossbar = r.crossbar /\ t.crossing = r.crossing /\ t.nextBuf = r.nextBuf
      /\ t.failed = r.failed /\ t.unmatched = r.unmatched /\ t.inFlit = r.inFlit
      /\ t.active = r.active
  BY <1>5 DEF Keeps, Fields
<1>7. rest \in [Outputs -> Seq(Moving)] /\ none \in [Inputs -> SUBSET Vcs]
  <2>1. \A o \in Outputs : r.outBuf[o] \in Seq(Moving)
    BY <1>4 DEF Settled, Typed
  <2> QED BY <2>1 DEF rest, none
<1>8. Typed(t) /\ Tables(t)
  BY <1>4, <1>5, <1>6, <1>7 DEF Settled, Typed, Tables, Holds
<1>9. Arriving(r.inFlit) = {} /\ Arriving(t.inFlit) = {}
  BY <1>4, <1>6 DEF Arriving
<1>10. feed \in [InVcs -> {Idle} \cup Flit] /\ used \in [InVcs -> 0 .. VcLimit] /\ VcLimit \in Nat
  BY VcLimitType DEF IInv, ArrivalsExact
<1>11. ASSUME NEW x \in InVcs
       PROVE  Local(r, {}, {}, {}, {}, {}, x)' /\ used'[x] \in 0 .. VcLimit
  <2>1. Local(r, {}, {}, {}, {}, {}, x)
    BY <1>4 DEF Settled, Everywhere
  <2>2. Placed(r, {}, {}, {}, {}, x)'
    <3>1. Placed(t, {}, {}, {}, {}, x)
      BY <1>6, <2>1 DEF Local, Placed, Holds
    <3> QED BY <1>1, <1>3, <3>1, PlacedNext
  <2>3. Linked(r.fifo[x], r.state[x], r.out[x], Sending(r, {}, x))'
    BY <1>1, <1>3, <1>6, <2>1 DEF Local, Linked, Follows, IsTail, IsHead, Beyond, Idle, Sending
  <2> DEFINE n == Len(r.fifo[x])
  <2>4. n \in Nat /\ x[1] \in Inputs
    BY <1>4 DEF Settled, Typed, InVcs
  <2>5. used[x] = n + 0 + (IF x[2] \in r.credits[x[1]] THEN 1 ELSE 0)
    BY <2>1 DEF Local, Counted
  <2>6. r'.fifo[x] = r.fifo[x] /\ x[2] \notin r'.credits[x[1]]
    BY <1>3, <1>5, <1>6, <2>4 DEF none
  <2>7. used'[x] = n + 0 + 0
    <3> HIDE DEF n
    <3> QED BY <1>2, <2>4, <2>5
  <2>8. Counted(r, {}, x)'
    BY <2>6, <2>7 DEF Counted
  <2>9. used'[x] \in 0 .. VcLimit
    <3>1. used[x] \in 0 .. VcLimit
      BY <1>10
    <3> HIDE DEF n
    <3> QED BY <1>10, <2>4, <2>5, <2>7, <3>1
  <2> QED BY <2>2, <2>3, <2>8, <2>9 DEF Local
<1>12. Everywhere(r, Arriving(r.inFlit), {}, {}, {}, {})'
  BY <1>3, <1>6, <1>9, <1>11 DEF Everywhere, Arriving
<1>13. ArrivalsExact'
  <2>1. feed' \in [InVcs -> {Idle} \cup Flit]
    BY <1>1, <1>10
  <2>2. used' \in [InVcs -> 0 .. VcLimit]
    BY <1>2, <1>11
  <2>3. (\A i \in Inputs : Arrived(r.inFlit[i]))' /\ NoArrival'
    BY <1>3, <1>4, <1>6 DEF Arrived, NoArrival
  <2>4. Arriving(r.inFlit)' = {}
    BY <1>3, <1>9
  <2> QED BY <2>1, <2>2, <2>3, <2>4 DEF ArrivalsExact, Idle
<1>14. Ready' /\ pc' \in Steps /\ Typed(r)' /\ Tables(r)' /\ ~r'.failed /\ ~r'.unmatched
  BY <1>1, <1>3, <1>4, <1>6, <1>8, TypedNext, TablesNext DEF Settled, Ready, Steps
<1>15. r'.credits = [i \in Inputs |-> {}] /\ ResultsExact'
  BY <1>1, <1>3, <1>5 DEF ResultsExact, none
<1>16. r'.active \/ Asleep(r)'
  BY <1>1, <1>3, <1>6 DEF IInv, Asleep
<1>17. Roomy(r, 2)'
  <2>1. Roomy(r, 1)
    BY <1>1 DEF IInv
  <2>2. cfg.outSp \in Nat \ {0} /\ cfg.outSize \in Int
    BY <1>4, ConfigType DEF Ready
  <2>3. ASSUME NEW o \in Outputs
        PROVE  /\ Len(rest[o]) \in Nat /\ Len(r.outBuf[o]) \in Nat
               /\ Len(rest[o]) = 0 \/ Len(rest[o]) = Len(r.outBuf[o]) - 1
    <3>1. r.outBuf[o] \in Seq(Moving)
      BY <1>4 DEF Settled, Typed
    <3>2. CASE r.outBuf[o] = <<>>
      BY <3>1, <3>2 DEF rest
    <3>3. CASE r.outBuf[o] # <<>>
      BY <3>1, <3>3 DEF rest
    <3> QED BY <3>2, <3>3
  <2>4. Roomy(t, 2)
    BY <1>5, <1>6, <2>1, <2>2, <2>3 DEF Roomy
  <2> QED BY <1>1, <1>3, <2>4, RoomyNext
<1> QED BY <1>1, <1>12, <1>13, <1>14, <1>15, <1>16, <1>17 DEF IInv

\* A router in which a piggybacked grant finds an output VC, and no request
\* overruns an output buffer.
Sensible(c) ==
  /\ c.piggyback => c.outSp = 1
  /\ c.spec /\ ~c.elig /\ ~c.cred => c.outSize < 0 \/ c.outSp = 1

LEMMA StutterIInv ==
  ASSUME IInv, UNCHANGED vars
  PROVE  IInv'
<1>1. UNCHANGED <<cfg, pkt, pc, r, feed, used>>
  BY DEF vars
<1>2. Ready' /\ pc' \in Steps /\ Typed(r)' /\ Tables(r)' /\ ~r'.failed /\ ~r'.unmatched
  BY <1>1, TypedNext, TablesNext DEF IInv, Ready
<1>3. Everywhere(r, Arriving(r.inFlit), {}, {}, {}, {})'
  <2>1. Arriving(r.inFlit)' = Arriving(r.inFlit)
    BY <1>1 DEF Arriving
  <2> DEFINE D == Arriving(r.inFlit)
  <2>2. ASSUME NEW x \in InVcs PROVE Local(r, D, {}, {}, {}, {}, x)'
    <3>1. Local(r, D, {}, {}, {}, {}, x)
      BY DEF IInv, Everywhere
    <3>2. Placed(r, {}, {}, {}, {}, x)'
      BY <1>1, <3>1, PlacedNext DEF Local
    <3>3. Sending(r, D, x)' = Sending(r, D, x)
      BY <1>1, <2>1 DEF Sending, Before, FlitOn, IsHead, Idle
    <3>4. Linked(r.fifo[x], r.state[x], r.out[x], Sending(r, D, x))'
      BY <1>1, <3>1, <3>3 DEF Local, Linked, Follows, IsTail, IsHead, Beyond, Idle
    <3>5. Counted(r, D, x)'
      BY <1>1, <2>1, <3>1 DEF Local, Counted
    <3> QED BY <3>2, <3>4, <3>5 DEF Local
  <2> QED BY <2>2 DEF Everywhere
<1>4. ArrivalsExact'
  BY <1>1 DEF IInv, ArrivalsExact, Idle, Arrived, Arriving, Beyond, FlitOn, IsTail, NoArrival
<1>5. ResultsExact'
  <2>1. pc = "update" => Grants(r, Range(r.vcQ), Range(r.swQ))'
    BY <1>1, GrantsNext DEF IInv, ResultsExact
  <2>2. pc = "update" => Welcome(r, Range(r.swQ))'
    BY <1>1 DEF IInv, ResultsExact, Welcome, Spacious, OutputOf
  <2>3. pc \in {"sw_evaluate", "update"} =>
          (\A x \in Range(r.vcQ) : r.vcRes[x] # None => r.vcRes[x] \in Route(r, x))'
    BY <1>1 DEF IInv, ResultsExact, Route, FrontFlit
  <2> QED BY <1>1, <2>1, <2>2, <2>3 DEF IInv, ResultsExact
<1>6. Roomy(r, IF pc = "write" THEN 1 ELSE 2)'
  BY <1>1, RoomyNext DEF IInv
<1>7. /\ pc' # "write" => r'.credits = [i \in Inputs |-> {}]
      /\ pc' \in {"read", "queue", "write"} => r'.active \/ Asleep(r)'
  BY <1>1 DEF IInv, Asleep
<1> QED BY <1>2, <1>3, <1>4, <1>5, <1>6, <1>7 DEF IInv

LEMMA StepIInv ==
  ASSUME \A c \in Configs : Sensible(c), IInv, [Next]_vars
  PROVE  IInv'
<1>1. (cfg.piggyback => cfg.outSp = 1) /\ RoomCondition
  BY DEF IInv, Ready, Sensible, RoomCondition
<1>2. CASE Receive
  BY <1>2, ReadInputsIInv DEF Receive
<1>3. CASE Sleep
  BY <1>3, SleepIInv
<1>4. CASE InputQueuing
  BY <1>4, InputQueuingIInv
<1>5. CASE VCAllocEvaluate
  BY <1>5, VCAllocEvaluateIInv
<1>6. CASE SWAllocEvaluate
  BY <1>1, <1>6, SWAllocEvaluateIInv
<1>7. CASE Update
  BY <1>1, <1>7, UpdateIInv
<1>8. CASE WriteOutputs
  BY <1>8, WriteOutputsIInv
<1>9. CASE UNCHANGED vars
  BY <1>9, StutterIInv
<1> QED BY <1>2, <1>3, <1>4, <1>5, <1>6, <1>7, <1>8, <1>9 DEF Next

-----------------------------------------------------------------------------
(***************************************************************************)
(* The properties that follow.                                             *)
(***************************************************************************)
\* The invariant holds in a router that is Sensible, whatever the number of its
\* ports, VCs and slots, the packets and the grants of its allocators.
THEOREM Invariance ==
  ASSUME \A c \in Configs : Sensible(c)
  PROVE  Spec => []IInv
<1>1. Init => IInv
  BY InitIInv
<1>2. IInv /\ [Next]_vars => IInv'
  BY StepIInv
<1> QED BY <1>1, <1>2, PTL DEF Spec

LEMMA PlaceFacts ==
  ASSUME IInv, NEW x \in InVcs
  PROVE  Placed(r, {}, {}, {}, {}, x) /\ \E n : Linked(r.fifo[x], r.state[x], r.out[x], n)
BY DEF IInv, Everywhere, Local

\* Every VC of an input-queued router is in the queue its state calls for and
\* in no other, with the flit at its front that the functions expect there; none
\* is forgotten, no update fails an assertion, a piggybacked grant finds its
\* output VC, and the router does not sleep while there is something to do.
THEOREM QueuesMatch ==
  ASSUME \A c \in Configs : Sensible(c)
  PROVE  Spec => []QueuesMatchStates
<1>1. IInv => QueuesMatchStates
  <2> SUFFICES ASSUME IInv PROVE QueuesMatchStates
    OBVIOUS
  <2> DEFINE Keeper(x) == r.holdVc[ExpandedIn(x)] = x[2]
             waiting == {x \in InVcs : r.state[x] = "vc_alloc"}
             ready == {x \in InVcs : r.state[x] = "active" /\ r.fifo[x] # <<>>}
  <2>1. /\ Range(r.routeQ) \subseteq InVcs /\ Range(r.vcQ) \subseteq InVcs
        /\ Range(r.holdQ) \subseteq InVcs /\ Range(r.swQ) \subseteq InVcs
    BY DEF IInv, Typed, Distinct, Range
  <2>2. ASSUME NEW x \in InVcs
        PROVE  /\ x \in Range(r.routeQ) <=> r.state[x] = "routing"
               /\ x \in Range(r.vcQ) <=> r.state[x] = "vc_alloc" /\ ~cfg.piggyback
               /\ x \in Range(r.holdQ) <=> Keeper(x)
               /\ Keeper(x) => r.state[x] = "active" /\ r.fifo[x] # <<>>
               /\ x \in Range(r.swQ) <=>
                    \/ r.state[x] = "active" /\ r.fifo[x] # <<>> /\ ~Keeper(x)
                    \/ r.state[x] = "vc_alloc" /\ cfg.spec
    BY PlaceFacts DEF Placed, Among, Holds
  <2>3. Range(r.routeQ) = {x \in InVcs : r.state[x] = "routing"}
    BY <2>1, <2>2
  <2>4. Range(r.vcQ) = IF cfg.piggyback THEN {} ELSE waiting
    BY <2>1, <2>2
  <2>5. Range(r.holdQ) = {x \in ready : Keeper(x)}
    BY <2>1, <2>2
  <2>6. Range(r.swQ) = {x \in ready : ~Keeper(x)} \cup IF cfg.spec THEN waiting ELSE {}
    BY <2>1, <2>2
  <2>7. ASSUME NEW x \in InVcs
        PROVE  /\ r.state[x] = "idle" => r.fifo[x] = <<>>
               /\ r.state[x] \in {"routing", "vc_alloc"} =>
                    r.fifo[x] # <<>> /\ IsHead(FrontFlit(r, x))
               /\ x \in ready => r.out[x] \in Route(r, x)
    <3>1. PICK n : Linked(r.fifo[x], r.state[x], r.out[x], n)
      BY PlaceFacts
    <3>2. r.fifo[x] # <<>> => /\ FrontFlit(r, x) = r.fifo[x][1]
                              /\ Route(r, x) = pkt[r.fifo[x][1].pid].route
      BY RouteType DEF IInv
    <3> QED BY <3>1, <3>2 DEF Linked
  <2>8. pc = "queue" /\ ~r.active =>
          /\ r.routeQ \o r.vcQ \o r.holdQ \o r.swQ = <<>>
          /\ \A o \in Outputs : r.crossbar[o] = <<>>
    <3>1. ((<<>> \o <<>>) \o <<>>) \o <<>> = <<>>
      OBVIOUS
    <3> QED BY <3>1 DEF IInv, Asleep
  <2>9. ~r.failed /\ ~r.unmatched
    BY DEF IInv
  <2> QED BY <2>3, <2>4, <2>5, <2>6, <2>7, <2>8, <2>9 DEF QueuesMatchStates
<1> QED BY <1>1, Invariance, PTL

\* A port of the crossbar is held exactly by the VC and the other port that the
\* three tables agree on, on the way to the output of the VC's packet.
CrossbarExact ==
  /\ \A p \in InPorts :
       /\ r.holdVc[p] = None <=> r.holdIn[p] = None
       /\ r.holdIn[p] # None =>
            /\ r.holdOut[r.holdIn[p]] = p
            /\ r.state[Holder(p)] = "active"
            /\ ExpandedOut(Holder(p), r.out[Holder(p)][1]) = r.holdIn[p]
  /\ \A p \in OutPorts : r.holdOut[p] # None => r.holdIn[r.holdOut[p]] = p

LEMMA HeldExact ==
  ASSUME IInv
  PROVE  CrossbarExact
<1>1. ASSUME NEW p \in InPorts, r.holdIn[p] # None
      PROVE  /\ r.state[Holder(p)] = "active"
             /\ ExpandedOut(Holder(p), r.out[Holder(p)][1]) = r.holdIn[p]
  <2>1. \E x \in InVcs : ExpandedIn(x) = p /\ x[2] = r.holdVc[p]
    BY <1>1 DEF IInv, Tables, Holds
  <2> DEFINE y == Holder(p)
  <2>2. y \in InVcs /\ ExpandedIn(y) = p /\ y[2] = r.holdVc[p]
    BY <2>1 DEF Holder
  <2> HIDE DEF y
  <2>3. Placed(r, {}, {}, {}, {}, y) /\ Holds(r, y)
    BY <2>2, PlaceFacts DEF Holds
  <2>4. r.state[y] = "active" /\ r.holdIn[p] = ExpandedOut(y, r.out[y][1])
    BY <2>2, <2>3 DEF Placed
  <2> QED BY <2>4 DEF y
<1> QED BY <1>1 DEF IInv, Tables, CrossbarExact

\* The three tables of the held ports agree, for every number of ports: nobody
\* else's release or grant in the same cycle comes between a VC and its ports.
THEOREM CrossbarHeldExactly ==
  ASSUME \A c \in Configs : Sensible(c)
  PROVE  Spec => []CrossbarExact
BY HeldExact, Invariance, PTL

-----------------------------------------------------------------------------
(***************************************************************************)
(* Owners and slots: a BufferState that is taken and sent to.              *)
(***************************************************************************)
\* x holds VC v of b, and has not sent its tail.
Owns(b, v, x) == b.inUseBy[v] = x /\ ~b.tailSent[v]

LEMMA InVcFacts ==
  /\ None \notin InVcs
  /\ \A c \in OutVcs : c[1] \in Outputs /\ c[2] \in Vcs /\ c = <<c[1], c[2]>>
  /\ \A x \in InVcs : x[1] \in Inputs /\ x[2] \in Vcs
<1>1. None \notin InVcs
  BY IQRouterAssumption
<1> QED BY <1>1 DEF InVcs, OutVcs

\* Of VC v, b is what b0 is when x holds it: x holds it already, or takes it.
Secured(b0, v, x, b) ==
  \/ Owns(b0, v, x) /\ b = b0
  \/ IsAvailableFor(b0, v) /\ b = TakeBuffer(b0, v, x)

\* The other VCs of d are owned as those of b.
OthersOwned(b, d, v) ==
  \A w \in Vcs : w # v => d.inUseBy[w] = b.inUseBy[w] /\ d.tailSent[w] = b.tailSent[w]

LEMMA SecuredFacts ==
  ASSUME NEW b0 \in BufferStatesOf(InVcs), OwnerSound(b0), NEW v \in Vcs, NEW x \in InVcs,
         NEW b, Secured(b0, v, x, b)
  PROVE  /\ b \in BufferStatesOf(InVcs) /\ b.policy = b0.policy /\ b.wait = b0.wait
         /\ b.vcOcc = b0.vcOcc /\ Owns(b, v, x) /\ OwnerSound(b) /\ OthersOwned(b0, b, v)
         /\ Sound(b0) => Sound(b) /\ (Workable(b0.policy) /\ ~b0.err => ~b.err)
         /\ \A w \in Vcs : HasSlot(b, w) <=> HasSlot(b0, w)
<1>1. CASE Owns(b0, v, x) /\ b = b0
  BY <1>1 DEF OthersOwned
<1>2. CASE IsAvailableFor(b0, v) /\ b = TakeBuffer(b0, v, x)
  <2>1. /\ b \in BufferStatesOf(InVcs) /\ b.policy = b0.policy /\ b.wait = b0.wait
        /\ b.vcOcc = b0.vcOcc /\ b.inUseBy = [b0.inUseBy EXCEPT ![v] = x]
        /\ b.tailSent = [b0.tailSent EXCEPT ![v] = FALSE]
    BY <1>2, TakeBufferEffect
  <2>2. b0.inUseBy \in [Vcs -> InVcs \cup {None}] /\ b0.tailSent \in [Vcs -> BOOLEAN]
    BY DEF BufferStatesOf
  <2>3. \A w \in Vcs : HasSlot(b, w) <=> HasSlot(b0, w)
    BY <1>2, TakeKeepsSlots
  <2>4. Sound(b0) => Sound(b) /\ (Workable(b0.policy) /\ ~b0.err => ~b.err)
    BY <1>2, TakeSound, InVcFacts DEF IsAvailableFor
  <2>5. OwnerSound(b)
    BY <2>1, <2>2 DEF OwnerSound
  <2> QED BY <2>1, <2>2, <2>3, <2>4, <2>5 DEF Owns, OthersOwned
<1> QED BY <1>1, <1>2 DEF Secured

\* x sends a flit on v.
LEMMA SentFacts ==
  ASSUME NEW b0 \in BufferStatesOf(InVcs), OwnerSound(b0), NEW v \in Vcs, NEW x \in InVcs,
         NEW b, Secured(b0, v, x, b), NEW tail \in BOOLEAN, NEW d, d = SendingFlit(b, v, tail)
  PROVE  /\ d \in BufferStatesOf(InVcs) /\ d.policy = b0.policy /\ d.wait = b0.wait
         /\ d.vcOcc = [b0.vcOcc EXCEPT ![v] = @ + 1] /\ OwnerSound(d) /\ OthersOwned(b0, d, v)
         /\ \A y \in InVcs : Owns(d, v, y) <=> y = x /\ ~tail
         /\ Sound(b0) /\ HasSlot(b0, v) => Sound(d) /\ (Workable(b0.policy) /\ ~b0.err => ~d.err)
         /\ b0.policy = "private" => \A w \in Vcs : w # v => (HasSlot(d, w) <=> HasSlot(b0, w))
<1>1. /\ b \in BufferStatesOf(InVcs) /\ b.policy = b0.policy /\ b.wait = b0.wait
      /\ b.vcOcc = b0.vcOcc /\ Owns(b, v, x) /\ OwnerSound(b) /\ OthersOwned(b0, b, v)
      /\ Sound(b0) => Sound(b) /\ (Workable(b0.policy) /\ ~b0.err => ~b.err)
      /\ \A w \in Vcs : HasSlot(b, w) <=> HasSlot(b0, w)
  BY SecuredFacts
<1>2. /\ d \in BufferStatesOf(InVcs) /\ d.policy = b.policy /\ d.wait = b.wait
      /\ d.vcOcc = [b.vcOcc EXCEPT ![v] = @ + 1]
      /\ d.tailSent = IF tail THEN [b.tailSent EXCEPT ![v] = TRUE] ELSE b.tailSent
      /\ d.inUseBy = IF tail /\ ~b.wait THEN [b.inUseBy EXCEPT ![v] = None] ELSE b.inUseBy
  BY <1>1, SendingFlitEffect
<1>3. b.inUseBy \in [Vcs -> InVcs \cup {None}] /\ b.tailSent \in [Vcs -> BOOLEAN] /\ b.vcOcc \in [Vcs -> Int]
  BY <1>1 DEF BufferStatesOf
<1>4. None \notin InVcs
  BY InVcFacts
<1>5. ASSUME Sound(b0), HasSlot(b0, v)
      PROVE  Sound(d) /\ (Workable(b0.policy) /\ ~b0.err => ~d.err)
  <2>1. v \in Taken(b)
    BY <1>1, <1>4 DEF Taken, Owns
  <2> QED BY <1>1, <1>5, <2>1, SendSlotSound
<1>6. OwnerSound(d) /\ OthersOwned(b0, d, v)
  <2>1. OthersOwned(b0, d, v)
    BY <1>1, <1>2, <1>3 DEF OthersOwned
  <2>2. OwnerSound(d)
    BY <1>1, <1>2, <1>3 DEF OwnerSound
  <2> QED BY <2>1, <2>2
<1>7. \A y \in InVcs : Owns(d, v, y) <=> y = x /\ ~tail
  BY <1>1, <1>2, <1>3, <1>4 DEF Owns
<1>8. ASSUME b0.policy = "private", NEW w \in Vcs, w # v
      PROVE  HasSlot(d, w) <=> HasSlot(b0, w)
  <2>1. d.vcOcc[w] = b0.vcOcc[w] /\ d.policy = "private"
    BY <1>1, <1>2, <1>3, <1>8
  <2> QED BY <1>8, <2>1 DEF HasSlot
<1> QED BY <1>1, <1>2, <1>5, <1>6, <1>7, <1>8

-----------------------------------------------------------------------------
(***************************************************************************)
(* The books of the next buffers: who sends on an output VC, and where its *)
(* slots are.                                                              *)
(***************************************************************************)
\* x sends a packet on output VC c.
Uses(s, x, c) == s.state[x] = "active" /\ s.out[x] = c

Owned(s) ==
  /\ s.nextBuf \in [Outputs -> BufferStatesOf(InVcs)]
  /\ \A o \in Outputs : /\ s.nextBuf[o].policy = cfg.policy /\ s.nextBuf[o].wait = cfg.wait
                        /\ OwnerSound(s.nextBuf[o])
  /\ \A c \in OutVcs, x \in InVcs : Uses(s, x, c) <=> Owns(s.nextBuf[c[1]], c[2], x)

\* The output VCs that the entries V are about to take are free, and different.
Pledged(s, V) ==
  \A x \in V : s.vcRes[x] # None =>
    /\ s.vcRes[x] \in OutVcs /\ IsAvailableFor(s.nextBuf[s.vcRes[x][1]], s.vcRes[x][2])
    /\ \A y \in V : y # x => s.vcRes[y] # s.vcRes[x]

\* The flits for VC w.
For(w) == {m \in Moving : m.vc = w}

Balanced(s) ==
  \A c \in OutVcs :
    s.nextBuf[c[1]].vcOcc[c[2]] =
      down[c] + Count(Line(s, c[1]), For(c[2])) + (IF c[2] \in s.inCredit[c[1]] THEN 1 ELSE 0)

\* x can send a flit on c.
Roomed(s, c) == HasSlot(s.nextBuf[c[1]], c[2])

\* The entries H and W that have leave to send find a slot.
Permitted(s, V, H, W) ==
  /\ \A x \in H, c \in OutVcs : Uses(s, x, c) /\ s.holdRes[x] => Roomed(s, c)
  /\ \A x \in W, c \in OutVcs : Uses(s, x, c) /\ s.swRes[x] # None => Roomed(s, c)
  /\ \A x \in W \cap V : s.swRes[x] # None /\ s.vcRes[x] # None => Roomed(s, s.vcRes[x])

Solvent(s, V, H, W) ==
  /\ \A o \in Outputs : Sound(s.nextBuf[o]) /\ ~s.nextBuf[o].err
  /\ Permitted(s, V, H, W)

\* A router whose next buffers keep their promises: two flits of a cycle do not
\* count on the same slot.
Provisioned(c) == (c.policy = "private" \/ c.outSp = 1) /\ Workable(c.policy)

Booked(s, V, H, W) ==
  /\ Owned(s) /\ Pledged(s, V) /\ Balanced(s)
  /\ Provisioned(cfg) => Solvent(s, V, H, W)

\* With what has been evaluated.
BooksExact ==
  /\ Booked(r, IF pc \in {"sw_evaluate", "update"} THEN Range(r.vcQ) ELSE {},
               IF pc = "update" THEN Range(r.holdQ) ELSE {},
               IF pc = "update" THEN Range(r.swQ) ELSE {})
  /\ down \in [OutVcs -> Nat]
  /\ r.inCredit \in [Outputs -> SUBSET Vcs]
  /\ pc # "queue" \/ ~r.active => \A o \in Outputs : r.inCredit[o] = {}
  /\ pc # "update" => \A o \in Outputs : r.crossing[o] = <<>>

LEMMA LineType ==
  ASSUME NEW s, Typed(s), NEW o \in Outputs
  PROVE  /\ Line(s, o) \in Seq(Moving)
         /\ \A w : Count(Line(s, o), For(w)) \in Nat
<1>1. s.outBuf[o] \in Seq(Moving) /\ s.crossing[o] \in Seq(Moving) /\ s.crossbar[o] \in Seq(Moving)
  BY DEF Typed
<1>2. Line(s, o) \in Seq(Moving)
  BY <1>1 DEF Line
<1> QED BY <1>2, CountType

\* Nothing is taken or sent.
LEMMA SameBooked ==
  ASSUME NEW s, NEW V, NEW H, NEW W, Booked(s, V, H, W), NEW t,
         NEW V2 \in SUBSET V, NEW H2 \in SUBSET H, NEW W2 \in SUBSET W,
         H2 \subseteq InVcs, W2 \subseteq InVcs,
         t.nextBuf = s.nextBuf, t.inCredit = s.inCredit,
         \A o \in Outputs : Line(t, o) = Line(s, o),
         \A y \in InVcs, c \in OutVcs : Uses(t, y, c) <=> Uses(s, y, c),
         V2 # {} => t.vcRes = s.vcRes, H2 # {} => t.holdRes = s.holdRes,
         W2 # {} => t.swRes = s.swRes
  PROVE  Booked(t, V2, H2, W2)
<1>1. Owned(t)
  BY DEF Booked, Owned
<1>2. Pledged(t, V2)
  BY DEF Booked, Pledged
<1>3. Balanced(t)
  BY InVcFacts DEF Booked, Balanced
<1>4. ASSUME Provisioned(cfg) PROVE Solvent(t, V2, H2, W2)
  <2>1. Solvent(s, V, H, W)
    BY <1>4 DEF Booked
  <2>2. \A c : Roomed(t, c) <=> Roomed(s, c)
    BY DEF Roomed
  <2>3. Permitted(s, V, H, W)
    BY <2>1 DEF Solvent
  <2>4. ASSUME NEW x \in H2, NEW c \in OutVcs, Uses(t, x, c), t.holdRes[x] PROVE Roomed(t, c)
    BY <2>2, <2>3, <2>4 DEF Permitted
  <2>5. ASSUME NEW x \in W2, NEW c \in OutVcs, Uses(t, x, c), t.swRes[x] # None PROVE Roomed(t, c)
    BY <2>2, <2>3, <2>5 DEF Permitted
  <2>6. ASSUME NEW x \in W2 \cap V2, t.swRes[x] # None, t.vcRes[x] # None PROVE Roomed(t, t.vcRes[x])
    BY <2>2, <2>3, <2>6 DEF Permitted
  <2>7. Permitted(t, V2, H2, W2)
    BY <2>4, <2>5, <2>6 DEF Permitted
  <2> QED BY <2>1, <2>7 DEF Solvent
<1> QED BY <1>1, <1>2, <1>3, <1>4 DEF Booked

\* What a method that is about x leaves of the books as it was.
Elsewhere(s, t, x) ==
  /\ t.outBuf = s.outBuf /\ t.crossing = s.crossing /\ t.inCredit = s.inCredit
  /\ t.vcRes = s.vcRes /\ t.holdRes = s.holdRes /\ t.swRes = s.swRes
  /\ \A y \in InVcs \ {x}, c \in OutVcs : Uses(t, y, c) <=> Uses(s, y, c)

LEMMA OnlyElsewhere ==
  ASSUME NEW s, NEW t, NEW x, Only(s, t, x)
  PROVE  Elsewhere(s, t, x)
<1>1. /\ t.outBuf = s.outBuf /\ t.crossing = s.crossing /\ t.inCredit = s.inCredit
      /\ t.vcRes = s.vcRes /\ t.holdRes = s.holdRes /\ t.swRes = s.swRes
  BY DEF Only, Keeps, Moved, Fields
<1>2. ASSUME NEW y \in InVcs \ {x}, NEW c PROVE Uses(t, y, c) <=> Uses(s, y, c)
  BY DEF Only, Same, Uses
<1> QED BY <1>1, <1>2 DEF Elsewhere

\* The buffer of output VC c becomes b, in which x has c if on, and no one else.
Moves(s, t, x, c, b, on) ==
  /\ c \in OutVcs /\ x \in InVcs /\ b \in BufferStatesOf(InVcs)
  /\ b.policy = s.nextBuf[c[1]].policy /\ b.wait = s.nextBuf[c[1]].wait /\ OwnerSound(b)
  /\ OthersOwned(s.nextBuf[c[1]], b, c[2])
  /\ \A y \in InVcs : Owns(b, c[2], y) <=> y = x /\ on
  /\ \A y \in InVcs \ {x} : ~Owns(s.nextBuf[c[1]], c[2], y)
  /\ \A d \in OutVcs \ {c} : ~Uses(s, x, d) /\ ~Uses(t, x, d)
  /\ Uses(t, x, c) <=> on
  /\ \A y \in InVcs \ {x}, d \in OutVcs : Uses(t, y, d) <=> Uses(s, y, d)
  /\ Put(s.nextBuf, t.nextBuf, c[1], b)

LEMMA MovedBuffers ==
  ASSUME NEW s, s.nextBuf \in [Outputs -> BufferStatesOf(InVcs)],
         NEW t, NEW x, NEW c, NEW b, NEW on, Moves(s, t, x, c, b, on)
  PROVE  /\ t.nextBuf \in [Outputs -> BufferStatesOf(InVcs)]
         /\ t.nextBuf[c[1]] = b
         /\ \A o \in Outputs : o # c[1] => t.nextBuf[o] = s.nextBuf[o]
<1> DEFINE g == s.nextBuf
           h == t.nextBuf
           B == BufferStatesOf(InVcs)
           o == c[1]
<1>1. g \in [Outputs -> B] /\ h = [g EXCEPT ![o] = b] /\ b \in B /\ o \in Outputs
  BY InVcFacts DEF Moves, Put
<1> HIDE DEF g, h, B, o
<1>2. h \in [Outputs -> B] /\ h[o] = b /\ \A n \in Outputs : n # o => h[n] = g[n]
  BY <1>1
<1> QED BY <1>2 DEF g, h, B, o

\* Of another output VC it says the same.
LEMMA MovedElsewhere ==
  ASSUME NEW s, s.nextBuf \in [Outputs -> BufferStatesOf(InVcs)],
         NEW t, NEW x, NEW c, NEW b, NEW on, Moves(s, t, x, c, b, on),
         NEW d \in OutVcs, d # c
  PROVE  /\ \A y : Owns(t.nextBuf[d[1]], d[2], y) <=> Owns(s.nextBuf[d[1]], d[2], y)
         /\ IsAvailableFor(t.nextBuf[d[1]], d[2]) <=> IsAvailableFor(s.nextBuf[d[1]], d[2])
<1>1. /\ t.nextBuf[c[1]] = b
      /\ \A o \in Outputs : o # c[1] => t.nextBuf[o] = s.nextBuf[o]
  BY MovedBuffers
<1>2. d[1] \in Outputs /\ d[2] \in Vcs /\ c \in OutVcs /\ OthersOwned(s.nextBuf[c[1]], b, c[2])
  BY InVcFacts DEF Moves
<1>3. CASE d[1] # c[1]
  BY <1>1, <1>2, <1>3
<1>4. CASE d[1] = c[1]
  <2>1. d[2] # c[2]
    BY <1>2, <1>4, InVcFacts
  <2> DEFINE b0 == s.nextBuf[c[1]]
  <2>2. b.inUseBy[d[2]] = b0.inUseBy[d[2]] /\ b.tailSent[d[2]] = b0.tailSent[d[2]]
    BY <1>2, <2>1 DEF OthersOwned
  <2>3. t.nextBuf[d[1]] = b /\ s.nextBuf[d[1]] = b0
    BY <1>1, <1>4
  <2> HIDE DEF b0
  <2> QED BY <2>2, <2>3 DEF Owns, IsAvailableFor
<1> QED BY <1>3, <1>4

LEMMA MovedOwned ==
  ASSUME NEW s, Owned(s), NEW t, NEW x, NEW c, NEW b, NEW on, Moves(s, t, x, c, b, on)
  PROVE  Owned(t)
<1>1. s.nextBuf \in [Outputs -> BufferStatesOf(InVcs)]
  BY DEF Owned
<1>2. /\ t.nextBuf \in [Outputs -> BufferStatesOf(InVcs)]
      /\ t.nextBuf[c[1]] = b
      /\ \A o \in Outputs : o # c[1] => t.nextBuf[o] = s.nextBuf[o]
  BY <1>1, MovedBuffers
<1>3. ASSUME NEW o \in Outputs
      PROVE  /\ t.nextBuf[o].policy = cfg.policy /\ t.nextBuf[o].wait = cfg.wait
             /\ OwnerSound(t.nextBuf[o])
  <2>1. s.nextBuf[o].policy = cfg.policy /\ s.nextBuf[o].wait = cfg.wait /\ OwnerSound(s.nextBuf[o])
    BY DEF Owned
  <2>2. CASE o # c[1]
    BY <1>2, <2>1, <2>2
  <2>3. CASE o = c[1]
    <3>1. b.policy = s.nextBuf[o].policy /\ b.wait = s.nextBuf[o].wait /\ OwnerSound(b)
      BY <2>3 DEF Moves
    <3> QED BY <1>2, <2>1, <2>3, <3>1
  <2> QED BY <2>2, <2>3
<1>4. ASSUME NEW d \in OutVcs, NEW y \in InVcs
      PROVE  Uses(t, y, d) <=> Owns(t.nextBuf[d[1]], d[2], y)
  <2>1. CASE d = c
    <3>1. Owns(b, c[2], y) <=> y = x /\ on
      BY DEF Moves
    <3>2. CASE y = x
      <4>1. Uses(t, x, c) <=> on
        BY DEF Moves
      <4> QED BY <1>2, <2>1, <3>1, <3>2, <4>1
    <3>3. CASE y # x
      <4>1. ~Owns(s.nextBuf[c[1]], c[2], y) /\ (Uses(t, y, c) <=> Uses(s, y, c))
        BY <2>1, <3>3 DEF Moves
      <4>2. Uses(s, y, c) <=> Owns(s.nextBuf[c[1]], c[2], y)
        BY <2>1 DEF Owned
      <4> QED BY <1>2, <2>1, <3>1, <3>3, <4>1, <4>2
    <3> QED BY <3>2, <3>3
  <2>2. CASE d # c
    <3>1. Owns(t.nextBuf[d[1]], d[2], y) <=> Owns(s.nextBuf[d[1]], d[2], y)
      BY <1>1, <2>2, MovedElsewhere
    <3>2. Uses(s, y, d) <=> Owns(s.nextBuf[d[1]], d[2], y)
      BY DEF Owned
    <3>3. Uses(t, y, d) <=> Uses(s, y, d)
      BY <2>2 DEF Moves
    <3> QED BY <3>1, <3>2, <3>3
  <2> QED BY <2>1, <2>2
<1> QED BY <1>2, <1>3, <1>4 DEF Owned

\* The buffer d that x leaves of the output VC it holds or takes.
LEMMA SecuredMoves ==
  ASSUME NEW s, NEW t, NEW x \in InVcs, NEW c \in OutVcs, NEW b0, b0 = s.nextBuf[c[1]],
         NEW b, Secured(b0, c[2], x, b), NEW d \in BufferStatesOf(InVcs), NEW on,
         d.policy = b0.policy, d.wait = b0.wait, OwnerSound(d), OthersOwned(b0, d, c[2]),
         \A y \in InVcs : Owns(d, c[2], y) <=> y = x /\ on,
         \A e \in OutVcs \ {c} : ~Uses(s, x, e) /\ ~Uses(t, x, e),
         Uses(t, x, c) <=> on, Elsewhere(s, t, x), Put(s.nextBuf, t.nextBuf, c[1], d)
  PROVE  Moves(s, t, x, c, d, on)
<1>1. \A y \in InVcs \ {x} : ~Owns(b0, c[2], y)
  BY InVcFacts DEF Secured, Owns, IsAvailableFor
<1>2. \A y \in InVcs \ {x}, e \in OutVcs : Uses(t, y, e) <=> Uses(s, y, e)
  BY DEF Elsewhere
<1> QED BY ONLY <1>1, <1>2, x \in InVcs, c \in OutVcs, b0 = s.nextBuf[c[1]],
     d \in BufferStatesOf(InVcs), d.policy = b0.policy, d.wait = b0.wait,
     OwnerSound(d), OthersOwned(b0, d, c[2]),
     \A y \in InVcs : Owns(d, c[2], y) <=> y = x /\ on,
     \A e \in OutVcs \ {c} : ~Uses(s, x, e) /\ ~Uses(t, x, e),
     Uses(t, x, c) <=> on, Put(s.nextBuf, t.nextBuf, c[1], d) DEF Moves

\* The pledges that do not ask for c stand.
LEMMA MovedPledged ==
  ASSUME NEW s, Owned(s), NEW t, NEW x, NEW c, NEW b, NEW on, Moves(s, t, x, c, b, on),
         NEW V, NEW N \in SUBSET V, Pledged(s, V), N # {} => t.vcRes = s.vcRes,
         \A y \in N : s.vcRes[y] # c
  PROVE  Pledged(t, N)
<1>1. s.nextBuf \in [Outputs -> BufferStatesOf(InVcs)]
  BY DEF Owned
<1>2. ASSUME NEW y \in N, t.vcRes[y] # None
      PROVE  /\ t.vcRes[y] \in OutVcs /\ IsAvailableFor(t.nextBuf[t.vcRes[y][1]], t.vcRes[y][2])
             /\ \A z \in N : z # y => t.vcRes[z] # t.vcRes[y]
  <2>1. /\ s.vcRes[y] \in OutVcs /\ IsAvailableFor(s.nextBuf[s.vcRes[y][1]], s.vcRes[y][2])
        /\ \A z \in V : z # y => s.vcRes[z] # s.vcRes[y]
    BY <1>2 DEF Pledged
  <2> DEFINE d == s.vcRes[y]
  <2>2. d \in OutVcs /\ d # c /\ IsAvailableFor(s.nextBuf[d[1]], d[2])
    BY <2>1
  <2>3. t.vcRes = s.vcRes
    BY <1>2
  <2> HIDE DEF d
  <2>4. IsAvailableFor(t.nextBuf[d[1]], d[2])
    BY <1>1, <2>2, MovedElsewhere
  <2> QED BY <2>1, <2>3, <2>4 DEF d
<1> QED BY <1>2 DEF Pledged

\* With the slots for what is sent, the buffers keep their promises.
LEMMA MovedSound ==
  ASSUME NEW s, Owned(s), NEW t, NEW x, NEW c, NEW b, NEW on, Moves(s, t, x, c, b, on),
         \A o \in Outputs : Sound(s.nextBuf[o]) /\ ~s.nextBuf[o].err, Sound(b), ~b.err
  PROVE  \A o \in Outputs : Sound(t.nextBuf[o]) /\ ~t.nextBuf[o].err
<1>1. s.nextBuf \in [Outputs -> BufferStatesOf(InVcs)]
  BY DEF Owned
<1>2. /\ t.nextBuf[c[1]] = b
      /\ \A o \in Outputs : o # c[1] => t.nextBuf[o] = s.nextBuf[o]
  BY <1>1, MovedBuffers
<1>3. ASSUME NEW o \in Outputs PROVE Sound(t.nextBuf[o]) /\ ~t.nextBuf[o].err
  <2>1. CASE o = c[1]
    BY <1>2, <2>1
  <2>2. CASE o # c[1]
    BY <1>2, <2>2
  <2> QED BY <2>1, <2>2
<1> QED BY <1>3

\* x takes the output VC it has been granted.
LEMMA TakeBooked ==
  ASSUME NEW s, NEW V, NEW H, NEW W, Booked(s, V, H, W), V \subseteq InVcs,
         NEW x \in V, x \notin H, NEW t, Elsewhere(s, t, x),
         NEW c, c = s.vcRes[x], c # None, \A d \in OutVcs : ~Uses(s, x, d) /\ (Uses(t, x, d) <=> d = c),
         t.crossbar = s.crossbar,
         H \subseteq InVcs, W \subseteq InVcs,
         Put(s.nextBuf, t.nextBuf, c[1], TakeBuffer(s.nextBuf[c[1]], c[2], x))
  PROVE  Booked(t, V \ {x}, H, W)
<1> DEFINE b0 == s.nextBuf[c[1]]
           b == TakeBuffer(b0, c[2], x)
           N == V \ {x}
           on == TRUE
<1>1. /\ Owned(s) /\ Pledged(s, V) /\ Balanced(s) /\ (Provisioned(cfg) => Solvent(s, V, H, W))
      /\ x \in InVcs
  BY DEF Booked
<1>2. c \in OutVcs /\ IsAvailableFor(b0, c[2]) /\ c[1] \in Outputs /\ c[2] \in Vcs
  BY <1>1, InVcFacts DEF Pledged
<1>3. /\ b0 \in BufferStatesOf(InVcs) /\ OwnerSound(b0) /\ b0.policy = cfg.policy
      /\ s.nextBuf \in [Outputs -> BufferStatesOf(InVcs)]
  BY <1>1, <1>2 DEF Owned
<1>4. Secured(b0, c[2], x, b)
  BY <1>2 DEF Secured
<1>5. Put(s.nextBuf, t.nextBuf, c[1], b) /\ b0 = s.nextBuf[c[1]]
  OBVIOUS
<1> HIDE DEF b, b0
<1>6. /\ b \in BufferStatesOf(InVcs) /\ b.policy = b0.policy /\ b.wait = b0.wait
      /\ b.vcOcc = b0.vcOcc /\ Owns(b, c[2], x) /\ OwnerSound(b) /\ OthersOwned(b0, b, c[2])
      /\ Sound(b0) => Sound(b) /\ (Workable(b0.policy) /\ ~b0.err => ~b.err)
      /\ \A w \in Vcs : HasSlot(b, w) <=> HasSlot(b0, w)
  BY <1>1, <1>2, <1>3, <1>4, SecuredFacts
<1>7. Moves(s, t, x, c, b, on)
  <2>1. \A y \in InVcs : Owns(b, c[2], y) <=> y = x /\ on
    BY <1>6 DEF Owns
  <2>2. /\ \A d \in OutVcs \ {c} : ~Uses(s, x, d) /\ ~Uses(t, x, d)
        /\ Uses(t, x, c) <=> on
    BY <1>2
  <2>3. b \in BufferStatesOf(InVcs) /\ b.policy = b0.policy /\ b.wait = b0.wait /\ OwnerSound(b) /\ OthersOwned(b0, b, c[2])
    BY <1>6
  <2>4. c \in OutVcs /\ x \in InVcs
    BY <1>1, <1>2
  <2>5. Elsewhere(s, t, x)
    OBVIOUS
  <2> HIDE DEF on
  <2> QED BY ONLY <1>4, <1>5, <2>1, <2>2, <2>3, <2>4, <2>5, SecuredMoves
<1> HIDE DEF on
<1>8. /\ t.nextBuf[c[1]] = b
      /\ \A o \in Outputs : o # c[1] => t.nextBuf[o] = s.nextBuf[o]
  <2>1. s.nextBuf \in [Outputs -> BufferStatesOf(InVcs)]
    BY <1>3
  <2> QED BY ONLY <1>7, <2>1, MovedBuffers
<1>9. Owned(t)
  BY <1>1, <1>7, MovedOwned
<1>10. t.vcRes = s.vcRes /\ t.holdRes = s.holdRes /\ t.swRes = s.swRes
  BY DEF Elsewhere
<1>11. Pledged(t, N)
  <2>1. \A y \in N : s.vcRes[y] # c
    BY <1>1, <1>2, InVcFacts DEF Pledged
  <2>2. N \in SUBSET V
    OBVIOUS
  <2> HIDE DEF N
  <2>3. Owned(s) /\ Pledged(s, V) /\ t.vcRes = s.vcRes
    BY <1>1, <1>10
  <2> QED BY ONLY <1>7, <2>1, <2>2, <2>3, MovedPledged
<1>12. Balanced(t)
  <2>1. \A o \in Outputs : Line(t, o) = Line(s, o)
    BY DEF Line, Elsewhere
  <2>2. t.inCredit = s.inCredit
    BY DEF Elsewhere
  <2>3. ASSUME NEW o \in Outputs PROVE t.nextBuf[o].vcOcc = s.nextBuf[o].vcOcc
    <3>1. CASE o = c[1]
      BY <1>5, <1>6, <1>8, <3>1
    <3>2. CASE o # c[1]
      BY <1>8, <3>2
    <3> QED BY <3>1, <3>2
  <2> QED BY <1>1, <2>1, <2>2, <2>3, InVcFacts DEF Balanced
<1>13. ASSUME Provisioned(cfg) PROVE Solvent(t, N, H, W)
  <2>1. Solvent(s, V, H, W)
    BY <1>1, <1>13
  <2>2. ASSUME NEW d \in OutVcs PROVE Roomed(t, d) <=> Roomed(s, d)
    <3>1. d[1] \in Outputs /\ d[2] \in Vcs
      BY InVcFacts
    <3>2. CASE d[1] = c[1]
      <4>1. HasSlot(b, d[2]) <=> HasSlot(b0, d[2])
        BY <1>6, <3>1
      <4> QED BY <1>5, <1>8, <3>2, <4>1 DEF Roomed
    <3>3. CASE d[1] # c[1]
      BY <1>8, <3>1, <3>3 DEF Roomed
    <3> QED BY <3>2, <3>3
  <2>3. Permitted(s, V, H, W)
    BY <2>1 DEF Solvent
  <2>4. \A y \in InVcs, d \in OutVcs : y # x => (Uses(t, y, d) <=> Uses(s, y, d))
    BY DEF Elsewhere
  <2>5. ASSUME NEW y \in H, NEW d \in OutVcs, Uses(t, y, d), t.holdRes[y] PROVE Roomed(t, d)
    BY <1>10, <2>2, <2>3, <2>4, <2>5 DEF Permitted
  <2>6. ASSUME NEW y \in W, NEW d \in OutVcs, Uses(t, y, d), t.swRes[y] # None PROVE Roomed(t, d)
    <3>1. CASE y # x
      <4>1. Uses(s, y, d) /\ s.swRes[y] # None
        BY <1>10, <2>4, <2>6, <3>1
      <4>2. Roomed(s, d)
        BY <2>3, <4>1 DEF Permitted
      <4> QED BY <2>2, <4>2
    <3>2. CASE y = x
      <4>1. d = c /\ y \in W \cap V
        BY <2>6, <3>2
      <4>2. Roomed(s, c)
        BY <1>10, <2>3, <2>6, <3>2, <4>1 DEF Permitted
      <4> QED BY <2>2, <4>1, <4>2
    <3> QED BY <3>1, <3>2
  <2>7. ASSUME NEW y \in W \cap N, t.swRes[y] # None, t.vcRes[y] # None PROVE Roomed(t, t.vcRes[y])
    <3>1. y \in V /\ y \in W \cap V
      BY <2>7
    <3>2. s.vcRes[y] \in OutVcs
      BY <1>1, <1>10, <2>7, <3>1 DEF Pledged
    <3>3. Roomed(s, s.vcRes[y])
      BY <1>10, <2>3, <2>7, <3>1 DEF Permitted
    <3> QED BY <1>10, <2>2, <3>2, <3>3
  <2>8. Permitted(t, N, H, W)
    <3> HIDE DEF N
    <3> QED BY <2>5, <2>6, <2>7 DEF Permitted
  <2>9. \A o \in Outputs : Sound(s.nextBuf[o]) /\ ~s.nextBuf[o].err
    BY <2>1 DEF Solvent
  <2>10. Sound(b) /\ ~b.err
    <3>1. Sound(b0) /\ ~b0.err /\ Workable(b0.policy)
      BY <1>2, <1>3, <1>5, <1>13, <2>9 DEF Provisioned
    <3> QED BY <1>6, <3>1
  <2>11. \A o \in Outputs : Sound(t.nextBuf[o]) /\ ~t.nextBuf[o].err
    BY <1>1, <1>7, <2>9, <2>10, MovedSound
  <2> HIDE DEF N
  <2> QED BY <2>8, <2>11 DEF Solvent
<1> HIDE DEF N
<1>14. Booked(t, N, H, W)
  BY <1>9, <1>11, <1>12, <1>13 DEF Booked
<1> QED BY <1>14 DEF N

-----------------------------------------------------------------------------
(***************************************************************************)
(* A flit is sent.                                                         *)
(***************************************************************************)
\* The flit at the front of x.
Carried(s, x, c) == [vc |-> c[2], flit |-> FrontFlit(s, x)]

LEMMA CarriedType ==
  ASSUME NEW s, Typed(s), NEW x \in InVcs, s.fifo[x] # <<>>, NEW c \in OutVcs
  PROVE  Carried(s, x, c) \in Moving /\ \A w : Carried(s, x, c) \in For(w) <=> w = c[2]
<1>1. FrontFlit(s, x) \in Flit
  BY DEF Typed, FrontFlit
<1>2. c[2] \in Vcs
  BY InVcFacts
<1>3. Carried(s, x, c) \in Moving /\ Carried(s, x, c).vc = c[2]
  BY <1>1, <1>2 DEF Carried, Moving
<1> QED BY <1>3 DEF For

\* It joins the line of its output.
LEMMA SendLine ==
  ASSUME NEW s, Typed(s), NEW t, t.outBuf = s.outBuf, t.crossing = s.crossing,
         NEW o \in Outputs, NEW m \in Moving, Put(s.crossbar, t.crossbar, o, Append(s.crossbar[o], m))
  PROVE  /\ \A n \in Outputs : n # o => Line(t, n) = Line(s, n)
         /\ \A w : Count(Line(t, o), For(w)) =
                     Count(Line(s, o), For(w)) + (IF m \in For(w) THEN 1 ELSE 0)
<1> DEFINE a == s.outBuf[o] \o s.crossing[o]
           g == s.crossbar[o]
<1>1. a \in Seq(Moving) /\ g \in Seq(Moving) /\ DOMAIN s.crossbar = Outputs
      /\ s.crossbar = [n \in Outputs |-> s.crossbar[n]]
  BY DEF Typed
<1>2. t.crossbar[o] = Append(g, m) /\ \A n \in Outputs : n # o => t.crossbar[n] = s.crossbar[n]
  BY <1>1 DEF Put
<1>3. \A n \in Outputs : n # o => Line(t, n) = Line(s, n)
  BY <1>2 DEF Line
<1>4. Line(s, o) = a \o g /\ Line(t, o) = a \o Append(g, m)
  BY <1>2 DEF Line
<1> HIDE DEF a, g
<1>5. ASSUME NEW w
      PROVE  Count(Line(t, o), For(w)) =
               Count(Line(s, o), For(w)) + (IF m \in For(w) THEN 1 ELSE 0)
  <2> DEFINE M == For(w)
             e == Append(g, m)
  <2>1. e \in Seq(Moving)
    BY <1>1
  <2>2. Count(e, M) = Count(g, M) + (IF m \in M THEN 1 ELSE 0)
    <3> HIDE DEF M
    <3> QED BY <1>1, CountAppend
  <2>3. Count(a \o g, M) = Count(a, M) + Count(g, M)
    <3> HIDE DEF M
    <3> QED BY <1>1, CountConcat
  <2>4. Count(a \o e, M) = Count(a, M) + Count(e, M)
    <3> HIDE DEF M, e
    <3> QED BY <1>1, <2>1, CountConcat
  <2>5. Count(a, M) \in Nat /\ Count(g, M) \in Nat
    <3> HIDE DEF M
    <3> QED BY <1>1, CountType
  <2>6. Line(s, o) = a \o g /\ Line(t, o) = a \o e
    BY <1>4
  <2> HIDE DEF M, e
  <2>7. Count(a \o e, M) = Count(a \o g, M) + (IF m \in M THEN 1 ELSE 0)
    <3> DEFINE i == Count(a, M)
               j == Count(g, M)
               k == IF m \in M THEN 1 ELSE 0
    <3>1. i \in Nat /\ j \in Nat /\ k \in Nat
      BY <2>5
    <3>2. Count(a \o e, M) = i + (j + k) /\ Count(a \o g, M) = i + j
      BY <2>2, <2>3, <2>4
    <3> HIDE DEF i, j, k
    <3>3. Count(a \o e, M) = Count(a \o g, M) + k
      BY <3>1, <3>2
    <3> QED BY <3>3 DEF k
  <2> QED BY <2>6, <2>7 DEF M
<1> QED BY <1>3, <1>5

\* Nobody else at the output of c counts on the slot that a flit on c takes.
Spared(s, c, H, W) ==
  \/ cfg.policy = "private"
  \/ /\ \A y \in H, d \in OutVcs : Uses(s, y, d) /\ s.holdRes[y] => d[1] # c[1]
     /\ \A y \in W, d \in OutVcs : Uses(s, y, d) /\ s.swRes[y] # None => d[1] # c[1]

\* What sending on c does to the buffers.
LEMMA SendMoves ==
  ASSUME NEW s, Typed(s), Owned(s), NEW x \in InVcs, NEW t, Elsewhere(s, t, x),
         NEW p, NEW c, NEW b, Sends(s, t, x, p, c, b), Secured(s.nextBuf[c[1]], c[2], x, b),
         \A d \in OutVcs \ {c} : ~Uses(s, x, d)
  PROVE  \E d, on :
           /\ Moves(s, t, x, c, d, on) /\ c \in OutVcs
           /\ d.vcOcc = [s.nextBuf[c[1]].vcOcc EXCEPT ![c[2]] = @ + 1]
           /\ Sound(s.nextBuf[c[1]]) /\ Roomed(s, c) =>
                Sound(d) /\ (Workable(cfg.policy) /\ ~s.nextBuf[c[1]].err => ~d.err)
           /\ cfg.policy = "private" =>
                \A w \in Vcs : w # c[2] => (HasSlot(d, w) <=> HasSlot(s.nextBuf[c[1]], w))
<1> DEFINE b0 == s.nextBuf[c[1]]
           tail == IsTail(FrontFlit(s, x))
           d == SendingFlit(b, c[2], tail)
           on == ~tail
<1>1. /\ c \in OutVcs /\ c[1] \in Outputs /\ c[2] \in Vcs
      /\ t.out[x] = c /\ (t.state[x] = "active" <=> on)
      /\ Put(s.nextBuf, t.nextBuf, c[1], d)
  BY InVcFacts DEF Sends
<1>2. b0 \in BufferStatesOf(InVcs) /\ OwnerSound(b0) /\ b0.policy = cfg.policy
  BY <1>1 DEF Owned
<1>3. Secured(b0, c[2], x, b) /\ b0 = s.nextBuf[c[1]]
  OBVIOUS
<1>4. tail \in BOOLEAN /\ (on <=> ~tail) /\ d = SendingFlit(b, c[2], tail)
  BY DEF IsTail
<1>5. /\ \A e \in OutVcs \ {c} : ~Uses(s, x, e) /\ ~Uses(t, x, e)
      /\ Uses(t, x, c) <=> on
  BY <1>1 DEF Uses
<1> HIDE DEF b0, tail, d, on
<1>6. /\ d \in BufferStatesOf(InVcs) /\ d.policy = b0.policy /\ d.wait = b0.wait
      /\ d.vcOcc = [b0.vcOcc EXCEPT ![c[2]] = @ + 1] /\ OwnerSound(d) /\ OthersOwned(b0, d, c[2])
      /\ \A y \in InVcs : Owns(d, c[2], y) <=> y = x /\ ~tail
      /\ Sound(b0) /\ HasSlot(b0, c[2]) => Sound(d) /\ (Workable(b0.policy) /\ ~b0.err => ~d.err)
      /\ b0.policy = "private" => \A w \in Vcs : w # c[2] => (HasSlot(d, w) <=> HasSlot(b0, w))
  BY ONLY <1>1, <1>2, <1>3, <1>4, x \in InVcs, SentFacts
<1>7. Moves(s, t, x, c, d, on)
  <2>1. \A y \in InVcs : Owns(d, c[2], y) <=> y = x /\ on
    BY <1>4, <1>6
  <2>2. /\ d \in BufferStatesOf(InVcs) /\ d.policy = b0.policy /\ d.wait = b0.wait
        /\ OwnerSound(d) /\ OthersOwned(b0, d, c[2])
    BY <1>6
  <2> QED BY ONLY <1>1, <1>3, <1>5, <2>1, <2>2, x \in InVcs, Elsewhere(s, t, x), SecuredMoves
<1>8. Roomed(s, c) => HasSlot(b0, c[2])
  BY <1>3 DEF Roomed
<1>9. /\ d.vcOcc = [s.nextBuf[c[1]].vcOcc EXCEPT ![c[2]] = @ + 1]
      /\ Sound(s.nextBuf[c[1]]) /\ Roomed(s, c) =>
           Sound(d) /\ (Workable(cfg.policy) /\ ~s.nextBuf[c[1]].err => ~d.err)
      /\ cfg.policy = "private" =>
           \A w \in Vcs : w # c[2] => (HasSlot(d, w) <=> HasSlot(s.nextBuf[c[1]], w))
  BY <1>2, <1>3, <1>6, <1>8
<1> QED BY <1>1, <1>7, <1>9

\* The occupancies still are what is on the way and downstream.
LEMMA SendBalanced ==
  ASSUME NEW s, Typed(s), Owned(s), Balanced(s), down \in [OutVcs -> Nat],
         NEW x \in InVcs, NEW t, Elsewhere(s, t, x),
         NEW p, NEW c, NEW b, Sends(s, t, x, p, c, b), NEW d, NEW on, Moves(s, t, x, c, d, on),
         d.vcOcc = [s.nextBuf[c[1]].vcOcc EXCEPT ![c[2]] = @ + 1]
  PROVE  Balanced(t)
<1> DEFINE m == Carried(s, x, c)
<1>1. c \in OutVcs /\ c[1] \in Outputs /\ c[2] \in Vcs
  BY InVcFacts DEF Sends
<1>2. m \in Moving /\ \A w : m \in For(w) <=> w = c[2]
  BY <1>1, CarriedType DEF Sends
<1>3. Put(s.crossbar, t.crossbar, c[1], Append(s.crossbar[c[1]], m))
  BY DEF Sends, Carried
<1> HIDE DEF m
<1>4. /\ \A n \in Outputs : n # c[1] => Line(t, n) = Line(s, n)
      /\ \A w : Count(Line(t, c[1]), For(w)) =
                  Count(Line(s, c[1]), For(w)) + (IF m \in For(w) THEN 1 ELSE 0)
  <2>1. t.outBuf = s.outBuf /\ t.crossing = s.crossing
    BY DEF Elsewhere
  <2> QED BY <1>1, <1>2, <1>3, <2>1, SendLine
<1>5. s.nextBuf \in [Outputs -> BufferStatesOf(InVcs)]
  BY DEF Owned
<1>6. t.nextBuf[c[1]] = d /\ \A o \in Outputs : o # c[1] => t.nextBuf[o] = s.nextBuf[o]
  BY <1>5, MovedBuffers
<1>7. t.inCredit = s.inCredit
  BY DEF Elsewhere
<1>8. ASSUME NEW e \in OutVcs
      PROVE  t.nextBuf[e[1]].vcOcc[e[2]] = down[e] + Count(Line(t, e[1]), For(e[2]))
                                           + (IF e[2] \in t.inCredit[e[1]] THEN 1 ELSE 0)
  <2>1. e[1] \in Outputs /\ e[2] \in Vcs /\ e = <<e[1], e[2]>> /\ c = <<c[1], c[2]>>
    BY <1>1, InVcFacts
  <2>2. s.nextBuf[e[1]].vcOcc[e[2]] = down[e] + Count(Line(s, e[1]), For(e[2]))
                                      + (IF e[2] \in s.inCredit[e[1]] THEN 1 ELSE 0)
    BY DEF Balanced
  <2>3. CASE e[1] # c[1]
    BY <1>4, <1>6, <1>7, <2>1, <2>2, <2>3
  <2>4. CASE e[1] = c[1]
    <3>1. s.nextBuf[c[1]].vcOcc \in [Vcs -> Int]
      BY <1>1, <1>5 DEF BufferStatesOf
    <3>2. t.nextBuf[e[1]].vcOcc = d.vcOcc
      BY <1>6, <2>4
    <3> DEFINE g == s.nextBuf[c[1]].vcOcc
               i == down[e]
               j == Count(Line(s, c[1]), For(e[2]))
               l == Count(Line(t, c[1]), For(e[2]))
               k == IF e[2] \in s.inCredit[c[1]] THEN 1 ELSE 0
    <3>3. i \in Nat /\ j \in Nat /\ k \in Nat
      BY <1>1, LineType
    <3>4. g[e[2]] = i + j + k
      BY <2>2, <2>4
    <3>5. l = j + (IF e[2] = c[2] THEN 1 ELSE 0)
      BY <1>2, <1>4
    <3>6. d.vcOcc = [g EXCEPT ![c[2]] = @ + 1] /\ g \in [Vcs -> Int]
      BY <3>1
    <3> HIDE DEF g, i, j, k, l
    <3>7. d.vcOcc[e[2]] = i + l + k
      <4> DEFINE n == d.vcOcc[e[2]]
      <4>1. CASE e[2] = c[2]
        <5>1. n = g[e[2]] + 1
          BY <2>1, <3>6, <4>1
        <5>2. l = j + 1
          BY <3>5, <4>1
        <5> HIDE DEF n
        <5>3. n = i + l + k
          BY <3>3, <3>4, <5>1, <5>2
        <5> QED BY <5>3 DEF n
      <4>2. CASE e[2] # c[2]
        <5>1. n = g[e[2]]
          BY <2>1, <3>6, <4>2
        <5>2. l = j
          BY <3>3, <3>5, <4>2
        <5> HIDE DEF n
        <5>3. n = i + l + k
          BY <3>4, <5>1, <5>2
        <5> QED BY <5>3 DEF n
      <4> QED BY <4>1, <4>2
    <3> QED BY <1>7, <2>4, <3>2, <3>7 DEF i, l, k
  <2> QED BY <2>3, <2>4
<1> QED BY <1>8 DEF Balanced

\* An entry that is not x finds the slot it counts on.
LEMMA SparedRoom ==
  ASSUME NEW s, Owned(s), NEW t, NEW x, NEW c, NEW d, NEW on, Moves(s, t, x, c, d, on),
         cfg.policy = "private" =>
           \A w \in Vcs : w # c[2] => (HasSlot(d, w) <=> HasSlot(s.nextBuf[c[1]], w)),
         NEW y \in InVcs \ {x}, NEW e \in OutVcs, Uses(t, y, e), Roomed(s, e),
         cfg.policy = "private" \/ e[1] # c[1]
  PROVE  Roomed(t, e)
<1>1. s.nextBuf \in [Outputs -> BufferStatesOf(InVcs)]
  BY DEF Owned
<1>2. t.nextBuf[c[1]] = d /\ \A o \in Outputs : o # c[1] => t.nextBuf[o] = s.nextBuf[o]
  BY <1>1, MovedBuffers
<1>3. e[1] \in Outputs /\ e[2] \in Vcs /\ e = <<e[1], e[2]>>
  BY InVcFacts
<1>4. CASE e[1] # c[1]
  BY <1>2, <1>3, <1>4 DEF Roomed
<1>5. CASE e[1] = c[1]
  <2>1. Uses(s, y, e) /\ c \in OutVcs /\ ~Owns(s.nextBuf[c[1]], c[2], y)
    BY DEF Moves
  <2>2. Owns(s.nextBuf[e[1]], e[2], y)
    BY <2>1 DEF Owned
  <2>3. e[2] # c[2]
    BY <1>5, <2>1, <2>2
  <2>4. HasSlot(s.nextBuf[c[1]], e[2])
    BY <1>5 DEF Roomed
  <2>5. HasSlot(d, e[2])
    BY <1>3, <1>5, <2>3, <2>4
  <2> QED BY <1>2, <1>5, <2>5 DEF Roomed
<1> QED BY <1>4, <1>5

LEMMA SendSolvent ==
  ASSUME NEW s, Owned(s), NEW H \in SUBSET InVcs, NEW W \in SUBSET InVcs, NEW N, N = {},
         Solvent(s, N, H, W),
         NEW t, NEW x, NEW c, NEW d, NEW on, Moves(s, t, x, c, d, on), Elsewhere(s, t, x),
         cfg.policy = "private" =>
           \A w \in Vcs : w # c[2] => (HasSlot(d, w) <=> HasSlot(s.nextBuf[c[1]], w)),
         Sound(d), ~d.err,
         NEW H2 \in SUBSET H, NEW W2 \in SUBSET W, x \notin H2, x \notin W2, Spared(s, c, H2, W2)
  PROVE  Solvent(t, N, H2, W2)
<1>1. \A o \in Outputs : Sound(t.nextBuf[o]) /\ ~t.nextBuf[o].err
  <2>1. \A o \in Outputs : Sound(s.nextBuf[o]) /\ ~s.nextBuf[o].err
    BY DEF Solvent
  <2> QED BY ONLY <2>1, Owned(s), Moves(s, t, x, c, d, on), Sound(d), ~d.err, MovedSound
<1>2. Permitted(s, N, H, W)
  BY DEF Solvent
<1>3. t.holdRes = s.holdRes /\ t.swRes = s.swRes
  BY DEF Elsewhere
<1>4. \A y \in InVcs \ {x}, e \in OutVcs : Uses(t, y, e) <=> Uses(s, y, e)
  BY DEF Elsewhere
<1>5. ASSUME NEW y \in InVcs \ {x}, NEW e \in OutVcs, Uses(t, y, e), Roomed(s, e),
             cfg.policy = "private" \/ e[1] # c[1]
      PROVE  Roomed(t, e)
  BY <1>5, SparedRoom
<1>6. ASSUME NEW y \in H2, NEW e \in OutVcs, Uses(t, y, e), t.holdRes[y] PROVE Roomed(t, e)
  <2>1. y \in InVcs \ {x} /\ y \in H
    OBVIOUS
  <2>2. Uses(s, y, e) /\ s.holdRes[y]
    BY <1>3, <1>4, <1>6, <2>1
  <2>3. Roomed(s, e)
    BY <1>2, <2>1, <2>2 DEF Permitted
  <2>4. cfg.policy = "private" \/ e[1] # c[1]
    BY <2>2 DEF Spared
  <2> QED BY <1>5, <1>6, <2>1, <2>3, <2>4
<1>7. ASSUME NEW y \in W2, NEW e \in OutVcs, Uses(t, y, e), t.swRes[y] # None PROVE Roomed(t, e)
  <2>1. y \in InVcs \ {x} /\ y \in W
    OBVIOUS
  <2>2. Uses(s, y, e) /\ s.swRes[y] # None
    BY <1>3, <1>4, <1>7, <2>1
  <2>3. Roomed(s, e)
    BY <1>2, <2>1, <2>2 DEF Permitted
  <2>4. cfg.policy = "private" \/ e[1] # c[1]
    BY <2>2 DEF Spared
  <2> QED BY <1>5, <1>7, <2>1, <2>3, <2>4
<1>8. Permitted(t, N, H2, W2)
  BY <1>6, <1>7 DEF Permitted
<1> QED BY <1>1, <1>8 DEF Solvent

\* x sends a flit on an output VC it has, or takes for it.
LEMMA SendBooked ==
  ASSUME NEW s, Typed(s), NEW H \in SUBSET InVcs, NEW W \in SUBSET InVcs, NEW N, N = {},
         Booked(s, N, H, W), down \in [OutVcs -> Nat],
         NEW x \in InVcs, NEW t, Elsewhere(s, t, x),
         NEW p, NEW c, NEW b, Sends(s, t, x, p, c, b), Secured(s.nextBuf[c[1]], c[2], x, b),
         \A d \in OutVcs \ {c} : ~Uses(s, x, d),
         NEW H2 \in SUBSET H, NEW W2 \in SUBSET W, x \notin H2, x \notin W2,
         Provisioned(cfg) => Roomed(s, c) /\ Spared(s, c, H2, W2)
  PROVE  Booked(t, N, H2, W2)
<1>1. Owned(s) /\ Balanced(s) /\ (Provisioned(cfg) => Solvent(s, N, H, W))
  BY DEF Booked
<1>2. PICK d, on :
        /\ Moves(s, t, x, c, d, on) /\ c \in OutVcs
        /\ d.vcOcc = [s.nextBuf[c[1]].vcOcc EXCEPT ![c[2]] = @ + 1]
        /\ Sound(s.nextBuf[c[1]]) /\ Roomed(s, c) =>
             Sound(d) /\ (Workable(cfg.policy) /\ ~s.nextBuf[c[1]].err => ~d.err)
        /\ cfg.policy = "private" =>
             \A w \in Vcs : w # c[2] => (HasSlot(d, w) <=> HasSlot(s.nextBuf[c[1]], w))
  BY <1>1, SendMoves
<1>3. Owned(t)
  BY <1>1, <1>2, MovedOwned
<1>4. Pledged(t, N)
  BY DEF Pledged
<1>5. Balanced(t)
  BY <1>1, <1>2, SendBalanced
<1>6. ASSUME Provisioned(cfg) PROVE Solvent(t, N, H2, W2)
  <2>1. Solvent(s, N, H, W) /\ Roomed(s, c) /\ Spared(s, c, H2, W2) /\ Workable(cfg.policy)
    BY <1>1, <1>6 DEF Provisioned
  <2>2. Sound(s.nextBuf[c[1]]) /\ ~s.nextBuf[c[1]].err
    BY <1>2, <2>1, InVcFacts DEF Solvent
  <2>3. Sound(d) /\ ~d.err
    BY <1>2, <2>1, <2>2
  <2> QED BY <1>1, <1>2, <2>1, <2>3, SendSolvent
<1> QED BY <1>3, <1>4, <1>5, <1>6 DEF Booked

-----------------------------------------------------------------------------
(***************************************************************************)
(* The entries of the queues are updated.                                  *)
(***************************************************************************)
\* A method that is about x, and neither takes nor sends.
LEMMA RestBooked ==
  ASSUME NEW s, NEW V, NEW H \in SUBSET InVcs, NEW W \in SUBSET InVcs, Booked(s, V, H, W),
         NEW x, NEW t, Only(s, t, x), t.nextBuf = s.nextBuf, t.crossbar = s.crossbar,
         \A c \in OutVcs : Uses(t, x, c) <=> Uses(s, x, c),
         NEW V2 \in SUBSET V, NEW H2 \in SUBSET H, NEW W2 \in SUBSET W
  PROVE  Booked(t, V2, H2, W2)
<1>1. Elsewhere(s, t, x)
  BY OnlyElsewhere
<1>2. \A o \in Outputs : Line(t, o) = Line(s, o)
  BY <1>1 DEF Line, Elsewhere
<1>3. \A y \in InVcs, c \in OutVcs : Uses(t, y, c) <=> Uses(s, y, c)
  BY <1>1 DEF Elsewhere
<1>4. t.inCredit = s.inCredit /\ t.vcRes = s.vcRes /\ t.holdRes = s.holdRes /\ t.swRes = s.swRes
  BY <1>1 DEF Elsewhere
<1>5. H2 \subseteq InVcs /\ W2 \subseteq InVcs /\ t.nextBuf = s.nextBuf
  OBVIOUS
<1> QED BY ONLY <1>2, <1>3, <1>4, <1>5, Booked(s, V, H, W), V2 \in SUBSET V, H2 \in SUBSET H,
               W2 \in SUBSET W, SameBooked

LEMMA RouteBooked ==
  ASSUME Ready, NEW s, NEW A, NEW V, NEW H, NEW W, Updating(s, A, V, H, W), NEW x \in A,
         Booked(s, V, H, W), NEW t, t = ToAllocation(s, x)
  PROVE  Booked(t, V, H, W)
<1>1. /\ Only(s, t, x) /\ Keeps(s, t, {"state", "swQ", "vcQ"})
      /\ s.state[x] # "active" /\ t.state[x] # "active"
  BY RouteUpdating
<1>2. t.nextBuf = s.nextBuf /\ t.crossbar = s.crossbar
  BY <1>1 DEF Keeps, Fields
<1>3. \A c \in OutVcs : Uses(t, x, c) <=> Uses(s, x, c)
  BY <1>1 DEF Uses
<1>4. H \subseteq InVcs /\ W \subseteq InVcs
  BY DEF Updating
<1> QED BY <1>1, <1>2, <1>3, <1>4, RestBooked

LEMMA VcBooked ==
  ASSUME Ready, NEW s, NEW A, NEW V, NEW H, NEW W, Updating(s, A, V, H, W), NEW x \in V,
         Booked(s, V, H, W), NEW t, t = AllocateVc(s, x)
  PROVE  Booked(t, V \ {x}, H, W)
<1> DEFINE c == s.vcRes[x]
           N == V \ {x}
<1>1. /\ Only(s, t, x) /\ Keeps(s, t, {"state", "out", "nextBuf", "vcQ", "swQ"})
      /\ s.state[x] # "active"
      /\ IF c = None THEN t.state = s.state /\ t.out = s.out /\ t.nextBuf = s.nextBuf
         ELSE /\ c \in OutVcs /\ t.state[x] = "active" /\ t.out[x] = c
              /\ Put(s.nextBuf, t.nextBuf, c[1], TakeBuffer(s.nextBuf[c[1]], c[2], x))
  <2>1. /\ Updating(t, A, V \ {x}, H, W)
        /\ Only(s, t, x) /\ Keeps(s, t, {"state", "out", "nextBuf", "vcQ", "swQ"})
        /\ s.state[x] # "active"
        /\ IF s.vcRes[x] = None THEN t.state = s.state /\ t.out = s.out /\ t.nextBuf = s.nextBuf
           ELSE /\ s.vcRes[x] \in OutVcs /\ s.vcRes[x] \in Route(s, x)
                /\ t.state[x] = "active" /\ t.out[x] = s.vcRes[x]
                /\ Put(s.nextBuf, t.nextBuf, s.vcRes[x][1],
                       TakeBuffer(s.nextBuf[s.vcRes[x][1]], s.vcRes[x][2], x))
    BY ONLY Ready, Updating(s, A, V, H, W), x \in V, t = AllocateVc(s, x), VcUpdating
  <2> QED BY <2>1
<1>2. H \subseteq InVcs /\ W \subseteq InVcs /\ V \subseteq InVcs /\ x \in InVcs
      /\ Everywhere(s, {}, A, V, H, W)
  BY DEF Updating
<1>3. t.crossbar = s.crossbar
  BY <1>1 DEF Keeps, Fields
<1>4. CASE c = None
  <2>1. \A d \in OutVcs : Uses(t, x, d) <=> Uses(s, x, d)
    BY <1>1, <1>4 DEF Uses
  <2>2. t.nextBuf = s.nextBuf /\ Only(s, t, x) /\ N \in SUBSET V
    BY <1>1, <1>4
  <2> HIDE DEF N, c
  <2>3. Booked(t, N, H, W)
    BY <1>2, <1>3, <2>1, <2>2, RestBooked
  <2> QED BY <2>3 DEF N
<1>5. CASE c # None
  <2>1. \A d \in OutVcs : ~Uses(s, x, d) /\ (Uses(t, x, d) <=> d = c)
    BY <1>1, <1>5 DEF Uses
  <2>2. x \notin H
    BY <1>1, <1>2 DEF Everywhere, Local, Placed, Among
  <2>3. Elsewhere(s, t, x)
    BY <1>1, OnlyElsewhere
  <2>4. Put(s.nextBuf, t.nextBuf, c[1], TakeBuffer(s.nextBuf[c[1]], c[2], x)) /\ c = s.vcRes[x]
    BY <1>1, <1>5
  <2> HIDE DEF N, c
  <2> QED BY ONLY <1>2, <1>3, <1>5, <2>1, <2>2, <2>3, <2>4, x \in V, Booked(s, V, H, W), TakeBooked
<1> QED BY <1>4, <1>5

\* With one port for an output, all inputs go there through that one.
LEMMA OnePort ==
  ASSUME cfg \in Configs, cfg.outSp = 1, NEW x \in InVcs, NEW y \in InVcs, NEW o \in Outputs
  PROVE  ExpandedOut(x, o) = ExpandedOut(y, o)
<1>1. x[1] \in Nat /\ y[1] \in Nat /\ o \in Nat
  BY InVcFacts DEF Inputs, Outputs
<1>2. x[1] % 1 = 0 /\ y[1] % 1 = 0
  BY <1>1
<1> QED BY <1>1, <1>2 DEF ExpandedOut

LEMMA HeldSpared ==
  ASSUME Ready, NEW s, NEW H, NEW W, Updating(s, {}, {}, H, W), NEW x \in H, Provisioned(cfg),
         NEW c \in OutVcs, c = s.out[x]
  PROVE  Spared(s, c, H \ {x}, W)
<1> SUFFICES ASSUME cfg.outSp = 1 PROVE Spared(s, c, H \ {x}, W)
  BY DEF Provisioned, Spared
<1> DEFINE I == H \ {x}
           p == ExpandedOut(x, c[1])
<1>1. /\ H \subseteq InVcs /\ W \subseteq InVcs /\ Typed(s) /\ Tables(s) /\ Grants(s, {}, W)
      /\ Everywhere(s, {}, {}, {}, H, W) /\ x \in InVcs /\ c[1] \in Outputs
  BY InVcFacts DEF Updating
<1>2. ASSUME NEW y \in H
      PROVE  /\ y \in InVcs /\ Holds(s, y) /\ ExpandedIn(y) \in InPorts
             /\ s.holdIn[ExpandedIn(y)] = ExpandedOut(y, s.out[y][1])
  <2>1. y \in InVcs /\ Placed(s, {}, {}, H, W, y)
    BY <1>1 DEF Everywhere, Local
  <2> QED BY <2>1, PortFacts DEF Placed, Among, Ready
<1>3. p \in OutPorts /\ p # None /\ s.holdIn[ExpandedIn(x)] = p /\ s.holdOut[p] = ExpandedIn(x)
  <2>1. p \in OutPorts /\ p # None
    BY <1>1, PortFacts, IQRouterAssumption DEF Ready, OutPorts
  <2>2. s.holdIn[ExpandedIn(x)] = p /\ ExpandedIn(x) \in InPorts
    BY <1>2
  <2> QED BY <1>1, <2>1, <2>2 DEF Tables
<1>4. ASSUME NEW y \in I, NEW d \in OutVcs, Uses(s, y, d), s.holdRes[y] PROVE d[1] # c[1]
  <2> SUFFICES ASSUME d[1] = c[1] PROVE FALSE
    OBVIOUS
  <2>1. y \in InVcs /\ y # x /\ y \in H /\ s.out[y] = d
    BY <1>2, <1>4 DEF Uses
  <2>2. s.holdIn[ExpandedIn(y)] = ExpandedOut(y, c[1]) /\ ExpandedIn(y) \in InPorts /\ Holds(s, y)
    BY <1>2, <2>1
  <2>3. s.holdIn[ExpandedIn(y)] = p
    BY <1>1, <2>1, <2>2, OnePort DEF Ready
  <2>4. s.holdOut[p] = ExpandedIn(y)
    BY <1>1, <1>3, <2>2, <2>3 DEF Tables
  <2> QED BY <1>1, <1>2, <1>3, <2>1, <2>2, <2>4, OtherHolder DEF Ready
<1>5. ASSUME NEW y \in W, NEW d \in OutVcs, Uses(s, y, d), s.swRes[y] # None PROVE d[1] # c[1]
  <2> SUFFICES ASSUME d[1] = c[1] PROVE FALSE
    OBVIOUS
  <2> DEFINE g == s.swRes[y]
  <2>1. y \in InVcs /\ s.out[y] = d /\ s.state[y] = "active"
    BY <1>1, <1>5 DEF Uses
  <2>2. Granted(s, {}, y, g)
    BY <1>1, <1>5 DEF Grants
  <2>3. g = ExpandedOut(y, c[1]) /\ s.holdOut[g] = None
    BY <2>1, <2>2 DEF Granted, Free
  <2>4. g = p
    BY <1>1, <2>1, <2>3, OnePort DEF Ready
  <2>5. ExpandedIn(x) # None
    BY <1>1, PortFacts, IQRouterAssumption DEF Ready, InPorts
  <2> QED BY <1>3, <2>3, <2>4, <2>5
<1> HIDE DEF I
<1>6. Spared(s, c, I, W)
  BY <1>4, <1>5 DEF Spared
<1> QED BY <1>6 DEF I

LEMMA HeldBooked ==
  ASSUME Ready, cfg.piggyback => cfg.outSp = 1,
         NEW s, NEW H, NEW W, Updating(s, {}, {}, H, W), NEW x \in H,
         NEW N, N = {}, Booked(s, N, H, W), down \in [OutVcs -> Nat],
         NEW t, t = UpdateHeld(s, x)
  PROVE  Booked(t, N, H \ {x}, W)
<1> DEFINE c == s.out[x]
           b == s.nextBuf[c[1]]
           I == H \ {x}
           p == s.holdIn[ExpandedIn(x)]
<1>1. /\ Only(s, t, x) /\ Holds(s, x)
      /\ \/ Stays(s, t)
         \/ /\ Sends(s, t, x, p, c, b)
            /\ s.state[x] = "active" /\ s.holdRes[x]
  BY HeldUpdating
<1>2. /\ H \in SUBSET InVcs /\ W \in SUBSET InVcs /\ x \in InVcs /\ Typed(s)
      /\ Everywhere(s, {}, {}, {}, H, W)
  BY DEF Updating
<1>3. x \notin W
  <2>1. Placed(s, {}, {}, H, W, x)
    BY <1>2 DEF Everywhere, Local
  <2> QED BY <1>1, <2>1 DEF Placed, Among
<1>4. CASE Stays(s, t)
  <2>1. t.nextBuf = s.nextBuf /\ t.crossbar = s.crossbar /\ \A d \in OutVcs : Uses(t, x, d) <=> Uses(s, x, d)
    BY <1>4 DEF Stays, Uses
  <2>2. I \in SUBSET H /\ W \in SUBSET W /\ N \in SUBSET N
    OBVIOUS
  <2>3. Only(s, t, x) /\ Booked(s, N, H, W)
    BY <1>1
  <2> HIDE DEF I
  <2>4. Booked(t, N, I, W)
    BY ONLY <1>2, <2>1, <2>2, <2>3, RestBooked
  <2> QED BY <2>4 DEF I
<1>5. CASE ~Stays(s, t)
  <2>1. Sends(s, t, x, p, c, b) /\ s.state[x] = "active" /\ s.holdRes[x]
    BY <1>1, <1>5
  <2>2. c \in OutVcs /\ Uses(s, x, c) /\ \A d \in OutVcs \ {c} : ~Uses(s, x, d)
    BY <2>1 DEF Sends, Uses
  <2>3. Secured(s.nextBuf[c[1]], c[2], x, b)
    <3>1. Owned(s)
      BY DEF Booked
    <3> QED BY <1>2, <2>2, <3>1 DEF Owned, Secured
  <2>4. ASSUME Provisioned(cfg) PROVE Roomed(s, c) /\ Spared(s, c, I, W)
    <3>1. Roomed(s, c)
      BY <2>1, <2>2, <2>4 DEF Booked, Solvent, Permitted
    <3> QED BY <2>2, <2>4, <3>1, HeldSpared
  <2>5. Elsewhere(s, t, x)
    BY <1>1, OnlyElsewhere
  <2>6. I \in SUBSET H /\ W \in SUBSET W /\ x \notin I /\ N = {}
    OBVIOUS
  <2>7. Provisioned(cfg) => Roomed(s, c) /\ Spared(s, c, I, W)
    BY <2>4
  <2> HIDE DEF b, c, I, p
  <2>8. Booked(t, N, I, W)
    BY ONLY <1>2, <1>3, <2>1, <2>2, <2>3, <2>5, <2>6, <2>7, Booked(s, N, H, W),
            down \in [OutVcs -> Nat], SendBooked
  <2> QED BY <2>8 DEF I
<1> QED BY <1>4, <1>5

LEMMA SwitchSpared ==
  ASSUME Ready, NEW s, NEW W, Updating(s, {}, {}, {}, W), NEW x \in W, Provisioned(cfg),
         s.swRes[x] # None, NEW c \in OutVcs, OutputOf(s.swRes[x]) = c[1]
  PROVE  Spared(s, c, {}, W \ {x})
<1> SUFFICES ASSUME cfg.outSp = 1 PROVE Spared(s, c, {}, W \ {x})
  BY DEF Provisioned, Spared
<1> DEFINE I == W \ {x}
           p == s.swRes[x]
<1>1. W \subseteq InVcs /\ Grants(s, {}, W) /\ x \in InVcs /\ c[1] \in Outputs
  BY InVcFacts DEF Updating
<1>2. p = ExpandedOut(x, c[1])
  BY <1>1 DEF Grants, Granted
<1>3. ASSUME NEW y \in I, NEW d \in OutVcs, Uses(s, y, d), s.swRes[y] # None PROVE d[1] # c[1]
  <2> SUFFICES ASSUME d[1] = c[1] PROVE FALSE
    OBVIOUS
  <2> DEFINE g == s.swRes[y]
  <2>1. y \in InVcs /\ y # x /\ y \in W /\ s.out[y] = d /\ s.state[y] = "active"
    BY <1>1, <1>3 DEF Uses
  <2>2. Granted(s, {}, y, g) /\ g # p
    BY <1>1, <1>3, <2>1 DEF Grants
  <2>3. g = ExpandedOut(y, c[1])
    BY <2>1, <2>2 DEF Granted
  <2> QED BY <1>1, <1>2, <2>1, <2>2, <2>3, OnePort DEF Ready
<1> HIDE DEF I
<1>4. Spared(s, c, {}, I)
  BY <1>3 DEF Spared
<1> QED BY <1>4 DEF I

\* The output VC the front of x is sent on is free for it.
LEMMA ChosenSecured ==
  ASSUME NEW s, Owned(s), NEW x \in InVcs, NEW p, NEW c \in OutVcs, NEW b, Chosen(s, x, p, c, b)
  PROVE  /\ Secured(s.nextBuf[c[1]], c[2], x, b)
         /\ \A d \in OutVcs \ {c} : ~Uses(s, x, d)
         /\ Uses(s, x, c) \/ Roomed(s, c)
<1>1. c[1] \in Outputs /\ c[2] \in Vcs
  BY InVcFacts
<1>2. CASE s.state[x] = "active" /\ c = s.out[x] /\ b = s.nextBuf[c[1]]
  <2>1. Uses(s, x, c) /\ \A d \in OutVcs \ {c} : ~Uses(s, x, d)
    BY <1>2 DEF Uses
  <2>2. Secured(s.nextBuf[c[1]], c[2], x, b)
    BY <1>2, <2>1 DEF Owned, Secured
  <2> QED BY <2>1, <2>2
<1>3. CASE ~(s.state[x] = "active" /\ c = s.out[x] /\ b = s.nextBuf[c[1]])
  <2>1. /\ s.state[x] = "vc_alloc" /\ c \in Candidates(s, x, OutputOf(p))
        /\ b = TakeBuffer(s.nextBuf[c[1]], c[2], x)
    BY <1>3 DEF Chosen
  <2>2. IsAvailableFor(s.nextBuf[c[1]], c[2]) /\ ~IsFullFor(s.nextBuf[c[1]], c[2])
    BY <2>1 DEF Candidates
  <2>3. Secured(s.nextBuf[c[1]], c[2], x, b)
    BY <2>1, <2>2 DEF Secured
  <2>4. Roomed(s, c)
    <3>1. s.nextBuf[c[1]] \in BufferStatesOf(InVcs)
      BY <1>1 DEF Owned
    <3> QED BY <1>1, <2>2, <3>1, NotFullHasSlot DEF Roomed
  <2> QED BY <2>1, <2>3, <2>4 DEF Uses
<1> QED BY <1>2, <1>3

LEMMA SwitchBooked ==
  ASSUME Ready, cfg.piggyback => cfg.outSp = 1,
         NEW s, NEW W, Updating(s, {}, {}, {}, W), NEW x \in W,
         NEW N, N = {}, Booked(s, N, N, W), down \in [OutVcs -> Nat],
         NEW a \in [Outputs -> Nat], NEW t, t = UpdateSwitched(s, x, a)
  PROVE  Booked(t, N, N, W \ {x})
<1> DEFINE p == s.swRes[x]
           I == W \ {x}
<1>1. /\ Only(s, t, x)
      /\ IF p = None THEN Stays(s, t)
         ELSE \E c, b : c \in OutVcs /\ Chosen(s, x, p, c, b) /\ Sends(s, t, x, p, c, b)
  BY SwitchUpdating
<1>2. /\ W \in SUBSET InVcs /\ x \in InVcs /\ Typed(s) /\ N \in SUBSET InVcs
      /\ I \in SUBSET W /\ N \in SUBSET N /\ x \notin I /\ x \notin N
  BY DEF Updating
<1>3. CASE p = None
  <2>1. t.nextBuf = s.nextBuf /\ t.crossbar = s.crossbar /\ \A d \in OutVcs : Uses(t, x, d) <=> Uses(s, x, d)
    BY <1>1, <1>3 DEF Stays, Uses
  <2>2. Only(s, t, x) /\ Booked(s, N, N, W)
    BY <1>1
  <2> HIDE DEF I
  <2>3. Booked(t, N, N, I)
    BY ONLY <1>2, <2>1, <2>2, RestBooked
  <2> QED BY <2>3 DEF I
<1>4. CASE p # None
  <2>1. PICK c, b : c \in OutVcs /\ Chosen(s, x, p, c, b) /\ Sends(s, t, x, p, c, b)
    BY <1>1, <1>4
  <2>2. Owned(s) /\ (Provisioned(cfg) => Permitted(s, N, N, W))
    BY DEF Booked, Solvent
  <2>3. /\ Secured(s.nextBuf[c[1]], c[2], x, b)
        /\ \A d \in OutVcs \ {c} : ~Uses(s, x, d)
        /\ Uses(s, x, c) \/ Roomed(s, c)
    BY <1>2, <2>1, <2>2, ChosenSecured
  <2>4. ASSUME Provisioned(cfg) PROVE Roomed(s, c) /\ Spared(s, c, N, I)
    <3>1. Roomed(s, c)
      BY <1>4, <2>1, <2>2, <2>3, <2>4 DEF Permitted
    <3>2. OutputOf(p) = c[1]
      BY <2>1 DEF Sends
    <3> QED BY <1>4, <2>1, <2>4, <3>1, <3>2, SwitchSpared
  <2>5. Elsewhere(s, t, x)
    BY <1>1, OnlyElsewhere
  <2>6. Provisioned(cfg) => Roomed(s, c) /\ Spared(s, c, N, I)
    BY <2>4
  <2> HIDE DEF I, p
  <2>7. Booked(t, N, N, I)
    BY ONLY <1>2, <2>1, <2>3, <2>5, <2>6, N = {}, Booked(s, N, N, W), down \in [OutVcs -> Nat], SendBooked
  <2> QED BY <2>7 DEF I
<1> QED BY <1>3, <1>4

\* The results of the entries that have been updated are forgotten.
LEMMA ForgetBooked ==
  ASSUME NEW s, Typed(s), NEW N, N = {}, NEW H \in SUBSET InVcs, NEW W \in SUBSET InVcs,
         Booked(s, N, H, W), NEW H2 \in SUBSET H, NEW W2 \in SUBSET W,
         NEW t, Keeps(s, t, {"vcRes", "holdRes", "swRes", "activity", "routeQ", "vcQ", "holdQ", "swQ"}),
         H2 # {} => t.holdRes = s.holdRes, W2 # {} => t.swRes = s.swRes
  PROVE  Booked(t, N, H2, W2)
<1>1. /\ t.nextBuf = s.nextBuf /\ t.inCredit = s.inCredit /\ t.outBuf = s.outBuf
      /\ t.crossing = s.crossing /\ t.crossbar = s.crossbar /\ t.state = s.state /\ t.out = s.out
  BY DEF Keeps, Fields
<1>2. \A o \in Outputs : Line(t, o) = Line(s, o)
  BY <1>1 DEF Line
<1>3. \A y \in InVcs, c \in OutVcs : Uses(t, y, c) <=> Uses(s, y, c)
  BY <1>1 DEF Uses
<1>4. /\ H2 \subseteq InVcs /\ W2 \subseteq InVcs /\ N \in SUBSET N /\ (N # {} => t.vcRes = s.vcRes)
      /\ H2 \in SUBSET H /\ W2 \in SUBSET W
      /\ H2 # {} => t.holdRes = s.holdRes
      /\ W2 # {} => t.swRes = s.swRes
  OBVIOUS
<1> QED BY ONLY <1>1, <1>2, <1>3, <1>4, Booked(s, N, H, W), SameBooked

LEMMA RouteBooks ==
  ASSUME Ready, NEW s, NEW q, Distinct(q), NEW V, NEW H, NEW W, Updating(s, Range(q), V, H, W),
         Booked(s, V, H, W), NEW t, t = RouteUpdate(s, q)
  PROVE  Booked(t, V, H, W)
<1> DEFINE n == Len(q)
<1>1. PICK h : /\ h[0] = s /\ h[n] = t
               /\ \A k \in 0 .. n : Updating(h[k], Rest(q, k), V, H, W)
               /\ \A k \in 1 .. n : h[k] = ToAllocation(h[k-1], q[k])
  BY RouteRun
<1>2. n \in Nat /\ \A k \in 1 .. n : q[k] \in Rest(q, k-1)
  BY DistinctFacts
<1> DEFINE P == {k \in 0 .. n : Booked(h[k], V, H, W)}
<1>3. 0 \in P
  BY <1>1, <1>2
<1>4. ASSUME NEW k \in 1 .. n, k-1 \in P PROVE k \in P
  <2> DEFINE x == q[k]
             y == h[k-1]
             z == h[k]
             A == Rest(q, k-1)
  <2>1. Updating(y, A, V, H, W) /\ x \in A /\ z = ToAllocation(y, x) /\ k \in 0 .. n
    BY <1>1, <1>2, <1>4
  <2>2. Booked(y, V, H, W)
    BY <1>4
  <2>3. Booked(z, V, H, W)
    <3> HIDE DEF x, y, z, A
    <3> QED BY <2>1, <2>2, RouteBooked
  <2> QED BY <2>1, <2>3
<1>5. n \in P
  <2>1. n \in Nat
    BY <1>2
  <2> HIDE DEF P, n
  <2> QED BY ONLY <2>1, <1>3, <1>4, CountUp
<1> QED BY <1>1, <1>5

LEMMA VcBooks ==
  ASSUME Ready, NEW s, NEW q, Distinct(q), NEW H, NEW W, Updating(s, {}, Range(q), H, W),
         Booked(s, Range(q), H, W), NEW N, N = {}, NEW t, t = VCAllocUpdate(s, q)
  PROVE  Booked(t, N, H, W)
<1> DEFINE n == Len(q)
           u == Allocated(s, q)
<1>1. PICK h : /\ h[0] = s /\ h[n] = u
               /\ \A k \in 0 .. n : Updating(h[k], {}, Rest(q, k), H, W)
               /\ \A k \in 1 .. n : h[k] = AllocateVc(h[k-1], q[k])
  <2>1. u = Allocated(s, q)
    OBVIOUS
  <2> HIDE DEF u
  <2> QED BY <2>1, VcRun
<1>2. /\ n \in Nat /\ Rest(q, 0) = Range(q) /\ Rest(q, n) = {}
      /\ \A k \in 1 .. n : q[k] \in Rest(q, k-1) /\ Rest(q, k) = Rest(q, k-1) \ {q[k]}
  BY DistinctFacts
<1> DEFINE P == {k \in 0 .. n : Booked(h[k], Rest(q, k), H, W)}
<1>3. 0 \in P
  BY <1>1, <1>2
<1>4. ASSUME NEW k \in 1 .. n, k-1 \in P PROVE k \in P
  <2> DEFINE x == q[k]
             y == h[k-1]
             z == h[k]
             V == Rest(q, k-1)
             A == {}
  <2>1. Updating(y, A, V, H, W) /\ x \in V /\ z = AllocateVc(y, x) /\ k \in 0 .. n
    BY <1>1, <1>2, <1>4
  <2>2. Booked(y, V, H, W)
    BY <1>4
  <2>3. Booked(z, V \ {x}, H, W)
    <3> HIDE DEF x, y, z, V, A
    <3> QED BY <2>1, <2>2, VcBooked
  <2>4. Booked(h[k], Rest(q, k), H, W)
    BY <1>2, <2>3
  <2> HIDE DEF x, y, z, V, A
  <2> QED BY <2>1, <2>4
<1>5. n \in P
  <2>1. n \in Nat
    BY <1>2
  <2> HIDE DEF P, n
  <2> QED BY ONLY <2>1, <1>3, <1>4, CountUp
<1>6. Booked(u, N, H, W)
  BY <1>1, <1>2, <1>5
<1>7. Typed(u) /\ H \in SUBSET InVcs /\ W \in SUBSET InVcs
  <2>1. n \in 0 .. n
    BY <1>2
  <2> QED BY <1>1, <2>1 DEF Updating
<1>8. t = [u EXCEPT !.vcRes = <<>>, !.activity = @ \/ u.vcQ # <<>>]
  BY DEF VCAllocUpdate, Allocated
<1> HIDE DEF u
<1>9. Keeps(u, t, {"vcRes", "holdRes", "swRes", "activity", "routeQ", "vcQ", "holdQ", "swQ"})
  BY <1>7, <1>8 DEF Typed, Router, Fields, Keeps
<1>10. t.holdRes = u.holdRes /\ t.swRes = u.swRes
  BY <1>7, <1>8 DEF Typed, Router, Fields
<1> QED BY ONLY <1>6, <1>7, <1>9, <1>10, N = {}, ForgetBooked

LEMMA HeldBooks ==
  ASSUME Ready, cfg.piggyback => cfg.outSp = 1,
         NEW s, NEW q, Distinct(q), NEW W, Updating(s, {}, {}, Range(q), W),
         NEW N, N = {}, Booked(s, N, Range(q), W), down \in [OutVcs -> Nat],
         NEW t, t = SWHoldUpdate(s, q)
  PROVE  Booked(t, N, N, W)
<1> DEFINE n == Len(q)
           u == Advanced(s, q)
<1>1. PICK h : /\ h[0] = s /\ h[n] = u
               /\ \A k \in 0 .. n : Updating(h[k], {}, {}, Rest(q, k), W)
               /\ \A k \in 1 .. n : h[k] = UpdateHeld(h[k-1], q[k])
  <2>1. u = Advanced(s, q)
    OBVIOUS
  <2> HIDE DEF u
  <2> QED BY <2>1, HeldRun
<1>2. /\ n \in Nat /\ Rest(q, 0) = Range(q) /\ Rest(q, n) = {}
      /\ \A k \in 1 .. n : q[k] \in Rest(q, k-1) /\ Rest(q, k) = Rest(q, k-1) \ {q[k]}
  BY DistinctFacts
<1> DEFINE P == {k \in 0 .. n : Booked(h[k], N, Rest(q, k), W)}
<1>3. 0 \in P
  BY <1>1, <1>2
<1>4. ASSUME NEW k \in 1 .. n, k-1 \in P PROVE k \in P
  <2> DEFINE x == q[k]
             y == h[k-1]
             z == h[k]
             H == Rest(q, k-1)
  <2>1. Updating(y, {}, {}, H, W) /\ x \in H /\ z = UpdateHeld(y, x) /\ k \in 0 .. n
    BY <1>1, <1>2, <1>4
  <2>2. Booked(y, N, H, W)
    BY <1>4
  <2>3. Booked(z, N, H \ {x}, W)
    <3> HIDE DEF x, y, z, H
    <3> QED BY <2>1, <2>2, HeldBooked
  <2>4. Booked(h[k], N, Rest(q, k), W)
    BY <1>2, <2>3
  <2> HIDE DEF x, y, z, H
  <2> QED BY <2>1, <2>4
<1>5. n \in P
  <2>1. n \in Nat
    BY <1>2
  <2> HIDE DEF P, n
  <2> QED BY ONLY <2>1, <1>3, <1>4, CountUp
<1>6. Booked(u, N, N, W)
  BY <1>1, <1>2, <1>5
<1>7. Typed(u) /\ W \in SUBSET InVcs /\ N \in SUBSET InVcs /\ N \in SUBSET N /\ W \in SUBSET W
  <2>1. n \in 0 .. n
    BY <1>2
  <2> QED BY <1>1, <2>1 DEF Updating
<1>8. t = [u EXCEPT !.holdRes = <<>>, !.activity = @ \/ u.holdQ # <<>>]
  BY DEF SWHoldUpdate, Advanced
<1> HIDE DEF u
<1>9. Keeps(u, t, {"vcRes", "holdRes", "swRes", "activity", "routeQ", "vcQ", "holdQ", "swQ"})
  BY <1>7, <1>8 DEF Typed, Router, Fields, Keeps
<1>10. t.swRes = u.swRes
  BY <1>7, <1>8 DEF Typed, Router, Fields
<1> QED BY ONLY <1>6, <1>7, <1>9, <1>10, N = {}, ForgetBooked

LEMMA SwitchBooks ==
  ASSUME Ready, cfg.piggyback => cfg.outSp = 1,
         NEW s, NEW q, Distinct(q), Updating(s, {}, {}, {}, Range(q)),
         NEW N, N = {}, Booked(s, N, N, Range(q)), down \in [OutVcs -> Nat],
         NEW a \in [Outputs -> Nat], NEW t, t = SWAllocUpdate(s, q, a)
  PROVE  Booked(t, N, N, N)
<1> DEFINE n == Len(q)
           u == Switched(s, q, a)
<1>1. PICK h : /\ h[0] = s /\ h[n] = u
               /\ \A k \in 0 .. n : Updating(h[k], {}, {}, {}, Rest(q, k))
               /\ \A k \in 1 .. n : h[k] = UpdateSwitched(h[k-1], q[k], a)
  BY SwitchRun
<1>2. /\ n \in Nat /\ Rest(q, 0) = Range(q) /\ Rest(q, n) = {}
      /\ \A k \in 1 .. n : q[k] \in Rest(q, k-1) /\ Rest(q, k) = Rest(q, k-1) \ {q[k]}
  BY DistinctFacts
<1> DEFINE P == {k \in 0 .. n : Booked(h[k], N, N, Rest(q, k))}
<1>3. 0 \in P
  BY <1>1, <1>2
<1>4. ASSUME NEW k \in 1 .. n, k-1 \in P PROVE k \in P
  <2> DEFINE x == q[k]
             y == h[k-1]
             z == h[k]
             W == Rest(q, k-1)
  <2>1. Updating(y, {}, {}, {}, W) /\ x \in W /\ z = UpdateSwitched(y, x, a) /\ k \in 0 .. n
    BY <1>1, <1>2, <1>4
  <2>2. Booked(y, N, N, W)
    BY <1>4
  <2>3. Booked(z, N, N, W \ {x})
    <3> HIDE DEF x, y, z, W
    <3> QED BY <2>1, <2>2, SwitchBooked
  <2>4. Booked(h[k], N, N, Rest(q, k))
    BY <1>2, <2>3
  <2> HIDE DEF x, y, z, W
  <2> QED BY <2>1, <2>4
<1>5. n \in P
  <2>1. n \in Nat
    BY <1>2
  <2> HIDE DEF P, n
  <2> QED BY ONLY <2>1, <1>3, <1>4, CountUp
<1>6. Booked(u, N, N, N)
  BY <1>1, <1>2, <1>5
<1>7. Typed(u) /\ N \in SUBSET InVcs /\ N \in SUBSET N
  <2>1. n \in 0 .. n
    BY <1>2
  <2> QED BY <1>1, <2>1 DEF Updating
<1>8. t = [u EXCEPT !.swRes = <<>>, !.activity = @ \/ u.swQ # <<>>]
  BY DEF SWAllocUpdate, Switched
<1> HIDE DEF u
<1>9. Keeps(u, t, {"vcRes", "holdRes", "swRes", "activity", "routeQ", "vcQ", "holdQ", "swQ"})
  BY <1>7, <1>8 DEF Typed, Router, Fields, Keeps
<1> QED BY ONLY <1>6, <1>7, <1>9, N = {}, ForgetBooked

-----------------------------------------------------------------------------
(***************************************************************************)
(* The whole update.                                                       *)
(***************************************************************************)
\* The flits that reach an output buffer stay in line.
LEMMA CrossingLine ==
  ASSUME NEW s, Typed(s), NEW t, t.crossbar = s.crossbar,
         t.outBuf = [o \in Outputs |-> s.outBuf[o] \o s.crossing[o]],
         t.crossing = [o \in Outputs |-> <<>>]
  PROVE  \A o \in Outputs : Line(t, o) = Line(s, o)
<1> TAKE o \in Outputs
<1> DEFINE q == s.outBuf[o] \o s.crossing[o]
<1>1. q \in Seq(Moving)
  BY DEF Typed
<1>2. t.outBuf[o] = q /\ t.crossing[o] = <<>>
  OBVIOUS
<1>3. q \o <<>> = q
  <2> HIDE DEF q
  <2> QED BY <1>1
<1> HIDE DEF q
<1>4. Line(t, o) = (q \o <<>>) \o s.crossbar[o]
  BY <1>2 DEF Line
<1>5. Line(s, o) = q \o s.crossbar[o]
  BY DEF Line, q
<1> QED BY <1>3, <1>4, <1>5

\* The update leaves the credits that come in, and nothing in the crossbar of the
\* cycle before.
Delivers(s, t) == t.inCredit = s.inCredit /\ \A o \in Outputs : t.crossing[o] = <<>>

LEMMA UpdateBooked ==
  ASSUME Ready, cfg.piggyback => cfg.outSp = 1,
         NEW s, Settled(s), Grants(s, Range(s.vcQ), Range(s.swQ)),
         s.credits = [i \in Inputs |-> {}], down \in [OutVcs -> Nat],
         Booked(s, Range(s.vcQ), Range(s.holdQ), Range(s.swQ)), NEW N, N = {},
         NEW a \in [Outputs -> Nat], NEW t, Updated(s, a, t)
  PROVE  Booked(t, N, N, N) /\ Delivers(s, t)
<1> DEFINE d == Dequeued(s)
           s1 == RouteUpdate(d, s.routeQ)
           s2 == VCAllocUpdate(s1, s.vcQ)
           s3 == SWHoldUpdate(s2, s.holdQ)
           s4 == SWAllocUpdate(s3, s.swQ, a)
           u == SwitchUpdate(s4)
           A == Range(s.routeQ)
           V == Range(s.vcQ)
           H == Range(s.holdQ)
           W == Range(s.swQ)
<1>0. Distinct(s.routeQ) /\ Distinct(s.vcQ) /\ Distinct(s.holdQ) /\ Distinct(s.swQ)
  BY DEF Settled, Typed
<1>1. d = Dequeued(s) /\ s1 = RouteUpdate(d, s.routeQ) /\ s2 = VCAllocUpdate(s1, s.vcQ)
      /\ s3 = SWHoldUpdate(s2, s.holdQ) /\ s4 = SWAllocUpdate(s3, s.swQ, a)
  OBVIOUS
<1>2. u = SwitchUpdate(s4) /\ t = [u EXCEPT !.active = u.activity]
  BY DEF Updated
<1> HIDE DEF d, s1, s2, s3, s4, u
<1>3. /\ Updating(d, A, V, H, W)
      /\ Updating(s1, {}, V, H, W)
      /\ Updating(s2, {}, {}, H, W)
      /\ Updating(s3, {}, {}, {}, W)
      /\ Settled(s4)
      /\ Keeps(s, s4, Moved \cup {"vcRes", "holdRes", "swRes", "activity"})
  BY <1>1, PhasesUpdating
<1>4. Booked(d, V, H, W)
  <2>1. Keeps(s, d, {"routeQ", "vcQ", "holdQ", "swQ"})
    BY <1>1, DequeuedUpdating
  <2>2. /\ d.nextBuf = s.nextBuf /\ d.inCredit = s.inCredit /\ d.outBuf = s.outBuf
        /\ d.crossing = s.crossing /\ d.crossbar = s.crossbar /\ d.state = s.state /\ d.out = s.out
        /\ d.vcRes = s.vcRes /\ d.holdRes = s.holdRes /\ d.swRes = s.swRes
    BY <2>1 DEF Keeps, Fields
  <2>3. \A o \in Outputs : Line(d, o) = Line(s, o)
    BY <2>2 DEF Line
  <2>4. \A y \in InVcs, c \in OutVcs : Uses(d, y, c) <=> Uses(s, y, c)
    BY <2>2 DEF Uses
  <2>5. H \subseteq InVcs /\ W \subseteq InVcs
    BY <1>3 DEF Updating
  <2>6. Booked(s, V, H, W) /\ V \in SUBSET V /\ H \in SUBSET H /\ W \in SUBSET W
    OBVIOUS
  <2> HIDE DEF V, H, W
  <2> QED BY ONLY <2>2, <2>3, <2>4, <2>5, <2>6, SameBooked
<1>5. Booked(s1, V, H, W)
  <2> DEFINE q == s.routeQ
  <2>1. Updating(d, Range(q), V, H, W) /\ Distinct(q) /\ s1 = RouteUpdate(d, q)
    BY <1>0, <1>1, <1>3
  <2> HIDE DEF q, V, H, W
  <2> QED BY ONLY Ready, <1>4, <2>1, RouteBooks
<1>6. Booked(s2, N, H, W)
  <2> DEFINE q == s.vcQ
  <2>1. /\ Updating(s1, {}, Range(q), H, W) /\ Distinct(q) /\ s2 = VCAllocUpdate(s1, q)
        /\ Booked(s1, Range(q), H, W)
    BY <1>0, <1>1, <1>3, <1>5
  <2> HIDE DEF q, H, W
  <2> QED BY ONLY Ready, <2>1, N = {}, VcBooks
<1>7. Booked(s3, N, N, W)
  <2> DEFINE q == s.holdQ
  <2>1. /\ Updating(s2, {}, {}, Range(q), W) /\ Distinct(q) /\ s3 = SWHoldUpdate(s2, q)
        /\ Booked(s2, N, Range(q), W)
    BY <1>0, <1>1, <1>3, <1>6
  <2> HIDE DEF q, W
  <2> QED BY ONLY Ready, cfg.piggyback => cfg.outSp = 1, down \in [OutVcs -> Nat], <2>1, N = {}, HeldBooks
<1>8. Booked(s4, N, N, N)
  <2> DEFINE q == s.swQ
  <2>1. /\ Updating(s3, {}, {}, {}, Range(q)) /\ Distinct(q) /\ s4 = SWAllocUpdate(s3, q, a)
        /\ Booked(s3, N, N, Range(q))
    BY <1>0, <1>1, <1>3, <1>7
  <2> HIDE DEF q
  <2> QED BY ONLY Ready, cfg.piggyback => cfg.outSp = 1, down \in [OutVcs -> Nat],
                  a \in [Outputs -> Nat], <2>1, N = {}, SwitchBooks
<1>9. Typed(s4)
  BY <1>3 DEF Settled
<1>10. /\ u.nextBuf = s4.nextBuf /\ u.inCredit = s4.inCredit /\ u.state = s4.state /\ u.out = s4.out
       /\ u.crossbar = s4.crossbar /\ DOMAIN u = Fields
       /\ u.outBuf = [o \in Outputs |-> s4.outBuf[o] \o s4.crossing[o]]
       /\ u.crossing = [o \in Outputs |-> <<>>]
  BY <1>2, <1>9 DEF SwitchUpdate, Typed, Router, Fields
<1>11. /\ t.nextBuf = u.nextBuf /\ t.inCredit = u.inCredit /\ t.state = u.state /\ t.out = u.out
       /\ t.crossbar = u.crossbar /\ t.outBuf = u.outBuf /\ t.crossing = u.crossing
  BY <1>2, <1>10 DEF Fields
<1>12. \A o \in Outputs : Line(t, o) = Line(s4, o)
  <2>1. /\ t.crossbar = s4.crossbar /\ t.crossing = [o \in Outputs |-> <<>>]
        /\ t.outBuf = [o \in Outputs |-> s4.outBuf[o] \o s4.crossing[o]]
    BY <1>10, <1>11
  <2> QED BY ONLY <1>9, <2>1, CrossingLine
<1>13. \A y \in InVcs, c \in OutVcs : Uses(t, y, c) <=> Uses(s4, y, c)
  BY <1>10, <1>11 DEF Uses
<1>14. N \in SUBSET N /\ N \subseteq InVcs /\ t.nextBuf = s4.nextBuf /\ t.inCredit = s4.inCredit
  BY <1>10, <1>11
<1>15. (N # {} => t.vcRes = s4.vcRes) /\ (N # {} => t.holdRes = s4.holdRes) /\ (N # {} => t.swRes = s4.swRes)
  OBVIOUS
<1>16. Booked(t, N, N, N)
  BY ONLY <1>8, <1>12, <1>13, <1>14, <1>15, SameBooked
<1>17. s4.inCredit = s.inCredit
  BY <1>3 DEF Keeps, Fields, Moved
<1>18. Delivers(s, t)
  BY <1>10, <1>11, <1>17 DEF Delivers
<1> QED BY <1>16, <1>18

-----------------------------------------------------------------------------
(***************************************************************************)
(* The books are exact in every state.                                     *)
(***************************************************************************)
\* Balanced, when the flits d are downstream.
Balances(s, d) ==
  \A c \in OutVcs :
    s.nextBuf[c[1]].vcOcc[c[2]] =
      d[c] + Count(Line(s, c[1]), For(c[2])) + (IF c[2] \in s.inCredit[c[1]] THEN 1 ELSE 0)

LEMMA OwnedNext ==
  ASSUME NEW t, r' = t, cfg' = cfg, Owned(t)
  PROVE  Owned(r)'
BY DEF Owned, Uses, Owns, OwnerSound

LEMMA PledgedNext ==
  ASSUME NEW t, r' = t, NEW V, Pledged(t, V)
  PROVE  Pledged(r, V)'
BY DEF Pledged, IsAvailableFor

LEMMA BalancedNext ==
  ASSUME NEW t, r' = t, NEW d, down' = d, Balances(t, d)
  PROVE  Balanced(r)'
<1>1. \A o : Line(r, o)' = Line(t, o)
  BY DEF Line
<1>2. ASSUME NEW c \in OutVcs
      PROVE  r'.nextBuf[c[1]].vcOcc[c[2]] =
               down'[c] + Count(Line(t, c[1]), For(c[2]))
                        + (IF c[2] \in r'.inCredit[c[1]] THEN 1 ELSE 0)
  BY DEF Balances
<1> QED BY <1>1, <1>2 DEF Balanced

LEMMA SolventNext ==
  ASSUME NEW t, r' = t, cfg' = cfg, NEW V, NEW H, NEW W, Provisioned(cfg) => Solvent(t, V, H, W)
  PROVE  (Provisioned(cfg) => Solvent(r, V, H, W))'
<1>1. ASSUME Provisioned(cfg)' PROVE Solvent(r, V, H, W)'
  <2>1. Solvent(t, V, H, W)
    BY <1>1 DEF Provisioned
  <2>2. (\A o \in Outputs : Sound(r.nextBuf[o]) /\ ~r.nextBuf[o].err)'
    BY <2>1 DEF Solvent
  <2>3. Permitted(r, V, H, W)'
    BY <2>1 DEF Solvent, Permitted, Uses, Roomed
  <2> QED BY <2>2, <2>3 DEF Solvent
<1> QED BY <1>1

\* The entries whose results are still to be used.
ToTake(s, p) == IF p \in {"sw_evaluate", "update"} THEN Range(s.vcQ) ELSE {}
ToHold(s, p) == IF p = "update" THEN Range(s.holdQ) ELSE {}
ToSend(s, p) == IF p = "update" THEN Range(s.swQ) ELSE {}

\* What is known of the credits on the way and of the crossbar.
Unhurried(s, p) ==
  /\ s.inCredit \in [Outputs -> SUBSET Vcs]
  /\ p # "queue" \/ ~s.active => \A o \in Outputs : s.inCredit[o] = {}
  /\ p # "update" => \A o \in Outputs : s.crossing[o] = <<>>

LEMMA BooksStep ==
  ASSUME NEW t, r' = t, cfg' = cfg, NEW d, down' = d, d \in [OutVcs -> Nat], Balances(t, d),
         NEW p, pc' = p, Unhurried(t, p), Owned(t), NEW V, NEW H, NEW W,
         V = ToTake(t, p), H = ToHold(t, p), W = ToSend(t, p), Pledged(t, V),
         Provisioned(cfg) => Solvent(t, V, H, W)
  PROVE  BooksExact'
<1>1. Owned(r)' /\ Pledged(r, V)' /\ Balanced(r)' /\ (Provisioned(cfg) => Solvent(r, V, H, W))'
  BY OwnedNext, PledgedNext, BalancedNext, SolventNext
<1>2. Booked(r, V, H, W)'
  BY <1>1 DEF Booked
<1>3. /\ V = IF pc' \in {"sw_evaluate", "update"} THEN Range(r'.vcQ) ELSE {}
      /\ H = IF pc' = "update" THEN Range(r'.holdQ) ELSE {}
      /\ W = IF pc' = "update" THEN Range(r'.swQ) ELSE {}
  BY DEF ToTake, ToHold, ToSend
<1>4. (/\ down \in [OutVcs -> Nat]
       /\ r.inCredit \in [Outputs -> SUBSET Vcs]
       /\ pc # "queue" \/ ~r.active => \A o \in Outputs : r.inCredit[o] = {}
       /\ pc # "update" => \A o \in Outputs : r.crossing[o] = <<>>)'
  BY DEF Unhurried
<1> QED BY <1>2, <1>3, <1>4 DEF BooksExact

\* The same, after a step that books.
LEMMA BooksAfter ==
  ASSUME NEW t, r' = t, cfg' = cfg, down' = down, down \in [OutVcs -> Nat],
         NEW p, pc' = p, Unhurried(t, p), NEW V, NEW H, NEW W,
         V = ToTake(t, p), H = ToHold(t, p), W = ToSend(t, p), Booked(t, V, H, W)
  PROVE  BooksExact'
<1>1. PICK d : d = down
  OBVIOUS
<1>2. Balances(t, d)
  BY <1>1 DEF Booked, Balanced, Balances
<1> QED BY <1>1, <1>2, BooksStep DEF Booked

\* What the books say, by the part of the cycle.
LEMMA BooksNow ==
  ASSUME BooksExact
  PROVE  /\ Booked(r, ToTake(r, pc), ToHold(r, pc), ToSend(r, pc))
         /\ down \in [OutVcs -> Nat] /\ Unhurried(r, pc)
BY DEF BooksExact, ToTake, ToHold, ToSend, Unhurried

LEMMA SleepBooks ==
  ASSUME IInv, BooksExact, Sleep
  PROVE  BooksExact'
<1>1. r' = r /\ UNCHANGED <<cfg, down>> /\ pc = "queue" /\ ~r.active /\ pc' = "write"
  BY DEF Sleep
<1>2. PICK t : t = r
  OBVIOUS
<1>3. Booked(t, {}, {}, {}) /\ down \in [OutVcs -> Nat] /\ Unhurried(t, "write")
  <2>1. ToTake(r, pc) = {} /\ ToHold(r, pc) = {} /\ ToSend(r, pc) = {}
    BY <1>1 DEF ToTake, ToHold, ToSend
  <2> QED BY <1>1, <1>2, <2>1, BooksNow DEF Unhurried
<1>4. ToTake(t, "write") = {} /\ ToHold(t, "write") = {} /\ ToSend(t, "write") = {}
  BY DEF ToTake, ToHold, ToSend
<1> QED BY <1>1, <1>2, <1>3, <1>4, BooksAfter

LEMMA StutterBooks ==
  ASSUME BooksExact, UNCHANGED vars
  PROVE  BooksExact'
<1>1. r' = r /\ UNCHANGED <<cfg, down, pc>>
  BY DEF vars
<1>2. PICK t : t = r
  OBVIOUS
<1>3. PICK p : p = pc
  OBVIOUS
<1>4. /\ Booked(t, ToTake(t, p), ToHold(t, p), ToSend(t, p))
      /\ down \in [OutVcs -> Nat] /\ Unhurried(t, p)
  BY <1>2, <1>3, BooksNow
<1> QED BY <1>1, <1>2, <1>3, <1>4, BooksAfter

\* The output VCs an allocator grants are free, and different.
LEMMA GrantedPledged ==
  ASSUME NEW G \in Matchings(VcRequests, [x \in InVcs |-> x]), NEW V, V = Range(r.vcQ),
         V \subseteq InVcs, NEW t, t.nextBuf = r.nextBuf,
         t.vcRes = [x \in V |-> IF \E g \in G : g[1] = x
                                THEN (CHOOSE g \in G : g[1] = x)[2] ELSE None]
  PROVE  Pledged(t, V)
<1>1. ASSUME NEW x \in V, t.vcRes[x] # None
      PROVE  \E g \in G : g[1] = x /\ t.vcRes[x] = g[2]
  <2>1. \E g \in G : g[1] = x
    BY <1>1
  <2> QED BY <2>1
<1>2. /\ G \subseteq VcRequests
      /\ \A g, h \in G : g # h => [x \in InVcs |-> x][g[1]] # [x \in InVcs |-> x][h[1]] /\ g[2] # h[2]
  BY DEF Matchings
<1> SUFFICES ASSUME NEW x \in V, t.vcRes[x] # None
             PROVE  /\ t.vcRes[x] \in OutVcs
                    /\ IsAvailableFor(t.nextBuf[t.vcRes[x][1]], t.vcRes[x][2])
                    /\ \A y \in V : y # x => t.vcRes[y] # t.vcRes[x]
  BY DEF Pledged
<1>3. PICK g \in G : g[1] = x /\ t.vcRes[x] = g[2]
  BY <1>1
<1>4. g[2] \in OutVcs /\ IsAvailableFor(r.nextBuf[g[2][1]], g[2][2])
  BY <1>2 DEF VcRequests, Requestable
<1>5. ASSUME NEW y \in V, y # x, t.vcRes[y] = t.vcRes[x] PROVE FALSE
  <2>1. PICK h \in G : h[1] = y /\ t.vcRes[y] = h[2]
    BY <1>1, <1>5
  <2> QED BY <1>2, <1>3, <1>5, <2>1
<1> QED BY <1>3, <1>4, <1>5

LEMMA VCAllocEvaluateBooks ==
  ASSUME IInv, BooksExact, VCAllocEvaluate
  PROVE  BooksExact'
<1>1. PICK G \in Matchings(VcRequests, [x \in InVcs |-> x]) :
        r' = [r EXCEPT !.vcRes = [x \in Range(r.vcQ) |->
               IF \E g \in G : g[1] = x THEN (CHOOSE g \in G : g[1] = x)[2] ELSE None]]
  BY DEF VCAllocEvaluate
<1>2. pc = "vc_evaluate" /\ pc' = "sw_evaluate" /\ UNCHANGED <<cfg, down>>
  BY DEF VCAllocEvaluate
<1>3. Settled(r)
  BY <1>2, QuietState
<1>4. PICK t : t = r'
  OBVIOUS
<1> DEFINE V == Range(r.vcQ)
           res == [x \in V |-> IF \E g \in G : g[1] = x
                               THEN (CHOOSE g \in G : g[1] = x)[2] ELSE None]
<1>5. t = [r EXCEPT !.vcRes = res]
  BY <1>1, <1>4
<1>6. V \subseteq InVcs
  BY <1>3 DEF Settled, Typed, Distinct, Range
<1>7. Keeps(r, t, {"vcRes"}) /\ t.vcRes = res
  <2> HIDE DEF res
  <2> QED BY <1>3, <1>5 DEF Settled, Typed, Router, Keeps, Fields
<1>8. /\ t.state = r.state /\ t.out = r.out /\ t.nextBuf = r.nextBuf /\ t.inCredit = r.inCredit
      /\ t.outBuf = r.outBuf /\ t.crossing = r.crossing /\ t.crossbar = r.crossbar /\ t.vcQ = r.vcQ
  <2> HIDE DEF res
  <2> QED BY <1>7 DEF Keeps, Fields
<1>9. Pledged(t, V)
  BY <1>6, <1>7, <1>8, GrantedPledged
<1> HIDE DEF res, V
<1>10. Booked(r, {}, {}, {}) /\ down \in [OutVcs -> Nat] /\ Unhurried(r, pc)
  <2>1. ToTake(r, pc) = {} /\ ToHold(r, pc) = {} /\ ToSend(r, pc) = {}
    BY <1>2 DEF ToTake, ToHold, ToSend
  <2> QED BY <2>1, BooksNow
<1>11. Booked(t, {}, {}, {})
  BY <1>8, <1>10, SameBooked DEF Line, Uses
<1>12. Booked(t, V, {}, {})
  BY <1>9, <1>11 DEF Booked, Solvent, Permitted
<1>13. Unhurried(t, "sw_evaluate")
  BY <1>2, <1>8, <1>10 DEF Unhurried
<1>14. /\ ToTake(t, "sw_evaluate") = V /\ ToHold(t, "sw_evaluate") = {}
       /\ ToSend(t, "sw_evaluate") = {}
  BY <1>8 DEF ToTake, ToHold, ToSend, V
<1>15. r' = t
  BY <1>4
<1> QED BY ONLY <1>2, <1>10, <1>12, <1>13, <1>14, <1>15, BooksAfter

\* What is granted of the switch stands, and was asked for.
SwitchResults(res) ==
  \A x \in Range(r.swQ) : res[x] # None =>
    /\ Stands(r, x, res[x])
    /\ \E g \in SwRequests(Range(r.swQ)) : g[1] = x /\ g[2] = res[x]

SwitchEvaluated(t, res) ==
  /\ Keeps(r, t, {"swRes", "holdRes", "crossing", "crossbar"}) /\ t.swRes = res
  /\ \A x \in Range(r.holdQ) : t.holdRes[x] = ~IsFullFor(r.nextBuf[r.out[x][1]], r.out[x][2])
  /\ t.crossing = r.crossbar /\ \A o \in Outputs : t.crossbar[o] = <<>>

LEMMA SwitchResultsFacts ==
  ASSUME IInv, SWAllocEvaluate, NEW t, t = r'
  PROVE  \E res : SwitchResults(res) /\ SwitchEvaluated(t, res)
<1> DEFINE Q == Range(r.swQ)
           S == {x \in Q : r.state[x] # "active"}
           separate == cfg.spec /\ ~cfg.prio
           R == Preferred(SwRequests(IF separate THEN Q \ S ELSE Q))
           stalled == {x \in Q : \E o \in Wanted(r, x) : ~MayAsk(r, x, o)}
           Counts(G, E) == G \cup {g \in E : SpecGrantCounts(g, R, G)}
           Kept(C) == {g \in C : g[1] \notin stalled /\ Stands(r, g[1], g[2])}
           Result(K) == [x \in Q |-> IF \E g \in K : g[1] = x
                                     THEN (CHOOSE g \in K : g[1] = x)[2] ELSE None]
           hold == [x \in Range(r.holdQ) |-> ~IsFullFor(r.nextBuf[r.out[x][1]], r.out[x][2])]
           none == [o \in Outputs |-> <<>>]
<1>1. PICK G \in SwGrants(R), E \in SwGrants(IF separate THEN SwRequests(S) ELSE {}) :
        r' = [r EXCEPT !.swRes = Result(Kept(Counts(G, E))), !.holdRes = hold,
                       !.crossing = r.crossbar, !.crossbar = none]
  BY ONLY SWAllocEvaluate, Zenon DEF SWAllocEvaluate
<1>2. pc = "sw_evaluate"
  BY DEF SWAllocEvaluate
<1>3. Settled(r) /\ Ready
  BY <1>2, QuietState
<1> DEFINE C == Counts(G, E)
           K == Kept(C)
           res == Result(K)
<1>4. C \subseteq SwRequests(Q)
  <2>1. separate \in BOOLEAN
    BY <1>3, IQRouterAssumption DEF Ready, Config
  <2>2. Allocates(separate, S, R, G, E, C)
    BY <1>1 DEF Allocates
  <2>3. C \subseteq SwRequests(Range(r.swQ))
    <3> HIDE DEF C, separate, R, S, Q
    <3> QED BY ONLY IInv, <1>2, <2>1, <2>2, CountedApart
  <2> QED BY <2>3
<1>5. SwitchResults(res)
  <2> SUFFICES ASSUME NEW x \in Q, res[x] # None
               PROVE  Stands(r, x, res[x]) /\ \E g \in SwRequests(Q) : g[1] = x /\ g[2] = res[x]
    BY DEF SwitchResults
  <2>1. \E g \in K : g[1] = x
    OBVIOUS
  <2>2. PICK g : g \in K /\ g[1] = x /\ res[x] = g[2]
    BY <2>1
  <2>3. g \in C /\ Stands(r, x, res[x])
    BY <2>2
  <2> HIDE DEF C, K, res
  <2> QED BY <1>4, <2>2, <2>3
<1>6. t = [r EXCEPT !.swRes = res, !.holdRes = hold, !.crossing = r.crossbar, !.crossbar = none]
  BY <1>1
<1>7. \A x \in Range(r.holdQ) : hold[x] = ~IsFullFor(r.nextBuf[r.out[x][1]], r.out[x][2])
  OBVIOUS
<1>8. \A o \in Outputs : none[o] = <<>>
  OBVIOUS
<1> HIDE DEF C, K, res, hold, none
<1>9. /\ Keeps(r, t, {"swRes", "holdRes", "crossing", "crossbar"})
      /\ t.swRes = res /\ t.holdRes = hold /\ t.crossing = r.crossbar /\ t.crossbar = none
  <2>1. Router(r)
    BY <1>3 DEF Settled, Typed
  <2>2. t.swRes = res /\ t.holdRes = hold
    BY ONLY <1>6, <2>1 DEF Router, Fields
  <2>3. t.crossing = r.crossbar /\ t.crossbar = none
    BY ONLY <1>6, <2>1 DEF Router, Fields
  <2>4. Keeps(r, t, {"swRes", "holdRes", "crossing", "crossbar"})
    BY ONLY <1>6, <2>1 DEF Router, Keeps, Fields
  <2> QED BY <2>2, <2>3, <2>4
<1>10. SwitchEvaluated(t, res)
  BY <1>7, <1>8, <1>9 DEF SwitchEvaluated
<1> QED BY <1>5, <1>10

\* An entry that may send, by what has been evaluated, finds a slot.
LEMMA ResultsRoomed ==
  ASSUME IInv, pc = "sw_evaluate", Owned(r), NEW V, V = Range(r.vcQ), Pledged(r, V),
         NEW t, t.nextBuf = r.nextBuf, t.state = r.state, t.out = r.out, t.vcRes = r.vcRes,
         NEW H, H = Range(r.holdQ), NEW W, W = Range(r.swQ), SwitchResults(t.swRes),
         \A x \in H : t.holdRes[x] = ~IsFullFor(r.nextBuf[r.out[x][1]], r.out[x][2])
  PROVE  Permitted(t, V, H, W)
<1>1. Settled(r)
  BY QuietState
<1>2. ASSUME NEW c \in OutVcs, ~IsFullFor(r.nextBuf[c[1]], c[2]) PROVE Roomed(t, c)
  <2>1. c[1] \in Outputs /\ c[2] \in Vcs
    BY InVcFacts
  <2>2. r.nextBuf[c[1]] \in BufferStatesOf(InVcs)
    BY <2>1 DEF Owned
  <2> QED BY <1>2, <2>1, <2>2, NotFullHasSlot DEF Roomed
<1>3. ASSUME NEW x \in H, NEW c \in OutVcs, Uses(t, x, c), t.holdRes[x] PROVE Roomed(t, c)
  <2>1. r.out[x] = c
    BY <1>3 DEF Uses
  <2>2. ~IsFullFor(r.nextBuf[c[1]], c[2])
    BY <1>3, <2>1
  <2> QED BY <1>2, <2>2
<1>4. ASSUME NEW x \in W, t.swRes[x] # None
      PROVE  /\ x \in InVcs /\ Stands(r, x, t.swRes[x])
             /\ OutputOf(t.swRes[x]) \in Wanted(r, x) /\ MayAsk(r, x, OutputOf(t.swRes[x]))
  <2>1. PICK g \in SwRequests(W) : g[1] = x /\ g[2] = t.swRes[x]
    BY <1>4 DEF SwitchResults
  <2>2. W \in SUBSET Range(r.swQ)
    OBVIOUS
  <2>3. /\ g[1] \in InVcs /\ OutputOf(g[2]) \in Wanted(r, g[1])
        /\ MayAsk(r, g[1], OutputOf(g[2]))
    BY <2>1, <2>2, RequestFacts
  <2>4. Stands(r, x, t.swRes[x])
    BY <1>4 DEF SwitchResults
  <2> QED BY <2>1, <2>3, <2>4
<1>5. ASSUME NEW x \in W, NEW c \in OutVcs, Uses(t, x, c), t.swRes[x] # None PROVE Roomed(t, c)
  <2>1. r.state[x] = "active" /\ r.out[x] = c
    BY <1>5 DEF Uses
  <2>2. OutputOf(t.swRes[x]) = c[1]
    BY <1>4, <1>5, <2>1 DEF Wanted
  <2>3. ~IsFullFor(r.nextBuf[c[1]], c[2])
    BY <1>4, <1>5, <2>1, <2>2 DEF MayAsk
  <2> QED BY <1>2, <2>3
<1>6. ASSUME NEW x \in W \cap V, t.swRes[x] # None, t.vcRes[x] # None PROVE Roomed(t, t.vcRes[x])
  <2>1. x \in InVcs /\ Stands(r, x, t.swRes[x])
    BY <1>4, <1>6
  <2>2. Placed(r, {}, {}, {}, {}, x)
    BY <1>1, <2>1 DEF Settled, Everywhere, Local
  <2>3. r.state[x] = "vc_alloc" /\ ~cfg.piggyback
    BY <1>6, <2>2 DEF Placed, Among
  <2>4. r.vcRes[x] \in OutVcs
    BY <1>6 DEF Pledged
  <2>5. ~IsFullFor(r.nextBuf[r.vcRes[x][1]], r.vcRes[x][2])
    BY <2>1, <2>3 DEF Stands
  <2> QED BY <1>2, <2>4, <2>5
<1> QED BY <1>3, <1>5, <1>6 DEF Permitted

LEMMA SWAllocEvaluateBooks ==
  ASSUME IInv, BooksExact, SWAllocEvaluate
  PROVE  BooksExact'
<1>1. pc = "sw_evaluate" /\ pc' = "update" /\ UNCHANGED <<cfg, down>>
  BY DEF SWAllocEvaluate
<1>2. PICK t : t = r'
  OBVIOUS
<1>3. PICK res : SwitchResults(res) /\ SwitchEvaluated(t, res)
  BY <1>2, SwitchResultsFacts
<1>4. /\ t.state = r.state /\ t.out = r.out /\ t.nextBuf = r.nextBuf /\ t.inCredit = r.inCredit
      /\ t.outBuf = r.outBuf /\ t.vcQ = r.vcQ /\ t.holdQ = r.holdQ /\ t.swQ = r.swQ
      /\ t.vcRes = r.vcRes
  BY <1>3 DEF SwitchEvaluated, Keeps, Fields
<1> DEFINE V == Range(r.vcQ)
           H == Range(r.holdQ)
           W == Range(r.swQ)
<1>5. Booked(r, V, {}, {}) /\ down \in [OutVcs -> Nat] /\ Unhurried(r, pc)
  <2>1. ToTake(r, pc) = V /\ ToHold(r, pc) = {} /\ ToSend(r, pc) = {}
    BY <1>1 DEF ToTake, ToHold, ToSend
  <2> QED BY <2>1, BooksNow
<1>6. \A o \in Outputs : Line(t, o) = Line(r, o)
  <2> SUFFICES ASSUME NEW o \in Outputs PROVE Line(t, o) = Line(r, o)
    OBVIOUS
  <2>1. Typed(r)
    BY DEF IInv
  <2>2. r.outBuf[o] \in Seq(Moving) /\ r.crossbar[o] \in Seq(Moving)
    BY <2>1 DEF Typed
  <2>3. r.crossing[o] = <<>> /\ t.crossing[o] = r.crossbar[o] /\ t.crossbar[o] = <<>>
    BY <1>1, <1>3, <1>5 DEF Unhurried, SwitchEvaluated
  <2>4. \A p, q \in Seq(Moving) : (p \o q) \o <<>> = (p \o <<>>) \o q
    OBVIOUS
  <2> QED BY <1>4, <2>2, <2>3, <2>4 DEF Line
<1> HIDE DEF V, H, W
<1>7. Booked(t, V, {}, {})
  BY <1>4, <1>5, <1>6, SameBooked DEF Uses
<1>8. Permitted(t, V, H, W)
  <2>1. Owned(r) /\ Pledged(r, V)
    BY <1>5 DEF Booked
  <2>2. SwitchResults(t.swRes)
    BY <1>3 DEF SwitchEvaluated
  <2>3. \A x \in H : t.holdRes[x] = ~IsFullFor(r.nextBuf[r.out[x][1]], r.out[x][2])
    BY <1>3 DEF H, SwitchEvaluated
  <2> QED BY <1>1, <1>4, <2>1, <2>2, <2>3, ResultsRoomed DEF V, H, W
<1>9. Booked(t, V, H, W)
  BY <1>7, <1>8 DEF Booked, Solvent
<1>10. Unhurried(t, "update")
  BY <1>1, <1>4, <1>5 DEF Unhurried
<1>11. ToTake(t, "update") = V /\ ToHold(t, "update") = H /\ ToSend(t, "update") = W
  BY <1>4 DEF ToTake, ToHold, ToSend, V, H, W
<1>12. r' = t
  BY <1>2
<1> QED BY ONLY <1>1, <1>5, <1>9, <1>10, <1>11, <1>12, BooksAfter

LEMMA UpdateBooks ==
  ASSUME IInv, BooksExact, cfg.piggyback => cfg.outSp = 1, Update
  PROVE  BooksExact'
<1>1. PICK a \in IF cfg.piggyback THEN [Outputs -> Vcs] ELSE {[o \in Outputs |-> 0]} :
        Updated(r, a, r')
  BY DEF Update, Updated
<1>2. pc = "update" /\ pc' = "write" /\ UNCHANGED <<cfg, down>>
  BY DEF Update
<1>3. Settled(r) /\ Ready
  BY <1>2, QuietState
<1>4. a \in [Outputs -> Nat]
  <2>1. Vcs \subseteq Nat /\ [o \in Outputs |-> 0] \in [Outputs -> Nat]
    BY BufferStateAssumption DEF Vcs
  <2>2. a \in [Outputs -> Vcs] \/ a = [o \in Outputs |-> 0]
    BY <1>1
  <2>3. ASSUME a \in [Outputs -> Vcs] PROVE a \in [Outputs -> Nat]
    BY <2>1, <2>3
  <2> QED BY <2>1, <2>2, <2>3
<1>5. Grants(r, Range(r.vcQ), Range(r.swQ)) /\ r.credits = [i \in Inputs |-> {}]
  BY <1>2 DEF IInv, ResultsExact
<1>6. PICK t : t = r'
  OBVIOUS
<1>7. Updated(r, a, t)
  BY <1>1, <1>6
<1>8. /\ Booked(r, Range(r.vcQ), Range(r.holdQ), Range(r.swQ))
      /\ down \in [OutVcs -> Nat] /\ Unhurried(r, pc)
  <2>1. /\ ToTake(r, pc) = Range(r.vcQ) /\ ToHold(r, pc) = Range(r.holdQ)
        /\ ToSend(r, pc) = Range(r.swQ)
    BY <1>2 DEF ToTake, ToHold, ToSend
  <2> QED BY <2>1, BooksNow
<1>9. PICK N : N = {}
  OBVIOUS
<1>10. Booked(t, N, N, N) /\ t.inCredit = r.inCredit /\ \A o \in Outputs : t.crossing[o] = <<>>
  <2>1. PICK s : s = r
    OBVIOUS
  <2>2. PICK b : b = a
    OBVIOUS
  <2>3. /\ Settled(s) /\ Grants(s, Range(s.vcQ), Range(s.swQ))
        /\ s.credits = [i \in Inputs |-> {}] /\ Updated(s, b, t)
        /\ Booked(s, Range(s.vcQ), Range(s.holdQ), Range(s.swQ))
    BY <1>3, <1>5, <1>7, <1>8, <2>1, <2>2
  <2>4. Ready /\ b \in [Outputs -> Nat] /\ down \in [OutVcs -> Nat] /\ N = {}
    BY <1>3, <1>4, <1>8, <1>9, <2>2
  <2>5. Booked(t, N, N, N) /\ Delivers(s, t)
    BY ONLY cfg.piggyback => cfg.outSp = 1, <2>3, <2>4, UpdateBooked
  <2> QED BY <2>1, <2>5 DEF Delivers
<1>11. Unhurried(t, "write")
  BY <1>2, <1>8, <1>10 DEF Unhurried
<1>12. ToTake(t, "write") = N /\ ToHold(t, "write") = N /\ ToSend(t, "write") = N
  BY <1>9 DEF ToTake, ToHold, ToSend
<1>13. r' = t
  BY <1>6
<1> QED BY ONLY <1>2, <1>8, <1>10, <1>11, <1>12, <1>13, BooksAfter

-----------------------------------------------------------------------------
(***************************************************************************)
(* The credits that come in.                                               *)
(***************************************************************************)
\* b with credits for the VCs S.
Refund(b, S) == FoldSet(LAMBDA w, c : ProcessCreditFor(c, w), b, S)

\* g[s] is b with the credits for the VCs s.
RefundRun(b, S, g) ==
  /\ Refund(b, S) = g[S]
  /\ g[{}] = b
  /\ \A s \in SUBSET S : s # {} => \E w \in s : g[s] = ProcessCreditFor(g[s \ {w}], w)

LEMMA RefundFold ==
  ASSUME NEW b \in BufferStatesOf(InVcs), NEW S \in SUBSET Vcs
  PROVE  \E g : RefundRun(b, S, g)
<1> DEFINE B == BufferStatesOf(InVcs)
           F == [p \in S \X B |-> ProcessCreditFor(p[2], p[1])]
           base == b
           next(h, s) == IF s = {} THEN b
                         ELSE ProcessCreditFor(h[s \ {CHOOSE x \in s : TRUE}],
                                               CHOOSE x \in s : TRUE)
           body(h) == [s \in SUBSET S |-> next(h, s)]
<1>1. base \in B /\ IsFiniteSet(S)
  BY Partition, FS_Subset
<1>2. F \in [S \X B -> B]
  <2>1. ASSUME NEW c \in B, NEW v \in S PROVE ProcessCreditFor(c, v) \in B
    BY ProcessCreditEffect
  <2> HIDE DEF B
  <2> QED BY <2>1
<1>3. PICK h \in [SUBSET S -> B] : IsFold(h, F, base, S)
  <2> HIDE DEF F, B, base
  <2> QED BY <1>1, <1>2, FoldExists
<1>4. ASSUME NEW s \in SUBSET S, s # {}
      PROVE  F[<<Pick(s), h[s \ {Pick(s)}]>>] = ProcessCreditFor(h[s \ {Pick(s)}], Pick(s))
  <2>1. Pick(s) \in S /\ h[s \ {Pick(s)}] \in B
    BY <1>4, PickIn
  <2> HIDE DEF B
  <2> QED BY <2>1
<1>5. h = body(h)
  <2>1. ASSUME NEW s \in SUBSET S PROVE h[s] = next(h, s)
    <3>1. CASE s = {}
      BY <1>3, <3>1 DEF IsFold
    <3>2. CASE s # {}
      <4>1. h[s] = F[<<Pick(s), h[s \ {Pick(s)}]>>]
        <5> HIDE DEF F
        <5> QED BY <1>3, <3>2 DEF IsFold
      <4>2. h[s] = ProcessCreditFor(h[s \ {Pick(s)}], Pick(s))
        <5> HIDE DEF F
        <5> QED BY <1>4, <3>2, <4>1
      <4> QED BY <3>2, <4>2 DEF Pick
    <3> QED BY <3>1, <3>2
  <2> HIDE DEF next
  <2> QED BY <1>3, <2>1
<1> DEFINE g == CHOOSE g : g = body(g)
<1>6. g = body(g)
  <2> HIDE DEF body
  <2> QED BY <1>5
<1>7. Refund(b, S) = g[S]
  BY DEF Refund, FoldSet, MapThenFoldSet
<1> HIDE DEF g
<1>8. g[{}] = b
  BY <1>6
<1>9. ASSUME NEW s \in SUBSET S, s # {}
      PROVE  \E w \in s : g[s] = ProcessCreditFor(g[s \ {w}], w)
  <2>1. Pick(s) \in s
    BY <1>9, PickIn
  <2>2. g[s] = ProcessCreditFor(g[s \ {Pick(s)}], Pick(s))
    BY <1>6, <1>9 DEF Pick
  <2> QED BY <2>1, <2>2
<1> QED BY <1>7, <1>8, <1>9 DEF RefundRun

LEMMA BufferFields ==
  ASSUME NEW Owners, NEW b \in BufferStatesOf(Owners)
  PROVE  /\ b.inUseBy \in [Vcs -> Owners \cup {None}]
         /\ b.tailSent \in [Vcs -> BOOLEAN]
         /\ b.vcOcc \in [Vcs -> Int]
         /\ DOMAIN b.inUseBy = Vcs /\ DOMAIN b.tailSent = Vcs /\ DOMAIN b.vcOcc = Vcs
<1>1. /\ b.inUseBy \in [Vcs -> Owners \cup {None}]
      /\ b.tailSent \in [Vcs -> BOOLEAN]
      /\ b.vcOcc \in [Vcs -> Int]
  BY DEF BufferStatesOf
<1> QED BY <1>1

\* What the credits of a cycle, each for another VC, make of a BufferState.
LEMMA RefundEffect ==
  ASSUME NEW b \in BufferStatesOf(InVcs), NEW S \in SUBSET Vcs
  PROVE  /\ Refund(b, S) \in BufferStatesOf(InVcs)
         /\ Refund(b, S).policy = b.policy
         /\ Refund(b, S).wait = b.wait
         /\ Refund(b, S).tailSent = b.tailSent
         /\ Sound(b) /\ (\A w \in S : b.vcOcc[w] > 0) =>
              Sound(Refund(b, S)) /\ (~b.err => ~Refund(b, S).err)
         /\ \A w \in Vcs :
              /\ Refund(b, S).vcOcc[w] = b.vcOcc[w] - (IF w \in S THEN 1 ELSE 0)
              /\ Refund(b, S).inUseBy[w] = b.inUseBy[w] \/ (b.wait /\ b.tailSent[w])
<1> DEFINE B == BufferStatesOf(InVcs)
           paid == Sound(b) /\ \A w \in S : b.vcOcc[w] > 0
           After1(c, s) ==
             /\ c \in B
             /\ c.policy = b.policy
             /\ c.wait = b.wait
             /\ c.tailSent = b.tailSent
             /\ paid => Sound(c) /\ (~b.err => ~c.err)
             /\ \A w \in Vcs :
                  /\ c.vcOcc[w] = b.vcOcc[w] - (IF w \in s THEN 1 ELSE 0)
                  /\ c.inUseBy[w] = b.inUseBy[w] \/ (b.wait /\ b.tailSent[w])
<1>0. PICK g : RefundRun(b, S, g)
  BY RefundFold
<1>1. /\ Refund(b, S) = g[S]
      /\ g[{}] = b
      /\ \A s \in SUBSET S : s # {} => \E w \in s : g[s] = ProcessCreditFor(g[s \ {w}], w)
  BY <1>0 DEF RefundRun
<1>2. b \in B /\ IsFiniteSet(S)
  BY Partition, FS_Subset
<1>3. \A w \in Vcs : b.vcOcc[w] \in Int
  BY <1>2 DEF BufferStatesOf
<1> DEFINE Good == {s \in SUBSET S : After1(g[s], s)}
<1>4. After1(b, {})
  <2> HIDE DEF B
  <2> QED BY <1>2, <1>3
<1>5. ASSUME NEW s \in SUBSET S, NEW w \in s, g[s] = ProcessCreditFor(g[s \ {w}], w),
             After1(g[s \ {w}], s \ {w})
      PROVE  After1(g[s], s)
  <2> DEFINE d == g[s \ {w}]
             c == ProcessCreditFor(d, w)
             n == d.vcOcc
             u == d.inUseBy
             cn == c.vcOcc
             cu == c.inUseBy
  <2>1. /\ d \in B /\ w \in Vcs
        /\ d.policy = b.policy /\ d.wait = b.wait /\ d.tailSent = b.tailSent
        /\ paid => Sound(d) /\ (~b.err => ~d.err)
        /\ \A v \in Vcs : /\ n[v] = b.vcOcc[v] - (IF v \in s \ {w} THEN 1 ELSE 0)
                          /\ u[v] = b.inUseBy[v] \/ (b.wait /\ b.tailSent[v])
    BY <1>5
  <2>2. ASSUME paid PROVE n[w] > 0
    <3>1. b.vcOcc[w] \in Int /\ b.vcOcc[w] > 0
      BY <1>3, <2>1, <2>2
    <3>2. n[w] = b.vcOcc[w] - 0
      <4> HIDE DEF d, n
      <4> QED BY <2>1
    <3> HIDE DEF d, n
    <3> QED BY <3>1, <3>2
  <2>3. /\ c \in B /\ c.policy = d.policy /\ c.wait = d.wait /\ c.tailSent = d.tailSent
        /\ cn = [n EXCEPT ![w] = @ - 1]
        /\ cu = IF d.wait /\ n[w] = 1 /\ d.tailSent[w] THEN [u EXCEPT ![w] = None] ELSE u
    <3> HIDE DEF d
    <3>1. d \in BufferStatesOf(InVcs) /\ w \in Vcs
      BY <2>1
    <3>2. PICK e : e = d
      OBVIOUS
    <3>3. e \in BufferStatesOf(InVcs) /\ w \in Vcs
      BY <3>1, <3>2
    <3>4. /\ ProcessCreditFor(e, w) \in BufferStatesOf(InVcs)
          /\ ProcessCreditFor(e, w).policy = e.policy
          /\ ProcessCreditFor(e, w).wait = e.wait
          /\ ProcessCreditFor(e, w).tailSent = e.tailSent
          /\ ProcessCreditFor(e, w).vcOcc = [e.vcOcc EXCEPT ![w] = @ - 1]
          /\ ProcessCreditFor(e, w).inUseBy = IF e.wait /\ e.vcOcc[w] = 1 /\ e.tailSent[w]
                                              THEN [e.inUseBy EXCEPT ![w] = None]
                                              ELSE e.inUseBy
      BY ONLY <3>3, ProcessCreditEffect
    <3> QED BY <3>2, <3>4
  <2>4. ASSUME paid PROVE Sound(c) /\ (~d.err => ~c.err)
    <3> HIDE DEF d
    <3> QED BY <2>1, <2>2, <2>4, CreditSound
  <2>5. DOMAIN n = Vcs /\ DOMAIN u = Vcs
    <3>1. d \in B
      BY <2>1
    <3> HIDE DEF d
    <3> QED BY <3>1, BufferFields
  <2>6. g[s] = c
    BY <1>5
  <2> HIDE DEF d, c, n, u, cn, cu
  <2>7. ASSUME NEW v \in Vcs
        PROVE  /\ cn[v] = b.vcOcc[v] - (IF v \in s THEN 1 ELSE 0)
               /\ cu[v] = b.inUseBy[v] \/ (b.wait /\ b.tailSent[v])
    <3>1. CASE v = w
      <4>1. cn[v] = n[v] - 1 /\ n[v] = b.vcOcc[v]
        BY <1>3, <2>1, <2>3, <2>5, <3>1
      <4>2. cu[v] = u[v] \/ (b.wait /\ b.tailSent[v])
        BY <2>1, <2>3, <2>5, <3>1
      <4> QED BY <2>1, <3>1, <4>1, <4>2
    <3>2. CASE v # w
      <4>1. cn[v] = n[v] /\ cu[v] = u[v]
        BY <2>3, <2>5, <3>2
      <4> QED BY <2>1, <3>2, <4>1
    <3> QED BY <3>1, <3>2
  <2> QED BY <2>1, <2>3, <2>4, <2>6, <2>7 DEF cn, cu
<1> HIDE DEF After1
<1>6. {} \in Good
  BY <1>1, <1>4
<1>7. ASSUME NEW s \in SUBSET S, \A w \in s : s \ {w} \in Good
      PROVE  s \in Good
  <2>1. CASE s = {}
    BY <1>6, <2>1
  <2>2. CASE s # {}
    BY <1>1, <1>5, <1>7, <2>2
  <2> QED BY <2>1, <2>2
<1>8. S \in Good
  <2> DEFINE Bad == (SUBSET S) \ Good
  <2> SUFFICES ASSUME Bad # {} PROVE FALSE
    OBVIOUS
  <2>1. \A s \in Bad : IsFiniteSet(s)
    BY <1>2, FS_Subset
  <2>2. PICK s \in Bad : \A x \in s : s \ {x} \notin Bad
    <3> HIDE DEF Bad
    <3> QED BY <2>1, LeastSubset
  <2>3. s \in SUBSET S /\ \A x \in s : s \ {x} \in Good
    BY <2>2
  <2> QED BY <1>7, <2>2, <2>3
<1>9. After1(Refund(b, S), S)
  BY <1>1, <1>8
<1> QED BY <1>9 DEF After1

\* The credits a router takes in lower the occupancies by what was on the way
\* back, and release a VC at most after its tail.
LEMMA RefundBooked ==
  ASSUME NEW s, Typed(s), NEW N, N = {}, Booked(s, N, N, N), down \in [OutVcs -> Nat],
         s.inCredit \in [Outputs -> SUBSET Vcs],
         NEW t, AsActive(s, t), t.out = s.out, t.outBuf = s.outBuf, t.crossing = s.crossing,
         t.crossbar = s.crossbar, t.nextBuf = [o \in Outputs |-> t.nextBuf[o]],
         \A o \in Outputs : t.nextBuf[o] = Refund(s.nextBuf[o], s.inCredit[o]),
         \A o \in Outputs : t.inCredit[o] = {}
  PROVE  Booked(t, N, N, N)
<1>1. \A o \in Outputs : s.nextBuf[o] \in BufferStatesOf(InVcs) /\ s.inCredit[o] \in SUBSET Vcs
  BY DEF Booked, Owned
<1>2. ASSUME NEW o \in Outputs
      PROVE  /\ t.nextBuf[o] \in BufferStatesOf(InVcs)
             /\ t.nextBuf[o].policy = s.nextBuf[o].policy
             /\ t.nextBuf[o].wait = s.nextBuf[o].wait
             /\ t.nextBuf[o].tailSent = s.nextBuf[o].tailSent
             /\ Sound(s.nextBuf[o]) /\ (\A w \in s.inCredit[o] : s.nextBuf[o].vcOcc[w] > 0) =>
                  Sound(t.nextBuf[o]) /\ (~s.nextBuf[o].err => ~t.nextBuf[o].err)
             /\ \A w \in Vcs :
                  /\ t.nextBuf[o].vcOcc[w] =
                       s.nextBuf[o].vcOcc[w] - (IF w \in s.inCredit[o] THEN 1 ELSE 0)
                  /\ \/ t.nextBuf[o].inUseBy[w] = s.nextBuf[o].inUseBy[w]
                     \/ s.nextBuf[o].wait /\ s.nextBuf[o].tailSent[w]
  <2>1. PICK b : b = s.nextBuf[o]
    OBVIOUS
  <2>2. PICK S : S = s.inCredit[o]
    OBVIOUS
  <2>3. PICK d : d = t.nextBuf[o]
    OBVIOUS
  <2>4. b \in BufferStatesOf(InVcs) /\ S \in SUBSET Vcs /\ d = Refund(b, S)
    BY <1>1, <2>1, <2>2, <2>3
  <2>5. /\ d \in BufferStatesOf(InVcs) /\ d.policy = b.policy /\ d.wait = b.wait
        /\ d.tailSent = b.tailSent
        /\ Sound(b) /\ (\A w \in S : b.vcOcc[w] > 0) => Sound(d) /\ (~b.err => ~d.err)
        /\ \A w \in Vcs : /\ d.vcOcc[w] = b.vcOcc[w] - (IF w \in S THEN 1 ELSE 0)
                          /\ d.inUseBy[w] = b.inUseBy[w] \/ (b.wait /\ b.tailSent[w])
    BY ONLY <2>4, RefundEffect
  <2> QED BY <2>1, <2>2, <2>3, <2>5
<1>3. \A y \in InVcs, c \in OutVcs : Uses(t, y, c) <=> Uses(s, y, c)
  BY DEF Uses, AsActive
<1>4. Owned(t)
  <2>1. ASSUME NEW o \in Outputs
        PROVE  /\ t.nextBuf[o].policy = cfg.policy /\ t.nextBuf[o].wait = cfg.wait
               /\ OwnerSound(t.nextBuf[o])
    <3>1. /\ s.nextBuf[o].policy = cfg.policy /\ s.nextBuf[o].wait = cfg.wait
          /\ OwnerSound(s.nextBuf[o])
      BY DEF Booked, Owned
    <3> QED BY <1>2, <3>1 DEF OwnerSound
  <2>2. ASSUME NEW c \in OutVcs, NEW x \in InVcs
        PROVE  Uses(t, x, c) <=> Owns(t.nextBuf[c[1]], c[2], x)
    <3>1. Uses(s, x, c) <=> Owns(s.nextBuf[c[1]], c[2], x)
      BY DEF Booked, Owned
    <3>2. c[1] \in Outputs /\ c[2] \in Vcs
      BY InVcFacts
    <3>3. Owns(t.nextBuf[c[1]], c[2], x) <=> Owns(s.nextBuf[c[1]], c[2], x)
      BY <1>2, <3>2 DEF Owns
    <3> QED BY <1>3, <3>1, <3>3
  <2>3. t.nextBuf \in [Outputs -> BufferStatesOf(InVcs)]
    BY <1>2
  <2> QED BY <2>1, <2>2, <2>3 DEF Owned
<1>5. ASSUME NEW c \in OutVcs
      PROVE  /\ s.nextBuf[c[1]].vcOcc[c[2]] =
                  down[c] + Count(Line(s, c[1]), For(c[2]))
                          + (IF c[2] \in s.inCredit[c[1]] THEN 1 ELSE 0)
             /\ down[c] \in Nat /\ Count(Line(s, c[1]), For(c[2])) \in Nat
             /\ c[1] \in Outputs /\ c[2] \in Vcs
  BY LineType, InVcFacts DEF Booked, Balanced
<1>6. Balanced(t)
  <2> SUFFICES ASSUME NEW c \in OutVcs
               PROVE  t.nextBuf[c[1]].vcOcc[c[2]] =
                        down[c] + Count(Line(t, c[1]), For(c[2]))
                                + (IF c[2] \in t.inCredit[c[1]] THEN 1 ELSE 0)
    BY DEF Balanced
  <2> DEFINE n == Count(Line(s, c[1]), For(c[2]))
  <2>1. Line(t, c[1]) = Line(s, c[1]) /\ c[2] \notin t.inCredit[c[1]]
    BY <1>5 DEF Line
  <2>2. /\ s.nextBuf[c[1]].vcOcc[c[2]] =
             down[c] + n + (IF c[2] \in s.inCredit[c[1]] THEN 1 ELSE 0)
        /\ n \in Nat /\ down[c] \in Nat
    BY <1>5
  <2>3. t.nextBuf[c[1]].vcOcc[c[2]] =
          s.nextBuf[c[1]].vcOcc[c[2]] - (IF c[2] \in s.inCredit[c[1]] THEN 1 ELSE 0)
    BY <1>2, <1>5
  <2>4. Count(Line(t, c[1]), For(c[2])) = n
    BY <2>1
  <2> HIDE DEF n
  <2>5. t.nextBuf[c[1]].vcOcc[c[2]] = down[c] + n + 0
    BY <2>2, <2>3
  <2> QED BY <2>1, <2>4, <2>5
<1>7. ASSUME Provisioned(cfg) PROVE Solvent(t, N, N, N)
  <2>1. \A o \in Outputs : Sound(s.nextBuf[o]) /\ ~s.nextBuf[o].err
    BY <1>7 DEF Booked, Solvent
  <2>2. ASSUME NEW o \in Outputs, NEW w \in s.inCredit[o] PROVE s.nextBuf[o].vcOcc[w] > 0
    <3> DEFINE c == <<o, w>>
               n == Count(Line(s, o), For(w))
    <3>1. c \in OutVcs /\ c[1] = o /\ c[2] = w
      BY <1>1, <2>2 DEF OutVcs
    <3>2. s.nextBuf[o].vcOcc[w] = down[c] + n + 1 /\ down[c] \in Nat /\ n \in Nat
      <4> HIDE DEF c
      <4> QED BY <1>5, <2>2, <3>1
    <3> HIDE DEF c, n
    <3> QED BY <3>2
  <2>3. \A o \in Outputs : Sound(t.nextBuf[o]) /\ ~t.nextBuf[o].err
    BY <1>2, <2>1, <2>2
  <2> QED BY <2>3 DEF Solvent, Permitted
<1>8. Pledged(t, N)
  BY DEF Pledged
<1> QED BY <1>4, <1>6, <1>7, <1>8 DEF Booked

LEMMA InputQueuingBooks ==
  ASSUME IInv, BooksExact, InputQueuing
  PROVE  BooksExact'
<1> DEFINE credited == [o \in Outputs |-> Refund(r.nextBuf[o], r.inCredit[o])]
<1>1. PICK b : b = credited
  OBVIOUS
<1>2. b = [o \in Outputs |-> b[o]] /\ \A o \in Outputs : b[o] = Refund(r.nextBuf[o], r.inCredit[o])
  BY <1>1
<1>3. /\ r' = [Entered(r) EXCEPT !.inFlit = [i \in Inputs |-> None],
                                 !.inCredit = [o \in Outputs |-> {}],
                                 !.nextBuf = credited, !.activity = FALSE]
      /\ UNCHANGED <<cfg, down>> /\ pc = "queue" /\ pc' = "vc_evaluate"
  BY DEF InputQueuing, Entered, Ports, Refund
<1> HIDE DEF credited
<1>4. PICK t : t = r'
  OBVIOUS
<1>5. Resting(r, Arriving(r.inFlit)) /\ Ready
  BY <1>3, QueueState
<1>6. /\ t.inCredit = [o \in Outputs |-> {}] /\ t.nextBuf = b
      /\ Keeps(r, t, {"fifo", "state", "routeQ", "vcQ", "swQ", "inFlit", "inCredit", "nextBuf",
                      "activity"})
      /\ AsActive(r, t)
  <2>1. Queued(r, b, t)
    BY <1>1, <1>2, <1>3, <1>4 DEF Queued
  <2> QED BY <1>5, <2>1, EnteredSettled
<1>7. /\ t.out = r.out /\ t.crossbar = r.crossbar /\ t.crossing = r.crossing
      /\ t.outBuf = r.outBuf
  BY <1>6 DEF Keeps, Fields
<1>8. PICK N : N = {}
  OBVIOUS
<1>9. Booked(r, N, N, N) /\ down \in [OutVcs -> Nat] /\ Unhurried(r, pc)
  <2>1. ToTake(r, pc) = N /\ ToHold(r, pc) = N /\ ToSend(r, pc) = N
    BY <1>3, <1>8 DEF ToTake, ToHold, ToSend
  <2> QED BY <2>1, BooksNow
<1>10. Booked(t, N, N, N)
  <2>1. PICK s : s = r
    OBVIOUS
  <2>2. Typed(s) /\ Booked(s, N, N, N) /\ AsActive(s, t) /\ s.inCredit \in [Outputs -> SUBSET Vcs]
    BY <1>6, <1>9, <2>1 DEF IInv, Unhurried
  <2>3. /\ t.out = s.out /\ t.outBuf = s.outBuf /\ t.crossing = s.crossing
        /\ t.crossbar = s.crossbar
    BY <1>7, <2>1
  <2>4. /\ t.nextBuf = [o \in Outputs |-> t.nextBuf[o]]
        /\ \A o \in Outputs : t.nextBuf[o] = Refund(s.nextBuf[o], s.inCredit[o])
        /\ \A o \in Outputs : t.inCredit[o] = {}
    BY <1>2, <1>6, <2>1
  <2>5. N = {} /\ down \in [OutVcs -> Nat]
    BY <1>8, <1>9
  <2> QED BY ONLY <2>2, <2>3, <2>4, <2>5, RefundBooked
<1>11. Unhurried(t, "vc_evaluate")
  <2>1. t.inCredit \in [Outputs -> SUBSET Vcs] /\ \A o \in Outputs : t.inCredit[o] = {}
    BY <1>6
  <2> QED BY <1>3, <1>7, <1>9, <2>1 DEF Unhurried
<1>12. ToTake(t, "vc_evaluate") = N /\ ToHold(t, "vc_evaluate") = N /\ ToSend(t, "vc_evaluate") = N
  BY <1>8 DEF ToTake, ToHold, ToSend
<1>13. r' = t
  BY <1>4
<1> QED BY ONLY <1>3, <1>9, <1>10, <1>11, <1>12, <1>13, BooksAfter

LEMMA ReadInputsBooks ==
  ASSUME IInv, BooksExact, NEW A, NEW C \in Credited, ReadInputs(A, C)
  PROVE  BooksExact'
<1> DEFINE on == r.active \/ Arriving(A) # {} \/ \E o \in Outputs : C[o] # {}
           d == [c \in OutVcs |-> IF c[2] \in C[c[1]] THEN down[c] - 1 ELSE down[c]]
<1>1. /\ pc = "read" /\ pc' = "queue" /\ cfg' = cfg /\ down' = d
      /\ r' = [r EXCEPT !.inFlit = A, !.inCredit = C, !.active = on]
  BY DEF ReadInputs
<1>2. C \in [Outputs -> SUBSET Vcs] /\ \A o \in Outputs : \A w \in C[o] : down[<<o, w>>] > 0
  BY DEF Credited
<1>3. PICK t : t = r'
  OBVIOUS
<1>4. on \/ \A o \in Outputs : C[o] = {}
  OBVIOUS
<1> HIDE DEF on
<1>5. /\ t.inCredit = C /\ (t.active <=> on)
      /\ t.state = r.state /\ t.out = r.out /\ t.nextBuf = r.nextBuf
      /\ t.outBuf = r.outBuf /\ t.crossing = r.crossing /\ t.crossbar = r.crossbar
  <2>1. Router(r)
    BY DEF IInv, Typed
  <2>2. t.inCredit = C
    BY ONLY <1>1, <1>3, <2>1 DEF Router
  <2>3. t.active = on
    BY ONLY <1>1, <1>3, <2>1 DEF Router
  <2>4. Keeps(r, t, {"inFlit", "inCredit", "active"})
    BY ONLY <1>1, <1>3, <2>1 DEF Router, Keeps, Fields
  <2> QED BY <2>2, <2>3, <2>4 DEF Keeps, Fields
<1>6. PICK N : N = {}
  OBVIOUS
<1>7. Booked(r, N, N, N) /\ down \in [OutVcs -> Nat] /\ Unhurried(r, pc)
  <2>1. ToTake(r, pc) = N /\ ToHold(r, pc) = N /\ ToSend(r, pc) = N
    BY <1>1, <1>6 DEF ToTake, ToHold, ToSend
  <2> QED BY <2>1, BooksNow
<1>8. \A c \in OutVcs :
        /\ c[2] \in C[c[1]] => down[c] > 0
        /\ d[c] = IF c[2] \in C[c[1]] THEN down[c] - 1 ELSE down[c]
        /\ down[c] \in Nat
  BY <1>2, <1>7, InVcFacts
<1> HIDE DEF d
<1>9. d \in [OutVcs -> Nat]
  <2>1. \A c \in OutVcs : d[c] \in Nat
    BY <1>8
  <2> QED BY <2>1 DEF d
<1>10. Balances(t, d)
  <2> SUFFICES ASSUME NEW c \in OutVcs
               PROVE  t.nextBuf[c[1]].vcOcc[c[2]] =
                        d[c] + Count(Line(t, c[1]), For(c[2]))
                             + (IF c[2] \in t.inCredit[c[1]] THEN 1 ELSE 0)
    BY DEF Balances
  <2> DEFINE n == Count(Line(r, c[1]), For(c[2]))
  <2>1. c[1] \in Outputs /\ n \in Nat
    BY InVcFacts, LineType DEF IInv
  <2>2. r.inCredit[c[1]] = {}
    BY <1>1, <1>7, <2>1 DEF Unhurried
  <2>3. r.nextBuf[c[1]].vcOcc[c[2]] =
          down[c] + n + (IF c[2] \in r.inCredit[c[1]] THEN 1 ELSE 0)
    BY <1>7 DEF Booked, Balanced
  <2>4. Count(Line(t, c[1]), For(c[2])) = n
    BY <1>5 DEF Line
  <2> HIDE DEF n
  <2>5. r.nextBuf[c[1]].vcOcc[c[2]] = down[c] + n /\ down[c] \in Nat
    BY <1>8, <2>1, <2>2, <2>3
  <2>6. d[c] + n + (IF c[2] \in C[c[1]] THEN 1 ELSE 0) = down[c] + n
    BY <1>8, <2>1
  <2> QED BY <1>5, <2>4, <2>5, <2>6
<1>11. Owned(t) /\ Pledged(t, N) /\ (Provisioned(cfg) => Solvent(t, N, N, N))
  BY <1>5, <1>6, <1>7 DEF Booked, Owned, Pledged, Solvent, Permitted, Uses
<1>12. Unhurried(t, "queue")
  BY <1>1, <1>2, <1>4, <1>5, <1>7 DEF Unhurried
<1>13. ToTake(t, "queue") = N /\ ToHold(t, "queue") = N /\ ToSend(t, "queue") = N
  BY <1>6 DEF ToTake, ToHold, ToSend
<1>14. r' = t
  BY <1>3
<1> QED BY ONLY <1>1, <1>9, <1>10, <1>11, <1>12, <1>13, <1>14, BooksStep

\* The flit that leaves an output is the first of its line.
LEMMA LeaveLine ==
  ASSUME NEW s, Typed(s), NEW o \in Outputs, NEW t,
         t.outBuf[o] = IF s.outBuf[o] = <<>> THEN <<>> ELSE Tail(s.outBuf[o]),
         t.crossing[o] = s.crossing[o], t.crossbar[o] = s.crossbar[o], NEW w \in Vcs
  PROVE  Count(Line(s, o), For(w)) =
           Count(Line(t, o), For(w))
           + (IF s.outBuf[o] # <<>> /\ Head(s.outBuf[o]).vc = w THEN 1 ELSE 0)
<1> DEFINE p == s.outBuf[o]
           u == t.outBuf[o]
           q == s.crossing[o]
           v == s.crossbar[o]
           M == For(w)
<1>1. p \in Seq(Moving) /\ q \in Seq(Moving) /\ v \in Seq(Moving)
  BY DEF Typed
<1>2. u \in Seq(Moving)
  BY <1>1
<1>3. Line(s, o) = (p \o q) \o v /\ Line(t, o) = (u \o q) \o v
  BY DEF Line
<1>4. Count(p, M) = Count(u, M) + (IF p # <<>> /\ Head(p).vc = w THEN 1 ELSE 0)
  <2>1. CASE p = <<>>
    <3>1. u = p /\ Count(p, M) \in Nat
      BY <1>1, <2>1, CountType
    <3> HIDE DEF p, u, M
    <3> QED BY <2>1, <3>1
  <2>2. CASE p # <<>>
    <3>1. u = Tail(p) /\ Head(p) \in Moving
      BY <1>1, <2>2
    <3> HIDE DEF p, u
    <3>2. Count(p, M) = Count(Tail(p), M) + (IF Head(p) \in M THEN 1 ELSE 0)
      <4> HIDE DEF M
      <4> QED BY <1>1, <2>2, CountTail
    <3>3. Head(p) \in M <=> Head(p).vc = w
      BY <3>1 DEF For
    <3> QED BY <2>2, <3>1, <3>2, <3>3
  <2> QED BY <2>1, <2>2
<1> HIDE DEF p, u, q, v, M
<1>5. /\ Count((p \o q) \o v, M) = (Count(p, M) + Count(q, M)) + Count(v, M)
      /\ Count((u \o q) \o v, M) = (Count(u, M) + Count(q, M)) + Count(v, M)
  <2>1. p \o q \in Seq(Moving) /\ u \o q \in Seq(Moving)
    BY <1>1, <1>2
  <2>2. Count(p \o q, M) = Count(p, M) + Count(q, M) /\ Count(u \o q, M) = Count(u, M) + Count(q, M)
    BY <1>1, <1>2, CountConcat
  <2>3. /\ Count((p \o q) \o v, M) = Count(p \o q, M) + Count(v, M)
        /\ Count((u \o q) \o v, M) = Count(u \o q, M) + Count(v, M)
    BY ONLY <1>1, <2>1, CountConcat
  <2> QED BY <2>2, <2>3
<1>6. Count(u, M) \in Nat /\ Count(q, M) \in Nat /\ Count(v, M) \in Nat
  BY <1>1, <1>2, CountType
<1>7. Count((p \o q) \o v, M) = Count((u \o q) \o v, M) + (IF p # <<>> /\ Head(p).vc = w THEN 1 ELSE 0)
  BY <1>4, <1>5, <1>6
<1> QED BY <1>3, <1>7 DEF p, M

LEMMA WriteOutputsBooks ==
  ASSUME IInv, BooksExact, WriteOutputs
  PROVE  BooksExact'
<1> DEFINE rest == [o \in Outputs |-> IF r.outBuf[o] = <<>> THEN <<>> ELSE Tail(r.outBuf[o])]
           none == [i \in Inputs |-> {}]
           d == [c \in OutVcs |-> IF Leaves(c) THEN down[c] + 1 ELSE down[c]]
<1>1. /\ pc = "write" /\ pc' = "read" /\ cfg' = cfg /\ down' = d
      /\ r' = [r EXCEPT !.outBuf = rest, !.credits = none]
  BY DEF WriteOutputs
<1>2. \A o \in Outputs : rest[o] = IF r.outBuf[o] = <<>> THEN <<>> ELSE Tail(r.outBuf[o])
  OBVIOUS
<1>3. PICK t : t = r'
  OBVIOUS
<1> HIDE DEF rest, none
<1>4. /\ t.outBuf = rest
      /\ t.state = r.state /\ t.out = r.out /\ t.nextBuf = r.nextBuf /\ t.inCredit = r.inCredit
      /\ t.crossing = r.crossing /\ t.crossbar = r.crossbar /\ t.active = r.active
  <2>1. Router(r)
    BY DEF IInv, Typed
  <2>2. t.outBuf = rest
    BY ONLY <1>1, <1>3, <2>1 DEF Router
  <2>3. Keeps(r, t, {"outBuf", "credits"})
    BY ONLY <1>1, <1>3, <2>1 DEF Router, Keeps, Fields
  <2> QED BY <2>2, <2>3 DEF Keeps, Fields
<1>5. PICK N : N = {}
  OBVIOUS
<1>6. Booked(r, N, N, N) /\ down \in [OutVcs -> Nat] /\ Unhurried(r, pc)
  <2>1. ToTake(r, pc) = N /\ ToHold(r, pc) = N /\ ToSend(r, pc) = N
    BY <1>1, <1>5 DEF ToTake, ToHold, ToSend
  <2> QED BY <2>1, BooksNow
<1>7. \A c \in OutVcs : /\ d[c] = IF Leaves(c) THEN down[c] + 1 ELSE down[c]
                        /\ down[c] \in Nat
  BY <1>6
<1> HIDE DEF d
<1>8. d \in [OutVcs -> Nat]
  <2>1. \A c \in OutVcs : d[c] \in Nat
    BY <1>7
  <2> QED BY <2>1 DEF d
<1>9. Balances(t, d)
  <2> SUFFICES ASSUME NEW c \in OutVcs
               PROVE  t.nextBuf[c[1]].vcOcc[c[2]] =
                        d[c] + Count(Line(t, c[1]), For(c[2]))
                             + (IF c[2] \in t.inCredit[c[1]] THEN 1 ELSE 0)
    BY DEF Balances
  <2> DEFINE n == Count(Line(r, c[1]), For(c[2]))
             m == Count(Line(t, c[1]), For(c[2]))
             k == IF c[2] \in r.inCredit[c[1]] THEN 1 ELSE 0
  <2>1. c[1] \in Outputs /\ c[2] \in Vcs /\ Typed(r)
    BY InVcFacts DEF IInv
  <2>2. PICK o : o = c[1]
    OBVIOUS
  <2>3. /\ t.outBuf[o] = IF r.outBuf[o] = <<>> THEN <<>> ELSE Tail(r.outBuf[o])
        /\ t.crossing[o] = r.crossing[o] /\ t.crossbar[o] = r.crossbar[o] /\ o \in Outputs
    BY <1>2, <1>4, <2>1, <2>2
  <2>4. n = m + (IF r.outBuf[o] # <<>> /\ Head(r.outBuf[o]).vc = c[2] THEN 1 ELSE 0)
    <3>1. PICK s : s = r
      OBVIOUS
    <3>2. PICK w : w = c[2]
      OBVIOUS
    <3>3. /\ t.outBuf[o] = IF s.outBuf[o] = <<>> THEN <<>> ELSE Tail(s.outBuf[o])
          /\ t.crossing[o] = s.crossing[o] /\ t.crossbar[o] = s.crossbar[o]
          /\ Typed(s) /\ o \in Outputs /\ w \in Vcs
      BY <2>1, <2>3, <3>1, <3>2
    <3>4. Count(Line(s, o), For(w)) =
            Count(Line(t, o), For(w))
            + (IF s.outBuf[o] # <<>> /\ Head(s.outBuf[o]).vc = w THEN 1 ELSE 0)
      BY ONLY <3>3, LeaveLine
    <3> QED BY ONLY <2>2, <3>1, <3>2, <3>4
  <2>5. Leaves(c) <=> r.outBuf[o] # <<>> /\ Head(r.outBuf[o]).vc = c[2]
    BY <2>2 DEF Leaves
  <2>6. n \in Nat /\ m \in Nat /\ k \in {0, 1}
    <3>1. n \in Nat
      BY <2>1, LineType
    <3>2. Line(t, o) \in Seq(Moving)
      <4>1. r.outBuf[o] \in Seq(Moving) /\ r.crossing[o] \in Seq(Moving) /\ r.crossbar[o] \in Seq(Moving)
        BY <2>1, <2>2 DEF Typed
      <4>2. t.outBuf[o] \in Seq(Moving)
        BY <2>3, <4>1
      <4> QED BY <2>3, <4>1, <4>2 DEF Line
    <3>3. m \in Nat
      BY <2>2, <3>2, CountType
    <3> QED BY <3>1, <3>3
  <2>7. r.nextBuf[c[1]].vcOcc[c[2]] = down[c] + n + k
    BY <1>6 DEF Booked, Balanced
  <2>8. t.nextBuf[c[1]].vcOcc[c[2]] = r.nextBuf[c[1]].vcOcc[c[2]]
        /\ k = IF c[2] \in t.inCredit[c[1]] THEN 1 ELSE 0
    BY <1>4
  <2> HIDE DEF n, m, k
  <2>9. n = m + (IF Leaves(c) THEN 1 ELSE 0)
    BY <2>4, <2>5
  <2>10. down[c] + n + k = d[c] + m + k
    BY <1>7, <2>6, <2>9
  <2> QED BY <2>7, <2>8, <2>10 DEF m
<1>10. Owned(t) /\ Pledged(t, N) /\ (Provisioned(cfg) => Solvent(t, N, N, N))
  BY <1>4, <1>5, <1>6 DEF Booked, Owned, Pledged, Solvent, Permitted, Uses
<1>11. Unhurried(t, "read")
  BY <1>1, <1>4, <1>6 DEF Unhurried
<1>12. ToTake(t, "read") = N /\ ToHold(t, "read") = N /\ ToSend(t, "read") = N
  BY <1>5 DEF ToTake, ToHold, ToSend
<1>13. r' = t
  BY <1>3
<1> QED BY ONLY <1>1, <1>8, <1>9, <1>10, <1>11, <1>12, <1>13, BooksStep

LEMMA InitBooks ==
  ASSUME Init
  PROVE  BooksExact
<1>1. cfg.policy \in Policies /\ cfg.wait \in BOOLEAN
  BY IQRouterAssumption DEF Init, Config
<1> DEFINE new == New(cfg.policy, cfg.wait)
<1>2. /\ new \in BufferStatesOf(InVcs) /\ new.policy = cfg.policy
      /\ new.vcOcc = [v \in Vcs |-> 0] /\ new.inUseBy = [v \in Vcs |-> None]
  BY <1>1, NewType
<1>3. new.wait = cfg.wait /\ Sound(new) /\ ~new.err
  BY <1>1, NewSound DEF New
<1> HIDE DEF new
<1>4. /\ r.nextBuf = [o \in Outputs |-> new] /\ r.inCredit = [o \in Outputs |-> {}]
      /\ r.crossbar = [o \in Outputs |-> <<>>] /\ r.crossing = [o \in Outputs |-> <<>>]
      /\ r.outBuf = [o \in Outputs |-> <<>>] /\ r.state = [x \in InVcs |-> "idle"]
      /\ down = [c \in OutVcs |-> 0] /\ pc = "read" /\ ~r.active
  BY DEF Init, new
<1>5. Owned(r)
  <2>1. \A o \in Outputs : OwnerSound(r.nextBuf[o])
    BY <1>3, <1>4 DEF Sound
  <2>2. \A c \in OutVcs, x \in InVcs : ~Uses(r, x, c) /\ ~Owns(r.nextBuf[c[1]], c[2], x)
    BY <1>2, <1>4, InVcFacts DEF Uses, Owns
  <2> QED BY <1>2, <1>3, <1>4, <2>1, <2>2 DEF Owned
<1>6. Balanced(r)
  <2> SUFFICES ASSUME NEW c \in OutVcs
               PROVE  r.nextBuf[c[1]].vcOcc[c[2]] =
                        down[c] + Count(Line(r, c[1]), For(c[2]))
                                + (IF c[2] \in r.inCredit[c[1]] THEN 1 ELSE 0)
    BY DEF Balanced
  <2>1. c[1] \in Outputs /\ c[2] \in Vcs
    BY InVcFacts
  <2>2. Line(r, c[1]) = <<>>
    <3>1. (<<>> \o <<>>) \o <<>> = <<>>
      OBVIOUS
    <3> QED BY <1>4, <2>1, <3>1 DEF Line
  <2>3. Count(<<>>, For(c[2])) = 0
    <3>1. Places(<<>>, For(c[2])) = {}
      BY DEF Places
    <3> QED BY <3>1, FS_EmptySet DEF Count
  <2> QED BY <1>2, <1>4, <2>1, <2>2, <2>3
<1>7. Booked(r, {}, {}, {})
  <2>1. Solvent(r, {}, {}, {})
    BY <1>3, <1>4 DEF Solvent, Permitted
  <2> QED BY <1>5, <1>6, <2>1 DEF Booked, Pledged
<1>8. down \in [OutVcs -> Nat] /\ r.inCredit \in [Outputs -> SUBSET Vcs]
  BY <1>4
<1> QED BY <1>4, <1>7, <1>8 DEF BooksExact

LEMMA StepBooks ==
  ASSUME \A c \in Configs : Sensible(c), IInv, BooksExact, [Next]_vars
  PROVE  BooksExact'
<1>1. cfg.piggyback => cfg.outSp = 1
  BY DEF IInv, Ready, Sensible
<1>2. CASE Receive
  BY <1>2, ReadInputsBooks DEF Receive
<1>3. CASE Sleep
  BY <1>3, SleepBooks
<1>4. CASE InputQueuing
  BY <1>4, InputQueuingBooks
<1>5. CASE VCAllocEvaluate
  BY <1>5, VCAllocEvaluateBooks
<1>6. CASE SWAllocEvaluate
  BY <1>6, SWAllocEvaluateBooks
<1>7. CASE Update
  BY <1>1, <1>7, UpdateBooks
<1>8. CASE WriteOutputs
  BY <1>8, WriteOutputsBooks
<1>9. CASE UNCHANGED vars
  BY <1>9, StutterBooks
<1> QED BY <1>2, <1>3, <1>4, <1>5, <1>6, <1>7, <1>8, <1>9 DEF Next

\* The books of the output VCs balance in every state of a Sensible router.
THEOREM BooksInvariance ==
  ASSUME \A c \in Configs : Sensible(c)
  PROVE  Spec => [](IInv /\ BooksExact)
<1>1. Init => IInv /\ BooksExact
  BY InitIInv, InitBooks
<1>2. (IInv /\ BooksExact) /\ [Next]_vars => (IInv /\ BooksExact)'
  BY StepIInv, StepBooks
<1> QED BY <1>1, <1>2, PTL DEF Spec

\* An output VC is in use exactly while one input VC sends a packet on it, and
\* the ports of the crossbar are held as the three tables say: a grant made
\* before the update never meets a VC or a port that another update has taken.
THEOREM OwnershipIsExact ==
  ASSUME \A c \in Configs : Sensible(c)
  PROVE  Spec => []OwnershipExact
<1>1. IInv /\ BooksExact => OwnershipExact
  <2> SUFFICES ASSUME IInv, BooksExact PROVE OwnershipExact
    OBVIOUS
  <2>1. Owned(r)
    BY BooksNow DEF Booked
  <2>2. ASSUME ~cfg.wait, NEW o \in Outputs, NEW w \in Vcs
        PROVE  {x \in InVcs : r.state[x] = "active" /\ r.out[x] = <<o, w>>} =
                 {r.nextBuf[o].inUseBy[w]} \ {None}
    <3> DEFINE b == r.nextBuf[o]
               c == <<o, w>>
    <3>1. /\ b \in BufferStatesOf(InVcs) /\ ~b.wait /\ OwnerSound(b)
          /\ c \in OutVcs /\ c[1] = o /\ c[2] = w
      BY <2>1, <2>2 DEF Owned, OutVcs
    <3>2. b.inUseBy[w] \in InVcs \cup {None} /\ None \notin InVcs
      BY <3>1, InVcFacts, BufferFields
    <3>3. b.inUseBy[w] # None => ~b.tailSent[w]
      BY <3>1 DEF OwnerSound
    <3>4. \A x \in InVcs : Uses(r, x, c) <=> Owns(b, w, x)
      <4>1. \A x \in InVcs : Uses(r, x, c) <=> Owns(r.nextBuf[c[1]], c[2], x)
        BY <2>1, <3>1 DEF Owned
      <4> HIDE DEF c
      <4> QED BY <3>1, <4>1
    <3> HIDE DEF b, c
    <3>5. \A x \in InVcs : r.state[x] = "active" /\ r.out[x] = c <=> x = b.inUseBy[w]
      BY <3>2, <3>3, <3>4 DEF Uses, Owns
    <3>6. {x \in InVcs : r.state[x] = "active" /\ r.out[x] = c} = {b.inUseBy[w]} \ {None}
      BY <3>2, <3>5
    <3> QED BY <3>6 DEF b, c
  <2>3. CrossbarExact
    BY HeldExact
  <2> QED BY <2>2, <2>3 DEF OwnershipExact, CrossbarExact
<1> QED BY <1>1, BooksInvariance, PTL

\* OnWay counts what Balanced counts.
LEMMA OnWayCounts ==
  ASSUME NEW s, Typed(s), NEW o \in Outputs, NEW w \in Vcs
  PROVE  OnWay(s, o, w) = Count(Line(s, o), For(w))
<1> DEFINE q == Line(s, o)
<1>1. q \in Seq(Moving)
  BY LineType
<1> HIDE DEF q
<1>2. DOMAIN q = 1 .. Len(q) /\ \A k \in DOMAIN q : q[k] \in Moving
  BY <1>1
<1>3. Places(q, For(w)) = {k \in 1 .. Len(q) : q[k].vc = w}
  BY <1>2 DEF Places, For
<1> QED BY <1>3 DEF OnWay, Count, q

\* Slots add up at both ends of a router: those that upstream counts of an input
\* VC, and those that the router counts of an output VC.
SlotsAddUp ==
  /\ \A x \in InVcs :
       used[x] = Len(r.fifo[x])
                 + (IF x \in Arriving(r.inFlit) THEN 1 ELSE 0)
                 + (IF x[2] \in r.credits[x[1]] THEN 1 ELSE 0)
  /\ \A o \in Outputs, w \in Vcs :
       r.nextBuf[o].vcOcc[w] = down[<<o, w>>] + OnWay(r, o, w)
                               + (IF w \in r.inCredit[o] THEN 1 ELSE 0)

LEMMA BooksAddUp ==
  ASSUME IInv, BooksExact
  PROVE  SlotsAddUp
<1>1. Balanced(r) /\ Typed(r)
  BY BooksNow DEF Booked, IInv
<1>2. ASSUME NEW x \in InVcs
      PROVE  used[x] = Len(r.fifo[x])
                       + (IF x \in Arriving(r.inFlit) THEN 1 ELSE 0)
                       + (IF x[2] \in r.credits[x[1]] THEN 1 ELSE 0)
  BY DEF IInv, Everywhere, Local, Counted
<1>3. ASSUME NEW o \in Outputs, NEW w \in Vcs
      PROVE  r.nextBuf[o].vcOcc[w] = down[<<o, w>>] + OnWay(r, o, w)
                                     + (IF w \in r.inCredit[o] THEN 1 ELSE 0)
  <2> DEFINE c == <<o, w>>
  <2>1. c \in OutVcs /\ c[1] = o /\ c[2] = w
    BY DEF OutVcs
  <2>2. OnWay(r, o, w) = Count(Line(r, o), For(w))
    BY <1>1, OnWayCounts
  <2> HIDE DEF c
  <2>3. r.nextBuf[c[1]].vcOcc[c[2]] =
          down[c] + Count(Line(r, c[1]), For(c[2])) + (IF c[2] \in r.inCredit[c[1]] THEN 1 ELSE 0)
    BY <1>1, <2>1 DEF Balanced
  <2>4. r.nextBuf[o].vcOcc[w] =
          down[c] + Count(Line(r, o), For(w)) + (IF w \in r.inCredit[o] THEN 1 ELSE 0)
    BY <2>1, <2>3
  <2> QED BY <2>2, <2>4 DEF c
<1> QED BY <1>2, <1>3 DEF SlotsAddUp

\* In a Sensible router no slot is lost or counted twice, whatever its policies.
THEOREM SlotsAlwaysAddUp ==
  ASSUME \A c \in Configs : Sensible(c)
  PROVE  Spec => []SlotsAddUp
BY BooksAddUp, BooksInvariance, PTL

\* The slots add up, and no BufferState runs into an error, in a router that is
\* also Provisioned: the slot that a request was checked against is still there
\* when the flit is sent, after the other updates of the cycle.
THEOREM SlotsAreConserved ==
  ASSUME \A c \in Configs : Sensible(c) /\ Provisioned(c)
  PROVE  Spec => []SlotsConserved
<1>1. IInv /\ BooksExact => SlotsConserved
  <2> SUFFICES ASSUME IInv, BooksExact PROVE SlotsConserved
    OBVIOUS
  <2>1. Provisioned(cfg)
    BY DEF IInv, Ready
  <2>2. \A o \in Outputs : ~r.nextBuf[o].err
    BY <2>1, BooksNow DEF Booked, Solvent
  <2>3. SlotsAddUp
    BY BooksAddUp
  <2> QED BY <2>2, <2>3 DEF SlotsAddUp, SlotsConserved
<1>2. \A c \in Configs : Sensible(c)
  OBVIOUS
<1>3. Spec => [](IInv /\ BooksExact)
  BY <1>2, BooksInvariance
<1> QED BY <1>1, <1>3, PTL

\* Types; neither end of a channel ever counts more slots than there are.
THEOREM TypeCorrect ==
  ASSUME \A c \in Configs : Sensible(c) /\ Provisioned(c)
  PROVE  Spec => []TypeOK
<1>1. IInv /\ BooksExact => TypeOK
  <2> SUFFICES ASSUME IInv, BooksExact PROVE TypeOK
    OBVIOUS
  <2>1. Provisioned(cfg) /\ Typed(r)
    BY DEF IInv, Ready
  <2>2. ASSUME NEW c \in OutVcs PROVE down[c] \in 0 .. Size
    <3> DEFINE b == r.nextBuf[c[1]]
               v == c[2]
               n == Count(Line(r, c[1]), For(v))
               m == b.vcOcc[v]
    <3>1. c[1] \in Outputs /\ v \in Vcs
      BY InVcFacts
    <3>2. /\ b \in BufferStatesOf(InVcs) /\ b.policy = cfg.policy /\ Sound(b)
          /\ m = down[c] + n + (IF v \in r.inCredit[c[1]] THEN 1 ELSE 0)
          /\ down[c] \in Nat
      BY <2>1, <3>1, BooksNow DEF Booked, Owned, Solvent, Balanced
    <3>3. n \in Nat
      BY <2>1, <3>1, LineType
    <3>4. m <= Size
      <4> HIDE DEF b
      <4>1. SumFunction(b.vcOcc) <= Size
        BY <2>1, <3>2, SoundCapacity DEF Provisioned
      <4>2. \A w \in Vcs : b.vcOcc[w] \in Nat
        BY <3>2, BufferFields DEF Sound, OccupancySound
      <4>3. m <= SumFunctionOnSet(b.vcOcc, Vcs) /\ SumFunctionOnSet(b.vcOcc, Vcs) \in Nat
        BY <3>1, <4>2, SumNat, Partition
      <4>4. SumFunction(b.vcOcc) = SumFunctionOnSet(b.vcOcc, Vcs)
        BY <3>2, BufferFields DEF SumFunction
      <4> QED BY <3>1, <4>1, <4>2, <4>3, <4>4, SizesAreIntegers
    <3> HIDE DEF b, v, n, m
    <3> QED BY <3>2, <3>3, <3>4, SizesAreIntegers
  <2>3. down \in [OutVcs -> 0 .. Size]
    BY <2>2, BooksNow
  <2>4. used \in [InVcs -> 0 .. VcLimit] /\ cfg \in Configs /\ pkt \in Workloads /\ pc \in Steps
    BY DEF IInv, ArrivalsExact, Ready
  <2>5. \A q \in {r.routeQ, r.vcQ, r.holdQ, r.swQ} : q \in Seq(InVcs) /\ IsInjective(q)
    BY <2>1 DEF Typed, Distinct
  <2>6. /\ r.fifo \in [InVcs -> Seq(Flit)] /\ r.state \in [InVcs -> States]
        /\ r.out \in [InVcs -> OutVcs \cup {None}]
    BY <2>1 DEF Typed
  <2>7. /\ r.holdVc \in [InPorts -> Vcs \cup {None}] /\ r.holdIn \in [InPorts -> OutPorts \cup {None}]
        /\ r.holdOut \in [OutPorts -> InPorts \cup {None}]
    BY <2>1 DEF Typed
  <2>8. \A flits \in {r.crossbar, r.crossing, r.outBuf} : flits \in [Outputs -> Seq(Moving)]
    BY <2>1 DEF Typed
  <2> QED BY <2>3, <2>4, <2>5, <2>6, <2>7, <2>8 DEF TypeOK, Steps, States
<1>2. \A c \in Configs : Sensible(c)
  OBVIOUS
<1>3. Spec => [](IInv /\ BooksExact)
  BY <1>2, BooksInvariance
<1> QED BY <1>1, <1>3, PTL
=============================================================================
