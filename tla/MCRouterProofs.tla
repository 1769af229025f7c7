--------------------------- MODULE MCRouterProofs ---------------------------
(***************************************************************************)
(* Theorems about MCRouter, for every number of inputs, outputs and VCs,   *)
(* every buffer configuration and every workload, with their proofs: first *)
(* the input side, then the buffers at both ends, who holds the output     *)
(* VCs, where each slot is, that no buffer overflows, and the order of the *)
(* flits that leave.                                                       *)
(***************************************************************************)
EXTENDS MCRouter, BufferStateProofs

-----------------------------------------------------------------------------
(***************************************************************************)
(* The allocator.                                                          *)
(***************************************************************************)
\* The order in which the requests of the input VCs are served.
Rank(x) == x[1] * NumVcs + x[2]

LEMMA RankType ==
  ASSUME NEW x \in InVcs
  PROVE  /\ x[1] \in Inputs /\ x[2] \in Vcs /\ x = <<x[1], x[2]>>
         /\ Rank(x) \in Nat /\ Rank(x) < NumInputs * NumVcs
<1>1. /\ x[1] \in Inputs /\ x[2] \in Vcs /\ x = <<x[1], x[2]>>
      /\ NumVcs \in Nat \ {0} /\ NumInputs \in Nat \ {0}
  BY BufferStateAssumption, MCRouterAssumption DEF InVcs
<1>2. x[1] \in Nat /\ x[1] <= NumInputs - 1 /\ x[2] \in Nat /\ x[2] <= NumVcs - 1
  BY <1>1 DEF Inputs, Vcs
<1> DEFINE a == x[1] * NumVcs
           b == (NumInputs - 1) * NumVcs
           c == NumInputs * NumVcs
<1>3. a \in Nat /\ a <= b
  BY <1>1, <1>2, TimesMonotone
<1>4. b + NumVcs = c /\ b \in Int /\ c \in Nat
  BY <1>1
<1>5. Rank(x) = a + x[2]
  BY DEF Rank
<1> DEFINE v == x[2]
<1> HIDE DEF a, b, c, v
<1>6. a + v \in Nat /\ a + v < c
  BY <1>1, <1>2, <1>3, <1>4 DEF v
<1> QED BY <1>1, <1>5, <1>6 DEF v, c

\* No two input VCs are served at the same place.
LEMMA RankDistinct ==
  ASSUME NEW x \in InVcs, NEW y \in InVcs, x # y
  PROVE  Before(x, y) \/ Before(y, x)
<1>1. /\ x[1] \in Int /\ x[2] \in 0 .. NumVcs - 1 /\ x = <<x[1], x[2]>>
      /\ y[1] \in Int /\ y[2] \in 0 .. NumVcs - 1 /\ y = <<y[1], y[2]>>
      /\ NumVcs \in Nat
  BY RankType, BufferStateAssumption DEF Inputs, Vcs
<1>2. ASSUME NEW i \in Int, NEW j \in Int, i < j,
             NEW v \in 0 .. NumVcs - 1, NEW w \in 0 .. NumVcs - 1
      PROVE  i * NumVcs + v < j * NumVcs + w
  <2> DEFINE a == i * NumVcs
             b == j * NumVcs
             d == (i + 1) * NumVcs
  <2>1. d <= b
    <3>1. i + 1 \in Int /\ i + 1 <= j
      BY <1>2
    <3> QED BY <1>1, <3>1, TimesMonotone
  <2>2. d = a + NumVcs /\ a \in Int /\ b \in Int
    BY <1>1
  <2> HIDE DEF a, b, d
  <2> QED BY <1>1, <2>1, <2>2 DEF a, b
<1>3. CASE x[1] < y[1]
  BY <1>1, <1>2, <1>3 DEF Before
<1>4. CASE y[1] < x[1]
  BY <1>1, <1>2, <1>4 DEF Before
<1>5. CASE x[1] = y[1]
  <2>1. x[2] # y[2]
    BY <1>1, <1>5
  <2> DEFINE a == x[1] * NumVcs
             v == x[2]
             w == y[2]
  <2>2. a \in Int /\ v \in Int /\ w \in Int /\ v # w
    BY <1>1, <2>1
  <2>3. (Before(x, y) <=> a + v < a + w) /\ (Before(y, x) <=> a + w < a + v)
    BY <1>5 DEF Before
  <2> HIDE DEF a, v, w
  <2> QED BY <2>2, <2>3
<1> QED BY <1>1, <1>3, <1>4, <1>5

\* Grants for the requests that are served before place n.
GrantsUpto(G, req, n) ==
  /\ G \subseteq {x \in DOMAIN req : Rank(x) < n}
  /\ \A x \in DOMAIN req : Rank(x) < n =>
       (x \in G <=> \A y \in G : Before(y, x) => req[x] \cap req[y] = {})

\* The allocator finds its grants, and they share nothing.
LEMMA AllocateFacts ==
  ASSUME NEW req, DOMAIN req \subseteq InVcs
  PROVE  /\ Allocate(req) \subseteq DOMAIN req
         /\ \A x, y \in Allocate(req) : x # y => req[x] \cap req[y] = {}
<1> DEFINE D == DOMAIN req
           N == NumInputs * NumVcs
           Bad == {n \in Nat : ~ \E G : GrantsUpto(G, req, n)}
<1>1. \A x \in D : Rank(x) \in Nat /\ Rank(x) < N
  BY RankType
<1>2. \A x, y : Before(x, y) <=> Rank(x) < Rank(y)
  BY DEF Before, Rank
<1>3. GrantsUpto({}, req, 0)
  <2>1. \A x \in D : ~(Rank(x) < 0)
    BY <1>1
  <2> QED BY <2>1 DEF GrantsUpto
<1>4. ASSUME NEW n \in Nat, NEW G, GrantsUpto(G, req, n)
      PROVE  \E H : GrantsUpto(H, req, n + 1)
  <2> DEFINE free(x) == \A y \in G : Before(y, x) => req[x] \cap req[y] = {}
             H == G \cup {x \in D : Rank(x) = n /\ free(x)}
  <2>1. \A x \in G : x \in D /\ Rank(x) < n
    BY <1>4 DEF GrantsUpto
  <2>2. H \subseteq {x \in D : Rank(x) < n + 1}
    BY <1>1, <2>1
  <2>3. ASSUME NEW x \in D, Rank(x) < n + 1
        PROVE  x \in H <=> \A y \in H : Before(y, x) => req[x] \cap req[y] = {}
    <3>1. \A y \in H : Before(y, x) => y \in G
      <4> SUFFICES ASSUME NEW y \in H, Before(y, x), y \notin G PROVE FALSE
        OBVIOUS
      <4>1. Rank(y) = n /\ y \in D
        OBVIOUS
      <4>2. Rank(y) < Rank(x)
        BY <1>2
      <4> QED BY <1>1, <2>3, <4>1, <4>2
    <3>2. (\A y \in H : Before(y, x) => req[x] \cap req[y] = {}) <=> free(x)
      BY <3>1
    <3>3. CASE Rank(x) = n
      <4>1. x \notin G
        BY <2>1, <3>3
      <4> QED BY <3>2, <3>3, <4>1
    <3>4. CASE Rank(x) # n
      <4>1. Rank(x) < n
        BY <1>1, <2>3, <3>4
      <4>2. x \in G <=> free(x)
        BY <1>4, <4>1 DEF GrantsUpto
      <4>3. x \in H <=> x \in G
        BY <3>4
      <4> QED BY <3>2, <4>2, <4>3
    <3> QED BY <3>3, <3>4
  <2> HIDE DEF H
  <2>4. GrantsUpto(H, req, n + 1)
    BY <2>2, <2>3 DEF GrantsUpto
  <2> QED BY <2>4
<1>5. Bad = {}
  <2> SUFFICES ASSUME Bad # {} PROVE FALSE
    OBVIOUS
  <2>1. Bad \subseteq Nat
    OBVIOUS
  <2>2. PICK n \in Bad : \A k \in Bad : n <= k
    <3> HIDE DEF Bad
    <3> QED BY <2>1, LeastNumber
  <2>3. n # 0
    BY <1>3, <2>2
  <2>4. n - 1 \in Nat /\ n - 1 \notin Bad
    BY <2>2, <2>3
  <2>5. PICK G : GrantsUpto(G, req, n - 1)
    BY <2>4
  <2>6. \E H : GrantsUpto(H, req, (n - 1) + 1)
    BY <1>4, <2>4, <2>5
  <2>7. (n - 1) + 1 = n
    BY <2>2
  <2> QED BY <2>2, <2>6, <2>7
<1>6. PICK G : GrantsUpto(G, req, N)
  <2>1. N \in Nat
    BY BufferStateAssumption, MCRouterAssumption
  <2> HIDE DEF N
  <2>2. N \notin Bad
    <3> HIDE DEF Bad
    <3> QED BY <1>5
  <2> QED BY <2>1, <2>2
<1>7. /\ G \in SUBSET D
      /\ \A x \in D : x \in G <=> \A y \in G : Before(y, x) => req[x] \cap req[y] = {}
  BY <1>1, <1>6 DEF GrantsUpto
<1> DEFINE A == Allocate(req)
<1>8. /\ A \in SUBSET D
      /\ \A x \in D : x \in A <=> \A y \in A : Before(y, x) => req[x] \cap req[y] = {}
  <2> DEFINE right(S) ==
        \A x \in D : x \in S <=> \A y \in S : Before(y, x) => req[x] \cap req[y] = {}
  <2>1. A = CHOOSE S \in SUBSET D : right(S)
    BY DEF Allocate
  <2>2. \E S \in SUBSET D : right(S)
    BY <1>7
  <2> HIDE DEF A
  <2>3. A \in SUBSET D /\ right(A)
    <3> HIDE DEF right, D
    <3> QED BY <2>1, <2>2
  <2> QED BY <2>3
<1> HIDE DEF A
<1>9. \A x, y \in A : x # y => req[x] \cap req[y] = {}
  <2> SUFFICES ASSUME NEW x \in A, NEW y \in A, x # y
               PROVE  req[x] \cap req[y] = {}
    OBVIOUS
  <2>1. Before(x, y) \/ Before(y, x)
    BY <1>8, RankDistinct
  <2> QED BY <1>8, <2>1
<1> QED BY <1>8, <1>9 DEF A

-----------------------------------------------------------------------------
(***************************************************************************)
(* The invariant of the input side.                                        *)
(***************************************************************************)
InFlit == [vc : Vcs, pid : Pids, idx : Nat \ {0}]
States == {"idle", "routing", "vc_alloc", "active"}

\* The shapes of the state of the input side.
Typed ==
  /\ pkt \in Workloads
  /\ pc \in Phases /\ active \in BOOLEAN /\ activity \in BOOLEAN
  /\ inFlit \in [Inputs -> InFlit \cup {None}]
  /\ inCredit \in [Outputs -> SUBSET Vcs]
  /\ fifo \in [InVcs -> Seq(Flit)]
  /\ state \in [InVcs -> States]
  /\ DOMAIN outs = InVcs
  /\ \A x \in InVcs : /\ DOMAIN outs[x] \subseteq Outputs
                      /\ \A o \in DOMAIN outs[x] : outs[x][o] \in Vcs
  /\ vcRes \in [DOMAIN vcRes -> BOOLEAN] /\ swRes \in [DOMAIN swRes -> BOOLEAN]
  /\ creditBuf \in [Inputs -> SUBSET Vcs]
  /\ feed \in [InVcs -> Flit \cup {Idle}]
  /\ started \subseteq Pids
  /\ used \in [InVcs -> Int]

\* f is the last flit of its packet, in workload w.
Ends(w, f) == f.idx = w[f.pid].len

\* g is the flit after f on an input VC.
Follows(w, f, g) ==
  IF Ends(w, f) THEN IsHead(g) ELSE g.pid = f.pid /\ g.idx = f.idx + 1

\* What upstream is sending when it has sent f.
After(w, f) == IF Ends(w, f) THEN Idle ELSE f

\* f is the next flit of VC x, whose buffer is empty: the head of a packet on
\* an idle VC, or a flit of the packet that holds the VC's outputs.
Continues(x, f) ==
  IF IsHead(f) THEN state[x] = "idle"
  ELSE state[x] = "active" /\ DOMAIN outs[x] = pkt[f.pid].outs

\* The flits of an input VC, from its front over the flit that comes in to what
\* upstream has yet to send, follow each other.
Chained ==
  \A x \in InVcs :
    /\ \A k \in 1 .. Len(fifo[x]) - 1 : Follows(pkt, fifo[x][k], fifo[x][k + 1])
    /\ x \in Arriving(inFlit) =>
         /\ feed[x] = After(pkt, FlitOn(inFlit, x))
         /\ IF fifo[x] = <<>> THEN Continues(x, FlitOn(inFlit, x))
            ELSE Follows(pkt, fifo[x][Len(fifo[x])], FlitOn(inFlit, x))
    /\ x \notin Arriving(inFlit) =>
         IF fifo[x] # <<>> THEN feed[x] = After(pkt, fifo[x][Len(fifo[x])])
         ELSE IF feed[x] = Idle THEN state[x] = "idle"
         ELSE state[x] = "active" /\ DOMAIN outs[x] = pkt[feed[x].pid].outs

\* What a VC's state says of the flit at its front.
Fronted ==
  \A x \in InVcs :
    /\ state[x] = "idle" => fifo[x] = <<>>
    /\ state[x] \in {"routing", "vc_alloc"} => fifo[x] # <<>> /\ IsHead(Front(x))
    /\ state[x] = "active" /\ fifo[x] # <<>> => DOMAIN outs[x] = Route(x)

\* Each VC is in the queue that its state calls for.
Queued ==
  /\ routeQ = {x \in InVcs : state[x] = "routing"}
  /\ vcQ = {x \in InVcs : state[x] = "vc_alloc"}
  /\ swQ = {x \in InVcs : state[x] = "active" /\ fifo[x] # <<>>}

\* Results are those of entries of the queues; a VC that was granted output VCs
\* has them on the outputs of its packet.
Resolved ==
  /\ DOMAIN vcRes \subseteq vcQ /\ DOMAIN swRes \subseteq swQ
  /\ \A x \in DOMAIN vcRes : vcRes[x] => DOMAIN outs[x] = Route(x)
  /\ pc \notin {"sw_evaluate", "route_update", "vc_update"} => DOMAIN vcRes = {}
  /\ pc \notin {"route_update", "vc_update", "sw_update"} => DOMAIN swRes = {}

\* What is passed on within a cycle is there only while it is passed on.
Passing ==
  /\ pc # "dispatch" => /\ \A i \in Inputs : inFlit[i] = None
                        /\ \A o \in Outputs : inCredit[o] = {}
  /\ pc # "switch" => crossbar = {}
  /\ pc \notin {"switch", "write"} => \A i \in Inputs : creditBuf[i] = {}

\* Work that is left, or that has come in, keeps the router awake.
Awake ==
  /\ pc \in {"sw_update", "switch"} /\ vcQ # {} => activity
  /\ pc = "switch" /\ swQ # {} => activity
  /\ pc \in {"write", "read", "dispatch"} /\ (vcQ # {} \/ swQ # {}) => active
  /\ (\E i \in Inputs : inFlit[i] # None) \/ (\E o \in Outputs : inCredit[o] # {}) => active

InputInv == Typed /\ Chained /\ Fronted /\ Queued /\ Resolved /\ Passing /\ Awake

-----------------------------------------------------------------------------
(***************************************************************************)
(* Flits.                                                                  *)
(***************************************************************************)
LEMMA FlitFields ==
  ASSUME NEW f \in Flit
  PROVE  /\ f.pid \in Pids /\ f.idx \in Nat \ {0} /\ f # Idle
         /\ After(pkt, f) \in Flit \cup {Idle}
         /\ After(pkt, f) = Idle <=> Ends(pkt, f)
         /\ ~Ends(pkt, f) => After(pkt, f) = f
<1>1. f.pid \in Pids /\ f.idx \in Nat \ {0}
  BY DEF Flit
<1>2. Idle.idx = 0
  BY DEF Idle
<1>3. f # Idle
  BY <1>1, <1>2
<1> QED BY <1>1, <1>3 DEF After

\* The input VC on which a flit arrives, and the flit.
LEMMA ArrivingFacts ==
  ASSUME NEW A \in [Inputs -> InFlit \cup {None}], NEW x \in Arriving(A)
  PROVE  /\ x \in InVcs /\ x[1] \in Inputs /\ x[2] \in Vcs /\ x = <<x[1], x[2]>>
         /\ A[x[1]] # None /\ A[x[1]] \in InFlit /\ A[x[1]].vc = x[2]
         /\ FlitOn(A, x) \in Flit
         /\ FlitOn(A, x).pid = A[x[1]].pid /\ FlitOn(A, x).idx = A[x[1]].idx
<1>1. PICK i \in Inputs : A[i] # None /\ x = <<i, A[i].vc>>
  BY DEF Arriving
<1> DEFINE a == A[i]
           v == a.vc
<1>2. a \in InFlit /\ a # None /\ x = <<i, v>>
  BY <1>1
<1> HIDE DEF a
<1>3. a.vc \in Vcs /\ a.pid \in Pids /\ a.idx \in Nat \ {0}
  BY <1>2 DEF InFlit
<1>4. x[1] = i /\ x[2] = v
  BY <1>2
<1>5. FlitOn(A, x) = [pid |-> a.pid, idx |-> a.idx]
  BY <1>4 DEF FlitOn, a
<1> DEFINE p == a.pid
           n == a.idx
           f == FlitOn(A, x)
<1>6. f = [pid |-> p, idx |-> n] /\ p \in Pids /\ n \in Nat \ {0}
  BY <1>3, <1>5
<1> HIDE DEF p, n, f
<1>7. f \in Flit /\ f.pid = p /\ f.idx = n
  BY <1>6 DEF Flit
<1>8. x \in InVcs
  BY <1>2, <1>3 DEF InVcs
<1> QED BY <1>2, <1>3, <1>4, <1>7, <1>8 DEF a, p, n, f

LEMMA NoneArriving ==
  ASSUME \A i \in Inputs : inFlit[i] = None
  PROVE  Arriving(inFlit) = {}
  BY DEF Arriving

\* What upstream may send: the next flit of the packet that holds the VC, or
\* the head of a new one.
LEMMA ArrivalFacts ==
  ASSUME Typed, NEW A \in Arrivals
  PROVE  /\ A \in [Inputs -> InFlit \cup {None}]
         /\ \A x \in Arriving(A) :
              /\ used[x] < VcLimit
              /\ FlitOn(A, x).idx = feed[x].idx + 1
              /\ IF feed[x] = Idle THEN FlitOn(A, x).pid \notin started
                                        /\ pkt[FlitOn(A, x).pid].in = x[1]
                 ELSE FlitOn(A, x).pid = feed[x].pid
<1>1. ASSUME NEW i \in Inputs
      PROVE  A[i] \in InFlit \cup {None}
  <2> SUFFICES ASSUME A[i] # None PROVE A[i] \in InFlit
    OBVIOUS
  <2>1. PICK j \in Inputs : A[i] \in Offers(j)
    <3>1. A[i] \in AllOffers
      BY DEF Arrivals
    <3> QED BY <3>1 DEF AllOffers
  <2>2. \E v \in Vcs, p \in Pids :
          A[i] = [vc |-> v, pid |-> p, idx |-> feed[<<j, v>>].idx + 1]
    <3> DEFINE offer(v, p) == [vc |-> v, pid |-> p, idx |-> feed[<<j, v>>].idx + 1]
    <3>1. Offers(j) = {offer(v, p) : v \in Vcs, p \in Pids}
      BY DEF Offers
    <3>2. \E v \in Vcs, p \in Pids : A[i] = offer(v, p)
      <4> HIDE DEF offer
      <4> QED BY <2>1, <3>1
    <3> QED BY <3>2
  <2> PICK v \in Vcs, p \in Pids :
        A[i] = [vc |-> v, pid |-> p, idx |-> feed[<<j, v>>].idx + 1]
    BY <2>2
  <2> DEFINE e == feed[<<j, v>>]
             n == e.idx
  <2>3. e \in Flit \cup {Idle}
    BY DEF Typed, InVcs
  <2> HIDE DEF e
  <2>4. n \in Nat
    BY <2>3, FlitFields DEF Idle
  <2>5. A[i] = [vc |-> v, pid |-> p, idx |-> n + 1] /\ n + 1 \in Nat \ {0}
    BY <2>4 DEF e
  <2> HIDE DEF n
  <2> QED BY <2>5 DEF InFlit
<1>2. A \in [Inputs -> InFlit \cup {None}]
  BY <1>1 DEF Arrivals
<1>3. ASSUME NEW x \in Arriving(A)
      PROVE  /\ used[x] < VcLimit
             /\ FlitOn(A, x).idx = feed[x].idx + 1
             /\ IF feed[x] = Idle THEN FlitOn(A, x).pid \notin started
                                       /\ pkt[FlitOn(A, x).pid].in = x[1]
                ELSE FlitOn(A, x).pid = feed[x].pid
  <2>1. /\ x[1] \in Inputs /\ x = <<x[1], x[2]>> /\ A[x[1]] # None /\ A[x[1]].vc = x[2]
        /\ FlitOn(A, x).pid = A[x[1]].pid /\ FlitOn(A, x).idx = A[x[1]].idx
    BY <1>2, ArrivingFacts
  <2>2. Legal(x[1], A[x[1]])
    BY <2>1 DEF Arrivals
  <2>3. x = <<x[1], A[x[1]].vc>>
    BY <2>1
  <2> QED BY <2>1, <2>2, <2>3 DEF Legal
<1> QED BY <1>2, <1>3

-----------------------------------------------------------------------------
(***************************************************************************)
(* The actions preserve the invariant of the input side.                   *)
(***************************************************************************)
LEMMA ReceiveInput ==
  ASSUME InputInv, NEW A \in Arrivals, NEW C \in Credited, ReadInputs(A, C)
  PROVE  InputInv'
<1>1. /\ Typed /\ Chained /\ Fronted /\ Queued /\ Resolved /\ Passing /\ Awake
  BY DEF InputInv
<1>2. /\ pc = "read" /\ pc' = "dispatch" /\ inFlit' = A /\ inCredit' = C
      /\ active' = (active \/ Wakes(A, C))
      /\ feed' = [x \in InVcs |->
                    IF x \notin Arriving(A) THEN feed[x]
                    ELSE IF IsTail(FlitOn(A, x)) THEN Idle ELSE FlitOn(A, x)]
      /\ started' = started \cup {A[x[1]].pid : x \in Arriving(A)}
      /\ used' = [x \in InVcs |-> IF x \in Arriving(A) THEN used[x] + 1 ELSE used[x]]
      /\ UNCHANGED <<pkt, activity, fifo, state, outs, routeQ, vcQ, swQ, vcRes, swRes,
                     crossbar, outBuf, creditBuf>>
  BY DEF ReadInputs, queues
<1>3. A \in [Inputs -> InFlit \cup {None}]
  BY <1>1, ArrivalFacts
<1>4. Arriving(inFlit) = {}
  BY <1>1, <1>2, NoneArriving DEF Passing
<1>5. \A x \in Arriving(A) : x \in InVcs /\ FlitOn(A, x) \in Flit /\ A[x[1]].pid \in Pids
  BY <1>3, ArrivingFacts, FlitFields
<1>6. Typed'
  <2>1. feed' \in [InVcs -> Flit \cup {Idle}]
    BY <1>1, <1>2, <1>5 DEF Typed
  <2>2. started' \subseteq Pids
    BY <1>1, <1>2, <1>5 DEF Typed
  <2>3. used' \in [InVcs -> Int]
    BY <1>1, <1>2 DEF Typed
  <2>4. active' \in BOOLEAN
    BY <1>1, <1>2 DEF Typed
  <2>5. inCredit' \in [Outputs -> SUBSET Vcs] /\ pc' \in Phases
    BY <1>2 DEF Credited, Phases
  <2> QED BY <1>1, <1>2, <1>3, <2>1, <2>2, <2>3, <2>4, <2>5 DEF Typed
<1>7. Chained'
  <2>1. ASSUME NEW x \in InVcs, x \in Arriving(A)
        PROVE  /\ feed'[x] = After(pkt, FlitOn(A, x))
               /\ IF fifo[x] = <<>> THEN Continues(x, FlitOn(A, x))
                  ELSE Follows(pkt, fifo[x][Len(fifo[x])], FlitOn(A, x))
    <3> DEFINE f == FlitOn(A, x)
               q == fifo[x]
               l == q[Len(q)]
    <3>1. feed'[x] = After(pkt, f)
      BY <1>2, <2>1 DEF After, Ends, IsTail
    <3>2. /\ f \in Flit /\ f.idx = feed[x].idx + 1
          /\ feed[x] # Idle => f.pid = feed[x].pid
          /\ feed[x] \in Flit \cup {Idle}
      BY <1>1, <1>5, <2>1, ArrivalFacts DEF Typed
    <3>3. feed[x] = Idle => IsHead(f)
      BY <3>2 DEF Idle, IsHead
    <3>4. feed[x] # Idle => ~IsHead(f)
      BY <3>2, FlitFields DEF IsHead
    <3>5. CASE q = <<>>
      BY <1>1, <1>4, <3>1, <3>2, <3>3, <3>4, <3>5 DEF Chained, Continues
    <3>6. CASE q # <<>>
      <4>1. q \in Seq(Flit)
        BY <1>1 DEF Typed
      <4>2. l \in Flit
        <5> HIDE DEF q
        <5> QED BY <3>6, <4>1
      <4>3. feed[x] = After(pkt, l)
        BY <1>1, <1>4, <3>6 DEF Chained
      <4> HIDE DEF f, l, q
      <4>4. Follows(pkt, l, f)
        BY <3>2, <3>3, <4>2, <4>3, FlitFields DEF Follows
      <4> QED BY <3>1, <3>6, <4>4 DEF f, l, q
    <3> QED BY <3>5, <3>6
  <2>2. ASSUME NEW x \in InVcs, x \notin Arriving(A)
        PROVE  feed'[x] = feed[x]
    BY <1>2, <2>2
  <2> QED BY <1>1, <1>2, <1>4, <2>1, <2>2
          DEF Chained, Continues, IsHead, FlitOn
<1>8. Fronted' /\ Queued'
  BY <1>1, <1>2 DEF Fronted, Queued, Front, Route, IsHead
<1>9. Resolved'
  BY <1>1, <1>2 DEF Resolved, Front, Route
<1>10. Passing'
  BY <1>1, <1>2 DEF Passing
<1>11. Awake'
  <2>1. (\E i \in Inputs : A[i] # None) => Arriving(A) # {}
    BY DEF Arriving
  <2> QED BY <1>1, <1>2, <2>1 DEF Awake, Wakes
<1> QED BY <1>6, <1>7, <1>8, <1>9, <1>10, <1>11 DEF InputInv

LEMMA NothingResolved == DOMAIN <<>> = {}
OBVIOUS

\* The route of a packet at the front of an input VC.
LEMMA RouteFacts ==
  ASSUME Typed, NEW x \in InVcs, fifo[x] # <<>>
  PROVE  Front(x) \in Flit /\ Route(x) \subseteq Outputs /\ Route(x) # {}
         /\ Len(fifo[x]) \in Nat \ {0} /\ Front(x) = fifo[x][1]
<1> DEFINE q == fifo[x]
           p == Front(x).pid
<1>1. q \in Seq(Flit)
  BY DEF Typed
<1>2. Front(x) \in Flit /\ Front(x) = q[1] /\ Len(q) \in Nat \ {0}
  BY <1>1 DEF Front
<1>3. p \in Pids
  BY <1>2, FlitFields
<1>4. pkt \in [Pids -> [in : Inputs, outs : (SUBSET Outputs) \ {{}}, len : Nat \ {0}]]
  BY MCRouterAssumption DEF Typed
<1> DEFINE w == pkt[p]
<1>5. w \in [in : Inputs, outs : (SUBSET Outputs) \ {{}}, len : Nat \ {0}]
  <2> HIDE DEF p
  <2> QED BY <1>3, <1>4
<1>6. w.outs \subseteq Outputs /\ w.outs # {}
  <2> HIDE DEF w
  <2> QED BY <1>5
<1>7. Route(x) = w.outs
  BY DEF Route
<1> QED BY <1>2, <1>6, <1>7

LEMMA SleepInput ==
  ASSUME InputInv, Sleep
  PROVE  InputInv'
<1>1. /\ pc = "dispatch" /\ pc' = "write" /\ active = FALSE
      /\ UNCHANGED <<pkt, active, activity, inFlit, inCredit, fifo, state, outs, routeQ, vcQ,
                     swQ, vcRes, swRes, crossbar, creditBuf, feed, started, used>>
  BY DEF Sleep, router, queues, upstream, InputInv, Typed
<1>2. Typed'
  BY <1>1 DEF InputInv, Typed, Phases
<1>3. Chained' /\ Fronted' /\ Queued'
  BY <1>1 DEF InputInv, Chained, Fronted, Queued, Continues, IsHead,
              FlitOn, Front, Route, Arriving
<1>4. Resolved' /\ Passing' /\ Awake'
  BY <1>1 DEF InputInv, Resolved, Passing, Awake, Front, Route
<1> QED BY <1>2, <1>3, <1>4 DEF InputInv

LEMMA DispatchInput ==
  ASSUME InputInv, FlitDispatch
  PROVE  InputInv'
<1> DEFINE new == Arriving(inFlit)
<1>1. /\ Typed /\ Chained /\ Fronted /\ Queued /\ Resolved /\ Passing /\ Awake
  BY DEF InputInv
<1>2. /\ pc = "dispatch" /\ active /\ pc' = "vc_evaluate"
      /\ fifo' = [x \in InVcs |-> IF x \in new THEN Append(fifo[x], FlitOn(inFlit, x))
                                  ELSE fifo[x]]
      /\ state' = [x \in InVcs |-> IF x \in new /\ state[x] = "idle" THEN "routing"
                                   ELSE state[x]]
      /\ routeQ' = routeQ \cup {x \in new : state[x] = "idle"}
      /\ swQ' = swQ \cup {x \in new : state[x] = "active" /\ fifo[x] = <<>>}
      /\ inFlit' = [i \in Inputs |-> None]
      /\ inCredit' = [o \in Outputs |-> {}]
      /\ activity' = FALSE
      /\ UNCHANGED <<pkt, active, outs, vcQ, vcRes, swRes, crossbar, creditBuf, feed, started,
                     used>>
  BY DEF FlitDispatch, upstream
<1>3. \A x \in new : x \in InVcs /\ FlitOn(inFlit, x) \in Flit
  BY <1>1, ArrivingFacts DEF Typed
<1>4. Arriving(inFlit') = {}
  BY <1>2 DEF Arriving
<1>5. Typed'
  <2>1. fifo' \in [InVcs -> Seq(Flit)]
    BY <1>1, <1>2, <1>3 DEF Typed
  <2>2. state' \in [InVcs -> States]
    BY <1>1, <1>2 DEF Typed, States
  <2> QED BY <1>1, <1>2, <2>1, <2>2 DEF Typed, Phases
<1> HIDE DEF new
\* What becomes of a VC on which a flit arrives.
<1>6. ASSUME NEW x \in InVcs, x \in new
      PROVE  /\ fifo'[x] # <<>>
             /\ \A k \in 1 .. Len(fifo'[x]) - 1 : Follows(pkt, fifo'[x][k], fifo'[x][k + 1])
             /\ feed[x] = After(pkt, fifo'[x][Len(fifo'[x])])
             /\ fifo[x] # <<>> => Head(fifo'[x]) = Head(fifo[x])
             /\ fifo[x] = <<>> => /\ Head(fifo'[x]) = FlitOn(inFlit, x)
                                  /\ Continues(x, FlitOn(inFlit, x))
  <2> DEFINE f == FlitOn(inFlit, x)
             q == fifo[x]
             r == fifo'[x]
  <2>1. q \in Seq(Flit) /\ f \in Flit /\ r = Append(q, f)
    BY <1>1, <1>2, <1>3, <1>6 DEF Typed
  <2>2. /\ \A k \in 1 .. Len(q) - 1 : Follows(pkt, q[k], q[k + 1])
        /\ feed[x] = After(pkt, f)
        /\ q = <<>> => Continues(x, f)
        /\ q # <<>> => Follows(pkt, q[Len(q)], f)
    BY <1>1, <1>6 DEF Chained, new
  <2> HIDE DEF q, r, f
  <2>3. /\ Len(r) = Len(q) + 1 /\ r[Len(r)] = f /\ r # <<>>
        /\ \A k \in 1 .. Len(q) : r[k] = q[k]
        /\ Len(q) \in Nat
        /\ q = <<>> <=> Len(q) = 0
    BY <2>1
  <2>4. ASSUME NEW k \in 1 .. Len(r) - 1
        PROVE  Follows(pkt, r[k], r[k + 1])
    <3>1. CASE k < Len(q)
      <4>1. k \in 1 .. Len(q) - 1 /\ r[k] = q[k] /\ r[k + 1] = q[k + 1]
        BY <2>3, <3>1
      <4> QED BY <2>2, <4>1
    <3>2. CASE k = Len(q)
      <4>1. r[k] = q[Len(q)] /\ r[k + 1] = f /\ q # <<>>
        BY <2>3, <3>2
      <4> QED BY <2>2, <4>1
    <3> QED BY <2>3, <3>1, <3>2
  <2>5. q # <<>> => Head(r) = Head(q)
    BY <2>1, <2>3
  <2>6. q = <<>> => Head(r) = f
    BY <2>1, <2>3
  <2> QED BY <2>2, <2>3, <2>4, <2>5, <2>6 DEF f, q, r
<1>7. \A x \in InVcs : x \notin new => fifo'[x] = fifo[x] /\ state'[x] = state[x]
  BY <1>2
<1>8. Chained'
  <2> SUFFICES ASSUME NEW x \in InVcs
               PROVE  /\ \A k \in 1 .. Len(fifo'[x]) - 1 : Follows(pkt, fifo'[x][k], fifo'[x][k + 1])
                      /\ IF fifo'[x] # <<>> THEN feed[x] = After(pkt, fifo'[x][Len(fifo'[x])])
                         ELSE IF feed[x] = Idle THEN state'[x] = "idle"
                         ELSE state'[x] = "active" /\ DOMAIN outs[x] = pkt[feed[x].pid].outs
    BY <1>2, <1>4 DEF Chained, Arriving
  <2>1. CASE x \in new
    BY <1>6, <2>1
  <2>2. CASE x \notin new
    BY <1>1, <1>7, <2>2 DEF Chained, new
  <2> QED BY <2>1, <2>2
<1>9. ASSUME NEW x \in InVcs
      PROVE  /\ state'[x] = "idle" => fifo'[x] = <<>>
             /\ state'[x] \in {"routing", "vc_alloc"} => fifo'[x] # <<>> /\ IsHead(Head(fifo'[x]))
             /\ state'[x] = "active" /\ fifo'[x] # <<>> =>
                  DOMAIN outs[x] = pkt[Head(fifo'[x]).pid].outs
             /\ x \in new /\ state'[x] = "active" => state[x] = "active"
             /\ x \in new /\ state'[x] = "routing" => state[x] \in {"idle", "routing"}
             /\ x \in new /\ state[x] = "idle" => state'[x] = "routing"
             /\ x \in new /\ state[x] # "idle" => state'[x] = state[x]
  <2>1. CASE x \in new /\ fifo[x] = <<>>
    BY <1>2, <1>6, <2>1 DEF Continues
  <2>2. CASE x \in new /\ fifo[x] # <<>>
    BY <1>1, <1>2, <1>6, <2>2 DEF Fronted, Front, Route
  <2>3. CASE x \notin new
    BY <1>1, <1>2, <1>7, <2>3 DEF Fronted, Front, Route
  <2> QED BY <2>1, <2>2, <2>3
<1>10. Fronted'
  BY <1>2, <1>9 DEF Fronted, Front, Route, IsHead
<1>11. Queued'
  <2>1. /\ \A x : x \in routeQ <=> x \in InVcs /\ state[x] = "routing"
        /\ \A x : x \in vcQ <=> x \in InVcs /\ state[x] = "vc_alloc"
        /\ \A x : x \in swQ <=> x \in InVcs /\ state[x] = "active" /\ fifo[x] # <<>>
    BY <1>1 DEF Queued
  <2>2. \A x \in new : x \in InVcs
    BY <1>3 DEF new
  <2>3. \A x \in InVcs : state'[x] = IF x \in new /\ state[x] = "idle" THEN "routing"
                                     ELSE state[x]
    BY <1>2
  <2>4. \A x \in InVcs : state[x] = "idle" => fifo[x] = <<>>
    BY <1>1 DEF Fronted
  <2>5. \A x : x \in routeQ' <=> x \in InVcs /\ state'[x] = "routing"
    <3>1. \A x : x \in routeQ' <=> x \in routeQ \/ (x \in new /\ state[x] = "idle")
      BY <1>2
    <3> QED BY <2>1, <2>2, <2>3, <3>1
  <2>6. \A x : x \in vcQ' <=> x \in InVcs /\ state'[x] = "vc_alloc"
    BY <1>2, <2>1, <2>3
  <2>7. \A x : x \in swQ' <=> x \in InVcs /\ state'[x] = "active" /\ fifo'[x] # <<>>
    <3>1. \A x : x \in swQ' <=>
                 x \in swQ \/ (x \in new /\ state[x] = "active" /\ fifo[x] = <<>>)
      BY <1>2
    <3>2. \A x \in InVcs : fifo'[x] # <<>> <=> fifo[x] # <<>> \/ x \in new
      BY <1>6, <1>7
    <3> QED BY <2>1, <2>2, <2>3, <3>1, <3>2
  <2> QED BY <2>5, <2>6, <2>7 DEF Queued
<1>12. Resolved'
  BY <1>1, <1>2 DEF Resolved
<1>13. Passing' /\ Awake'
  BY <1>1, <1>2 DEF Passing, Awake
<1> QED BY <1>5, <1>8, <1>10, <1>11, <1>12, <1>13 DEF InputInv

LEMMA AllocateInput ==
  ASSUME InputInv, NEW pick \in [vcQ -> [Outputs -> Vcs]], VCAllocEvaluate(pick)
  PROVE  InputInv'
<1> DEFINE eligible == {x \in vcQ : CanTake(x, pick)}
           req == [x \in eligible |-> {<<o, pick[x][o]>> : o \in Route(x)}]
           granted == Allocate(req)
<1>1. /\ Typed /\ Chained /\ Fronted /\ Queued /\ Resolved /\ Passing /\ Awake
  BY DEF InputInv
<1>2. /\ pc = "vc_evaluate" /\ pc' = "sw_evaluate"
      /\ vcRes' = [x \in vcQ |-> x \in granted]
      /\ outs' = [x \in InVcs |-> IF x \in granted THEN [o \in Route(x) |-> pick[x][o]]
                                  ELSE outs[x]]
      /\ UNCHANGED <<pkt, active, activity, inFlit, inCredit, fifo, state, routeQ, vcQ, swQ,
                     swRes, crossbar, creditBuf, feed, started, used>>
  BY DEF VCAllocEvaluate, upstream
<1>3. \A x \in vcQ : x \in InVcs /\ state[x] = "vc_alloc" /\ fifo[x] # <<>>
  BY <1>1 DEF Queued, Fronted
<1>4. granted \subseteq vcQ
  <2>1. DOMAIN req = eligible /\ eligible \subseteq vcQ /\ eligible \subseteq InVcs
    BY <1>3
  <2> HIDE DEF req, eligible
  <2> QED BY <2>1, AllocateFacts
<1> HIDE DEF granted
<1>5. ASSUME NEW x \in InVcs
      PROVE  /\ x \notin granted => outs'[x] = outs[x]
             /\ x \in granted => /\ DOMAIN outs'[x] = Route(x)
                                 /\ \A o \in Route(x) : outs'[x][o] = pick[x][o]
  BY <1>2
<1>6. \A x \in granted : /\ DOMAIN outs'[x] \subseteq Outputs
                         /\ \A o \in DOMAIN outs'[x] : outs'[x][o] \in Vcs
  BY <1>1, <1>3, <1>4, <1>5, RouteFacts
<1>7. Typed'
  <2>1. vcRes' \in [DOMAIN vcRes' -> BOOLEAN]
    BY <1>2
  <2>2. \A x \in InVcs : /\ DOMAIN outs'[x] \subseteq Outputs
                         /\ \A o \in DOMAIN outs'[x] : outs'[x][o] \in Vcs
    BY <1>1, <1>5, <1>6 DEF Typed
  <2>3. DOMAIN outs' = InVcs
    BY <1>2
  <2> QED BY <1>1, <1>2, <2>1, <2>2, <2>3 DEF Typed, Phases
<1>8. \A x \in InVcs : state[x] = "active" => outs'[x] = outs[x]
  BY <1>3, <1>4, <1>5
<1>9. Arriving(inFlit) = {}
  BY <1>1, <1>2, NoneArriving DEF Passing
<1>10. Chained' /\ Fronted' /\ Queued'
  <2>1. Chained'
    BY <1>1, <1>2, <1>8, <1>9 DEF Chained, Arriving
  <2>2. Fronted'
    BY <1>1, <1>2, <1>8 DEF Fronted, IsHead, Front, Route
  <2>3. Queued'
    BY <1>1, <1>2 DEF Queued
  <2> QED BY <2>1, <2>2, <2>3
<1>11. Resolved'
  <2>1. DOMAIN vcRes' = vcQ /\ \A x \in vcQ : vcRes'[x] <=> x \in granted
    BY <1>2
  <2>2. DOMAIN swRes = {}
    BY <1>1, <1>2 DEF Resolved
  <2> QED BY <1>2, <1>3, <1>5, <2>1, <2>2 DEF Resolved, Route, Front
<1>12. Passing' /\ Awake'
  BY <1>1, <1>2 DEF Passing, Awake
<1> QED BY <1>7, <1>10, <1>11, <1>12 DEF InputInv

LEMMA SwitchGrantsInput ==
  ASSUME InputInv, SWAllocEvaluate
  PROVE  InputInv'
<1> DEFINE granted == Allocate([x \in {y \in swQ : CanSend(y)} |-> DOMAIN outs[x]])
<1>1. /\ Typed /\ Chained /\ Fronted /\ Queued /\ Resolved /\ Passing /\ Awake
  BY DEF InputInv
<1>2. /\ pc = "sw_evaluate" /\ pc' = "route_update"
      /\ swRes' = [x \in swQ |-> x \in granted]
      /\ UNCHANGED <<pkt, active, activity, inFlit, inCredit, fifo, state, outs, routeQ, vcQ,
                     swQ, vcRes, crossbar, creditBuf, feed, started, used>>
  BY DEF SWAllocEvaluate, upstream
<1> HIDE DEF granted
<1>3. Typed'
  <2>1. swRes' \in [DOMAIN swRes' -> BOOLEAN]
    BY <1>2
  <2> QED BY <1>1, <1>2, <2>1 DEF Typed, Phases
<1>4. Chained' /\ Fronted' /\ Queued'
  <2>1. Chained'
    BY <1>1, <1>2 DEF Chained, Continues, IsHead, FlitOn, Arriving
  <2>2. Fronted'
    BY <1>1, <1>2 DEF Fronted, IsHead, Front, Route
  <2>3. Queued'
    BY <1>1, <1>2 DEF Queued
  <2> QED BY <2>1, <2>2, <2>3
<1>5. Resolved'
  <2>1. DOMAIN swRes' = swQ
    BY <1>2
  <2> QED BY <1>1, <1>2, <2>1 DEF Resolved, Front, Route
<1>6. Passing' /\ Awake'
  BY <1>1, <1>2 DEF Passing, Awake
<1> QED BY <1>3, <1>4, <1>5, <1>6 DEF InputInv

LEMMA RouteInput ==
  ASSUME InputInv, RouteUpdate
  PROVE  InputInv'
<1>1. /\ Typed /\ Chained /\ Fronted /\ Queued /\ Resolved /\ Passing /\ Awake
  BY DEF InputInv
<1>2. /\ pc = "route_update" /\ pc' = "vc_update"
      /\ state' = [x \in InVcs |-> IF x \in routeQ THEN "vc_alloc" ELSE state[x]]
      /\ vcQ' = vcQ \cup routeQ
      /\ routeQ' = {}
      /\ UNCHANGED <<pkt, active, activity, inFlit, inCredit, fifo, outs, swQ, vcRes, swRes,
                     crossbar, creditBuf, feed, started, used>>
  BY DEF RouteUpdate, upstream
<1>3. Typed'
  <2>1. state' \in [InVcs -> States]
    BY <1>1, <1>2 DEF Typed, States
  <2> QED BY <1>1, <1>2, <2>1 DEF Typed, Phases
<1>4. \A x \in InVcs : /\ x \in routeQ => state[x] = "routing" /\ state'[x] = "vc_alloc"
                                          /\ fifo[x] # <<>> /\ IsHead(Front(x))
                       /\ x \notin routeQ => state'[x] = state[x] /\ state[x] # "routing"
  BY <1>1, <1>2 DEF Queued, Fronted
<1>5. Arriving(inFlit) = {}
  BY <1>1, <1>2, NoneArriving DEF Passing
<1>6. Chained'
  BY <1>1, <1>2, <1>4, <1>5 DEF Chained, Arriving
<1>7. Fronted'
  BY <1>1, <1>2, <1>4 DEF Fronted, IsHead, Front, Route
<1>8. Queued'
  BY <1>1, <1>2, <1>4 DEF Queued
<1>9. Resolved' /\ Passing' /\ Awake'
  BY <1>1, <1>2 DEF Resolved, Passing, Awake, Front, Route
<1> QED BY <1>3, <1>6, <1>7, <1>8, <1>9 DEF InputInv

LEMMA VcGrantInput ==
  ASSUME InputInv, VCAllocUpdate
  PROVE  InputInv'
<1> DEFINE granted == Granted(vcRes)
<1>1. /\ Typed /\ Chained /\ Fronted /\ Queued /\ Resolved /\ Passing /\ Awake
  BY DEF InputInv
<1>2. /\ pc = "vc_update" /\ pc' = "sw_update"
      /\ state' = [x \in InVcs |-> IF x \in granted THEN "active" ELSE state[x]]
      /\ vcQ' = vcQ \ granted
      /\ swQ' = swQ \cup granted
      /\ vcRes' = <<>>
      /\ activity' = (activity \/ vcQ' # {})
      /\ UNCHANGED <<pkt, active, inFlit, inCredit, fifo, outs, routeQ, swRes,
                     crossbar, creditBuf, feed, started, used>>
  BY DEF VCAllocUpdate, upstream, StillWaiting
<1>3. \A x \in granted : /\ x \in vcQ /\ x \in InVcs /\ state[x] = "vc_alloc"
                         /\ fifo[x] # <<>> /\ DOMAIN outs[x] = Route(x)
  BY <1>1 DEF Resolved, Queued, Fronted, Granted
<1> HIDE DEF granted
<1>4. DOMAIN vcRes' = {}
  BY <1>2, NothingResolved
<1>5. Typed'
  <2>1. state' \in [InVcs -> States]
    BY <1>1, <1>2 DEF Typed, States
  <2>2. activity' \in BOOLEAN
    BY <1>1, <1>2 DEF Typed
  <2>3. vcRes' \in [DOMAIN vcRes' -> BOOLEAN]
    BY <1>2
  <2> QED BY <1>1, <1>2, <2>1, <2>2, <2>3 DEF Typed, Phases
<1>6. \A x \in InVcs : state'[x] = IF x \in granted THEN "active" ELSE state[x]
  BY <1>2
<1>7. Arriving(inFlit) = {}
  BY <1>1, <1>2, NoneArriving DEF Passing
<1>8. Chained'
  BY <1>1, <1>2, <1>3, <1>6, <1>7 DEF Chained, Arriving
<1>9. Fronted'
  BY <1>1, <1>2, <1>3, <1>6 DEF Fronted, IsHead, Front, Route
<1>10. Queued'
  BY <1>1, <1>2, <1>3, <1>6 DEF Queued
<1>11. Resolved'
  BY <1>1, <1>2, <1>4 DEF Resolved
<1>12. Passing' /\ Awake'
  BY <1>1, <1>2 DEF Passing, Awake
<1> QED BY <1>5, <1>8, <1>9, <1>10, <1>11, <1>12 DEF InputInv

LEMMA SwitchInput ==
  ASSUME InputInv, Switch
  PROVE  InputInv'
<1>1. /\ pc = "switch" /\ pc' = "write" /\ crossbar' = {} /\ active' = activity
      /\ UNCHANGED <<pkt, activity, inFlit, inCredit, fifo, state, outs, routeQ, vcQ, swQ,
                     vcRes, swRes, creditBuf, feed, started, used>>
  BY DEF Switch, upstream, queues
<1>2. Typed'
  BY <1>1 DEF InputInv, Typed, Phases
<1>3. Chained' /\ Fronted' /\ Queued'
  BY <1>1 DEF InputInv, Chained, Fronted, Queued, Continues, IsHead,
              FlitOn, Front, Route, Arriving
<1>4. Resolved' /\ Passing' /\ Awake'
  BY <1>1 DEF InputInv, Resolved, Passing, Awake, Front, Route
<1> QED BY <1>2, <1>3, <1>4 DEF InputInv

LEMMA WriteInput ==
  ASSUME InputInv, WriteOutputs
  PROVE  InputInv'
<1>1. /\ pc = "write" /\ pc' = "read"
      /\ used' = [x \in InVcs |-> IF x[2] \in creditBuf[x[1]] THEN used[x] - 1 ELSE used[x]]
      /\ creditBuf' = [i \in Inputs |-> {}]
      /\ UNCHANGED <<pkt, active, activity, inFlit, inCredit, fifo, state, outs, routeQ, vcQ,
                     swQ, vcRes, swRes, crossbar, feed, started>>
  BY DEF WriteOutputs, queues
<1>2. Typed'
  BY <1>1 DEF InputInv, Typed, Phases
<1>3. Chained' /\ Fronted' /\ Queued'
  BY <1>1 DEF InputInv, Chained, Fronted, Queued, Continues, IsHead,
              FlitOn, Front, Route, Arriving
<1>4. Resolved' /\ Passing' /\ Awake'
  BY <1>1 DEF InputInv, Resolved, Passing, Awake, Front, Route
<1> QED BY <1>2, <1>3, <1>4 DEF InputInv

LEMMA InitInput ==
  ASSUME Init
  PROVE  InputInv
<1>1. Typed
  <2>1. <<>> \in [DOMAIN <<>> -> BOOLEAN] /\ <<>> \in Seq(Flit)
    BY NothingResolved
  <2>2. vcRes \in [DOMAIN vcRes -> BOOLEAN] /\ swRes \in [DOMAIN swRes -> BOOLEAN]
    BY <2>1 DEF Init
  <2>3. fifo \in [InVcs -> Seq(Flit)] /\ feed \in [InVcs -> Flit \cup {Idle}]
    BY <2>1 DEF Init
  <2>4. DOMAIN outs = InVcs /\ \A x \in InVcs : DOMAIN outs[x] = {}
    BY NothingResolved DEF Init
  <2>5. /\ pkt \in Workloads /\ pc \in Phases /\ active \in BOOLEAN /\ activity \in BOOLEAN
        /\ started \subseteq Pids
    BY DEF Init, Phases
  <2>6. /\ inFlit \in [Inputs -> InFlit \cup {None}] /\ inCredit \in [Outputs -> SUBSET Vcs]
        /\ state \in [InVcs -> States] /\ creditBuf \in [Inputs -> SUBSET Vcs]
    BY DEF Init, States
  <2>7. used \in [InVcs -> Int]
    BY DEF Init
  <2> QED BY <2>2, <2>3, <2>4, <2>5, <2>6, <2>7 DEF Typed
<1>2. Arriving(inFlit) = {}
  BY NoneArriving DEF Init
<1>3. Chained /\ Fronted /\ Queued
  <2> DEFINE e == <<>>
  <2>0. 1 .. Len(e) - 1 = {}
    OBVIOUS
  <2>1. \A x \in InVcs : /\ fifo[x] = e /\ state[x] = "idle" /\ feed[x] = Idle
    BY DEF Init
  <2>2. Chained
    <3> HIDE DEF e
    <3>1. \A x \in InVcs : \A k \in 1 .. Len(fifo[x]) - 1 : FALSE
      BY <2>0, <2>1
    <3> QED BY <1>2, <2>1, <3>1 DEF Chained, e
  <2>3. Fronted /\ Queued
    BY <2>1 DEF Init, Fronted, Queued
  <2> QED BY <2>2, <2>3
<1>4. Resolved /\ Passing /\ Awake
  BY NothingResolved DEF Init, Resolved, Passing, Awake
<1> QED BY <1>1, <1>3, <1>4 DEF InputInv

\* SWAllocUpdate, the end of a VC's turn: what its buffer and its queue are
\* then depends on what follows the flit that leaves.
LEMMA SendInput ==
  ASSUME InputInv, SWAllocUpdate
  PROVE  InputInv'
<1> DEFINE granted == Granted(swRes)
           drained == {x \in granted : Len(fifo[x]) = 1}
           ended == {x \in granted : IsTail(Front(x))}
<1>1. /\ Typed /\ Chained /\ Fronted /\ Queued /\ Resolved /\ Passing /\ Awake
  BY DEF InputInv
<1>2. /\ pc = "sw_update" /\ pc' = "switch"
      /\ fifo' = [x \in InVcs |-> IF x \in granted THEN Tail(fifo[x]) ELSE fifo[x]]
      /\ state' = [x \in InVcs |-> IF x \notin ended THEN state[x]
                                   ELSE IF x \in drained THEN "idle" ELSE "routing"]
      /\ routeQ' = routeQ \cup (ended \ drained)
      /\ swQ' = swQ \ (drained \cup ended)
      /\ swRes' = <<>>
      /\ creditBuf' = CreditsFor(granted)
      /\ activity' = (activity \/ swQ' # {})
      /\ UNCHANGED <<pkt, active, inFlit, inCredit, outs, vcQ, vcRes, feed, started, used>>
  BY DEF SWAllocUpdate, upstream
<1>3. \A x \in granted : /\ x \in InVcs /\ x \in swQ /\ state[x] = "active" /\ fifo[x] # <<>>
                         /\ DOMAIN outs[x] = Route(x)
  BY <1>1 DEF Resolved, Queued, Fronted, Granted
<1>4. \A x : /\ x \in drained <=> x \in granted /\ Len(fifo[x]) = 1
             /\ x \in ended <=> x \in granted /\ Ends(pkt, Front(x))
  BY DEF IsTail, Ends
<1>5. Arriving(inFlit) = {} /\ Arriving(inFlit') = {}
  BY <1>1, <1>2, NoneArriving DEF Passing, Arriving
<1> HIDE DEF granted, drained, ended
<1>6. \A x \in InVcs : /\ fifo'[x] = IF x \in granted THEN Tail(fifo[x]) ELSE fifo[x]
                       /\ state'[x] = IF x \notin ended THEN state[x]
                                      ELSE IF x \in drained THEN "idle" ELSE "routing"
  BY <1>2
<1>7. ASSUME NEW x \in granted
      PROVE  /\ Front(x) \in Flit /\ Front(x) = fifo[x][1]
             /\ Len(fifo[x]) \in Nat \ {0}
             /\ fifo'[x] \in Seq(Flit) /\ Len(fifo'[x]) = Len(fifo[x]) - 1
             /\ \A k \in 1 .. Len(fifo'[x]) : fifo'[x][k] = fifo[x][k + 1]
             /\ fifo'[x] = <<>> <=> x \in drained
             /\ \A k \in 1 .. Len(fifo[x]) - 1 : Follows(pkt, fifo[x][k], fifo[x][k + 1])
             /\ feed[x] = After(pkt, fifo[x][Len(fifo[x])])
  <2>1. x \in InVcs /\ fifo[x] # <<>>
    BY <1>3
  <2>2. /\ Front(x) \in Flit /\ Front(x) = fifo[x][1] /\ Len(fifo[x]) \in Nat \ {0}
        /\ fifo[x] \in Seq(Flit)
    BY <1>1, <2>1, RouteFacts DEF Typed
  <2> DEFINE q == fifo[x]
             r == fifo'[x]
  <2>3. q \in Seq(Flit) /\ q # <<>> /\ r = Tail(q) /\ (x \in drained <=> Len(q) = 1)
    BY <1>4, <1>6, <2>1, <2>2
  <2>4. /\ \A k \in 1 .. Len(q) - 1 : Follows(pkt, q[k], q[k + 1])
        /\ feed[x] = After(pkt, q[Len(q)])
    BY <1>1, <1>5, <2>1 DEF Chained
  <2> HIDE DEF q, r
  <2>5. /\ r \in Seq(Flit) /\ Len(r) = Len(q) - 1 /\ \A k \in 1 .. Len(r) : r[k] = q[k + 1]
        /\ r = <<>> <=> Len(q) = 1
    <3>1. r \in Seq(Flit) /\ Len(r) = Len(q) - 1 /\ Len(q) \in Nat
      BY <2>3
    <3>2. \A k \in 1 .. Len(r) : r[k] = q[k + 1]
      BY <2>3, <3>1
    <3>3. r = <<>> <=> Len(r) = 0
      BY <3>1, EmptySeq
    <3> QED BY <3>1, <3>2, <3>3
  <2> QED BY <2>2, <2>3, <2>4, <2>5 DEF q, r
<1>8. Typed'
  <2>1. fifo' \in [InVcs -> Seq(Flit)]
    BY <1>1, <1>2, <1>7 DEF Typed
  <2>2. state' \in [InVcs -> States]
    BY <1>1, <1>2 DEF Typed, States
  <2>3. activity' \in BOOLEAN /\ creditBuf' \in [Inputs -> SUBSET Vcs]
    BY <1>1, <1>2 DEF Typed, CreditsFor
  <2>4. swRes' \in [DOMAIN swRes' -> BOOLEAN]
    BY <1>2
  <2> QED BY <1>1, <1>2, <2>1, <2>2, <2>3, <2>4 DEF Typed, Phases
\* How a VC goes on after its flit has left.
<1>9. ASSUME NEW x \in InVcs
      PROVE  /\ \A k \in 1 .. Len(fifo'[x]) - 1 : Follows(pkt, fifo'[x][k], fifo'[x][k + 1])
             /\ IF fifo'[x] # <<>> THEN feed[x] = After(pkt, fifo'[x][Len(fifo'[x])])
                ELSE IF feed[x] = Idle THEN state'[x] = "idle"
                ELSE state'[x] = "active" /\ DOMAIN outs[x] = pkt[feed[x].pid].outs
             /\ state'[x] = "idle" => fifo'[x] = <<>>
             /\ state'[x] \in {"routing", "vc_alloc"} => fifo'[x] # <<>> /\ IsHead(Head(fifo'[x]))
             /\ state'[x] = "active" /\ fifo'[x] # <<>> =>
                  DOMAIN outs[x] = pkt[Head(fifo'[x]).pid].outs
             /\ state'[x] = "routing" <=>
                  state[x] = "routing" \/ (x \in ended /\ x \notin drained)
             /\ state'[x] = "vc_alloc" <=> state[x] = "vc_alloc"
             /\ state'[x] = "active" /\ fifo'[x] # <<>> <=>
                  state[x] = "active" /\ fifo[x] # <<>> /\ x \notin drained \cup ended
  <2>1. CASE x \notin granted
    <3>1. fifo'[x] = fifo[x] /\ state'[x] = state[x] /\ x \notin drained /\ x \notin ended
      BY <1>4, <1>6, <2>1
    <3>2. /\ \A k \in 1 .. Len(fifo[x]) - 1 : Follows(pkt, fifo[x][k], fifo[x][k + 1])
          /\ IF fifo[x] # <<>> THEN feed[x] = After(pkt, fifo[x][Len(fifo[x])])
             ELSE IF feed[x] = Idle THEN state[x] = "idle"
             ELSE state[x] = "active" /\ DOMAIN outs[x] = pkt[feed[x].pid].outs
      BY <1>1, <1>5 DEF Chained
    <3>3. /\ state[x] = "idle" => fifo[x] = <<>>
          /\ state[x] \in {"routing", "vc_alloc"} => fifo[x] # <<>> /\ IsHead(Head(fifo[x]))
          /\ state[x] = "active" /\ fifo[x] # <<>> =>
               DOMAIN outs[x] = pkt[Head(fifo[x]).pid].outs
      BY <1>1 DEF Fronted, Front, Route
    <3> QED BY <3>1, <3>2, <3>3
  <2>2. CASE x \in granted
    <3> DEFINE q == fifo[x]
               r == fifo'[x]
               f == q[1]
               n == Len(q)
    <3>1. /\ f \in Flit /\ Front(x) = f /\ n \in Nat \ {0}
          /\ r \in Seq(Flit) /\ Len(r) = n - 1
          /\ \A k \in 1 .. Len(r) : r[k] = q[k + 1]
          /\ r = <<>> <=> x \in drained
          /\ \A k \in 1 .. n - 1 : Follows(pkt, q[k], q[k + 1])
          /\ feed[x] = After(pkt, q[n])
          /\ q # <<>> /\ state[x] = "active"
          /\ DOMAIN outs[x] = pkt[f.pid].outs
          /\ x \in drained <=> n = 1
          /\ x \in ended <=> Ends(pkt, f)
      BY <1>3, <1>4, <1>7, <2>2 DEF Route
    <3>2. state'[x] = IF x \notin ended THEN "active"
                      ELSE IF x \in drained THEN "idle" ELSE "routing"
      BY <1>6, <3>1
    <3> HIDE DEF f, r, n
    <3>3. \A k \in 1 .. Len(r) - 1 : Follows(pkt, r[k], r[k + 1])
      <4> TAKE k \in 1 .. Len(r) - 1
      <4> DEFINE j == k + 1
      <4>1. k \in 1 .. Len(r) /\ j \in 1 .. Len(r) /\ j \in 1 .. n - 1
        BY <3>1
      <4>2. r[k] = q[j] /\ r[j] = q[j + 1]
        BY <3>1, <4>1
      <4>3. Follows(pkt, q[j], q[j + 1])
        <5> HIDE DEF j
        <5> QED BY <3>1, <4>1
      <4> QED BY <4>2, <4>3
    <3>4. CASE x \in drained
      <4>1. n = 1 /\ r = <<>> /\ feed[x] = After(pkt, f)
        BY <3>1, <3>4 DEF f
      <4>2. CASE x \in ended
        BY <3>1, <3>2, <3>3, <3>4, <4>1, <4>2 DEF After, r
      <4>3. CASE x \notin ended
        <5>1. feed[x] = f /\ f # Idle
          BY <3>1, <4>1, <4>3, FlitFields DEF After
        <5> QED BY <3>1, <3>2, <3>3, <3>4, <4>1, <4>3, <5>1 DEF r
      <4> QED BY <4>2, <4>3
    <3>5. CASE x \notin drained
      <4>1. /\ n > 1 /\ r # <<>> /\ Head(r) = r[1] /\ r[1] = q[2] /\ r[Len(r)] = q[n]
            /\ Follows(pkt, f, q[2])
        <5>1. n > 1 /\ Len(r) \in 1 .. Len(r) /\ 1 \in 1 .. Len(r) /\ 1 \in 1 .. n - 1
          BY <3>1, <3>5
        <5>2. Len(r) + 1 = n /\ 1 + 1 = 2
          BY <3>1
        <5>3. Follows(pkt, q[1], q[2])
          BY <3>1, <5>1, <5>2
        <5> QED BY <3>1, <3>5, <5>1, <5>2, <5>3 DEF f
      <4>2. CASE x \in ended
        <5>1. IsHead(Head(r))
          BY <3>1, <4>1, <4>2 DEF Follows
        <5> QED BY <3>1, <3>2, <3>3, <3>5, <4>1, <4>2, <5>1 DEF r
      <4>3. CASE x \notin ended
        <5>1. Head(r).pid = f.pid
          BY <3>1, <4>1, <4>3 DEF Follows
        <5> QED BY <3>1, <3>2, <3>3, <3>5, <4>1, <4>3, <5>1 DEF r
      <4> QED BY <4>2, <4>3
    <3> QED BY <3>4, <3>5
  <2> QED BY <2>1, <2>2
<1>10. Chained'
  BY <1>2, <1>5, <1>9 DEF Chained
<1>11. Fronted'
  BY <1>2, <1>9 DEF Fronted, IsHead, Front, Route
<1>12. Queued'
  <2>1. /\ \A x : x \in routeQ <=> x \in InVcs /\ state[x] = "routing"
        /\ \A x : x \in vcQ <=> x \in InVcs /\ state[x] = "vc_alloc"
        /\ \A x : x \in swQ <=> x \in InVcs /\ state[x] = "active" /\ fifo[x] # <<>>
    BY <1>1 DEF Queued
  <2>2. /\ \A x : x \in routeQ' <=> x \in routeQ \/ (x \in ended /\ x \notin drained)
        /\ \A x : x \in swQ' <=> x \in swQ /\ x \notin drained \cup ended
        /\ vcQ' = vcQ
    BY <1>2
  <2>3. \A x \in ended : x \in InVcs
    BY <1>3, <1>4
  <2>4. /\ \A x : x \in routeQ' <=> x \in InVcs /\ state'[x] = "routing"
        /\ \A x : x \in vcQ' <=> x \in InVcs /\ state'[x] = "vc_alloc"
        /\ \A x : x \in swQ' <=> x \in InVcs /\ state'[x] = "active" /\ fifo'[x] # <<>>
    BY <1>9, <2>1, <2>2, <2>3
  <2> QED BY <2>4 DEF Queued
<1>13. Resolved'
  <2>1. DOMAIN swRes' = {} /\ DOMAIN vcRes = {}
    BY <1>1, <1>2, NothingResolved DEF Resolved
  <2> QED BY <1>2, <2>1 DEF Resolved
<1>14. Passing' /\ Awake'
  BY <1>1, <1>2 DEF Passing, Awake
<1> QED BY <1>8, <1>10, <1>11, <1>12, <1>13, <1>14 DEF InputInv

-----------------------------------------------------------------------------
LEMMA NextInput == InputInv /\ [Next]_vars => InputInv'
<1> SUFFICES ASSUME InputInv, [Next]_vars PROVE InputInv'
  OBVIOUS
<1>1. CASE Receive
  BY <1>1, ReceiveInput DEF Receive
<1>2. CASE Sleep
  BY <1>2, SleepInput
<1>3. CASE FlitDispatch
  BY <1>3, DispatchInput
<1>4. CASE AllocateVcs
  BY <1>4, AllocateInput DEF AllocateVcs
<1>5. CASE SWAllocEvaluate
  BY <1>5, SwitchGrantsInput
<1>6. CASE RouteUpdate
  BY <1>6, RouteInput
<1>7. CASE VCAllocUpdate
  BY <1>7, VcGrantInput
<1>8. CASE SWAllocUpdate
  BY <1>8, SendInput
<1>9. CASE Switch
  BY <1>9, SwitchInput
<1>10. CASE WriteOutputs
  BY <1>10, WriteInput
<1>11. CASE UNCHANGED vars
  <2>1. UNCHANGED <<pkt, pc, active, activity, inFlit, inCredit, fifo, state, outs, routeQ, vcQ,
                    swQ, vcRes, swRes, crossbar, creditBuf, feed, started, used>>
    BY <1>11 DEF vars, router, queues, upstream
  <2>2. Typed' /\ Queued' /\ Fronted'
    BY <2>1 DEF InputInv, Typed, Queued, Fronted, IsHead, Front, Route
  <2>3. Chained'
    BY <2>1 DEF InputInv, Chained, Continues, IsHead, FlitOn, Arriving
  <2>4. Resolved' /\ Passing' /\ Awake'
    BY <2>1 DEF InputInv, Resolved, Passing, Awake, Front, Route
  <2> QED BY <2>2, <2>3, <2>4 DEF InputInv
<1> QED BY <1>1, <1>2, <1>3, <1>4, <1>5, <1>6, <1>7, <1>8, <1>9, <1>10, <1>11
        DEF Next, InternalStep

\* The invariant of the input side holds throughout.
THEOREM InputInvariance == Spec => []InputInv
BY InitInput, NextInput, PTL DEF Spec

\* The three work queues of a router always hold exactly the VCs that wait for
\* what they are for, and the flits there are those the evaluate functions
\* assert: the queues are never out of step with the state of the VCs, which
\* the update functions, _InputQueuing and each other's pushes all change.
THEOREM QueuesMatch == Spec => []QueuesMatchStates
<1>1. InputInv => QueuesMatchStates
  <2> SUFFICES ASSUME InputInv PROVE QueuesMatchStates
    OBVIOUS
  <2>1. /\ Typed /\ Chained /\ Fronted /\ Queued
    BY DEF InputInv
  <2>2. \A x \in InVcs : state[x] = "idle" => fifo[x] = <<>>
    BY <2>1 DEF Fronted
  <2>3. \A x \in routeQ \cup vcQ : fifo[x] # <<>> /\ IsHead(Front(x))
    BY <2>1 DEF Fronted, Queued
  <2>4. \A x \in swQ : DOMAIN outs[x] = Route(x)
    BY <2>1 DEF Fronted, Queued
  <2>5. ASSUME NEW x \in Arriving(inFlit)
        PROVE  IsHead(FlitOn(inFlit, x)) \/ state[x] # "idle"
    <3>1. x \in InVcs
      BY <2>1, ArrivingFacts DEF Typed
    <3> QED BY <2>1, <3>1 DEF Chained, Continues, Fronted
  <2> QED BY <2>1, <2>2, <2>3, <2>4, <2>5 DEF QueuesMatchStates, Queued
<1> QED BY <1>1, InputInvariance, PTL

\* A router that is not stepped in a cycle has nothing to do in it: a flit, a
\* credit, a head that waits for output VCs or a VC with a flit to send keeps
\* _active set.
THEOREM NothingAsleep == Spec => []NothingLeftAsleep
<1>1. InputInv => NothingLeftAsleep
  BY DEF InputInv, NothingLeftAsleep, Awake, Passing
<1> QED BY <1>1, InputInvariance, PTL

-----------------------------------------------------------------------------
(***************************************************************************)
(* The invariant of the output side.                                       *)
(***************************************************************************)
\* The shapes of the state of the output side.
OutTyped ==
  /\ nextBuf \in [Outputs -> BufferStatesOf(InVcs)]
  /\ \A o \in Outputs : nextBuf[o].policy = Policy /\ nextBuf[o].wait = Wait
  /\ crossbar \subseteq Copies
  /\ outBuf \in [Outputs -> Seq(Copies)]
  /\ down \in [Outputs \X Vcs -> Nat]

\* An input VC that holds an output VC has taken it and has not sent its tail.
\* Without waiting for the tail's credit, whoever has taken one holds it.
Owned ==
  \A o \in Outputs, w \in Vcs, x \in InVcs :
    /\ Holds(x, o, w) => nextBuf[o].inUseBy[w] = x /\ ~nextBuf[o].tailSent[w]
    /\ ~Wait /\ nextBuf[o].inUseBy[w] = x => Holds(x, o, w)

\* The BufferStates agree with themselves, and none has run into an error.
BuffersSound ==
  \A o \in Outputs : Sound(nextBuf[o]) /\ (Workable(Policy) => ~nextBuf[o].err)

\* The crossbar has been granted to VCs that can send, on no output to two.
Ready ==
  /\ \A x \in Granted(swRes) : CanSend(x)
  /\ \A x, y \in Granted(swRes) : x # y => DOMAIN outs[x] \cap DOMAIN outs[y] = {}

\* Each output has at most one flit on its way, and it leaves in the cycle.
OneEach ==
  \A o \in Outputs :
    /\ \A c, d \in crossbar : c.out = o /\ d.out = o => c = d
    /\ pc # "write" => outBuf[o] = <<>>
    /\ outBuf[o] # <<>> => Len(outBuf[o]) = 1 /\ outBuf[o][1].out = o

\* Where the slots of the input VCs are, as upstream counts them.
InputSlots ==
  \A x \in InVcs :
    /\ used[x] = Len(fifo[x])
                 + (IF x \in Arriving(inFlit) THEN 1 ELSE 0)
                 + (IF x[2] \in creditBuf[x[1]] THEN 1 ELSE 0)
    /\ used[x] <= VcLimit

\* Where the slots of the output VCs are, as the router counts them.
OutputSlots ==
  \A o \in Outputs, w \in Vcs :
    nextBuf[o].vcOcc[w] = down[<<o, w>>] + InFlight(o, w)
                          + (IF w \in inCredit[o] THEN 1 ELSE 0)

OutputInv == /\ OutTyped /\ Owned /\ BuffersSound /\ Ready /\ OneEach
             /\ InputSlots /\ OutputSlots

-----------------------------------------------------------------------------
(***************************************************************************)
(* The folds over the BufferState of an output.                            *)
(***************************************************************************)
\* The credits are processed one after the other.
LEMMA CreditFold ==
  ASSUME NEW o \in Outputs, OutTyped, NEW S \in SUBSET Vcs, inCredit[o] = S
  PROVE  \E g : /\ Credit(o) = g[S]
                /\ g[{}] = nextBuf[o]
                /\ \A s \in SUBSET S : s # {} =>
                     \E w \in s : g[s] = ProcessCreditFor(g[s \ {w}], w)
<1> DEFINE B == BufferStatesOf(InVcs)
           F == [p \in S \X B |-> ProcessCreditFor(p[2], p[1])]
           base == nextBuf[o]
           next(h, s) == IF s = {} THEN nextBuf[o]
                         ELSE ProcessCreditFor(h[s \ {CHOOSE x \in s : TRUE}],
                                               CHOOSE x \in s : TRUE)
           body(h) == [s \in SUBSET S |-> next(h, s)]
<1>1. base \in B /\ IsFiniteSet(S)
  BY Partition, FS_Subset DEF OutTyped
<1>2. F \in [S \X B -> B]
  <2>1. ASSUME NEW b \in B, NEW v \in S PROVE ProcessCreditFor(b, v) \in B
    BY ProcessCreditEffect
  <2> HIDE DEF B
  <2> QED BY <2>1
<1>3. PICK h \in [SUBSET S -> B] : IsFold(h, F, base, S)
  <2> HIDE DEF F, B, base
  <2> QED BY <1>1, <1>2, FoldExists
<1>4. ASSUME NEW s \in SUBSET S, s # {}
      PROVE  F[<<Pick(s), h[s \ {Pick(s)}]>>] = ProcessCreditFor(h[s \ {Pick(s)}], Pick(s))
  <2>1. Pick(s) \in S /\ h[s \ {Pick(s)}] \in B
    BY <1>4, PickIn
  <2> HIDE DEF B
  <2> QED BY <2>1
<1>5. h = body(h)
  <2>1. ASSUME NEW s \in SUBSET S PROVE h[s] = next(h, s)
    <3>1. CASE s = {}
      BY <1>3, <3>1 DEF IsFold
    <3>2. CASE s # {}
      <4>1. h[s] = F[<<Pick(s), h[s \ {Pick(s)}]>>]
        <5> HIDE DEF F
        <5> QED BY <1>3, <3>2 DEF IsFold
      <4>2. h[s] = ProcessCreditFor(h[s \ {Pick(s)}], Pick(s))
        <5> HIDE DEF F
        <5> QED BY <1>4, <3>2, <4>1
      <4> QED BY <3>2, <4>2 DEF Pick
    <3> QED BY <3>1, <3>2
  <2> HIDE DEF next
  <2> QED BY <1>3, <2>1
<1> DEFINE g == CHOOSE g : g = body(g)
<1>6. g = body(g)
  <2> HIDE DEF body
  <2> QED BY <1>5
<1>7. Credit(o) = g[S]
  BY DEF Credit, FoldSet, MapThenFoldSet
<1> HIDE DEF g
<1>8. g[{}] = nextBuf[o]
  BY <1>6
<1>9. ASSUME NEW s \in SUBSET S, s # {}
      PROVE  \E w \in s : g[s] = ProcessCreditFor(g[s \ {w}], w)
  <2>1. Pick(s) \in s
    BY <1>9, PickIn
  <2>2. g[s] = ProcessCreditFor(g[s \ {Pick(s)}], Pick(s))
    BY <1>6, <1>9 DEF Pick
  <2> QED BY <2>1, <2>2
<1> QED BY <1>7, <1>8, <1>9

LEMMA InVcsFinite == IsFiniteSet(InVcs)
<1>1. IsFiniteSet(Inputs) /\ IsFiniteSet(Vcs)
  <2>1. 0 \in Int /\ NumInputs - 1 \in Int
    BY MCRouterAssumption
  <2> QED BY <2>1, FS_Interval, Partition DEF Inputs
<1> QED BY <1>1, FS_Product DEF InVcs

\* g gives the BufferState of output o after each subset of X has taken its picks.
TakeInTurn(g, o, X, pick) ==
  /\ g[{}] = nextBuf[o]
  /\ \A s \in SUBSET X : s # {} =>
       \E x \in s : g[s] = TakeBuffer(g[s \ {x}], pick[x][o], x)

\* The granted input VCs take their output VCs one after the other.
LEMMA TakeFold ==
  ASSUME NEW o \in Outputs, OutTyped, NEW X \in SUBSET InVcs, NEW pick,
         \A x \in X : pick[x][o] \in Vcs
  PROVE  \E g : Take(o, X, pick) = g[X] /\ TakeInTurn(g, o, X, pick)
<1> DEFINE B == BufferStatesOf(InVcs)
           F == [p \in X \X B |-> TakeBuffer(p[2], pick[p[1]][o], p[1])]
           base == nextBuf[o]
           next(h, s) == IF s = {} THEN nextBuf[o]
                         ELSE TakeBuffer(h[s \ {CHOOSE x \in s : TRUE}],
                                         pick[CHOOSE x \in s : TRUE][o],
                                         CHOOSE x \in s : TRUE)
           body(h) == [s \in SUBSET X |-> next(h, s)]
<1>1. base \in B /\ IsFiniteSet(X)
  BY InVcsFinite, FS_Subset DEF OutTyped
<1>2. F \in [X \X B -> B]
  <2>1. ASSUME NEW b \in B, NEW x \in X PROVE TakeBuffer(b, pick[x][o], x) \in B
    BY TakeBufferEffect
  <2> HIDE DEF B
  <2> QED BY <2>1
<1>3. PICK h \in [SUBSET X -> B] : IsFold(h, F, base, X)
  <2> HIDE DEF F, B, base
  <2> QED BY <1>1, <1>2, FoldExists
<1>4. ASSUME NEW s \in SUBSET X, s # {}
      PROVE  F[<<Pick(s), h[s \ {Pick(s)}]>>]
               = TakeBuffer(h[s \ {Pick(s)}], pick[Pick(s)][o], Pick(s))
  <2>1. Pick(s) \in X /\ h[s \ {Pick(s)}] \in B
    BY <1>4, PickIn
  <2> HIDE DEF B
  <2> QED BY <2>1
<1>5. h = body(h)
  <2>1. ASSUME NEW s \in SUBSET X PROVE h[s] = next(h, s)
    <3>1. CASE s = {}
      BY <1>3, <3>1 DEF IsFold
    <3>2. CASE s # {}
      <4>1. h[s] = F[<<Pick(s), h[s \ {Pick(s)}]>>]
        <5> HIDE DEF F
        <5> QED BY <1>3, <3>2 DEF IsFold
      <4>2. h[s] = TakeBuffer(h[s \ {Pick(s)}], pick[Pick(s)][o], Pick(s))
        <5> HIDE DEF F
        <5> QED BY <1>4, <3>2, <4>1
      <4> QED BY <3>2, <4>2 DEF Pick
    <3> QED BY <3>1, <3>2
  <2> HIDE DEF next
  <2> QED BY <1>3, <2>1
<1> DEFINE g == CHOOSE g : g = body(g)
<1>6. g = body(g)
  <2> HIDE DEF body
  <2> QED BY <1>5
<1>7. Take(o, X, pick) = g[X]
  BY DEF Take, FoldSet, MapThenFoldSet
<1> HIDE DEF g
<1>8. g[{}] = nextBuf[o]
  BY <1>6
<1>9. ASSUME NEW s \in SUBSET X, s # {}
      PROVE  \E x \in s : g[s] = TakeBuffer(g[s \ {x}], pick[x][o], x)
  <2>1. Pick(s) \in s
    BY <1>9, PickIn
  <2>2. g[s] = TakeBuffer(g[s \ {Pick(s)}], pick[Pick(s)][o], Pick(s))
    BY <1>6, <1>9 DEF Pick
  <2> QED BY <2>1, <2>2
<1> QED BY <1>7, <1>8, <1>9 DEF TakeInTurn

\* At most one input VC sends to an output.
LEMMA SendFold ==
  ASSUME NEW o, NEW ended
  PROVE  /\ Send(o, {}, ended) = nextBuf[o]
         /\ \A x : Send(o, {x}, ended) = SendingFlit(nextBuf[o], outs[x][o], x \in ended)
<1> DEFINE next(h, s) == IF s = {} THEN nextBuf[o]
                         ELSE SendingFlit(h[s \ {CHOOSE x \in s : TRUE}],
                                          outs[CHOOSE x \in s : TRUE][o],
                                          (CHOOSE x \in s : TRUE) \in ended)
           body(X, h) == [s \in SUBSET X |-> next(h, s)]
           g(X) == CHOOSE h : h = body(X, h)
<1>1. \A X : Send(o, X, ended) = g(X)[X]
  BY DEF Send, FoldSet, MapThenFoldSet
<1>2. ASSUME NEW X, NEW h, h = body(X, h)
      PROVE  g(X) = body(X, g(X))
  <2> HIDE DEF body
  <2> QED BY <1>2
<1>3. g({})[{}] = nextBuf[o]
  <2> DEFINE h == [s \in {{}} |-> nextBuf[o]]
  <2>1. h = body({}, h)
    <3>1. SUBSET {} = {{}} /\ next(h, {}) = nextBuf[o]
      OBVIOUS
    <3>2. \A s \in {{}} : next(h, s) = nextBuf[o]
      BY <3>1
    <3> HIDE DEF next
    <3> QED BY <3>1, <3>2
  <2>2. g({}) = body({}, g({}))
    <3> HIDE DEF g, body, h
    <3> QED BY <1>2, <2>1
  <2> HIDE DEF g
  <2> QED BY <2>2
<1>4. ASSUME NEW x
      PROVE  g({x})[{x}] = SendingFlit(nextBuf[o], outs[x][o], x \in ended)
  <2> DEFINE sent == SendingFlit(nextBuf[o], outs[x][o], x \in ended)
             h == [s \in SUBSET {x} |-> IF s = {} THEN nextBuf[o] ELSE sent]
  <2>1. \A s \in SUBSET {x} : s = {} \/ s = {x}
    OBVIOUS
  <2>2. (CHOOSE y \in {x} : TRUE) = x /\ {x} \ {x} = {} /\ {} \in SUBSET {x} /\ {x} # {}
    OBVIOUS
  <2>3. next(h, {}) = nextBuf[o]
    OBVIOUS
  <2>4. ASSUME NEW k, k[{}] = nextBuf[o]
        PROVE  next(k, {x}) = sent
    BY <2>2, <2>4
  <2>5. h = body({x}, h)
    <3>1. h[{}] = nextBuf[o]
      BY <2>2
    <3>2. next(h, {x}) = sent
      <4> HIDE DEF next, h, sent
      <4> QED BY <2>4, <3>1
    <3>3. \A s \in SUBSET {x} : h[s] = next(h, s)
      <4>1. h[{}] = nextBuf[o] /\ h[{x}] = sent
        BY <2>2
      <4> HIDE DEF h, next, sent
      <4> QED BY <2>1, <2>3, <3>2, <4>1
    <3>4. h = [s \in SUBSET {x} |-> h[s]]
      OBVIOUS
    <3> HIDE DEF next, h
    <3> QED BY <3>3, <3>4
  <2>6. g({x}) = body({x}, g({x}))
    <3> HIDE DEF g, body, h
    <3> QED BY <1>2, <2>5
  <2> DEFINE k == g({x})
  <2>7. k = body({x}, k)
    BY <2>6
  <2> HIDE DEF k, g, sent
  <2>8. k[{}] = next(k, {}) /\ k[{x}] = next(k, {x})
    <3> HIDE DEF next
    <3> QED BY <2>2, <2>7
  <2>9. k[{}] = nextBuf[o]
    BY <2>8
  <2>10. next(k, {x}) = sent
    <3> HIDE DEF next
    <3> QED BY <2>4, <2>9
  <2> QED BY <2>8, <2>10 DEF k, sent
<1> HIDE DEF g
<1> QED BY <1>1, <1>3, <1>4

LEMMA BufferFields ==
  ASSUME NEW Owners, NEW b \in BufferStatesOf(Owners)
  PROVE  /\ b.inUseBy \in [Vcs -> Owners \cup {None}]
         /\ b.tailSent \in [Vcs -> BOOLEAN]
         /\ b.vcOcc \in [Vcs -> Int]
         /\ DOMAIN b.inUseBy = Vcs /\ DOMAIN b.tailSent = Vcs /\ DOMAIN b.vcOcc = Vcs
<1>1. /\ b.inUseBy \in [Vcs -> Owners \cup {None}]
      /\ b.tailSent \in [Vcs -> BOOLEAN]
      /\ b.vcOcc \in [Vcs -> Int]
  BY DEF BufferStatesOf
<1> QED BY <1>1

\* What the credits of a cycle make of a sound BufferState.
LEMMA CreditEffect ==
  ASSUME NEW o \in Outputs, OutTyped, NEW S \in SUBSET Vcs, inCredit[o] = S,
         Sound(nextBuf[o]), \A w \in S : nextBuf[o].vcOcc[w] > 0
  PROVE  /\ Credit(o) \in BufferStatesOf(InVcs)
         /\ Credit(o).policy = nextBuf[o].policy
         /\ Credit(o).wait = nextBuf[o].wait
         /\ Credit(o).tailSent = nextBuf[o].tailSent
         /\ Sound(Credit(o))
         /\ ~nextBuf[o].err => ~Credit(o).err
         /\ \A w \in Vcs :
              /\ Credit(o).vcOcc[w] = nextBuf[o].vcOcc[w] - (IF w \in S THEN 1 ELSE 0)
              /\ \/ Credit(o).inUseBy[w] = nextBuf[o].inUseBy[w]
                 \/ nextBuf[o].wait /\ nextBuf[o].tailSent[w]
<1> DEFINE b == nextBuf[o]
           B == BufferStatesOf(InVcs)
           After1(c, s) ==
             /\ c \in B
             /\ c.policy = b.policy
             /\ c.wait = b.wait
             /\ c.tailSent = b.tailSent
             /\ Sound(c)
             /\ ~b.err => ~c.err
             /\ \A w \in Vcs :
                  /\ c.vcOcc[w] = b.vcOcc[w] - (IF w \in s THEN 1 ELSE 0)
                  /\ c.inUseBy[w] = b.inUseBy[w] \/ (b.wait /\ b.tailSent[w])
<1>1. PICK g : /\ Credit(o) = g[S]
               /\ g[{}] = b
               /\ \A s \in SUBSET S : s # {} => \E w \in s : g[s] = ProcessCreditFor(g[s \ {w}], w)
  BY CreditFold
<1>2. b \in B /\ IsFiniteSet(S)
  BY Partition, FS_Subset DEF OutTyped
<1>3. \A w \in Vcs : b.vcOcc[w] \in Int
  BY <1>2 DEF BufferStatesOf
<1> DEFINE Good == {s \in SUBSET S : After1(g[s], s)}
<1>4. After1(b, {})
  <2> HIDE DEF b, B
  <2> QED BY <1>2, <1>3 DEF b
<1>5. ASSUME NEW s \in SUBSET S, NEW w \in s, g[s] = ProcessCreditFor(g[s \ {w}], w),
             After1(g[s \ {w}], s \ {w})
      PROVE  After1(g[s], s)
  <2> DEFINE d == g[s \ {w}]
             c == ProcessCreditFor(d, w)
             n == d.vcOcc
             u == d.inUseBy
             cn == c.vcOcc
             cu == c.inUseBy
  <2>1. /\ d \in B /\ w \in Vcs
        /\ d.policy = b.policy /\ d.wait = b.wait /\ d.tailSent = b.tailSent /\ Sound(d)
        /\ ~b.err => ~d.err
        /\ \A v \in Vcs : /\ n[v] = b.vcOcc[v] - (IF v \in s \ {w} THEN 1 ELSE 0)
                          /\ u[v] = b.inUseBy[v] \/ (b.wait /\ b.tailSent[v])
    BY <1>5
  <2>2. n[w] > 0
    <3>1. b.vcOcc[w] \in Int /\ b.vcOcc[w] > 0
      BY <1>3, <2>1
    <3>2. n[w] = b.vcOcc[w] - 0
      <4> HIDE DEF d, b, n
      <4> QED BY <2>1
    <3> HIDE DEF d, b, n
    <3> QED BY <3>1, <3>2
  <2>3. /\ c \in B /\ c.policy = d.policy /\ c.wait = d.wait /\ c.tailSent = d.tailSent
        /\ cn = [n EXCEPT ![w] = @ - 1]
        /\ cu = IF d.wait /\ n[w] = 1 /\ d.tailSent[w] THEN [u EXCEPT ![w] = None] ELSE u
    <3> HIDE DEF d, b
    <3>1. d \in B /\ w \in Vcs
      BY <2>1
    <3> HIDE DEF B
    <3> QED BY <3>1, ProcessCreditEffect DEF B
  <2>4. Sound(c) /\ (~d.err => ~c.err)
    <3> HIDE DEF d
    <3> QED BY <2>1, <2>2, CreditSound
  <2>5. DOMAIN n = Vcs /\ DOMAIN u = Vcs
    <3>1. d \in B
      BY <2>1
    <3> HIDE DEF d
    <3> QED BY <3>1, BufferFields
  <2>6. g[s] = c
    BY <1>5
  <2> HIDE DEF d, c, n, u, cn, cu, b
  <2>7. ASSUME NEW v \in Vcs
        PROVE  /\ cn[v] = b.vcOcc[v] - (IF v \in s THEN 1 ELSE 0)
               /\ cu[v] = b.inUseBy[v] \/ (b.wait /\ b.tailSent[v])
    <3>1. CASE v = w
      <4>1. cn[v] = n[v] - 1 /\ n[v] = b.vcOcc[v]
        BY <1>3, <2>1, <2>3, <2>5, <3>1
      <4>2. cu[v] = u[v] \/ (b.wait /\ b.tailSent[v])
        BY <2>1, <2>3, <2>5, <3>1
      <4> QED BY <2>1, <3>1, <4>1, <4>2
    <3>2. CASE v # w
      <4>1. cn[v] = n[v] /\ cu[v] = u[v]
        BY <2>3, <2>5, <3>2
      <4> QED BY <2>1, <3>2, <4>1
    <3> QED BY <3>1, <3>2
  <2> QED BY <2>1, <2>3, <2>4, <2>6, <2>7 DEF cn, cu
<1> HIDE DEF After1
<1>6. {} \in Good
  BY <1>1, <1>4
<1>7. ASSUME NEW s \in SUBSET S, \A w \in s : s \ {w} \in Good
      PROVE  s \in Good
  <2>1. CASE s = {}
    BY <1>6, <2>1
  <2>2. CASE s # {}
    BY <1>1, <1>5, <1>7, <2>2
  <2> QED BY <2>1, <2>2
<1>8. S \in Good
  <2> DEFINE Bad == (SUBSET S) \ Good
  <2> SUFFICES ASSUME Bad # {} PROVE FALSE
    OBVIOUS
  <2>1. \A s \in Bad : IsFiniteSet(s)
    BY <1>2, FS_Subset
  <2>2. PICK s \in Bad : \A x \in s : s \ {x} \notin Bad
    <3> HIDE DEF Bad
    <3> QED BY <2>1, LeastSubset
  <2>3. s \in SUBSET S /\ \A x \in s : s \ {x} \in Good
    BY <2>2
  <2> QED BY <1>7, <2>2, <2>3
<1>9. After1(Credit(o), S)
  BY <1>1, <1>8
<1> QED BY <1>9 DEF After1

\* The picks of the input VCs X at output o are available and all different.
Apart(o, X, pick) ==
  /\ \A x \in X : pick[x][o] \in Vcs /\ nextBuf[o].inUseBy[pick[x][o]] = None
  /\ \A x, y \in X : x # y => pick[x][o] # pick[y][o]

\* The BufferState c is that of output o after the input VCs X have taken their
\* picks.
Taking(c, o, X, pick) ==
  /\ c \in BufferStatesOf(InVcs)
  /\ c.policy = nextBuf[o].policy
  /\ c.wait = nextBuf[o].wait
  /\ c.vcOcc = nextBuf[o].vcOcc
  /\ Sound(c)
  /\ Workable(nextBuf[o].policy) /\ ~nextBuf[o].err => ~c.err
  /\ \A x \in X : c.inUseBy[pick[x][o]] = x /\ ~c.tailSent[pick[x][o]]
  /\ \A w \in Vcs : (\A x \in X : pick[x][o] # w) =>
       c.inUseBy[w] = nextBuf[o].inUseBy[w] /\ c.tailSent[w] = nextBuf[o].tailSent[w]

\* What the grants of a cycle make of a sound BufferState.
LEMMA TakeEffect ==
  ASSUME NEW o \in Outputs, OutTyped, NEW X \in SUBSET InVcs, NEW pick,
         Apart(o, X, pick), Sound(nextBuf[o])
  PROVE  Taking(Take(o, X, pick), o, X, pick)
<1> DEFINE b == nextBuf[o]
           B == BufferStatesOf(InVcs)
           p(x) == pick[x][o]
           After1(c, s) ==
             /\ c \in B
             /\ c.policy = b.policy
             /\ c.wait = b.wait
             /\ c.vcOcc = b.vcOcc
             /\ Sound(c)
             /\ Workable(b.policy) /\ ~b.err => ~c.err
             /\ \A x \in s : c.inUseBy[p(x)] = x /\ ~c.tailSent[p(x)]
             /\ \A w \in Vcs : (\A x \in s : p(x) # w) =>
                  c.inUseBy[w] = b.inUseBy[w] /\ c.tailSent[w] = b.tailSent[w]
<1>1. PICK g : Take(o, X, pick) = g[X] /\ TakeInTurn(g, o, X, pick)
  <2>1. \A x \in X : pick[x][o] \in Vcs
    BY DEF Apart
  <2> QED BY <2>1, TakeFold
<1>2. b \in B /\ IsFiniteSet(X)
  BY InVcsFinite, FS_Subset DEF OutTyped
<1>3. \A x \in X : x \in InVcs /\ x # None /\ p(x) \in Vcs /\ b.inUseBy[p(x)] = None
  BY MCRouterAssumption DEF Apart
<1>4. \A x, y \in X : x # y => p(x) # p(y)
  BY DEF Apart
<1> DEFINE Good == {s \in SUBSET X : After1(g[s], s)}
<1>5. After1(b, {})
  <2> HIDE DEF b, B, p
  <2> QED BY <1>2 DEF b
<1>6. ASSUME NEW s \in SUBSET X, NEW x \in s, g[s] = TakeBuffer(g[s \ {x}], p(x), x),
             After1(g[s \ {x}], s \ {x})
      PROVE  After1(g[s], s)
  <2> DEFINE d == g[s \ {x}]
             v == p(x)
             c == TakeBuffer(d, v, x)
             t == d.tailSent
             u == d.inUseBy
             ct == c.tailSent
             cu == c.inUseBy
  <2>1. /\ d \in B /\ x \in X /\ v \in Vcs
        /\ d.policy = b.policy /\ d.wait = b.wait /\ d.vcOcc = b.vcOcc /\ Sound(d)
        /\ Workable(b.policy) /\ ~b.err => ~d.err
        /\ \A y \in s \ {x} : u[p(y)] = y /\ ~t[p(y)]
        /\ \A w \in Vcs : (\A y \in s \ {x} : p(y) # w) =>
             u[w] = b.inUseBy[w] /\ t[w] = b.tailSent[w]
    BY <1>3, <1>6
  <2>2. x \in InVcs /\ x # None /\ \A y \in s \ {x} : p(y) # v
    BY <1>3, <1>4
  <2>3. u[v] = None
    <3>1. b.inUseBy[v] = None
      BY <1>3, <2>1
    <3>2. \A y \in s \ {x} : p(y) # v
      BY <2>2
    <3>3. \A w \in Vcs : (\A y \in s \ {x} : p(y) # w) => u[w] = b.inUseBy[w]
      BY <2>1
    <3>4. v \in Vcs
      BY <2>1
    <3> HIDE DEF d, b, u, v, p
    <3> QED BY <3>1, <3>2, <3>3, <3>4
  <2>4. /\ c \in B /\ c.policy = d.policy /\ c.wait = d.wait /\ c.vcOcc = d.vcOcc
        /\ cu = [u EXCEPT ![v] = x]
        /\ ct = [t EXCEPT ![v] = FALSE]
    <3>1. d \in BufferStatesOf(InVcs) /\ v \in Vcs /\ x \in InVcs
      BY <2>1, <2>2
    <3> HIDE DEF d, v, b, p
    <3> QED BY <3>1, TakeBufferEffect
  <2>5. Sound(c) /\ (Workable(d.policy) /\ ~d.err => ~c.err)
    <3> HIDE DEF d, v
    <3> QED BY <2>1, <2>2, <2>3, TakeSound
  <2>6. DOMAIN t = Vcs /\ DOMAIN u = Vcs
    <3>1. d \in B
      BY <2>1
    <3> HIDE DEF d
    <3> QED BY <3>1, BufferFields
  <2>7. g[s] = c
    BY <1>6
  <2> HIDE DEF d, c, t, u, ct, cu, b, v, p
  <2>8. cu[v] = x /\ ~ct[v] /\ \A w \in Vcs : w # v => cu[w] = u[w] /\ ct[w] = t[w]
    BY <2>1, <2>4, <2>6
  <2>9. \A y \in s : cu[p(y)] = y /\ ~ct[p(y)]
    <3>1. \A y \in s \ {x} : p(y) \in Vcs /\ p(y) # v /\ u[p(y)] = y /\ ~t[p(y)]
      BY <1>3, <2>1, <2>2
    <3> QED BY <2>8, <3>1 DEF v
  <2>10. \A w \in Vcs : (\A y \in s : p(y) # w) =>
           cu[w] = b.inUseBy[w] /\ ct[w] = b.tailSent[w]
    BY <2>1, <2>8 DEF v
  <2> QED BY <2>1, <2>4, <2>5, <2>7, <2>9, <2>10 DEF cu, ct
<1> HIDE DEF After1
<1>7. {} \in Good
  BY <1>1, <1>5 DEF TakeInTurn
<1>8. ASSUME NEW s \in SUBSET X, \A x \in s : s \ {x} \in Good
      PROVE  s \in Good
  <2>1. CASE s = {}
    BY <1>7, <2>1
  <2>2. CASE s # {}
    BY <1>1, <1>6, <1>8, <2>2 DEF TakeInTurn
  <2> QED BY <2>1, <2>2
<1>9. X \in Good
  <2> DEFINE Bad == (SUBSET X) \ Good
  <2> SUFFICES ASSUME Bad # {} PROVE FALSE
    OBVIOUS
  <2>1. \A s \in Bad : IsFiniteSet(s)
    BY <1>2, FS_Subset
  <2>2. PICK s \in Bad : \A x \in s : s \ {x} \notin Bad
    <3> HIDE DEF Bad
    <3> QED BY <2>1, LeastSubset
  <2>3. s \in SUBSET X /\ \A x \in s : s \ {x} \in Good
    BY <2>2
  <2> QED BY <1>8, <2>2, <2>3
<1>10. After1(Take(o, X, pick), X)
  BY <1>1, <1>9
<1> QED BY <1>10 DEF After1, Taking

\* At most one flit crosses to an output.
LEMMA OutputFold ==
  ASSUME NEW o
  PROVE  /\ {c \in crossbar : c.out = o} = {} => Output(o) = outBuf[o]
         /\ \A d : {c \in crossbar : c.out = o} = {d} => Output(o) = Append(outBuf[o], d)
<1> DEFINE next(h, s) == IF s = {} THEN outBuf[o]
                         ELSE Append(h[s \ {CHOOSE x \in s : TRUE}], CHOOSE x \in s : TRUE)
           body(X, h) == [s \in SUBSET X |-> next(h, s)]
           g(X) == CHOOSE h : h = body(X, h)
           here == {c \in crossbar : c.out = o}
<1>1. Output(o) = g(here)[here]
  BY DEF Output, FoldSet, MapThenFoldSet
<1>2. ASSUME NEW X, NEW h, h = body(X, h)
      PROVE  g(X) = body(X, g(X))
  <2> HIDE DEF body
  <2> QED BY <1>2
<1>3. g({})[{}] = outBuf[o]
  <2> DEFINE h == [s \in {{}} |-> outBuf[o]]
  <2>1. h = body({}, h)
    <3>1. SUBSET {} = {{}} /\ next(h, {}) = outBuf[o]
      OBVIOUS
    <3>2. \A s \in {{}} : next(h, s) = outBuf[o]
      BY <3>1
    <3> HIDE DEF next
    <3> QED BY <3>1, <3>2
  <2>2. g({}) = body({}, g({}))
    <3> HIDE DEF g, body, h
    <3> QED BY <1>2, <2>1
  <2> HIDE DEF g
  <2> QED BY <2>2
<1>4. ASSUME NEW x
      PROVE  g({x})[{x}] = Append(outBuf[o], x)
  <2> DEFINE sent == Append(outBuf[o], x)
             h == [s \in SUBSET {x} |-> IF s = {} THEN outBuf[o] ELSE sent]
  <2>1. \A s \in SUBSET {x} : s = {} \/ s = {x}
    OBVIOUS
  <2>2. (CHOOSE y \in {x} : TRUE) = x /\ {x} \ {x} = {} /\ {} \in SUBSET {x} /\ {x} # {}
    OBVIOUS
  <2>3. next(h, {}) = outBuf[o]
    OBVIOUS
  <2>4. ASSUME NEW k, k[{}] = outBuf[o]
        PROVE  next(k, {x}) = sent
    BY <2>2, <2>4
  <2>5. h = body({x}, h)
    <3>1. h[{}] = outBuf[o]
      BY <2>2
    <3>2. next(h, {x}) = sent
      <4> HIDE DEF next, h, sent
      <4> QED BY <2>4, <3>1
    <3>3. \A s \in SUBSET {x} : h[s] = next(h, s)
      <4>1. h[{}] = outBuf[o] /\ h[{x}] = sent
        BY <2>2
      <4> HIDE DEF h, next, sent
      <4> QED BY <2>1, <2>3, <3>2, <4>1
    <3>4. h = [s \in SUBSET {x} |-> h[s]]
      OBVIOUS
    <3> HIDE DEF next, h
    <3> QED BY <3>3, <3>4
  <2>6. g({x}) = body({x}, g({x}))
    <3> HIDE DEF g, body, h
    <3> QED BY <1>2, <2>5
  <2> DEFINE k == g({x})
  <2>7. k = body({x}, k)
    BY <2>6
  <2> HIDE DEF k, g, sent
  <2>8. k[{}] = next(k, {}) /\ k[{x}] = next(k, {x})
    <3> HIDE DEF next
    <3> QED BY <2>2, <2>7
  <2>9. k[{}] = outBuf[o]
    BY <2>8
  <2>10. next(k, {x}) = sent
    <3> HIDE DEF next
    <3> QED BY <2>4, <2>9
  <2> QED BY <2>8, <2>10 DEF k, sent
<1>5. here = {} => Output(o) = outBuf[o]
  <2> HIDE DEF g, here
  <2> QED BY <1>1, <1>3
<1>6. ASSUME NEW d, here = {d} PROVE Output(o) = Append(outBuf[o], d)
  <2> HIDE DEF g, here
  <2> QED BY <1>1, <1>4, <1>6
<1> HIDE DEF g
<1> QED BY <1>5, <1>6

-----------------------------------------------------------------------------
(***************************************************************************)
(* The flits on their way to an output VC.                                 *)
(***************************************************************************)
\* The copies for output VC w of o in crossbar C and output buffer q.
Copied(C, q, o, w) == Cardinality({c \in C \cup Range(q) : c.out = o /\ c.vc = w})

LEMMA CopiedNone ==
  ASSUME NEW o, NEW w, NEW C, \A c \in C : ~(c.out = o /\ c.vc = w)
  PROVE  Copied(C, <<>>, o, w) = 0
<1>1. Range(<<>>) = {}
  BY DEF Range
<1>2. {c \in C \cup Range(<<>>) : c.out = o /\ c.vc = w} = {}
  BY <1>1
<1> QED BY <1>2, FS_EmptySet DEF Copied

LEMMA CopiedCrossing ==
  ASSUME NEW o, NEW w, NEW C, \A c, d \in C : c.out = o /\ d.out = o => c = d,
         NEW e \in C, e.out = o, e.vc = w
  PROVE  Copied(C, <<>>, o, w) = 1
<1>1. Range(<<>>) = {}
  BY DEF Range
<1>2. {c \in C \cup Range(<<>>) : c.out = o /\ c.vc = w} = {e}
  BY <1>1
<1> QED BY <1>2, FS_Singleton DEF Copied

LEMMA CopiedQueued ==
  ASSUME NEW o, NEW w, NEW e
  PROVE  Copied({}, <<e>>, o, w) = IF e.out = o /\ e.vc = w THEN 1 ELSE 0
<1>1. Range(<<e>>) = {e}
  BY DEF Range
<1>2. CASE e.out = o /\ e.vc = w
  <2>1. {c \in {} \cup Range(<<e>>) : c.out = o /\ c.vc = w} = {e}
    BY <1>1, <1>2
  <2> QED BY <1>2, <2>1, FS_Singleton DEF Copied
<1>3. CASE ~(e.out = o /\ e.vc = w)
  <2>1. {c \in {} \cup Range(<<e>>) : c.out = o /\ c.vc = w} = {}
    BY <1>1, <1>3
  <2> QED BY <1>3, <2>1, FS_EmptySet DEF Copied
<1> QED BY <1>2, <1>3

-----------------------------------------------------------------------------
(***************************************************************************)
(* The actions preserve the invariant of the output side.                  *)
(***************************************************************************)
\* Away from the crossbar and the output buffers nothing is on its way.
LEMMA NoneMoving ==
  ASSUME InputInv, OutputInv, pc \notin {"switch", "write"}, NEW o \in Outputs, NEW w
  PROVE  crossbar = {} /\ outBuf[o] = <<>> /\ InFlight(o, w) = 0
<1>1. crossbar = {} /\ outBuf[o] = <<>>
  BY DEF InputInv, Passing, OutputInv, OneEach
<1>2. InFlight(o, w) = Copied(crossbar, outBuf[o], o, w)
  BY DEF InFlight, Copied
<1> QED BY <1>1, <1>2, CopiedNone

LEMMA ReceiveOutput ==
  ASSUME InputInv, OutputInv, NEW A \in Arrivals, NEW C \in Credited, ReadInputs(A, C)
  PROVE  OutputInv'
<1>1. /\ Typed /\ Passing /\ Resolved
      /\ OutTyped /\ Owned /\ BuffersSound /\ Ready /\ OneEach /\ InputSlots /\ OutputSlots
  BY DEF InputInv, OutputInv
<1>2. /\ pc = "read" /\ pc' = "dispatch" /\ inFlit' = A /\ inCredit' = C
      /\ used' = [x \in InVcs |-> IF x \in Arriving(A) THEN used[x] + 1 ELSE used[x]]
      /\ down' = [c \in Outputs \X Vcs |-> IF c[2] \in C[c[1]] THEN down[c] - 1 ELSE down[c]]
      /\ UNCHANGED <<pkt, fifo, state, outs, vcRes, swRes, nextBuf, crossbar, outBuf, creditBuf>>
  BY DEF ReadInputs, queues
<1>3. C \in [Outputs -> SUBSET Vcs] /\ \A o \in Outputs : \A w \in C[o] : down[<<o, w>>] > 0
  BY DEF Credited
<1>4. \A o \in Outputs, w \in Vcs :
        /\ down[<<o, w>>] \in Nat
        /\ down'[<<o, w>>] = down[<<o, w>>] - (IF w \in C[o] THEN 1 ELSE 0)
        /\ down'[<<o, w>>] \in Nat
  <2> TAKE o \in Outputs, w \in Vcs
  <2> DEFINE c == <<o, w>>
  <2>1. c \in Outputs \X Vcs /\ c[1] = o /\ c[2] = w
    OBVIOUS
  <2>2. down[c] \in Nat
    BY <1>1, <2>1 DEF OutTyped
  <2>3. down'[c] = IF w \in C[o] THEN down[c] - 1 ELSE down[c]
    BY <1>2, <2>1
  <2>4. w \in C[o] => down[c] > 0
    BY <1>3
  <2> HIDE DEF c
  <2>5. down'[c] = down[c] - (IF w \in C[o] THEN 1 ELSE 0) /\ down'[c] \in Nat
    BY <2>2, <2>3, <2>4
  <2> QED BY <2>2, <2>5 DEF c
<1>5. OutTyped'
  <2>1. down' \in [Outputs \X Vcs -> Nat]
    <3>1. \A c \in Outputs \X Vcs : down'[c] \in Nat
      <4> TAKE c \in Outputs \X Vcs
      <4>1. c[1] \in Outputs /\ c[2] \in Vcs /\ c = <<c[1], c[2]>>
        OBVIOUS
      <4> QED BY <1>4, <4>1
    <3>2. down' = [c \in Outputs \X Vcs |-> down'[c]]
      BY <1>2
    <3> QED BY <3>1, <3>2
  <2> QED BY <1>1, <1>2, <2>1 DEF OutTyped
<1>6. Owned' /\ BuffersSound' /\ Ready'
  BY <1>1, <1>2 DEF Owned, Holds, BuffersSound, Ready, CanSend
<1>7. OneEach'
  BY <1>1, <1>2 DEF OneEach
<1>8. InputSlots'
  <2> SUFFICES ASSUME NEW x \in InVcs
               PROVE  /\ used'[x] = Len(fifo[x])
                           + (IF x \in Arriving(A) THEN 1 ELSE 0)
                           + (IF x[2] \in creditBuf[x[1]] THEN 1 ELSE 0)
                      /\ used'[x] <= VcLimit
    BY <1>2 DEF InputSlots, Arriving
  <2>1. Arriving(inFlit) = {}
    BY <1>1, <1>2, NoneArriving DEF Passing
  <2> DEFINE n == Len(fifo[x])
             k == IF x[2] \in creditBuf[x[1]] THEN 1 ELSE 0
             u == used[x]
             v == used'[x]
  <2>2. u = n + 0 + k /\ u <= VcLimit
    BY <1>1, <2>1 DEF InputSlots
  <2>3. n \in Nat /\ k \in Nat /\ u \in Int /\ VcLimit \in Int
    BY <1>1, SizesAreIntegers DEF Typed
  <2>4. x \in Arriving(A) => v = u + 1 /\ u < VcLimit
    BY <1>1, <1>2, ArrivalFacts
  <2>5. x \notin Arriving(A) => v = u
    BY <1>2
  <2> HIDE DEF n, k, u, v
  <2>6. v = n + (IF x \in Arriving(A) THEN 1 ELSE 0) + k /\ v <= VcLimit
    BY <2>2, <2>3, <2>4, <2>5
  <2> QED BY <2>6 DEF n, k, v
<1>9. OutputSlots'
  <2> SUFFICES ASSUME NEW o \in Outputs, NEW w \in Vcs
               PROVE  nextBuf[o].vcOcc[w] = down'[<<o, w>>] + InFlight(o, w)
                                            + (IF w \in C[o] THEN 1 ELSE 0)
    BY <1>2 DEF OutputSlots, InFlight
  <2>1. InFlight(o, w) = 0
    BY <1>2, NoneMoving
  <2>2. inCredit[o] = {}
    BY <1>1, <1>2 DEF Passing
  <2> DEFINE d == down[<<o, w>>]
             e == down'[<<o, w>>]
             n == nextBuf[o].vcOcc[w]
             k == IF w \in C[o] THEN 1 ELSE 0
  <2>3. n = d + 0 + 0
    BY <1>1, <2>1, <2>2 DEF OutputSlots
  <2>4. e = d - k /\ d \in Nat /\ k \in Nat
    BY <1>4
  <2> HIDE DEF d, e, n, k
  <2>5. n = e + 0 + k
    BY <2>3, <2>4
  <2> QED BY <2>1, <2>5 DEF e, n, k
<1> QED BY <1>5, <1>6, <1>7, <1>8, <1>9 DEF OutputInv

LEMMA SleepOutput ==
  ASSUME InputInv, OutputInv, Sleep
  PROVE  OutputInv'
<1>1. /\ OutTyped /\ Owned /\ BuffersSound /\ Ready /\ OneEach /\ InputSlots /\ OutputSlots
  BY DEF OutputInv
<1>2. /\ pc = "dispatch" /\ pc' = "write"
      /\ UNCHANGED <<pkt, inFlit, inCredit, fifo, state, outs, vcRes, swRes,
                     nextBuf, crossbar, outBuf, creditBuf, used, down>>
  BY DEF Sleep, router, queues, upstream
<1>3. OutTyped' /\ Owned' /\ BuffersSound' /\ Ready'
  BY <1>1, <1>2 DEF OutTyped, Owned, Holds, BuffersSound, Ready, CanSend
<1>4. OneEach'
  BY <1>1, <1>2 DEF OneEach
<1>5. InputSlots' /\ OutputSlots'
  BY <1>1, <1>2 DEF InputSlots, OutputSlots, InFlight, Arriving
<1> QED BY <1>3, <1>4, <1>5 DEF OutputInv

LEMMA DispatchOutput ==
  ASSUME InputInv, OutputInv, FlitDispatch
  PROVE  OutputInv'
<1>1. /\ Typed /\ Chained /\ Fronted /\ Queued /\ Passing /\ Resolved
      /\ OutTyped /\ Owned /\ BuffersSound /\ Ready /\ OneEach /\ InputSlots /\ OutputSlots
  BY DEF InputInv, OutputInv
<1> DEFINE new == Arriving(inFlit)
<1>2. /\ pc = "dispatch" /\ pc' = "vc_evaluate"
      /\ fifo' = [x \in InVcs |-> IF x \in new THEN Append(fifo[x], FlitOn(inFlit, x))
                                  ELSE fifo[x]]
      /\ state' = [x \in InVcs |-> IF x \in new /\ state[x] = "idle" THEN "routing"
                                   ELSE state[x]]
      /\ nextBuf' = [o \in Outputs |-> Credit(o)]
      /\ inFlit' = [i \in Inputs |-> None]
      /\ inCredit' = [o \in Outputs |-> {}]
      /\ UNCHANGED <<pkt, outs, vcRes, swRes, crossbar, outBuf, creditBuf, used, down>>
  BY DEF FlitDispatch, upstream
<1>3. \A o \in Outputs : inCredit[o] \in SUBSET Vcs
  BY <1>1 DEF Typed
<1>4. \A o \in Outputs, w \in Vcs :
        nextBuf[o].vcOcc[w] = down[<<o, w>>] + (IF w \in inCredit[o] THEN 1 ELSE 0)
        /\ down[<<o, w>>] \in Nat
  <2> TAKE o \in Outputs, w \in Vcs
  <2> DEFINE d == down[<<o, w>>]
             n == nextBuf[o].vcOcc[w]
             k == IF w \in inCredit[o] THEN 1 ELSE 0
  <2>1. n = d + 0 + k
    BY <1>1, <1>2, NoneMoving DEF OutputSlots
  <2>2. d \in Nat /\ k \in Nat
    BY <1>1 DEF OutTyped
  <2> HIDE DEF d, n, k
  <2>3. n = d + k
    BY <2>1, <2>2
  <2> QED BY <2>2, <2>3 DEF d, n, k
<1>5. ASSUME NEW o \in Outputs
      PROVE  /\ nextBuf'[o] \in BufferStatesOf(InVcs)
             /\ nextBuf'[o].policy = Policy
             /\ nextBuf'[o].wait = Wait
             /\ nextBuf'[o].tailSent = nextBuf[o].tailSent
             /\ Sound(nextBuf'[o])
             /\ ~nextBuf[o].err => ~nextBuf'[o].err
             /\ \A w \in Vcs :
                  /\ nextBuf'[o].vcOcc[w] = nextBuf[o].vcOcc[w]
                                            - (IF w \in inCredit[o] THEN 1 ELSE 0)
                  /\ \/ nextBuf'[o].inUseBy[w] = nextBuf[o].inUseBy[w]
                     \/ Wait /\ nextBuf[o].tailSent[w]
  <2>1. \A w \in inCredit[o] : nextBuf[o].vcOcc[w] > 0
    <3> TAKE w \in inCredit[o]
    <3> DEFINE d == down[<<o, w>>]
               n == nextBuf[o].vcOcc[w]
    <3>1. n = d + 1 /\ d \in Nat
      BY <1>3, <1>4
    <3> HIDE DEF d, n
    <3>2. n > 0
      BY <3>1
    <3> QED BY <3>2 DEF n
  <2>2. Sound(nextBuf[o]) /\ nextBuf[o].policy = Policy /\ nextBuf[o].wait = Wait
    BY <1>1 DEF BuffersSound, OutTyped
  <2> DEFINE S == inCredit[o]
  <2>3. S \in SUBSET Vcs /\ inCredit[o] = S /\ \A w \in S : nextBuf[o].vcOcc[w] > 0
    BY <1>3, <2>1
  <2> HIDE DEF S
  <2>4. /\ Credit(o) \in BufferStatesOf(InVcs)
        /\ Credit(o).policy = nextBuf[o].policy
        /\ Credit(o).wait = nextBuf[o].wait
        /\ Credit(o).tailSent = nextBuf[o].tailSent
        /\ Sound(Credit(o))
        /\ ~nextBuf[o].err => ~Credit(o).err
        /\ \A w \in Vcs :
             /\ Credit(o).vcOcc[w] = nextBuf[o].vcOcc[w] - (IF w \in S THEN 1 ELSE 0)
             /\ \/ Credit(o).inUseBy[w] = nextBuf[o].inUseBy[w]
                \/ nextBuf[o].wait /\ nextBuf[o].tailSent[w]
    BY <1>1, <2>2, <2>3, CreditEffect
  <2>5. nextBuf'[o] = Credit(o)
    BY <1>2
  <2> QED BY <2>2, <2>4, <2>5 DEF S
<1>6. OutTyped' /\ BuffersSound'
  <2>1. nextBuf' \in [Outputs -> BufferStatesOf(InVcs)]
    <3>1. nextBuf' = [o \in Outputs |-> nextBuf'[o]]
      BY <1>2
    <3> QED BY <1>5, <3>1
  <2> QED BY <1>1, <1>2, <1>5, <2>1 DEF OutTyped, BuffersSound
<1>7. Owned'
  <2>1. \A x \in InVcs : state'[x] = "active" <=> state[x] = "active"
    BY <1>2
  <2>2. \A x, o, w : x \in InVcs => (Holds(x, o, w)' <=> Holds(x, o, w))
    BY <1>2, <2>1 DEF Holds
  <2> QED BY <1>1, <1>5, <2>2 DEF Owned
<1>8. Ready'
  <2>1. DOMAIN swRes = {} /\ Granted(swRes') = {}
    BY <1>1, <1>2 DEF Resolved, Granted
  <2> QED BY <2>1 DEF Ready
<1>9. OneEach'
  BY <1>1, <1>2 DEF OneEach
<1>10. InputSlots'
  <2>1. Arriving(inFlit') = {}
    BY <1>2 DEF Arriving
  <2> SUFFICES ASSUME NEW x \in InVcs
               PROVE  used[x] = Len(fifo'[x]) + 0
                                + (IF x[2] \in creditBuf[x[1]] THEN 1 ELSE 0)
    BY <1>1, <1>2, <2>1 DEF InputSlots, Arriving
  <2> DEFINE n == Len(fifo[x])
             m == Len(fifo'[x])
             k == IF x[2] \in creditBuf[x[1]] THEN 1 ELSE 0
             u == used[x]
  <2>2. u = n + (IF x \in new THEN 1 ELSE 0) + k
    BY <1>1 DEF InputSlots
  <2>3. n \in Nat /\ k \in Nat
    BY <1>1 DEF Typed
  <2>4. m = n + (IF x \in new THEN 1 ELSE 0)
    <3>1. fifo[x] \in Seq(Flit)
      BY <1>1 DEF Typed
    <3>2. CASE x \in new
      <4>1. fifo'[x] = Append(fifo[x], FlitOn(inFlit, x))
        BY <1>2, <3>2
      <4>2. FlitOn(inFlit, x) \in Flit
        BY <1>1, <3>2, ArrivingFacts DEF Typed
      <4> QED BY <3>1, <3>2, <4>1, <4>2
    <3>3. CASE x \notin new
      BY <1>2, <2>3, <3>3
    <3> QED BY <3>2, <3>3
  <2> HIDE DEF n, m, k, u, new
  <2>5. u = m + 0 + k
    BY <2>2, <2>3, <2>4
  <2> QED BY <2>5 DEF m, k, u
<1>11. OutputSlots'
  <2> SUFFICES ASSUME NEW o \in Outputs, NEW w \in Vcs
               PROVE  nextBuf'[o].vcOcc[w] = down[<<o, w>>] + InFlight(o, w) + 0
    BY <1>2 DEF OutputSlots, InFlight
  <2> DEFINE d == down[<<o, w>>]
             n == nextBuf[o].vcOcc[w]
             m == nextBuf'[o].vcOcc[w]
             k == IF w \in inCredit[o] THEN 1 ELSE 0
  <2>1. n = d + k /\ d \in Nat /\ k \in Nat
    BY <1>4
  <2>2. m = n - k
    BY <1>5
  <2>3. InFlight(o, w) = 0
    BY <1>2, NoneMoving
  <2> HIDE DEF d, n, m, k
  <2>4. m = d + 0 + 0
    BY <2>1, <2>2
  <2> QED BY <2>3, <2>4 DEF d, m
<1> QED BY <1>6, <1>7, <1>8, <1>9, <1>10, <1>11 DEF OutputInv

LEMMA AllocateOutput ==
  ASSUME InputInv, OutputInv, NEW pick \in [vcQ -> [Outputs -> Vcs]], VCAllocEvaluate(pick)
  PROVE  OutputInv'
<1> DEFINE eligible == {x \in vcQ : CanTake(x, pick)}
           req == [x \in eligible |-> {<<o, pick[x][o]>> : o \in Route(x)}]
           granted == Allocate(req)
           to(o) == {x \in granted : o \in Route(x)}
<1>1. /\ Typed /\ Fronted /\ Queued /\ Passing /\ Resolved
      /\ OutTyped /\ Owned /\ BuffersSound /\ Ready /\ OneEach /\ InputSlots /\ OutputSlots
  BY DEF InputInv, OutputInv
<1>2. /\ pc = "vc_evaluate" /\ pc' = "sw_evaluate"
      /\ vcRes' = [x \in vcQ |-> x \in granted]
      /\ outs' = [x \in InVcs |-> IF x \in granted THEN [o \in Route(x) |-> pick[x][o]]
                                  ELSE outs[x]]
      /\ nextBuf' = [o \in Outputs |-> Take(o, to(o), pick)]
      /\ UNCHANGED <<pkt, inFlit, inCredit, fifo, state, swRes, crossbar, outBuf, creditBuf,
                     used, down>>
  BY DEF VCAllocEvaluate, upstream
<1>3. \A x \in vcQ : x \in InVcs /\ state[x] = "vc_alloc" /\ fifo[x] # <<>>
  BY <1>1 DEF Queued, Fronted
<1>4. /\ DOMAIN req = eligible /\ eligible \subseteq vcQ /\ eligible \subseteq InVcs
      /\ \A x \in eligible : CanTake(x, pick)
      /\ \A x \in eligible : \A o \in Route(x) : <<o, pick[x][o]>> \in req[x]
  BY <1>3
<1>5. /\ granted \subseteq eligible
      /\ \A x, y \in granted : x # y => req[x] \cap req[y] = {}
  <2> HIDE DEF req, eligible
  <2> QED BY <1>4, AllocateFacts
<1> HIDE DEF req, eligible, granted
<1>6. ASSUME NEW x \in granted
      PROVE  /\ x \in vcQ /\ x \in InVcs /\ state[x] = "vc_alloc" /\ Route(x) \subseteq Outputs
             /\ DOMAIN outs'[x] = Route(x)
             /\ \A o \in Route(x) : /\ outs'[x][o] = pick[x][o] /\ pick[x][o] \in Vcs
                                    /\ nextBuf[o].inUseBy[pick[x][o]] = None
  <2>1. x \in vcQ /\ x \in InVcs /\ state[x] = "vc_alloc" /\ fifo[x] # <<>> /\ CanTake(x, pick)
    BY <1>3, <1>4, <1>5
  <2>2. Route(x) \subseteq Outputs
    BY <1>1, <2>1, RouteFacts
  <2>3. outs'[x] = [o \in Route(x) |-> pick[x][o]]
    BY <1>2, <2>1
  <2>4. \A o \in Route(x) : pick[x][o] \in Vcs
    BY <2>1, <2>2
  <2>5. \A o \in Route(x) : nextBuf[o].inUseBy[pick[x][o]] = None
    BY <2>1 DEF CanTake, IsAvailableFor
  <2> QED BY <2>1, <2>2, <2>3, <2>4, <2>5
<1>7. \A o \in Outputs : \A x, y \in to(o) : x # y => pick[x][o] # pick[y][o]
  <2> SUFFICES ASSUME NEW o \in Outputs, NEW x \in to(o), NEW y \in to(o), x # y,
                      pick[x][o] = pick[y][o]
               PROVE  FALSE
    OBVIOUS
  <2>1. <<o, pick[x][o]>> \in req[x] /\ <<o, pick[x][o]>> \in req[y]
    BY <1>4, <1>5
  <2> QED BY <1>5, <2>1
<1>8. ASSUME NEW o \in Outputs
      PROVE  /\ nextBuf'[o] \in BufferStatesOf(InVcs)
             /\ nextBuf'[o].policy = Policy
             /\ nextBuf'[o].wait = Wait
             /\ nextBuf'[o].vcOcc = nextBuf[o].vcOcc
             /\ Sound(nextBuf'[o])
             /\ Workable(Policy) => ~nextBuf'[o].err
             /\ \A x \in to(o) : /\ nextBuf'[o].inUseBy[pick[x][o]] = x
                                 /\ ~nextBuf'[o].tailSent[pick[x][o]]
             /\ \A w \in Vcs : (\A x \in to(o) : pick[x][o] # w) =>
                  /\ nextBuf'[o].inUseBy[w] = nextBuf[o].inUseBy[w]
                  /\ nextBuf'[o].tailSent[w] = nextBuf[o].tailSent[w]
  <2> DEFINE X == to(o)
  <2>1. X \in SUBSET InVcs /\ Apart(o, X, pick)
    BY <1>6, <1>7 DEF Apart
  <2>2. /\ Sound(nextBuf[o]) /\ nextBuf[o].policy = Policy /\ nextBuf[o].wait = Wait
        /\ Workable(Policy) => ~nextBuf[o].err
    BY <1>1 DEF BuffersSound, OutTyped
  <2> DEFINE t == Take(o, X, pick)
  <2>3. nextBuf'[o] = t
    BY <1>2
  <2> HIDE DEF X, to
  <2>4. Taking(Take(o, X, pick), o, X, pick)
    BY <1>1, <2>1, <2>2, TakeEffect
  <2> HIDE DEF t
  <2> QED BY <2>2, <2>3, <2>4 DEF t, X, Taking
<1>9. OutTyped' /\ BuffersSound'
  <2>1. nextBuf' \in [Outputs -> BufferStatesOf(InVcs)]
    <3>1. nextBuf' = [o \in Outputs |-> nextBuf'[o]]
      BY <1>2
    <3> QED BY <1>8, <3>1
  <2> QED BY <1>1, <1>2, <1>8, <2>1 DEF OutTyped, BuffersSound
<1>10. Owned'
  <2> SUFFICES ASSUME NEW o \in Outputs, NEW w \in Vcs, NEW x \in InVcs
               PROVE  /\ Holds(x, o, w)' =>
                           nextBuf'[o].inUseBy[w] = x /\ ~nextBuf'[o].tailSent[w]
                      /\ ~Wait /\ nextBuf'[o].inUseBy[w] = x => Holds(x, o, w)'
    BY DEF Owned
  <2>1. /\ Holds(x, o, w) => nextBuf[o].inUseBy[w] = x /\ ~nextBuf[o].tailSent[w]
        /\ ~Wait /\ nextBuf[o].inUseBy[w] = x => Holds(x, o, w)
    BY <1>1 DEF Owned
  <2>2. x # None
    BY MCRouterAssumption
  <2>3. Holds(x, o, w) <=> state[x] = "active" /\ o \in DOMAIN outs[x] /\ outs[x][o] = w
    BY <1>1, <1>2 DEF Holds, Resolved
  <2>4. Holds(x, o, w)' <=> /\ state[x] = "active" \/ x \in granted
                            /\ o \in DOMAIN outs'[x] /\ outs'[x][o] = w
    BY <1>2, <1>6 DEF Holds
  <2>5. x \notin granted => outs'[x] = outs[x]
    BY <1>2
  <2>6. CASE x \in granted
    <3>1. Holds(x, o, w)' <=> x \in to(o) /\ pick[x][o] = w
      BY <1>6, <2>4, <2>6
    <3>2. ~Holds(x, o, w)
      BY <1>6, <2>3, <2>6
    <3>3. CASE \A y \in to(o) : pick[y][o] # w
      BY <1>8, <2>1, <2>6, <3>1, <3>2, <3>3
    <3>4. CASE \E y \in to(o) : pick[y][o] = w
      BY <1>8, <2>6, <3>1, <3>4
    <3> QED BY <3>3, <3>4
  <2>7. CASE x \notin granted
    <3>1. Holds(x, o, w)' <=> Holds(x, o, w)
      BY <2>3, <2>4, <2>5, <2>7
    <3>2. CASE \A y \in to(o) : pick[y][o] # w
      BY <1>8, <2>1, <3>1, <3>2
    <3>3. CASE \E y \in to(o) : pick[y][o] = w
      <4>1. PICK y \in to(o) : pick[y][o] = w
        BY <3>3
      <4>2. nextBuf[o].inUseBy[w] = None /\ nextBuf'[o].inUseBy[w] = y /\ y # x
        BY <1>6, <1>8, <2>7, <4>1
      <4> QED BY <2>1, <2>2, <3>1, <4>2
    <3> QED BY <3>2, <3>3
  <2> QED BY <2>6, <2>7
<1>11. Ready'
  <2>1. DOMAIN swRes = {} /\ Granted(swRes') = {}
    BY <1>1, <1>2 DEF Resolved, Granted
  <2> QED BY <2>1 DEF Ready
<1>12. OneEach' /\ InputSlots'
  <2>1. pc # "write" /\ UNCHANGED <<crossbar, outBuf>> /\ UNCHANGED <<used, fifo, inFlit, creditBuf>>
    BY <1>2
  <2>2. OneEach'
    BY <1>1, <2>1 DEF OneEach
  <2>3. InputSlots'
    BY <1>1, <2>1 DEF InputSlots, Arriving
  <2> QED BY <2>2, <2>3
<1>13. OutputSlots'
  <2>1. \A o \in Outputs : nextBuf'[o].vcOcc = nextBuf[o].vcOcc
    BY <1>8
  <2> QED BY <1>1, <1>2, <2>1 DEF OutputSlots, InFlight
<1> QED BY <1>9, <1>10, <1>11, <1>12, <1>13 DEF OutputInv

LEMMA SwitchGrantsOutput ==
  ASSUME InputInv, OutputInv, SWAllocEvaluate
  PROVE  OutputInv'
<1> DEFINE eligible == {x \in swQ : CanSend(x)}
           req == [x \in eligible |-> DOMAIN outs[x]]
           granted == Allocate(req)
<1>1. /\ Queued
      /\ OutTyped /\ Owned /\ BuffersSound /\ Ready /\ OneEach /\ InputSlots /\ OutputSlots
  BY DEF InputInv, OutputInv
<1>2. /\ pc = "sw_evaluate" /\ pc' = "route_update"
      /\ swRes' = [x \in swQ |-> x \in granted]
      /\ UNCHANGED <<pkt, inFlit, inCredit, fifo, state, outs, vcRes, nextBuf, crossbar,
                     outBuf, creditBuf, used, down>>
  BY DEF SWAllocEvaluate, upstream
<1>3. /\ DOMAIN req = eligible /\ eligible \subseteq InVcs /\ eligible \subseteq swQ
      /\ \A x \in eligible : CanSend(x) /\ req[x] = DOMAIN outs[x]
  BY <1>1 DEF Queued
<1>4. /\ granted \subseteq eligible
      /\ \A x, y \in granted : x # y => req[x] \cap req[y] = {}
  <2> HIDE DEF req, eligible
  <2> QED BY <1>3, AllocateFacts
<1> HIDE DEF granted, req, eligible
<1>5. Granted(swRes') = granted
  BY <1>2, <1>3, <1>4 DEF Granted
<1>6. Ready'
  <2>1. \A x \in granted : CanSend(x)
    BY <1>3, <1>4
  <2>2. \A x, y \in granted : x # y => DOMAIN outs[x] \cap DOMAIN outs[y] = {}
    BY <1>3, <1>4
  <2> QED BY <1>2, <1>5, <2>1, <2>2 DEF Ready, CanSend
<1>7. OutTyped' /\ Owned' /\ BuffersSound'
  BY <1>1, <1>2 DEF OutTyped, Owned, Holds, BuffersSound
<1>8. OneEach' /\ InputSlots' /\ OutputSlots'
  BY <1>1, <1>2 DEF OneEach, InputSlots, OutputSlots, InFlight, Arriving
<1> QED BY <1>6, <1>7, <1>8 DEF OutputInv

LEMMA RouteOutput ==
  ASSUME InputInv, OutputInv, RouteUpdate
  PROVE  OutputInv'
<1>1. /\ Queued
      /\ OutTyped /\ Owned /\ BuffersSound /\ Ready /\ OneEach /\ InputSlots /\ OutputSlots
  BY DEF InputInv, OutputInv
<1>2. /\ pc = "route_update" /\ pc' = "vc_update"
      /\ state' = [x \in InVcs |-> IF x \in routeQ THEN "vc_alloc" ELSE state[x]]
      /\ UNCHANGED <<pkt, inFlit, inCredit, fifo, outs, vcRes, swRes, nextBuf, crossbar,
                     outBuf, creditBuf, used, down>>
  BY DEF RouteUpdate, upstream
<1>3. \A x \in InVcs : state'[x] = "active" <=> state[x] = "active"
  BY <1>1, <1>2 DEF Queued
<1>4. Owned'
  BY <1>1, <1>2, <1>3 DEF Owned, Holds
<1>5. OutTyped' /\ BuffersSound' /\ Ready'
  BY <1>1, <1>2 DEF OutTyped, BuffersSound, Ready, CanSend
<1>6. OneEach' /\ InputSlots' /\ OutputSlots'
  BY <1>1, <1>2 DEF OneEach, InputSlots, OutputSlots, InFlight, Arriving
<1> QED BY <1>4, <1>5, <1>6 DEF OutputInv

LEMMA VcGrantOutput ==
  ASSUME InputInv, OutputInv, VCAllocUpdate
  PROVE  OutputInv'
<1>1. /\ Queued /\ Resolved
      /\ OutTyped /\ Owned /\ BuffersSound /\ Ready /\ OneEach /\ InputSlots /\ OutputSlots
  BY DEF InputInv, OutputInv
<1>2. /\ pc = "vc_update" /\ pc' = "sw_update"
      /\ state' = [x \in InVcs |-> IF x \in Granted(vcRes) THEN "active" ELSE state[x]]
      /\ vcRes' = <<>>
      /\ UNCHANGED <<pkt, inFlit, inCredit, fifo, outs, swRes, nextBuf, crossbar, outBuf,
                     creditBuf, used, down>>
  BY DEF VCAllocUpdate, upstream
<1>3. \A x \in InVcs : /\ state'[x] = "active" <=>
                            state[x] = "active" \/ (x \in DOMAIN vcRes /\ vcRes[x])
                       /\ x \notin DOMAIN vcRes'
  BY <1>2, NothingResolved DEF Granted
<1>4. Owned'
  BY <1>1, <1>2, <1>3 DEF Owned, Holds
<1>5. OutTyped' /\ BuffersSound' /\ Ready'
  BY <1>1, <1>2 DEF OutTyped, BuffersSound, Ready, CanSend
<1>6. OneEach' /\ InputSlots' /\ OutputSlots'
  BY <1>1, <1>2 DEF OneEach, InputSlots, OutputSlots, InFlight, Arriving
<1> QED BY <1>4, <1>5, <1>6 DEF OutputInv

LEMMA SendOutput ==
  ASSUME InputInv, OutputInv, SWAllocUpdate
  PROVE  OutputInv'
<1> DEFINE granted == Granted(swRes)
           drained == {x \in granted : Len(fifo[x]) = 1}
           ended == {x \in granted : IsTail(Front(x))}
           from(o) == {x \in granted : o \in DOMAIN outs[x]}
           copy(x, o) == [in |-> x[1], out |-> o, vc |-> outs[x][o], flit |-> Front(x)]
<1>1. /\ Typed /\ Fronted /\ Queued /\ Passing /\ Resolved
      /\ OutTyped /\ Owned /\ BuffersSound /\ Ready /\ OneEach /\ InputSlots /\ OutputSlots
  BY DEF InputInv, OutputInv
<1>2. /\ pc = "sw_update" /\ pc' = "switch"
      /\ fifo' = [x \in InVcs |-> IF x \in granted THEN Tail(fifo[x]) ELSE fifo[x]]
      /\ state' = [x \in InVcs |-> IF x \notin ended THEN state[x]
                                   ELSE IF x \in drained THEN "idle" ELSE "routing"]
      /\ swRes' = <<>>
      /\ nextBuf' = [o \in Outputs |-> Send(o, from(o), ended)]
      /\ crossbar' = UNION {{copy(x, o) : o \in DOMAIN outs[x]} : x \in granted}
      /\ creditBuf' = CreditsFor(granted)
      /\ UNCHANGED <<pkt, inFlit, inCredit, outs, vcRes, outBuf, used, down>>
  BY DEF SWAllocUpdate, upstream
<1>3. ASSUME NEW x \in granted
      PROVE  /\ x \in InVcs /\ x[1] \in Inputs /\ state[x] = "active" /\ fifo[x] # <<>>
             /\ fifo[x] \in Seq(Flit) /\ Front(x) \in Flit
             /\ DOMAIN outs[x] \subseteq Outputs
             /\ \A o \in DOMAIN outs[x] : outs[x][o] \in Vcs /\ ~IsFullFor(nextBuf[o], outs[x][o])
  <2>1. x \in InVcs /\ state[x] = "active" /\ fifo[x] # <<>>
    BY <1>1 DEF Granted, Resolved, Queued
  <2>2. fifo[x] \in Seq(Flit) /\ Front(x) \in Flit
    <3>1. fifo[x] \in Seq(Flit)
      BY <1>1, <2>1 DEF Typed
    <3> QED BY <2>1, <3>1, HeadTailProperties DEF Front
  <2>3. /\ DOMAIN outs[x] \subseteq Outputs
        /\ \A o \in DOMAIN outs[x] : outs[x][o] \in Vcs
    BY <1>1, <2>1 DEF Typed
  <2>4. \A o \in DOMAIN outs[x] : ~IsFullFor(nextBuf[o], outs[x][o])
    BY <1>1 DEF Ready, CanSend
  <2> QED BY <2>1, <2>2, <2>3, <2>4, RankType
<1>4. \A o \in Outputs : \A x, y \in from(o) : x = y
  BY <1>1 DEF Ready
<1>5. \A x \in InVcs : \A o, w : Holds(x, o, w) <=>
        state[x] = "active" /\ o \in DOMAIN outs[x] /\ outs[x][o] = w
  BY <1>1, <1>2 DEF Holds, Resolved
<1>6. \A x \in InVcs : \A o, w : Holds(x, o, w)' <=> Holds(x, o, w) /\ x \notin ended
  <2>1. \A x \in InVcs : state'[x] = "active" <=> state[x] = "active" /\ x \notin ended
    BY <1>2
  <2>2. DOMAIN vcRes = {}
    BY <1>1, <1>2 DEF Resolved
  <2> HIDE DEF ended
  <2> QED BY <1>2, <1>5, <2>1, <2>2 DEF Holds
<1> HIDE DEF granted, drained
\* What output o makes of the flit that x sends it.
<1>7. ASSUME NEW o \in Outputs, NEW x \in from(o)
      PROVE  LET b == nextBuf[o]
                 c == nextBuf'[o]
                 w == outs[x][o]
             IN  /\ w \in Vcs /\ b.inUseBy[w] = x /\ ~b.tailSent[w]
                 /\ c \in BufferStatesOf(InVcs)
                 /\ c.policy = Policy
                 /\ c.wait = Wait
                 /\ Sound(c)
                 /\ Workable(Policy) => ~c.err
                 /\ c.vcOcc = [b.vcOcc EXCEPT ![w] = @ + 1]
                 /\ c.tailSent = IF x \in ended THEN [b.tailSent EXCEPT ![w] = TRUE]
                                 ELSE b.tailSent
                 /\ c.inUseBy = IF x \in ended /\ ~Wait THEN [b.inUseBy EXCEPT ![w] = None]
                                ELSE b.inUseBy
  <2> DEFINE b == nextBuf[o]
             c == nextBuf'[o]
             w == outs[x][o]
             tail == x \in ended
  <2>1. x \in granted /\ o \in DOMAIN outs[x]
    OBVIOUS
  <2>2. x \in InVcs /\ w \in Vcs /\ state[x] = "active" /\ ~IsFullFor(b, w)
    BY <1>3, <2>1
  <2>3. b.inUseBy[w] = x /\ ~b.tailSent[w]
    BY <1>1, <1>5, <2>1, <2>2 DEF Owned
  <2>4. b \in BufferStatesOf(InVcs) /\ b.policy = Policy /\ b.wait = Wait
    BY <1>1 DEF OutTyped
  <2>5. Sound(b) /\ (Workable(Policy) => ~b.err)
    BY <1>1 DEF BuffersSound
  <2>6. w \in Taken(b)
    <3>1. x # None
      BY <2>2, MCRouterAssumption
    <3> QED BY <2>2, <2>3, <3>1 DEF Taken
  <2>7. from(o) = {x}
    BY <1>4
  <2>8. c = SendingFlit(b, w, tail)
    <3> HIDE DEF ended, from
    <3>1. c = Send(o, {x}, ended)
      BY <1>2, <2>7
    <3>2. Send(o, {x}, ended) = SendingFlit(nextBuf[o], outs[x][o], x \in ended)
      BY SendFold, Zenon
    <3> QED BY <3>1, <3>2, Zenon
  <2>9. tail \in BOOLEAN
    <3> HIDE DEF ended
    <3>1. (x \in ended) = TRUE \/ (x \in ended) = FALSE
      OBVIOUS
    <3> QED BY <3>1
  <2> HIDE DEF b, c, w, tail
  <2>10. /\ c \in BufferStatesOf(InVcs)
         /\ c.policy = b.policy
         /\ c.wait = b.wait
         /\ c.vcOcc = [b.vcOcc EXCEPT ![w] = @ + 1]
         /\ c.tailSent = IF tail THEN [b.tailSent EXCEPT ![w] = TRUE] ELSE b.tailSent
         /\ c.inUseBy = IF tail /\ ~b.wait THEN [b.inUseBy EXCEPT ![w] = None]
                        ELSE b.inUseBy
    BY <2>2, <2>4, <2>8, <2>9, SendingFlitEffect
  <2>11. Sound(c) /\ (Workable(b.policy) /\ ~b.err => ~c.err)
    BY <2>2, <2>4, <2>5, <2>6, <2>8, <2>9, SendSound
  <2> QED BY <2>2, <2>3, <2>4, <2>5, <2>10, <2>11 DEF b, c, w, tail
<1>8. ASSUME NEW o \in Outputs, from(o) = {}
      PROVE  nextBuf'[o] = nextBuf[o]
  <2> HIDE DEF from, ended
  <2>1. nextBuf'[o] = Send(o, {}, ended)
    BY <1>2, <1>8
  <2> QED BY <2>1, SendFold
<1>9. \A x \in granted : \A o \in DOMAIN outs[x] :
        /\ copy(x, o).out = o /\ copy(x, o).vc = outs[x][o]
        /\ copy(x, o) \in Copies
  BY <1>3 DEF Copies
<1>10. \A o \in Outputs : \A x \in from(o) : x \in granted /\ o \in DOMAIN outs[x]
  OBVIOUS
<1>11. /\ \A c \in crossbar' : \E x \in granted : \E o \in DOMAIN outs[x] : c = copy(x, o)
       /\ \A x \in granted : \A o \in DOMAIN outs[x] : copy(x, o) \in crossbar'
  <2> HIDE DEF copy
  <2> QED BY <1>2
<1> HIDE DEF copy
<1>12. \A c \in crossbar' : \E x \in from(c.out) : c = copy(x, c.out) /\ c.out \in Outputs
                                                   /\ c.vc = outs[x][c.out]
  BY <1>3, <1>9, <1>11
<1>13. OutTyped' /\ BuffersSound'
  <2>1. ASSUME NEW o \in Outputs
        PROVE  /\ nextBuf'[o] \in BufferStatesOf(InVcs)
               /\ nextBuf'[o].policy = Policy /\ nextBuf'[o].wait = Wait
               /\ Sound(nextBuf'[o]) /\ (Workable(Policy) => ~nextBuf'[o].err)
    <3>1. CASE from(o) = {}
      BY <1>1, <1>8, <3>1 DEF OutTyped, BuffersSound
    <3>2. CASE from(o) # {}
      <4>1. PICK x : x \in from(o)
        BY <3>2
      <4> HIDE DEF from
      <4> QED BY <1>7, <4>1
    <3> QED BY <3>1, <3>2
  <2>2. nextBuf' \in [Outputs -> BufferStatesOf(InVcs)]
    <3>1. nextBuf' = [o \in Outputs |-> nextBuf'[o]]
      BY <1>2
    <3> QED BY <2>1, <3>1
  <2>3. crossbar' \subseteq Copies
    BY <1>9, <1>11
  <2> QED BY <1>1, <1>2, <2>1, <2>2, <2>3 DEF OutTyped, BuffersSound
<1>14. Owned'
  <2> SUFFICES ASSUME NEW o \in Outputs, NEW w \in Vcs, NEW x \in InVcs
               PROVE  /\ Holds(x, o, w)' =>
                           nextBuf'[o].inUseBy[w] = x /\ ~nextBuf'[o].tailSent[w]
                      /\ ~Wait /\ nextBuf'[o].inUseBy[w] = x => Holds(x, o, w)'
    BY DEF Owned
  <2>1. /\ Holds(x, o, w) => nextBuf[o].inUseBy[w] = x /\ ~nextBuf[o].tailSent[w]
        /\ ~Wait /\ nextBuf[o].inUseBy[w] = x => Holds(x, o, w)
    BY <1>1 DEF Owned
  <2>2. x # None
    BY MCRouterAssumption
  <2>3. Holds(x, o, w)' <=> Holds(x, o, w) /\ x \notin ended
    BY <1>6
  <2>4. Holds(x, o, w) /\ x \in ended => x \in from(o) /\ outs[x][o] = w
    BY <1>5
  <2>5. CASE from(o) = {}
    BY <1>8, <2>1, <2>3, <2>4, <2>5
  <2>6. CASE from(o) # {}
    <3>1. PICK y : y \in from(o)
      BY <2>6
    <3>2. x \in from(o) => x = y
      BY <1>4, <3>1
    <3> DEFINE b == nextBuf[o]
               c == nextBuf'[o]
               v == outs[y][o]
               t == b.tailSent
               u == b.inUseBy
               ct == c.tailSent
               cu == c.inUseBy
    <3>3. /\ v \in Vcs /\ u[v] = y /\ ~t[v]
          /\ ct = IF y \in ended THEN [t EXCEPT ![v] = TRUE] ELSE t
          /\ cu = IF y \in ended /\ ~Wait THEN [u EXCEPT ![v] = None] ELSE u
      <4> HIDE DEF from, ended
      <4> QED BY <1>7, <3>1
    <3>4. DOMAIN t = Vcs /\ DOMAIN u = Vcs
      BY <1>1, BufferFields DEF OutTyped
    <3>5. /\ Holds(x, o, w) => u[w] = x /\ ~t[w]
          /\ ~Wait /\ u[w] = x => Holds(x, o, w)
      BY <2>1
    <3> HIDE DEF b, c, v, t, u, ct, cu, from, ended
    <3>6. CASE w = v
      <4>1. CASE y \in ended
        <5>1. ct[w] /\ (~Wait => cu[w] = None)
          BY <3>3, <3>4, <3>6, <4>1
        <5>2. Holds(x, o, w)' => x = y /\ x \notin ended
          BY <2>3, <3>3, <3>5, <3>6
        <5>3. ~Holds(x, o, w)'
          BY <4>1, <5>2
        <5> QED BY <2>2, <5>1, <5>3 DEF c, ct, cu
      <4>2. CASE y \notin ended
        <5>1. ct = t /\ cu = u
          BY <3>3, <4>2
        <5>2. Holds(x, o, w) => x = y
          BY <3>3, <3>5, <3>6
        <5> QED BY <2>3, <3>5, <4>2, <5>1, <5>2 DEF c, ct, cu
      <4> QED BY <4>1, <4>2
    <3>7. CASE w # v
      <4>1. ct[w] = t[w] /\ cu[w] = u[w]
        BY <3>3, <3>4, <3>7
      <4>2. Holds(x, o, w) => x \notin ended
        BY <2>4, <3>2, <3>7 DEF v
      <4> QED BY <2>3, <3>5, <4>1, <4>2 DEF c, ct, cu
    <3> QED BY <3>6, <3>7
  <2> QED BY <2>5, <2>6
<1>15. Ready'
  <2>1. Granted(swRes') = {}
    BY <1>2, NothingResolved DEF Granted
  <2> QED BY <2>1 DEF Ready
<1>16. \A c, d \in crossbar' : c.out = d.out => c = d
  <2> SUFFICES ASSUME NEW c \in crossbar', NEW d \in crossbar', c.out = d.out
               PROVE  c = d
    OBVIOUS
  <2>1. PICK x \in from(c.out) : c = copy(x, c.out) /\ c.out \in Outputs
    BY <1>12
  <2>2. PICK y \in from(d.out) : d = copy(y, d.out)
    BY <1>12
  <2>3. x = y
    BY <1>4, <2>1, <2>2
  <2> QED BY <2>1, <2>2, <2>3
<1>17. OneEach'
  BY <1>1, <1>2, <1>16 DEF OneEach
<1>18. InputSlots'
  <2>1. Arriving(inFlit) = {} /\ Arriving(inFlit') = {}
    BY <1>1, <1>2, NoneArriving DEF Passing
  <2> SUFFICES ASSUME NEW x \in InVcs
               PROVE  used[x] = Len(fifo'[x]) + 0
                                + (IF x[2] \in creditBuf'[x[1]] THEN 1 ELSE 0)
    BY <1>1, <1>2, <2>1 DEF InputSlots
  <2>2. x[1] \in Inputs /\ x[2] \in Vcs /\ x = <<x[1], x[2]>>
    BY RankType
  <2>3. x[2] \in creditBuf'[x[1]] <=> x \in granted
    BY <1>2, <2>2 DEF CreditsFor
  <2>4. creditBuf[x[1]] = {}
    BY <1>1, <1>2, <2>2 DEF Passing
  <2> DEFINE n == Len(fifo[x])
             m == Len(fifo'[x])
             k == IF x[2] \in creditBuf'[x[1]] THEN 1 ELSE 0
             u == used[x]
  <2>5. u = n + 0 + 0
    BY <1>1, <2>1, <2>4 DEF InputSlots
  <2>6. fifo[x] \in Seq(Flit) /\ n \in Nat
    BY <1>1 DEF Typed
  <2>7. CASE x \in granted
    <3>1. m = n - 1
      BY <1>2, <1>3, <2>6, <2>7, HeadTailProperties
    <3>2. k = 1
      BY <2>3, <2>7
    <3> HIDE DEF n, m, k, u
    <3>3. u = m + 0 + k
      BY <2>5, <2>6, <3>1, <3>2
    <3> QED BY <3>3 DEF m, k, u
  <2>8. CASE x \notin granted
    <3>1. m = n
      BY <1>2, <2>8
    <3>2. k = 0
      BY <2>3, <2>8
    <3> HIDE DEF n, m, k, u
    <3>3. u = m + 0 + k
      BY <2>5, <2>6, <3>1, <3>2
    <3> QED BY <3>3 DEF m, k, u
  <2> QED BY <2>7, <2>8
<1>19. OutputSlots'
  <2>1. \A o \in Outputs : inCredit[o] = {} /\ inCredit'[o] = {} /\ outBuf'[o] = <<>>
    BY <1>1, <1>2 DEF Passing, OneEach
  <2> SUFFICES ASSUME NEW o \in Outputs, NEW w \in Vcs
               PROVE  nextBuf'[o].vcOcc[w] = down[<<o, w>>] + InFlight(o, w)' + 0
    BY <1>2, <2>1 DEF OutputSlots
  <2> DEFINE d == down[<<o, w>>]
             n == nextBuf[o].vcOcc[w]
             m == nextBuf'[o].vcOcc[w]
             k == InFlight(o, w)'
  <2>2. InFlight(o, w) = 0 /\ d \in Nat
    BY <1>1, <1>2, NoneMoving DEF OutTyped
  <2>3. n = d + 0 + 0
    BY <1>1, <2>1, <2>2 DEF OutputSlots
  <2>4. k = Copied(crossbar', <<>>, o, w)
    BY <2>1 DEF InFlight, Copied
  <2>5. (m = n /\ k = 0) \/ (m = n + 1 /\ k = 1)
    <3>1. CASE from(o) = {}
      <4>1. m = n
        BY <1>8, <3>1
      <4>2. \A c \in crossbar' : ~(c.out = o /\ c.vc = w)
        <5> HIDE DEF from
        <5> QED BY <1>12, <3>1
      <4>3. k = 0
        <5>1. Copied(crossbar', <<>>, o, w) = 0
          BY ONLY <4>2, CopiedNone, Zenon
        <5> QED BY <2>4, <5>1
      <4> QED BY <4>1, <4>3
    <3>2. CASE from(o) # {}
      <4>1. PICK x : x \in from(o)
        BY <3>2
      <4> DEFINE v == outs[x][o]
                 b == nextBuf[o].vcOcc
                 c == nextBuf'[o].vcOcc
      <4>2. v \in Vcs /\ c = [b EXCEPT ![v] = @ + 1]
        <5> HIDE DEF from, ended
        <5> QED BY <1>7, <4>1
      <4>3. DOMAIN b = Vcs
        BY <1>1, BufferFields DEF OutTyped
      <4>4. CASE v = w
        <5>1. m = n + 1
          <6> HIDE DEF v, b, c
          <6>1. c[w] = b[w] + 1
            BY <4>2, <4>3, <4>4
          <6> QED BY <6>1 DEF b, c
        <5> DEFINE e == copy(x, o)
        <5>2. e \in crossbar' /\ e.out = o /\ e.vc = w
          BY <1>9, <1>10, <1>11, <4>1, <4>4
        <5> HIDE DEF e
        <5>3. \A y, z \in crossbar' : y.out = o /\ z.out = o => y = z
          BY <1>16
        <5>4. k = 1
          BY <2>4, <5>2, <5>3, CopiedCrossing
        <5> QED BY <5>1, <5>4
      <4>5. CASE v # w
        <5>1. m = n
          <6> HIDE DEF v, b, c
          <6>1. c[w] = b[w]
            BY <4>2, <4>3, <4>5
          <6> QED BY <6>1 DEF b, c
        <5>2. \A y \in crossbar' : ~(y.out = o /\ y.vc = w)
          <6>1. \A y \in from(o) : y = x
            BY <1>4, <4>1
          <6> HIDE DEF from
          <6> QED BY <1>12, <4>5, <6>1
        <5>3. k = 0
          <6>1. Copied(crossbar', <<>>, o, w) = 0
            BY ONLY <5>2, CopiedNone, Zenon
          <6> QED BY <2>4, <6>1
        <5> QED BY <5>1, <5>3
      <4> QED BY <4>4, <4>5
    <3> QED BY <3>1, <3>2
  <2> HIDE DEF d, n, m, k
  <2>6. m = d + k + 0
    BY <2>2, <2>3, <2>5
  <2> QED BY <2>6 DEF d, m, k
<1> QED BY <1>13, <1>14, <1>15, <1>17, <1>18, <1>19 DEF OutputInv

LEMMA SwitchOutput ==
  ASSUME InputInv, OutputInv, Switch
  PROVE  OutputInv'
<1> DEFINE here(o) == {c \in crossbar : c.out = o}
<1>1. /\ Passing
      /\ OutTyped /\ Owned /\ BuffersSound /\ Ready /\ OneEach /\ InputSlots /\ OutputSlots
  BY DEF InputInv, OutputInv
<1>2. /\ pc = "switch" /\ pc' = "write"
      /\ outBuf' = [o \in Outputs |-> Output(o)]
      /\ crossbar' = {}
      /\ UNCHANGED <<pkt, inFlit, inCredit, fifo, state, outs, vcRes, swRes, nextBuf,
                     creditBuf, used, down>>
  BY DEF Switch, queues, upstream
<1>3. ASSUME NEW o \in Outputs
      PROVE  \/ here(o) = {} /\ outBuf'[o] = <<>>
             \/ \E d \in crossbar : here(o) = {d} /\ d.out = o /\ outBuf'[o] = <<d>>
  <2>1. outBuf[o] = <<>> /\ outBuf'[o] = Output(o)
    BY <1>1, <1>2 DEF OneEach
  <2>2. CASE here(o) = {}
    BY <2>1, <2>2, OutputFold
  <2>3. CASE here(o) # {}
    <3>1. PICK d : d \in here(o)
      BY <2>3
    <3>2. d \in crossbar /\ d.out = o /\ here(o) = {d}
      BY <1>1, <3>1 DEF OneEach
    <3>3. Output(o) = Append(outBuf[o], d)
      BY <3>2, OutputFold
    <3>4. Append(<<>>, d) = <<d>>
      OBVIOUS
    <3> QED BY <2>1, <3>2, <3>3, <3>4
  <2> QED BY <2>2, <2>3
<1>4. OutTyped'
  <2>1. \A o \in Outputs : outBuf'[o] \in Seq(Copies)
    <3> TAKE o \in Outputs
    <3>1. \A d \in crossbar : <<d>> \in Seq(Copies)
      BY <1>1 DEF OutTyped
    <3> QED BY <1>3, <3>1, EmptySeq
  <2>2. outBuf' = [o \in Outputs |-> outBuf'[o]]
    BY <1>2
  <2>3. outBuf' \in [Outputs -> Seq(Copies)]
    BY <2>1, <2>2
  <2> QED BY <1>1, <1>2, <2>3 DEF OutTyped
<1>5. Owned' /\ BuffersSound' /\ Ready'
  BY <1>1, <1>2 DEF Owned, Holds, BuffersSound, Ready, CanSend
<1>6. OneEach'
  <2>1. \A o \in Outputs : outBuf'[o] # <<>> => Len(outBuf'[o]) = 1 /\ outBuf'[o][1].out = o
    <3> TAKE o \in Outputs
    <3>1. \A d : Len(<<d>>) = 1 /\ <<d>>[1] = d
      OBVIOUS
    <3>2. CASE outBuf'[o] = <<>>
      BY <3>2
    <3>3. CASE \E d \in crossbar : d.out = o /\ outBuf'[o] = <<d>>
      BY <3>1, <3>3
    <3> QED BY <1>3, <3>2, <3>3
  <2> QED BY <1>2, <2>1 DEF OneEach
<1>7. InputSlots'
  BY <1>1, <1>2 DEF InputSlots, Arriving
<1>8. OutputSlots'
  <2>1. \A o \in Outputs, w \in Vcs : InFlight(o, w)' = InFlight(o, w)
    <3> TAKE o \in Outputs, w \in Vcs
    <3>1. outBuf[o] = <<>>
      BY <1>1, <1>2 DEF OneEach
    <3>2. /\ InFlight(o, w) = Copied(crossbar, <<>>, o, w)
          /\ InFlight(o, w)' = Copied({}, outBuf'[o], o, w)
      BY <1>2, <3>1 DEF InFlight, Copied
    <3>3. CASE here(o) = {} /\ outBuf'[o] = <<>>
      <4>1. \A c \in crossbar : ~(c.out = o /\ c.vc = w)
        BY <3>3
      <4>2. Copied(crossbar, <<>>, o, w) = 0
        BY ONLY <4>1, CopiedNone, Zenon
      <4>3. Copied({}, <<>>, o, w) = 0
        BY CopiedNone
      <4> QED BY <3>2, <3>3, <4>2, <4>3
    <3>4. CASE \E d \in crossbar : here(o) = {d} /\ d.out = o /\ outBuf'[o] = <<d>>
      <4>1. PICK d \in crossbar : here(o) = {d} /\ d.out = o /\ outBuf'[o] = <<d>>
        BY <3>4
      <4>2. Copied({}, <<d>>, o, w) = IF d.out = o /\ d.vc = w THEN 1 ELSE 0
        BY ONLY CopiedQueued
      <4>3. CASE d.vc = w
        <5>1. \A x, y \in crossbar : x.out = o /\ y.out = o => x = y
          BY <1>1 DEF OneEach
        <5>2. Copied(crossbar, <<>>, o, w) = 1
          BY <4>1, <4>3, <5>1, CopiedCrossing
        <5> QED BY <3>2, <4>1, <4>2, <4>3, <5>2
      <4>4. CASE d.vc # w
        <5>1. \A c \in crossbar : ~(c.out = o /\ c.vc = w)
          BY <4>1, <4>4
        <5>2. Copied(crossbar, <<>>, o, w) = 0
          BY ONLY <5>1, CopiedNone, Zenon
        <5> QED BY <3>2, <4>1, <4>2, <4>4, <5>2
      <4> QED BY <4>3, <4>4
    <3> QED BY <1>3, <3>3, <3>4
  <2> QED BY <1>1, <1>2, <2>1 DEF OutputSlots
<1> QED BY <1>4, <1>5, <1>6, <1>7, <1>8 DEF OutputInv

LEMMA WriteOutput ==
  ASSUME InputInv, OutputInv, WriteOutputs
  PROVE  OutputInv'
<1> DEFINE sent == {Head(outBuf[o]) : o \in Leaving}
           At(c) == {s \in sent : s.out = c[1] /\ s.vc = c[2]}
<1>1. /\ Typed /\ Passing /\ Resolved
      /\ OutTyped /\ Owned /\ BuffersSound /\ Ready /\ OneEach /\ InputSlots /\ OutputSlots
  BY DEF InputInv, OutputInv
<1>2. /\ pc = "write" /\ pc' = "read"
      /\ outBuf' = [o \in Outputs |-> IF o \in Leaving THEN Tail(outBuf[o]) ELSE <<>>]
      /\ down' = [c \in Outputs \X Vcs |-> down[c] + Cardinality(At(c))]
      /\ used' = [x \in InVcs |-> IF x[2] \in creditBuf[x[1]] THEN used[x] - 1 ELSE used[x]]
      /\ creditBuf' = [i \in Inputs |-> {}]
      /\ UNCHANGED <<pkt, inFlit, inCredit, fifo, state, outs, vcRes, swRes, nextBuf,
                     crossbar>>
  BY DEF WriteOutputs, queues
<1>3. ASSUME NEW o \in Outputs
      PROVE  \/ outBuf[o] = <<>>
             \/ \E e : outBuf[o] = <<e>> /\ e.out = o
  <2>1. CASE outBuf[o] = <<>>
    BY <2>1
  <2>2. CASE outBuf[o] # <<>>
    <3>1. outBuf[o] \in Seq(Copies) /\ Len(outBuf[o]) = 1 /\ outBuf[o][1].out = o
      BY <1>1, <2>2 DEF OneEach, OutTyped
    <3>2. outBuf[o] = <<outBuf[o][1]>>
      BY <3>1
    <3> QED BY <3>1, <3>2
  <2> QED BY <2>1, <2>2
<1>4. \A o \in Outputs : outBuf'[o] = <<>>
  <2> TAKE o \in Outputs
  <2>1. \A e : Tail(<<e>>) = <<>>
    OBVIOUS
  <2>2. \/ outBuf[o] = <<>> /\ o \notin Leaving
        \/ o \in Leaving /\ \E e : outBuf[o] = <<e>>
    BY <1>3 DEF Leaving
  <2> QED BY <1>2, <2>1, <2>2
<1>5. crossbar = {} /\ \A o \in Outputs : inCredit[o] = {}
  BY <1>1, <1>2 DEF Passing
<1>6. ASSUME NEW o \in Outputs, NEW w \in Vcs
      PROVE  Cardinality(At(<<o, w>>)) = InFlight(o, w) /\ InFlight(o, w) \in Nat
  <2>1. \A s \in sent : \E p \in Outputs : outBuf[p] = <<s>> /\ s.out = p
    <3> SUFFICES ASSUME NEW s \in sent
                 PROVE  \E p \in Outputs : outBuf[p] = <<s>> /\ s.out = p
      OBVIOUS
    <3>1. PICK p \in Leaving : s = Head(outBuf[p])
      OBVIOUS
    <3>2. p \in Outputs /\ outBuf[p] # <<>>
      BY DEF Leaving
    <3>3. PICK e : outBuf[p] = <<e>> /\ e.out = p
      BY <1>3, <3>2
    <3>4. Head(<<e>>) = e
      OBVIOUS
    <3> QED BY <3>1, <3>2, <3>3, <3>4
  <2>2. \A e : outBuf[o] = <<e>> => e \in sent
    <3> SUFFICES ASSUME NEW e, outBuf[o] = <<e>> PROVE e \in sent
      OBVIOUS
    <3>1. <<e>> # <<>> /\ Head(<<e>>) = e
      OBVIOUS
    <3>2. o \in Leaving
      BY <3>1 DEF Leaving
    <3> QED BY <3>1, <3>2
  <2>3. InFlight(o, w) = Copied({}, outBuf[o], o, w)
    BY <1>5 DEF InFlight, Copied
  <2>4. At(<<o, w>>) = {s \in sent : s.out = o /\ s.vc = w}
    OBVIOUS
  <2> HIDE DEF sent, At
  <2>5. CASE outBuf[o] = <<>>
    <3>1. At(<<o, w>>) = {}
      <4>1. \A e : <<e>> # <<>>
        OBVIOUS
      <4> QED BY <2>1, <2>4, <2>5, <4>1
    <3>2. Copied({}, <<>>, o, w) = 0
      BY CopiedNone
    <3>3. InFlight(o, w) = 0
      BY <2>3, <2>5, <3>2
    <3>4. Cardinality(At(<<o, w>>)) = 0
      BY <3>1, FS_EmptySet
    <3> QED BY <3>3, <3>4
  <2>6. CASE \E e : outBuf[o] = <<e>> /\ e.out = o
    <3>1. PICK e : outBuf[o] = <<e>> /\ e.out = o
      BY <2>6
    <3>2. Copied({}, <<e>>, o, w) = IF e.out = o /\ e.vc = w THEN 1 ELSE 0
      BY ONLY CopiedQueued
    <3>3. \A s \in sent : s.out = o => s = e
      <4>1. \A s : <<s>> = <<e>> => s = e
        OBVIOUS
      <4> QED BY <2>1, <3>1, <4>1
    <3>4. CASE e.vc = w
      <4>1. At(<<o, w>>) = {e}
        BY <2>2, <2>4, <3>1, <3>3, <3>4
      <4> QED BY <2>3, <3>1, <3>2, <3>4, <4>1, FS_Singleton
    <3>5. CASE e.vc # w
      <4>1. At(<<o, w>>) = {}
        BY <2>4, <3>3, <3>5
      <4> QED BY <2>3, <3>1, <3>2, <3>5, <4>1, FS_EmptySet
    <3> QED BY <3>4, <3>5
  <2> QED BY <1>3, <2>5, <2>6
<1>7. ASSUME NEW o \in Outputs, NEW w \in Vcs
      PROVE  /\ down'[<<o, w>>] = down[<<o, w>>] + InFlight(o, w)
             /\ down'[<<o, w>>] \in Nat /\ down[<<o, w>>] \in Nat
  <2> DEFINE d == down[<<o, w>>]
             e == down'[<<o, w>>]
             k == InFlight(o, w)
  <2>1. d \in Nat
    BY <1>1 DEF OutTyped
  <2>2. e = d + Cardinality(At(<<o, w>>))
    <3> HIDE DEF At
    <3> QED BY <1>2
  <2>3. Cardinality(At(<<o, w>>)) = k /\ k \in Nat
    <3> HIDE DEF At
    <3> QED BY <1>6
  <2> HIDE DEF At, d, e, k
  <2>4. e = d + k /\ e \in Nat
    BY <2>1, <2>2, <2>3
  <2> QED BY <2>1, <2>4 DEF d, e, k
<1> HIDE DEF At, sent
<1>8. OutTyped'
  <2>1. down' \in [Outputs \X Vcs -> Nat]
    <3>1. \A c \in Outputs \X Vcs : down'[c] \in Nat
      <4> TAKE c \in Outputs \X Vcs
      <4>1. c[1] \in Outputs /\ c[2] \in Vcs /\ c = <<c[1], c[2]>>
        OBVIOUS
      <4> QED BY <1>7, <4>1
    <3>2. down' = [c \in Outputs \X Vcs |-> down'[c]]
      BY <1>2
    <3> QED BY <3>1, <3>2
  <2>2. outBuf' \in [Outputs -> Seq(Copies)]
    <3>1. outBuf' = [o \in Outputs |-> outBuf'[o]]
      BY <1>2
    <3> QED BY <1>4, <3>1, EmptySeq
  <2> QED BY <1>1, <1>2, <2>1, <2>2 DEF OutTyped
<1>9. Owned' /\ BuffersSound' /\ Ready'
  BY <1>1, <1>2 DEF Owned, Holds, BuffersSound, Ready, CanSend
<1>10. OneEach'
  BY <1>1, <1>2, <1>4 DEF OneEach
<1>11. InputSlots'
  <2>1. Arriving(inFlit) = {} /\ Arriving(inFlit') = {}
    BY <1>1, <1>2, NoneArriving DEF Passing
  <2> SUFFICES ASSUME NEW x \in InVcs
               PROVE  used'[x] = Len(fifo[x]) + 0 + 0 /\ used'[x] <= VcLimit
    <3>1. \A x \in InVcs : x[1] \in Inputs
      BY RankType
    <3> QED BY <1>2, <2>1, <3>1 DEF InputSlots
  <2> DEFINE n == Len(fifo[x])
             k == IF x[2] \in creditBuf[x[1]] THEN 1 ELSE 0
             u == used[x]
             v == used'[x]
  <2>2. u = n + 0 + k /\ u <= VcLimit
    BY <1>1, <2>1 DEF InputSlots
  <2>3. n \in Nat /\ k \in Nat /\ VcLimit \in Int
    BY <1>1, SizesAreIntegers DEF Typed
  <2>4. v = u - k
    <3>1. u \in Int
      BY <1>1 DEF Typed
    <3>2. v = IF x[2] \in creditBuf[x[1]] THEN u - 1 ELSE u
      BY <1>2
    <3> HIDE DEF u, v
    <3> QED BY <3>1, <3>2
  <2> HIDE DEF n, k, u, v
  <2>5. v = n + 0 + 0 /\ v <= VcLimit
    BY <2>2, <2>3, <2>4
  <2> QED BY <2>5 DEF n, v
<1>12. OutputSlots'
  <2> SUFFICES ASSUME NEW o \in Outputs, NEW w \in Vcs
               PROVE  nextBuf[o].vcOcc[w] = down'[<<o, w>>] + InFlight(o, w)' + 0
    BY <1>2, <1>5 DEF OutputSlots
  <2>1. InFlight(o, w)' = 0
    <3>1. InFlight(o, w)' = Copied({}, <<>>, o, w)
      BY <1>2, <1>4, <1>5 DEF InFlight, Copied
    <3> QED BY <3>1, CopiedNone
  <2> DEFINE d == down[<<o, w>>]
             e == down'[<<o, w>>]
             n == nextBuf[o].vcOcc[w]
             k == InFlight(o, w)
  <2>2. n = d + k + 0
    BY <1>1, <1>5 DEF OutputSlots
  <2>3. e = d + k /\ e \in Nat
    BY <1>7
  <2> HIDE DEF d, e, n, k
  <2>4. n = e + 0 + 0
    <3>1. k \in Nat /\ d \in Nat
      BY <1>6, <1>7 DEF d, k
    <3> QED BY <2>2, <2>3, <3>1
  <2> QED BY <2>1, <2>4 DEF e, n
<1> QED BY <1>8, <1>9, <1>10, <1>11, <1>12 DEF OutputInv

LEMMA InitOutput ==
  ASSUME Init
  PROVE  OutputInv
<1>1. \A o \in Outputs : nextBuf[o] = New(Policy, Wait)
  BY DEF Init
<1>2. /\ New(Policy, Wait) \in BufferStatesOf(InVcs)
      /\ New(Policy, Wait).policy = Policy /\ New(Policy, Wait).wait = Wait
      /\ New(Policy, Wait).vcOcc = [v \in Vcs |-> 0]
      /\ New(Policy, Wait).inUseBy = [v \in Vcs |-> None]
      /\ Sound(New(Policy, Wait)) /\ ~New(Policy, Wait).err
  <2>1. New(Policy, Wait).wait = Wait
    BY DEF New
  <2> QED BY <2>1, MCRouterAssumption, NewType, NewSound
<1>3. OutTyped
  <2>1. nextBuf \in [Outputs -> BufferStatesOf(InVcs)]
    BY <1>2 DEF Init
  <2>2. outBuf \in [Outputs -> Seq(Copies)] /\ down \in [Outputs \X Vcs -> Nat]
    BY EmptySeq DEF Init
  <2> QED BY <1>1, <1>2, <2>1, <2>2 DEF Init, OutTyped
<1>4. Owned
  <2>1. \A o, w, x : x \in InVcs => ~Holds(x, o, w)
    BY NothingResolved DEF Init, Holds
  <2>2. \A o \in Outputs, w \in Vcs : nextBuf[o].inUseBy[w] = None
    BY <1>1, <1>2
  <2> QED BY <2>1, <2>2, MCRouterAssumption DEF Owned
<1>5. BuffersSound
  BY <1>1, <1>2 DEF BuffersSound
<1>6. Ready /\ OneEach
  BY NothingResolved DEF Init, Ready, Granted, OneEach
<1>7. InputSlots
  <2>1. Arriving(inFlit) = {}
    BY NoneArriving DEF Init
  <2>2. \A x \in InVcs : used[x] = 0 /\ Len(fifo[x]) = 0 /\ creditBuf[x[1]] = {}
    <3>1. \A x \in InVcs : used[x] = 0 /\ fifo[x] = <<>>
      BY DEF Init
    <3>2. \A x \in InVcs : creditBuf[x[1]] = {}
      BY RankType DEF Init
    <3>3. Len(<<>>) = 0
      OBVIOUS
    <3>4. \A x \in InVcs : Len(fifo[x]) = 0
      <4> TAKE x \in InVcs
      <4> DEFINE q == fifo[x]
      <4>1. q = <<>>
        BY <3>1
      <4> HIDE DEF q
      <4> QED BY <3>3, <4>1 DEF q
    <3> QED BY <3>1, <3>2, <3>4
  <2> SUFFICES ASSUME NEW x \in InVcs
               PROVE  /\ used[x] = Len(fifo[x])
                           + (IF x \in Arriving(inFlit) THEN 1 ELSE 0)
                           + (IF x[2] \in creditBuf[x[1]] THEN 1 ELSE 0)
                      /\ used[x] <= VcLimit
    BY DEF InputSlots
  <2> DEFINE n == Len(fifo[x])
             u == used[x]
  <2>3. n = 0 /\ u = 0
    BY <2>2
  <2>4. x \notin Arriving(inFlit) /\ x[2] \notin creditBuf[x[1]]
    BY <2>1, <2>2
  <2> HIDE DEF n, u
  <2>5. u <= VcLimit
    BY <2>3, VcLimitType
  <2> QED BY <2>3, <2>4, <2>5 DEF n, u
<1>8. OutputSlots
  <2> SUFFICES ASSUME NEW o \in Outputs, NEW w \in Vcs
               PROVE  nextBuf[o].vcOcc[w] = down[<<o, w>>] + InFlight(o, w)
                                            + (IF w \in inCredit[o] THEN 1 ELSE 0)
    BY DEF OutputSlots
  <2>1. nextBuf[o].vcOcc[w] = 0 /\ down[<<o, w>>] = 0 /\ inCredit[o] = {}
    BY <1>1, <1>2 DEF Init
  <2>2. InFlight(o, w) = 0
    <3>1. InFlight(o, w) = Copied({}, <<>>, o, w)
      BY DEF Init, InFlight, Copied
    <3> QED BY <3>1, CopiedNone
  <2> QED BY <2>1, <2>2
<1> QED BY <1>3, <1>4, <1>5, <1>6, <1>7, <1>8 DEF OutputInv

LEMMA NextOutput == InputInv /\ OutputInv /\ [Next]_vars => OutputInv'
<1> SUFFICES ASSUME InputInv, OutputInv, [Next]_vars PROVE OutputInv'
  OBVIOUS
<1>1. CASE Receive
  BY <1>1, ReceiveOutput DEF Receive
<1>2. CASE Sleep
  BY <1>2, SleepOutput
<1>3. CASE FlitDispatch
  BY <1>3, DispatchOutput
<1>4. CASE AllocateVcs
  BY <1>4, AllocateOutput DEF AllocateVcs
<1>5. CASE SWAllocEvaluate
  BY <1>5, SwitchGrantsOutput
<1>6. CASE RouteUpdate
  BY <1>6, RouteOutput
<1>7. CASE VCAllocUpdate
  BY <1>7, VcGrantOutput
<1>8. CASE SWAllocUpdate
  BY <1>8, SendOutput
<1>9. CASE Switch
  BY <1>9, SwitchOutput
<1>10. CASE WriteOutputs
  BY <1>10, WriteOutput
<1>11. CASE UNCHANGED vars
  <2>1. UNCHANGED <<pkt, pc, inFlit, inCredit, fifo, state, outs, vcRes, swRes, nextBuf,
                    crossbar, outBuf, creditBuf, used, down>>
    BY <1>11 DEF vars, router, queues, upstream
  <2>2. OutTyped' /\ Owned' /\ BuffersSound'
    BY <2>1 DEF OutputInv, OutTyped, Owned, Holds, BuffersSound
  <2>3. Ready' /\ OneEach'
    BY <2>1 DEF OutputInv, Ready, CanSend, OneEach
  <2>4. InputSlots' /\ OutputSlots'
    BY <2>1 DEF OutputInv, InputSlots, OutputSlots, InFlight, Arriving
  <2> QED BY <2>2, <2>3, <2>4 DEF OutputInv
<1> QED BY <1>1, <1>2, <1>3, <1>4, <1>5, <1>6, <1>7, <1>8, <1>9, <1>10, <1>11
        DEF Next, InternalStep

\* The invariant of the output side holds throughout, next to that of the input
\* side.
THEOREM OutputInvariance == Spec => [](InputInv /\ OutputInv)
<1>1. Init => InputInv /\ OutputInv
  BY InitInput, InitOutput
<1>2. (InputInv /\ OutputInv) /\ [Next]_vars => (InputInv /\ OutputInv)'
  BY NextInput, NextOutput
<1> QED BY <1>1, <1>2, PTL DEF Spec

-----------------------------------------------------------------------------
(***************************************************************************)
(* What the invariant says.                                                *)
(***************************************************************************)
\* Unless routers wait for the credit of the tail, an output VC is in use from
\* the grant in VCAllocEvaluate to the tail in SWAllocUpdate, by the input VC
\* that was granted it: none leaks and none has two owners.
THEOREM OwnershipIsExact == Spec => []OwnershipExact
<1>1. OutputInv => OwnershipExact
  <2> SUFFICES ASSUME OutputInv, ~Wait, NEW o \in Outputs, NEW w \in Vcs
               PROVE  IF nextBuf[o].inUseBy[w] = None THEN \A x \in InVcs : ~Holds(x, o, w)
                      ELSE \A x \in InVcs : Holds(x, o, w) <=> nextBuf[o].inUseBy[w] = x
    BY DEF OwnershipExact
  <2>1. \A x \in InVcs : x # None /\ (Holds(x, o, w) <=> nextBuf[o].inUseBy[w] = x)
    BY MCRouterAssumption DEF OutputInv, Owned
  <2> QED BY <2>1
<1> QED BY <1>1, OutputInvariance, PTL

\* No slot of a VC buffer is lost or counted twice, at either end of the router:
\* flits, credits on their way and flits downstream make up the counts.
THEOREM SlotsAreConserved == Spec => []SlotsConserved
<1>1. OutputInv => SlotsConserved
  BY DEF OutputInv, InputSlots, OutputSlots, SlotsConserved
<1> QED BY <1>1, OutputInvariance, PTL

\* Neither the BufferStates nor the input buffers run into an Error(), if the
\* buffers have slots and the shares of the dynamic policies are never empty.
THEOREM NoErrors ==
  ASSUME Workable(Policy), BufSize # 0
  PROVE  Spec => []NoRouterError
<1>1. InputInv /\ OutputInv => NoRouterError
  <2> SUFFICES ASSUME InputInv, OutputInv PROVE NoRouterError
    OBVIOUS
  <2>1. \A o \in Outputs : ~nextBuf[o].err
    BY DEF OutputInv, BuffersSound
  <2>2. ASSUME NEW i \in Inputs
        PROVE  SumFunction([v \in Vcs |-> Len(fifo[<<i, v>>])]) <= Size
    <3> DEFINE f == [v \in Vcs |-> Len(fifo[<<i, v>>])]
    <3>1. \A v \in Vcs : f[v] \in Int /\ f[v] <= VcLimit
      <4> SUFFICES ASSUME NEW v \in Vcs PROVE f[v] \in Int /\ f[v] <= VcLimit
        OBVIOUS
      <4> DEFINE x == <<i, v>>
                 n == Len(fifo[x])
                 a == IF x \in Arriving(inFlit) THEN 1 ELSE 0
                 k == IF x[2] \in creditBuf[x[1]] THEN 1 ELSE 0
                 u == used[x]
      <4>1. x \in InVcs
        BY DEF InVcs
      <4>2. u = n + a + k /\ u <= VcLimit
        <5> HIDE DEF x
        <5> QED BY <4>1 DEF OutputInv, InputSlots
      <4>3. n \in Nat /\ a \in Nat /\ k \in Nat /\ VcLimit \in Int
        BY <4>1, SizesAreIntegers DEF InputInv, Typed
      <4> HIDE DEF n, a, k, u
      <4>4. n \in Int /\ n <= VcLimit
        BY <4>2, <4>3
      <4> QED BY <4>4 DEF n
    <3>2. DOMAIN f = Vcs
      OBVIOUS
    <3> HIDE DEF f
    <3>3. SumFunctionOnSet(f, Vcs) <= NumVcs * VcLimit
      <4>1. SumFunctionOnSet(f, Vcs) <= Cardinality(Vcs) * VcLimit
        BY <3>1, SizesAreIntegers, SumAtMost, Partition
      <4> QED BY <4>1, Partition
    <3>4. SumFunctionOnSet(f, Vcs) \in Int
      BY <3>1, SumType, Partition
    <3>5. NumVcs * VcLimit \in Int /\ NumVcs * VcLimit <= Size /\ Size \in Int
      BY SizesAreIntegers, BufferStateAssumption, LimitsFit
    <3>6. SumFunction(f) = SumFunctionOnSet(f, Vcs)
      BY <3>2 DEF SumFunction
    <3>7. SumFunction(f) <= Size
      BY <3>3, <3>4, <3>5, <3>6
    <3> QED BY <3>7 DEF f
  <2> QED BY <2>1, <2>2 DEF NoRouterError
<1> QED BY <1>1, OutputInvariance, PTL

\* At most one flit is on its way to an output VC.
LEMMA InFlightType ==
  ASSUME InputInv, OutputInv, NEW o \in Outputs, NEW w
  PROVE  InFlight(o, w) \in {0, 1}
<1> DEFINE S == {c \in crossbar \cup Range(outBuf[o]) : c.out = o /\ c.vc = w}
<1>1. OneEach /\ Passing /\ OutTyped
  BY DEF InputInv, OutputInv
<1>2. \A c, d \in Range(outBuf[o]) : c = d
  <2>1. CASE outBuf[o] = <<>>
    BY <2>1 DEF Range
  <2>2. CASE outBuf[o] # <<>>
    <3>1. outBuf[o] \in Seq(Copies) /\ Len(outBuf[o]) = 1
      BY <1>1, <2>2 DEF OneEach, OutTyped
    <3>2. DOMAIN outBuf[o] = {1}
      BY <3>1
    <3> QED BY <3>2 DEF Range
  <2> QED BY <2>1, <2>2
<1>3. crossbar # {} => Range(outBuf[o]) = {}
  <2>1. crossbar # {} => outBuf[o] = <<>>
    BY <1>1 DEF OneEach, Passing
  <2> QED BY <2>1 DEF Range
<1>4. \A c, d \in S : c = d
  BY <1>1, <1>2, <1>3 DEF OneEach
<1>5. S = {} \/ \E c : S = {c}
  <2> HIDE DEF S
  <2> QED BY <1>4
<1>6. InFlight(o, w) = Cardinality(S)
  BY DEF InFlight
<1> HIDE DEF S
<1> QED BY <1>5, <1>6, FS_EmptySet, FS_Singleton

\* The state keeps its shape, upstream never counts more slots than a VC has and
\* downstream never more flits on a VC than its buffer has slots.
THEOREM TypeCorrect ==
  ASSUME Workable(Policy)
  PROVE  Spec => []TypeOK
<1>1. InputInv /\ OutputInv => TypeOK
  <2> SUFFICES ASSUME InputInv, OutputInv PROVE TypeOK
    OBVIOUS
  <2>1. Typed /\ Queued /\ Resolved /\ OutTyped /\ BuffersSound /\ InputSlots /\ OutputSlots
    BY DEF InputInv, OutputInv
  <2>2. used \in [InVcs -> 0 .. VcLimit]
    <3>1. ASSUME NEW x \in InVcs PROVE used[x] \in 0 .. VcLimit
      <4> DEFINE n == Len(fifo[x])
                 a == IF x \in Arriving(inFlit) THEN 1 ELSE 0
                 k == IF x[2] \in creditBuf[x[1]] THEN 1 ELSE 0
                 u == used[x]
      <4>1. u = n + a + k /\ u <= VcLimit
        BY <2>1 DEF InputSlots
      <4>2. n \in Nat /\ a \in Nat /\ k \in Nat /\ VcLimit \in Int
        BY <2>1, SizesAreIntegers DEF Typed
      <4> HIDE DEF n, a, k, u
      <4>3. u \in 0 .. VcLimit
        BY <4>1, <4>2
      <4> QED BY <4>3 DEF u
    <3> QED BY <2>1, <3>1 DEF Typed
  <2>3. down \in [Outputs \X Vcs -> 0 .. Size]
    <3>1. ASSUME NEW o \in Outputs, NEW w \in Vcs PROVE down[<<o, w>>] \in 0 .. Size
      <4> DEFINE b == nextBuf[o]
                 d == down[<<o, w>>]
                 n == b.vcOcc[w]
                 q == InFlight(o, w)
                 k == IF w \in inCredit[o] THEN 1 ELSE 0
      <4>1. b \in BufferStatesOf(InVcs) /\ b.policy = Policy /\ Sound(b)
        BY <2>1 DEF OutTyped, BuffersSound
      <4>2. n = d + q + k
        BY <2>1 DEF OutputSlots
      <4>3. d \in Nat /\ k \in Nat
        BY <2>1 DEF OutTyped
      <4>4. q \in Nat
        BY InFlightType
      <4> HIDE DEF b
      <4>5. n <= Size /\ n \in Int /\ Size \in Int
        <5>1. \A v \in Vcs : b.vcOcc[v] \in Nat
          BY <4>1, HeldType DEF Sound
        <5>2. n <= SumFunctionOnSet(b.vcOcc, Vcs) /\ SumFunctionOnSet(b.vcOcc, Vcs) \in Nat
          BY <5>1, SumNat, Partition
        <5>3. SumFunction(b.vcOcc) = SumFunctionOnSet(b.vcOcc, Vcs)
          BY <4>1, BufferFields DEF SumFunction
        <5>4. SumFunction(b.vcOcc) <= Size
          BY <4>1, SoundCapacity
        <5> QED BY <5>1, <5>2, <5>3, <5>4, SizesAreIntegers
      <4> HIDE DEF d, n, q, k
      <4>6. d \in 0 .. Size
        BY <4>2, <4>3, <4>4, <4>5
      <4> QED BY <4>6 DEF d
    <3>2. \A c \in Outputs \X Vcs : down[c] \in 0 .. Size
      <4> TAKE c \in Outputs \X Vcs
      <4>1. c[1] \in Outputs /\ c[2] \in Vcs /\ c = <<c[1], c[2]>>
        OBVIOUS
      <4> QED BY <3>1, <4>1
    <3> QED BY <2>1, <3>2 DEF OutTyped
  <2>4. \A x \in InVcs : DOMAIN outs[x] \subseteq Outputs /\ Range(outs[x]) \subseteq Vcs
    BY <2>1 DEF Typed, Range
  <2>5. routeQ \subseteq InVcs /\ vcQ \subseteq InVcs /\ swQ \subseteq InVcs
    BY <2>1 DEF Queued
  <2>6. /\ pc \in Phases /\ active \in BOOLEAN /\ activity \in BOOLEAN
        /\ inFlit \in [Inputs -> [vc : Vcs, pid : Pids, idx : Nat \ {0}] \cup {None}]
        /\ inCredit \in [Outputs -> SUBSET Vcs]
        /\ fifo \in [InVcs -> Seq(Flit)]
        /\ state \in [InVcs -> {"idle", "routing", "vc_alloc", "active"}]
        /\ creditBuf \in [Inputs -> SUBSET Vcs]
        /\ started \subseteq Pids
    BY <2>1 DEF Typed, InFlit, States
  <2> QED BY <2>1, <2>2, <2>3, <2>4, <2>5, <2>6 DEF TypeOK, Resolved, OutTyped
<1> QED BY <1>1, OutputInvariance, PTL
-----------------------------------------------------------------------------
(***************************************************************************)
(* The invariant of the order of flits.                                    *)
(***************************************************************************)
\* The copies on their way to the end of output o, in the crossbar or queued.
Under(o) == {c \in crossbar \cup Range(outBuf[o]) : c.out = o}

\* The flits of packet p that have left on output o, those on their way included.
Left(p, o) == IF \E c \in Under(o) : c.flit.pid = p THEN progress[p][o] + 1
              ELSE progress[p][o]

\* What is open on output VC w of o when what is on its way has left.
Opens(o, w, e) ==
  IF \E c \in Under(o) : c.vc = w
  THEN \A c \in Under(o) : c.vc = w => e = IF Ends(pkt, c.flit) THEN None ELSE c.flit.pid
  ELSE e = open[<<o, w>>]

\* Flit j of packet p is the next to leave input VC x.
Comes(x, p, j) ==
  IF fifo[x] # <<>> THEN p = fifo[x][1].pid /\ j = fifo[x][1].idx
  ELSE IF x \in Arriving(inFlit) THEN p = FlitOn(inFlit, x).pid /\ j = FlitOn(inFlit, x).idx
  ELSE feed[x] # Idle /\ p = feed[x].pid /\ j = feed[x].idx + 1

\* The flits of p before flit j have left on all of its outputs, and no others.
Due(p, j) == \A o \in pkt[p].outs : Left(p, o) = j - 1

\* A part of packet p is on input VC x, or is still to come on it.
Carries(x, p) ==
  \/ \E k \in 1 .. Len(fifo[x]) : fifo[x][k].pid = p
  \/ x \in Arriving(inFlit) /\ FlitOn(inFlit, x).pid = p
  \/ feed[x] # Idle /\ feed[x].pid = p

\* A packet that has been started is on one input VC at most, others on none.
Single ==
  \A x \in InVcs, p \in Pids : Carries(x, p) =>
    p \in started /\ \A y \in InVcs : Carries(y, p) => y = x

\* No part of a packet is before its head.
HeadsFirst ==
  \A x \in InVcs :
    /\ \A m \in 1 .. Len(fifo[x]) : IsHead(fifo[x][m]) =>
         \A k \in 1 .. m - 1 : fifo[x][k].pid # fifo[x][m].pid
    /\ x \in Arriving(inFlit) /\ IsHead(FlitOn(inFlit, x)) =>
         \A k \in 1 .. Len(fifo[x]) : fifo[x][k].pid # FlitOn(inFlit, x).pid

\* What has left of a packet is what is before its next flit.
InTurn ==
  /\ \A x \in InVcs :
       /\ \A p, j : Comes(x, p, j) => Due(p, j)
       /\ \A k \in 1 .. Len(fifo[x]) : IsHead(fifo[x][k]) => Due(fifo[x][k].pid, 1)
       /\ x \in Arriving(inFlit) /\ IsHead(FlitOn(inFlit, x)) => Due(FlitOn(inFlit, x).pid, 1)
  /\ \A p \in Pids \ started : Due(p, 1)

\* On an output VC the packet is open whose next flit will come there, if it is
\* not the head.  On an output VC that is not held no packet is.
Opened ==
  \A o \in Outputs, w \in Vcs :
    /\ (\A x \in InVcs : ~Holds(x, o, w)) => Opens(o, w, None)
    /\ \A x \in InVcs : Holds(x, o, w) =>
         \A p, j : Comes(x, p, j) => Opens(o, w, IF j = 1 THEN None ELSE p)

\* What is on its way is the next flit of its packet on this output.
Going ==
  \A o \in Outputs : \A c \in Under(o) :
    /\ o \in pkt[c.flit.pid].outs
    /\ c.flit.idx = progress[c.flit.pid][o] + 1
    /\ open[<<o, c.vc>>] = IF IsHead(c.flit) THEN None ELSE c.flit.pid

Counts == progress \in [Pids -> [Outputs -> Nat]]

OrderInv == Counts /\ Single /\ HeadsFirst /\ InTurn /\ Opened /\ Going

-----------------------------------------------------------------------------
(***************************************************************************)
(* Steps that leave the flits where they are.                              *)
(***************************************************************************)
\* No flit passes the crossbar, and what has left of a packet stays the same,
\* what is on its way included.
Keeping ==
  /\ UNCHANGED <<pkt, fifo, inFlit, feed, started>>
  /\ \A o \in Outputs, p \in Pids : Left(p, o)' = Left(p, o)
  /\ \A o \in Outputs, w \in Vcs : \A e : Opens(o, w, e)' <=> Opens(o, w, e)

\* What is on its way stays so.
Standing ==
  /\ UNCHANGED <<pkt, fifo, inFlit, feed, started, open, progress>>
  /\ \A o \in Outputs : Under(o)' = Under(o)

LEMMA Outward ==
  ASSUME Typed, NEW p \in Pids
  PROVE  pkt[p].outs \subseteq Outputs
<1>1. pkt \in [Pids -> [in : Inputs, outs : (SUBSET Outputs) \ {{}}, len : Nat \ {0}]]
  BY MCRouterAssumption DEF Typed
<1> DEFINE w == pkt[p]
<1>2. w \in [in : Inputs, outs : (SUBSET Outputs) \ {{}}, len : Nat \ {0}]
  BY <1>1
<1>3. w.outs \subseteq Outputs
  <2> HIDE DEF w
  <2> QED BY <1>2
<1> QED BY <1>3

\* The packets of the flits on an input VC.
LEMMA ComesFacts ==
  ASSUME Typed, NEW x \in InVcs, NEW p, NEW j, Comes(x, p, j)
  PROVE  p \in Pids /\ j \in Nat \ {0} /\ Carries(x, p)
<1>1. CASE fifo[x] # <<>>
  <2> DEFINE q == fifo[x]
             f == q[1]
  <2>1. q \in Seq(Flit) /\ q # <<>>
    BY <1>1 DEF Typed
  <2> HIDE DEF q
  <2>2. f \in Flit /\ 1 \in 1 .. Len(q)
    BY <2>1
  <2>3. p = f.pid /\ j = f.idx
    BY <1>1 DEF Comes, q
  <2> HIDE DEF f
  <2>4. p \in Pids /\ j \in Nat \ {0}
    BY <2>2, <2>3, FlitFields
  <2>5. \E k \in 1 .. Len(q) : q[k].pid = p
    BY <2>2, <2>3 DEF f
  <2> QED BY <2>4, <2>5 DEF Carries, q
<1>2. CASE fifo[x] = <<>> /\ x \in Arriving(inFlit)
  <2>1. FlitOn(inFlit, x) \in Flit
    BY <1>2, ArrivingFacts DEF Typed
  <2> QED BY <1>2, <2>1, FlitFields DEF Comes, Carries
<1>3. CASE fifo[x] = <<>> /\ x \notin Arriving(inFlit)
  <2> DEFINE f == feed[x]
  <2>1. f # Idle /\ p = f.pid /\ j = f.idx + 1
    BY <1>3 DEF Comes
  <2>2. f \in Flit
    BY <2>1 DEF Typed
  <2> HIDE DEF f
  <2>3. p \in Pids /\ j \in Nat \ {0}
    BY <2>1, <2>2, FlitFields
  <2> QED BY <2>1, <2>3 DEF Carries, f
<1> QED BY <1>1, <1>2, <1>3

LEMMA KeepingStep ==
  ASSUME Typed, OrderInv, Keeping
  PROVE  /\ Single' /\ HeadsFirst' /\ InTurn'
         /\ \A x \in InVcs : \A p, j : Comes(x, p, j)' <=> Comes(x, p, j)
<1>1. /\ Single /\ HeadsFirst /\ InTurn
      /\ UNCHANGED <<pkt, fifo, inFlit, feed, started>>
      /\ \A o \in Outputs, p \in Pids : Left(p, o)' = Left(p, o)
  BY DEF OrderInv, Keeping
<1>2. \A x \in InVcs : \A p : Carries(x, p)' <=> Carries(x, p)
  BY <1>1 DEF Carries, Arriving, FlitOn
<1>3. Single'
  BY <1>1, <1>2 DEF Single
<1>4. HeadsFirst'
  BY <1>1 DEF HeadsFirst, Arriving, FlitOn, IsHead
<1>5. \A x \in InVcs : \A p, j : Comes(x, p, j)' <=> Comes(x, p, j)
  BY <1>1 DEF Comes, Arriving, FlitOn
<1>6. \A p \in Pids : \A j : Due(p, j)' <=> Due(p, j)
  BY <1>1, Outward DEF Due
<1>7. InTurn'
  <2>1. \A x \in InVcs : /\ \A k \in 1 .. Len(fifo[x]) : fifo[x][k].pid \in Pids
                         /\ x \in Arriving(inFlit) => FlitOn(inFlit, x).pid \in Pids
    <3> TAKE x \in InVcs
    <3> DEFINE q == fifo[x]
    <3>1. q \in Seq(Flit)
      BY DEF Typed
    <3> HIDE DEF q
    <3>2. \A k \in 1 .. Len(q) : q[k] \in Flit
      BY <3>1
    <3>3. \A k \in 1 .. Len(q) : q[k].pid \in Pids
      BY <3>2, FlitFields
    <3>4. x \in Arriving(inFlit) => FlitOn(inFlit, x).pid \in Pids
      BY ArrivingFacts, FlitFields DEF Typed
    <3> QED BY <3>3, <3>4 DEF q
  <2>2. ASSUME NEW x \in InVcs
        PROVE  /\ \A p, j : Comes(x, p, j)' => Due(p, j)'
               /\ \A k \in 1 .. Len(fifo'[x]) : IsHead(fifo'[x][k]) => Due(fifo[x][k].pid, 1)'
               /\ x \in Arriving(inFlit') /\ IsHead(FlitOn(inFlit', x)) =>
                    Due(FlitOn(inFlit, x).pid, 1)'
    <3>1. \A p, j : Comes(x, p, j)' => Due(p, j)'
      BY <1>1, <1>5, <1>6, ComesFacts DEF InTurn
    <3> QED BY <1>1, <1>6, <2>1, <3>1 DEF InTurn
  <2> QED BY <1>1, <1>6, <2>2 DEF InTurn
<1> QED BY <1>3, <1>4, <1>5, <1>7

\* Then the invariant holds if also nobody takes or gives up an output VC.
LEMMA KeepingOrder ==
  ASSUME Typed, OrderInv, Keeping, Counts', Going',
         \A o \in Outputs, w \in Vcs, x \in InVcs : Holds(x, o, w)' <=> Holds(x, o, w)
  PROVE  OrderInv'
<1>1. /\ Single' /\ HeadsFirst' /\ InTurn'
      /\ \A x \in InVcs : \A p, j : Comes(x, p, j)' <=> Comes(x, p, j)
  BY KeepingStep
<1>2. \A o \in Outputs, w \in Vcs : \A e : Opens(o, w, e)' <=> Opens(o, w, e)
  BY DEF Keeping
<1>3. Opened'
  BY <1>1, <1>2 DEF OrderInv, Opened
<1> QED BY <1>1, <1>3 DEF OrderInv

LEMMA StandingStep ==
  ASSUME Typed, OrderInv, Standing
  PROVE  Keeping /\ Counts' /\ Going'
<1>1. /\ Counts /\ Going
      /\ UNCHANGED <<pkt, fifo, inFlit, feed, started, open, progress>>
      /\ \A o \in Outputs : Under(o)' = Under(o)
  BY DEF OrderInv, Standing
<1>2. Counts' /\ Going'
  BY <1>1 DEF Counts, Going, IsHead
<1>3. \A o \in Outputs : \A p : Left(p, o)' = Left(p, o)
  BY <1>1 DEF Left
<1>4. \A o \in Outputs, w \in Vcs : \A e : Opens(o, w, e)' <=> Opens(o, w, e)
  BY <1>1 DEF Opens
<1> QED BY <1>1, <1>2, <1>3, <1>4 DEF Keeping

\* A new packet holds no output VC yet, and nothing of it has left.
LEMMA AllocateOrder ==
  ASSUME InputInv, OutputInv, OrderInv,
         NEW pick \in [vcQ -> [Outputs -> Vcs]], VCAllocEvaluate(pick)
  PROVE  OrderInv'
<1> DEFINE eligible == {x \in vcQ : CanTake(x, pick)}
           req == [x \in eligible |-> {<<o, pick[x][o]>> : o \in Route(x)}]
           granted == Allocate(req)
<1>1. /\ Typed /\ Fronted /\ Queued /\ Resolved /\ Passing /\ Owned
  BY DEF InputInv, OutputInv
<1>2. /\ pc = "vc_evaluate"
      /\ vcRes' = [x \in vcQ |-> x \in granted]
      /\ outs' = [x \in InVcs |-> IF x \in granted THEN [o \in Route(x) |-> pick[x][o]]
                                  ELSE outs[x]]
      /\ UNCHANGED <<pkt, inFlit, fifo, state, crossbar, outBuf, feed, started, open, progress>>
  BY DEF VCAllocEvaluate, upstream, history
<1>3. Standing
  BY <1>2 DEF Standing, Under
<1>4. /\ Counts' /\ Single' /\ HeadsFirst' /\ InTurn' /\ Going'
      /\ \A o \in Outputs, w \in Vcs : \A e : Opens(o, w, e)' <=> Opens(o, w, e)
      /\ \A x \in InVcs : \A p, j : Comes(x, p, j)' <=> Comes(x, p, j)
  BY <1>1, <1>3, StandingStep, KeepingStep DEF Keeping
<1>5. /\ DOMAIN req = eligible /\ eligible \subseteq vcQ
      /\ \A x \in eligible : CanTake(x, pick) /\ x \in InVcs
  BY <1>1 DEF Queued
<1>6. granted \subseteq eligible
  <2>1. DOMAIN req \subseteq InVcs
    BY <1>5
  <2> HIDE DEF req, eligible
  <2> QED BY <1>5, <2>1, AllocateFacts
<1> HIDE DEF req, eligible, granted
\* An output VC that is held after the step was held before by the same input
\* VC, or is granted to one whose packet has its head in front.
<1>7. ASSUME NEW o \in Outputs, NEW w \in Vcs, NEW x \in InVcs, Holds(x, o, w)'
      PROVE  \/ Holds(x, o, w)
             \/ /\ nextBuf[o].inUseBy[w] = None
                /\ state[x] = "vc_alloc"
  <2>1. Holds(x, o, w) <=> state[x] = "active" /\ o \in DOMAIN outs[x] /\ outs[x][o] = w
    BY <1>1, <1>2 DEF Holds, Resolved
  <2>2. CASE x \notin granted
    <3>1. outs'[x] = outs[x] /\ state'[x] = "active" /\ state'[x] = state[x]
      BY <1>2, <1>7, <2>2 DEF Holds
    <3> QED BY <1>7, <2>1, <3>1 DEF Holds
  <2>3. CASE x \in granted
    <3>1. x \in vcQ /\ CanTake(x, pick)
      BY <1>5, <1>6, <2>3
    <3>2. outs'[x] = [p \in Route(x) |-> pick[x][p]]
      BY <1>2, <2>3
    <3>3. o \in Route(x) /\ w = pick[x][o]
      BY <1>7, <3>2 DEF Holds
    <3>4. nextBuf[o].inUseBy[w] = None
      BY <3>1, <3>3 DEF CanTake, IsAvailableFor
    <3> QED BY <1>1, <3>1, <3>4 DEF Queued
  <2> QED BY <2>2, <2>3
<1>8. ASSUME NEW o \in Outputs, NEW w \in Vcs, NEW x \in InVcs, Holds(x, o, w)
      PROVE  Holds(x, o, w)'
  <2>1. state[x] = "active" /\ x \notin vcQ
    BY <1>1, <1>2, <1>8 DEF Holds, Resolved, Queued
  <2>2. x \notin granted
    BY <1>5, <1>6, <2>1
  <2> QED BY <1>2, <1>8, <2>1, <2>2 DEF Holds
<1>9. Opened'
  <2> SUFFICES ASSUME NEW o \in Outputs, NEW w \in Vcs
               PROVE  /\ (\A x \in InVcs : ~Holds(x, o, w)') => Opens(o, w, None)'
                      /\ \A x \in InVcs : Holds(x, o, w)' =>
                           \A p, j : Comes(x, p, j)' => Opens(o, w, IF j = 1 THEN None ELSE p)'
    BY DEF Opened
  <2>1. /\ (\A x \in InVcs : ~Holds(x, o, w)) => Opens(o, w, None)
        /\ \A x \in InVcs : Holds(x, o, w) =>
             \A p, j : Comes(x, p, j) => Opens(o, w, IF j = 1 THEN None ELSE p)
    BY DEF OrderInv, Opened
  <2>2. (\A x \in InVcs : ~Holds(x, o, w)') => Opens(o, w, None)'
    BY <1>4, <1>8, <2>1
  <2>3. ASSUME NEW x \in InVcs, Holds(x, o, w)', NEW p, NEW j, Comes(x, p, j)'
        PROVE  Opens(o, w, IF j = 1 THEN None ELSE p)'
    <3>1. Comes(x, p, j)
      BY <1>4, <2>3
    <3>2. CASE Holds(x, o, w)
      <4>1. Opens(o, w, IF j = 1 THEN None ELSE p)
        BY <2>1, <3>1, <3>2
      <4> QED BY <1>4, <4>1
    <3>3. CASE nextBuf[o].inUseBy[w] = None /\ state[x] = "vc_alloc"
      <4>1. \A y \in InVcs : ~Holds(y, o, w)
        BY <1>1, <3>3, MCRouterAssumption DEF Owned
      <4>2. j = 1
        BY <1>1, <3>1, <3>3 DEF Fronted, Comes, IsHead, Front
      <4>3. Opens(o, w, None)
        BY <2>1, <4>1
      <4> QED BY <1>4, <4>2, <4>3
    <3> QED BY <1>7, <2>3, <3>2, <3>3
  <2> QED BY <2>2, <2>3
<1> QED BY <1>4, <1>9 DEF OrderInv

-----------------------------------------------------------------------------
(***************************************************************************)
(* Flits that come in.                                                     *)
(***************************************************************************)
\* Away from the crossbar and the output buffers nothing is on its way.
LEMMA NoneUnder ==
  ASSUME InputInv, OutputInv, pc \notin {"switch", "write"}, NEW o \in Outputs
  PROVE  Under(o) = {}
<1>1. crossbar = {} /\ outBuf[o] = <<>>
  BY DEF InputInv, Passing, OutputInv, OneEach
<1>2. Range(<<>>) = {}
  BY DEF Range
<1> QED BY <1>1, <1>2 DEF Under

\* A flit that comes in is the next of the packet on its VC, or the head of a
\* packet of which nothing has been seen.
LEMMA ReceiveOrder ==
  ASSUME InputInv, OutputInv, OrderInv, NEW A \in Arrivals, NEW C \in Credited,
         ReadInputs(A, C)
  PROVE  OrderInv'
<1>1. /\ Typed /\ Chained /\ Resolved /\ Passing
      /\ Counts /\ Single /\ HeadsFirst /\ InTurn /\ Opened /\ Going
  BY DEF InputInv, OrderInv
<1>2. /\ pc = "read" /\ inFlit' = A
      /\ feed' = [x \in InVcs |->
                    IF x \notin Arriving(A) THEN feed[x]
                    ELSE IF IsTail(FlitOn(A, x)) THEN Idle ELSE FlitOn(A, x)]
      /\ started' = started \cup {A[x[1]].pid : x \in Arriving(A)}
      /\ UNCHANGED <<pkt, fifo, state, outs, vcRes, crossbar, outBuf, open, progress>>
  BY DEF ReadInputs, queues, history
<1>3. A \in [Inputs -> InFlit \cup {None}]
  BY <1>1, ArrivalFacts
<1>4. Arriving(inFlit) = {} /\ Arriving(inFlit') = Arriving(A)
      /\ \A x : FlitOn(inFlit', x) = FlitOn(A, x)
  BY <1>1, <1>2, NoneArriving DEF Passing
<1>5. ASSUME NEW x \in Arriving(A)
      PROVE  /\ x \in InVcs /\ FlitOn(A, x) \in Flit /\ FlitOn(A, x).pid \in Pids
             /\ FlitOn(A, x).idx \in Nat \ {0}
             /\ FlitOn(A, x).pid = A[x[1]].pid
             /\ feed'[x] \in {Idle, FlitOn(A, x)}
             /\ feed[x] = Idle => /\ FlitOn(A, x).pid \notin started
                                  /\ pkt[FlitOn(A, x).pid].in = x[1]
                                  /\ FlitOn(A, x).idx = 1
             /\ feed[x] # Idle => /\ FlitOn(A, x).pid = feed[x].pid
                                  /\ FlitOn(A, x).idx = feed[x].idx + 1
                                  /\ FlitOn(A, x).idx # 1
  <2> DEFINE f == FlitOn(A, x)
             e == feed[x]
  <2>1. x \in InVcs /\ f \in Flit /\ f.pid = A[x[1]].pid
    BY <1>3, ArrivingFacts
  <2>2. f.pid \in Pids /\ f.idx \in Nat \ {0}
    BY <2>1, FlitFields
  <2>3. feed'[x] \in {Idle, f}
    BY <1>2, <2>1
  <2>4. /\ f.idx = e.idx + 1
        /\ IF e = Idle THEN f.pid \notin started /\ pkt[f.pid].in = x[1]
           ELSE f.pid = e.pid
    BY <1>1, ArrivalFacts
  <2>5. e \in Flit \cup {Idle}
    BY <1>1, <2>1 DEF Typed
  <2> HIDE DEF f, e
  <2>6. e # Idle => f.idx # 1
    BY <2>4, <2>5, FlitFields
  <2>7. e = Idle => f.idx = 1
    BY <2>4 DEF Idle
  <2> QED BY <2>1, <2>2, <2>3, <2>4, <2>6, <2>7 DEF f, e
<1>6. \A x \in InVcs : x \notin Arriving(A) => feed'[x] = feed[x]
  BY <1>2
\* Who carries a packet after the step.
<1>7. ASSUME NEW x \in InVcs, NEW p, Carries(x, p)'
      PROVE  \/ Carries(x, p)
             \/ x \in Arriving(A) /\ feed[x] = Idle /\ p = FlitOn(A, x).pid
  <2>1. CASE x \notin Arriving(A)
    BY <1>2, <1>4, <1>6, <1>7, <2>1 DEF Carries
  <2>2. CASE x \in Arriving(A)
    <3>1. (\E k \in 1 .. Len(fifo[x]) : fifo[x][k].pid = p) \/ p = FlitOn(A, x).pid
      BY <1>2, <1>4, <1>5, <1>7, <2>2 DEF Carries
    <3> QED BY <1>5, <2>2, <3>1 DEF Carries
  <2> QED BY <2>1, <2>2
<1>8. Counts'
  BY <1>1, <1>2 DEF Counts
<1>9. \A p : p \in started => p \in started'
  BY <1>2
<1>10. \A x \in Arriving(A) : FlitOn(A, x).pid \in started'
  BY <1>2, <1>5
<1>11. Single'
  <2> SUFFICES ASSUME NEW x \in InVcs, NEW p \in Pids, Carries(x, p)'
               PROVE  p \in started' /\ \A y \in InVcs : Carries(y, p)' => y = x
    BY DEF Single
  <2>1. p \in started'
    BY <1>1, <1>7, <1>9, <1>10 DEF Single
  <2>2. ASSUME NEW y \in InVcs, Carries(y, p)'
        PROVE  y = x
    <3>1. CASE Carries(x, p)
      <4>1. p \in started
        BY <1>1, <3>1 DEF Single
      <4>2. Carries(y, p)
        BY <1>5, <1>7, <2>2, <4>1
      <4> QED BY <1>1, <3>1, <4>2 DEF Single
    <3>2. CASE x \in Arriving(A) /\ feed[x] = Idle /\ p = FlitOn(A, x).pid
      <4>1. p \notin started /\ pkt[p].in = x[1]
        BY <1>5, <3>2
      <4>2. ~Carries(y, p)
        BY <1>1, <4>1 DEF Single
      <4>3. y \in Arriving(A) /\ feed[y] = Idle /\ p = FlitOn(A, y).pid
        BY <1>7, <2>2, <4>2
      <4>4. x[1] = y[1]
        BY <1>5, <4>1, <4>3
      <4>5. /\ x = <<x[1], x[2]>> /\ A[x[1]].vc = x[2]
            /\ y = <<y[1], y[2]>> /\ A[y[1]].vc = y[2]
        BY <1>3, <3>2, <4>3, ArrivingFacts
      <4> QED BY <4>4, <4>5
    <3> QED BY <1>7, <3>1, <3>2
  <2> QED BY <2>1, <2>2
<1>12. HeadsFirst'
  <2> SUFFICES ASSUME NEW x \in InVcs
               PROVE  /\ \A m \in 1 .. Len(fifo[x]) : IsHead(fifo[x][m]) =>
                           \A k \in 1 .. m - 1 : fifo[x][k].pid # fifo[x][m].pid
                      /\ x \in Arriving(A) /\ IsHead(FlitOn(A, x)) =>
                           \A k \in 1 .. Len(fifo[x]) : fifo[x][k].pid # FlitOn(A, x).pid
    BY <1>2, <1>4 DEF HeadsFirst, IsHead
  <2>1. ASSUME x \in Arriving(A), IsHead(FlitOn(A, x)), NEW k \in 1 .. Len(fifo[x])
        PROVE  fifo[x][k].pid # FlitOn(A, x).pid
    <3>1. FlitOn(A, x).pid \in Pids \ started
      BY <1>5, <2>1 DEF IsHead
    <3>2. ~Carries(x, FlitOn(A, x).pid)
      BY <1>1, <3>1 DEF Single
    <3> QED BY <3>2 DEF Carries
  <2> QED BY <1>1, <2>1 DEF HeadsFirst
<1>13. \A o \in Outputs : Under(o)' = Under(o)
  BY <1>2 DEF Under
<1>14. /\ \A o \in Outputs : \A p : Left(p, o)' = Left(p, o)
       /\ \A o \in Outputs, w \in Vcs : \A e : Opens(o, w, e)' <=> Opens(o, w, e)
  BY <1>2, <1>13 DEF Left, Opens
<1>15. \A p \in Pids : \A j : Due(p, j)' <=> Due(p, j)
  BY <1>1, <1>2, <1>14, Outward DEF Due
\* What comes next on an input VC is what came next before, if anything did.
<1>16. ASSUME NEW x \in InVcs, NEW p, NEW j, Comes(x, p, j)'
       PROVE  \/ Comes(x, p, j)
              \/ x \in Arriving(A) /\ feed[x] = Idle /\ fifo[x] = <<>>
                   /\ p \in Pids \ started /\ j = 1
  <2>1. CASE fifo[x] # <<>>
    BY <1>2, <1>16, <2>1 DEF Comes
  <2>2. CASE fifo[x] = <<>> /\ x \notin Arriving(A)
    BY <1>2, <1>4, <1>6, <1>16, <2>2 DEF Comes
  <2>3. CASE fifo[x] = <<>> /\ x \in Arriving(A)
    <3>1. p = FlitOn(A, x).pid /\ j = FlitOn(A, x).idx
      BY <1>2, <1>4, <1>16, <2>3 DEF Comes
    <3> QED BY <1>4, <1>5, <2>3, <3>1 DEF Comes
  <2> QED BY <2>1, <2>2, <2>3
<1>17. InTurn'
  <2>1. \A p \in Pids \ started' : Due(p, 1)'
    BY <1>1, <1>9, <1>15 DEF InTurn
  <2>2. ASSUME NEW x \in InVcs
        PROVE  /\ \A p, j : Comes(x, p, j)' => Due(p, j)'
               /\ \A k \in 1 .. Len(fifo[x]) : IsHead(fifo[x][k]) => Due(fifo[x][k].pid, 1)'
               /\ x \in Arriving(A) /\ IsHead(FlitOn(A, x)) => Due(FlitOn(A, x).pid, 1)'
    <3>1. ASSUME NEW p, NEW j, Comes(x, p, j)'
          PROVE  Due(p, j)'
      <4>1. CASE Comes(x, p, j)
        <5>1. p \in Pids /\ Due(p, j)
          BY <1>1, <4>1, ComesFacts DEF InTurn
        <5> QED BY <1>15, <5>1
      <4>2. CASE p \in Pids \ started /\ j = 1
        BY <1>1, <1>15, <4>2 DEF InTurn
      <4> QED BY <1>16, <3>1, <4>1, <4>2
    <3>2. ASSUME NEW k \in 1 .. Len(fifo[x]), IsHead(fifo[x][k])
          PROVE  Due(fifo[x][k].pid, 1)'
      <4> DEFINE q == fifo[x]
                 f == q[k]
      <4>1. q \in Seq(Flit) /\ k \in 1 .. Len(q)
        BY <1>1 DEF Typed
      <4>2. f \in Flit
        <5> HIDE DEF q
        <5> QED BY <4>1
      <4>3. Due(f.pid, 1)
        BY <1>1, <3>2 DEF InTurn
      <4>4. f.pid \in Pids
        <5> HIDE DEF f
        <5> QED BY <4>2, FlitFields
      <4> QED BY <1>2, <1>15, <4>3, <4>4
    <3>3. ASSUME x \in Arriving(A), IsHead(FlitOn(A, x))
          PROVE  Due(FlitOn(A, x).pid, 1)'
      <4>1. FlitOn(A, x).pid \in Pids \ started
        BY <1>5, <3>3 DEF IsHead
      <4> QED BY <1>1, <1>15, <4>1 DEF InTurn
    <3> QED BY <3>1, <3>2, <3>3
  <2> QED BY <1>2, <1>4, <2>1, <2>2 DEF InTurn, IsHead
<1>18. \A x \in InVcs, o \in Outputs, w \in Vcs : Holds(x, o, w)' <=> Holds(x, o, w)
  BY <1>2 DEF Holds
<1>19. \A x \in InVcs, o \in Outputs, w \in Vcs :
         Holds(x, o, w) => ~(fifo[x] = <<>> /\ feed[x] = Idle)
  BY <1>1, <1>2, <1>4 DEF Holds, Resolved, Chained
<1>20. Opened'
  <2> SUFFICES ASSUME NEW o \in Outputs, NEW w \in Vcs
               PROVE  /\ (\A x \in InVcs : ~Holds(x, o, w)') => Opens(o, w, None)'
                      /\ \A x \in InVcs : Holds(x, o, w)' =>
                           \A p, j : Comes(x, p, j)' => Opens(o, w, IF j = 1 THEN None ELSE p)'
    BY DEF Opened
  <2>1. /\ (\A x \in InVcs : ~Holds(x, o, w)) => Opens(o, w, None)
        /\ \A x \in InVcs : Holds(x, o, w) =>
             \A p, j : Comes(x, p, j) => Opens(o, w, IF j = 1 THEN None ELSE p)
    BY <1>1 DEF Opened
  <2> QED BY <1>14, <1>16, <1>18, <1>19, <2>1
<1>21. Going'
  BY <1>1, <1>2, <1>13 DEF Going, IsHead
<1> QED BY <1>8, <1>11, <1>12, <1>17, <1>20, <1>21 DEF OrderInv

\* A flit that enters its VC buffer is as near to leaving as before.
LEMMA DispatchOrder ==
  ASSUME InputInv, OutputInv, OrderInv, FlitDispatch
  PROVE  OrderInv'
<1> DEFINE new == Arriving(inFlit)
<1>1. /\ Typed /\ Chained /\ Resolved /\ Passing
      /\ Counts /\ Single /\ HeadsFirst /\ InTurn /\ Opened /\ Going
  BY DEF InputInv, OrderInv
<1>2. /\ pc = "dispatch"
      /\ fifo' = [x \in InVcs |-> IF x \in new THEN Append(fifo[x], FlitOn(inFlit, x))
                                  ELSE fifo[x]]
      /\ state' = [x \in InVcs |-> IF x \in new /\ state[x] = "idle" THEN "routing"
                                   ELSE state[x]]
      /\ inFlit' = [i \in Inputs |-> None]
      /\ UNCHANGED <<pkt, outs, vcRes, crossbar, outBuf, feed, started, open, progress>>
  BY DEF FlitDispatch, upstream, history
<1>3. \A x \in new : x \in InVcs /\ FlitOn(inFlit, x) \in Flit
  BY <1>1, ArrivingFacts DEF Typed
<1>4. Arriving(inFlit') = {}
  BY <1>2 DEF Arriving
<1> HIDE DEF new
<1>5. \A x \in InVcs : x \notin new => fifo'[x] = fifo[x]
  BY <1>2
\* A flit that arrives is added behind the others.
<1>6. ASSUME NEW x \in InVcs
      PROVE  /\ Len(fifo[x]) \in Nat /\ fifo[x] # <<>> <=> Len(fifo[x]) # 0
             /\ \A k \in 1 .. Len(fifo[x]) : fifo[x][k].pid \in Pids
             /\ x \in new =>
                  /\ Len(fifo'[x]) = Len(fifo[x]) + 1 /\ fifo'[x] # <<>>
                  /\ \A k \in 1 .. Len(fifo[x]) : fifo'[x][k] = fifo[x][k]
                  /\ fifo'[x][Len(fifo[x]) + 1] = FlitOn(inFlit, x)
                  /\ FlitOn(inFlit, x).pid \in Pids
  <2> DEFINE f == FlitOn(inFlit, x)
             q == fifo[x]
             r == fifo'[x]
  <2>1. q \in Seq(Flit) /\ (x \in new => f \in Flit /\ r = Append(q, f))
    BY <1>1, <1>2, <1>3 DEF Typed
  <2> HIDE DEF q, r, f
  <2>2. Len(q) \in Nat /\ (q # <<>> <=> Len(q) # 0)
    BY <2>1
  <2>3. \A k \in 1 .. Len(q) : q[k].pid \in Pids
    <3>1. \A k \in 1 .. Len(q) : q[k] \in Flit
      BY <2>1
    <3> QED BY <3>1, FlitFields
  <2>4. ASSUME x \in new
        PROVE  /\ Len(r) = Len(q) + 1 /\ r # <<>>
               /\ \A k \in 1 .. Len(q) : r[k] = q[k]
               /\ r[Len(q) + 1] = f
    BY <2>1, <2>4
  <2>5. x \in new => f.pid \in Pids
    BY <2>1, FlitFields
  <2> QED BY <2>2, <2>3, <2>4, <2>5 DEF f, q, r
<1>7. ASSUME NEW x \in InVcs, NEW p, Carries(x, p)'
      PROVE  Carries(x, p)
  <2>1. CASE x \notin new
    BY <1>2, <1>4, <1>5, <1>7, <2>1 DEF Carries
  <2>2. CASE x \in new
    <3>1. CASE feed[x] # Idle /\ feed[x].pid = p
      BY <3>1 DEF Carries
    <3>2. CASE \E k \in 1 .. Len(fifo'[x]) : fifo'[x][k].pid = p
      <4>1. PICK k \in 1 .. Len(fifo'[x]) : fifo'[x][k].pid = p
        BY <3>2
      <4>2. k \in 1 .. Len(fifo[x]) \/ k = Len(fifo[x]) + 1
        BY <1>6, <2>2
      <4>3. CASE k \in 1 .. Len(fifo[x])
        BY <1>6, <2>2, <4>1, <4>3 DEF Carries
      <4>4. CASE k = Len(fifo[x]) + 1
        BY <1>6, <2>2, <4>1, <4>4 DEF Carries, new
      <4> QED BY <4>2, <4>3, <4>4
    <3> QED BY <1>2, <1>4, <1>7, <3>1, <3>2 DEF Carries
  <2> QED BY <2>1, <2>2
<1>8. ASSUME NEW x \in InVcs, NEW p, NEW j, Comes(x, p, j)'
      PROVE  Comes(x, p, j)
  <2>1. CASE x \notin new
    BY <1>2, <1>4, <1>5, <1>8, <2>1 DEF Comes, new
  <2>2. CASE x \in new /\ fifo[x] = <<>>
    <3>1. fifo'[x] # <<>> /\ fifo'[x][1] = FlitOn(inFlit, x)
      <4>1. Len(fifo[x]) = 0 /\ 0 + 1 = 1
        BY <1>6, <2>2
      <4> QED BY <1>6, <2>2, <4>1
    <3> QED BY <1>8, <2>2, <3>1 DEF Comes, new
  <2>3. CASE x \in new /\ fifo[x] # <<>>
    <3>1. fifo'[x] # <<>> /\ fifo'[x][1] = fifo[x][1]
      <4>1. 1 \in 1 .. Len(fifo[x])
        BY <1>6, <2>3
      <4> QED BY <1>6, <2>3, <4>1
    <3> QED BY <1>8, <2>3, <3>1 DEF Comes
  <2> QED BY <2>1, <2>2, <2>3
<1>9. Counts' /\ Single'
  BY <1>1, <1>2, <1>7 DEF Counts, Single
<1>10. HeadsFirst'
  <2> SUFFICES ASSUME NEW x \in InVcs, NEW m \in 1 .. Len(fifo'[x]), IsHead(fifo'[x][m]),
                      NEW k \in 1 .. m - 1
               PROVE  fifo'[x][k].pid # fifo'[x][m].pid
    BY <1>4 DEF HeadsFirst, IsHead
  <2>1. CASE x \notin new
    BY <1>1, <1>5, <2>1 DEF HeadsFirst
  <2>2. CASE x \in new /\ m \in 1 .. Len(fifo[x])
    <3>1. k \in 1 .. Len(fifo[x]) /\ fifo'[x][m] = fifo[x][m]
      BY <1>6, <2>2
    <3>2. fifo'[x][k] = fifo[x][k]
      BY <1>6, <2>2, <3>1
    <3> QED BY <1>1, <2>2, <3>1, <3>2 DEF HeadsFirst
  <2>3. CASE x \in new /\ m = Len(fifo[x]) + 1
    <3>1. k \in 1 .. Len(fifo[x]) /\ fifo'[x][m] = FlitOn(inFlit, x)
      BY <1>6, <2>3
    <3>2. fifo'[x][k] = fifo[x][k]
      BY <1>6, <2>3, <3>1
    <3> QED BY <1>1, <2>3, <3>1, <3>2 DEF HeadsFirst, new
  <2>4. x \in new => m \in 1 .. Len(fifo[x]) \/ m = Len(fifo[x]) + 1
    BY <1>6
  <2> QED BY <2>1, <2>2, <2>3, <2>4
<1>11. \A o \in Outputs : Under(o)' = Under(o)
  BY <1>2 DEF Under
<1>12. /\ \A o \in Outputs : \A p : Left(p, o)' = Left(p, o)
       /\ \A o \in Outputs, w \in Vcs : \A e : Opens(o, w, e)' <=> Opens(o, w, e)
  BY <1>2, <1>11 DEF Left, Opens
<1>13. \A p \in Pids : \A j : Due(p, j)' <=> Due(p, j)
  BY <1>1, <1>2, <1>12, Outward DEF Due
<1>14. InTurn'
  <2>1. \A p \in Pids \ started' : Due(p, 1)'
    BY <1>1, <1>2, <1>13 DEF InTurn
  <2>2. ASSUME NEW x \in InVcs, NEW p, NEW j, Comes(x, p, j)'
        PROVE  Due(p, j)'
    <3>1. p \in Pids /\ Due(p, j)
      BY <1>1, <1>8, <2>2, ComesFacts DEF InTurn
    <3> QED BY <1>13, <3>1
  <2>3. ASSUME NEW x \in InVcs, NEW k \in 1 .. Len(fifo'[x]), IsHead(fifo'[x][k]),
               NEW p, p = fifo'[x][k].pid
        PROVE  Due(p, 1)'
    <3>1. CASE x \notin new
      <4>1. p \in Pids /\ Due(p, 1)
        BY <1>1, <1>5, <1>6, <2>3, <3>1 DEF InTurn
      <4> QED BY <1>13, <4>1
    <3>2. CASE x \in new /\ k \in 1 .. Len(fifo[x])
      <4>1. p \in Pids /\ Due(p, 1)
        BY <1>1, <1>6, <2>3, <3>2 DEF InTurn
      <4> QED BY <1>13, <4>1
    <3>3. CASE x \in new /\ k = Len(fifo[x]) + 1
      <4>1. p \in Pids /\ Due(p, 1)
        BY <1>1, <1>6, <2>3, <3>3 DEF InTurn, new
      <4> QED BY <1>13, <4>1
    <3>4. x \in new => k \in 1 .. Len(fifo[x]) \/ k = Len(fifo[x]) + 1
      BY <1>6, <2>3
    <3> QED BY <3>1, <3>2, <3>3, <3>4
  <2>4. \A x \in InVcs : \A k \in 1 .. Len(fifo'[x]) :
          IsHead(fifo'[x][k]) => Due(fifo[x][k].pid, 1)'
    BY <2>3
  <2> QED BY <1>4, <2>1, <2>2, <2>4 DEF InTurn, IsHead
<1>15. \A x \in InVcs, o \in Outputs, w \in Vcs : Holds(x, o, w)' <=> Holds(x, o, w)
  <2>1. \A x \in InVcs : state'[x] = "active" <=> state[x] = "active"
    BY <1>2
  <2> QED BY <1>2, <2>1 DEF Holds
<1>16. Opened'
  <2> SUFFICES ASSUME NEW o \in Outputs, NEW w \in Vcs
               PROVE  /\ (\A x \in InVcs : ~Holds(x, o, w)') => Opens(o, w, None)'
                      /\ \A x \in InVcs : Holds(x, o, w)' =>
                           \A p, j : Comes(x, p, j)' => Opens(o, w, IF j = 1 THEN None ELSE p)'
    BY DEF Opened
  <2>1. /\ (\A x \in InVcs : ~Holds(x, o, w)) => Opens(o, w, None)
        /\ \A x \in InVcs : Holds(x, o, w) =>
             \A p, j : Comes(x, p, j) => Opens(o, w, IF j = 1 THEN None ELSE p)
    BY <1>1 DEF Opened
  <2> QED BY <1>8, <1>12, <1>15, <2>1
<1>17. Going'
  BY <1>1, <1>2, <1>11 DEF Going, IsHead
<1> QED BY <1>9, <1>10, <1>14, <1>16, <1>17 DEF OrderInv

-----------------------------------------------------------------------------
(***************************************************************************)
(* Flits that go into the crossbar.                                        *)
(***************************************************************************)
\* Input VC x sends its front flit to output o, in the copy that is made of it.
Sends(x, o) == x \in Granted(swRes) /\ o \in DOMAIN outs[x]
CopyFrom(x, o) == [in |-> x[1], out |-> o, vc |-> outs[x][o], flit |-> Front(x)]

LEMMA SenderFacts ==
  ASSUME InputInv, NEW x \in Granted(swRes)
  PROVE  /\ x \in InVcs /\ state[x] = "active" /\ fifo[x] # <<>>
         /\ Front(x) = fifo[x][1] /\ Front(x) \in Flit
         /\ Front(x).pid \in Pids /\ Front(x).idx \in Nat \ {0}
         /\ DOMAIN outs[x] = pkt[Front(x).pid].outs /\ DOMAIN outs[x] \subseteq Outputs
         /\ \A o \in DOMAIN outs[x] : outs[x][o] \in Vcs /\ Holds(x, o, outs[x][o])
         /\ Comes(x, Front(x).pid, Front(x).idx) /\ Carries(x, Front(x).pid)
<1>1. Typed /\ Fronted /\ Queued /\ Resolved
  BY DEF InputInv
<1>2. x \in InVcs /\ state[x] = "active" /\ fifo[x] # <<>>
  BY <1>1 DEF Granted, Resolved, Queued
<1>3. Front(x) = fifo[x][1] /\ Front(x) \in Flit
  <2>1. fifo[x] \in Seq(Flit)
    BY <1>1, <1>2 DEF Typed
  <2> QED BY <1>1, <1>2, <2>1, RouteFacts
<1>4. Front(x).pid \in Pids /\ Front(x).idx \in Nat \ {0}
  BY <1>3, FlitFields
<1>5. DOMAIN outs[x] = pkt[Front(x).pid].outs
  BY <1>1, <1>2 DEF Fronted, Route
<1>6. /\ DOMAIN outs[x] \subseteq Outputs
      /\ \A o \in DOMAIN outs[x] : outs[x][o] \in Vcs /\ Holds(x, o, outs[x][o])
  BY <1>1, <1>2 DEF Typed, Holds
<1>7. Comes(x, Front(x).pid, Front(x).idx)
  BY <1>2, <1>3 DEF Comes
<1>8. Carries(x, Front(x).pid)
  BY <1>1, <1>2, <1>7, ComesFacts
<1> QED BY <1>2, <1>3, <1>4, <1>5, <1>6, <1>7, <1>8

\* After the step the copies are on their way, at most one per output.
LEMMA SendUnder ==
  ASSUME InputInv, OutputInv, SWAllocUpdate, NEW o \in Outputs
  PROVE  /\ Under(o) = {}
         /\ \A x : Sends(x, o) => Under(o)' = {CopyFrom(x, o)}
         /\ (\A x : ~Sends(x, o)) => Under(o)' = {}
<1>1. /\ pc = "sw_update" /\ outBuf' = outBuf
      /\ crossbar' = UNION {{CopyFrom(x, p) : p \in DOMAIN outs[x]} : x \in Granted(swRes)}
  BY DEF SWAllocUpdate, CopyFrom
<1>2. Under(o) = {}
  BY <1>1, NoneUnder
<1>3. outBuf'[o] = <<>> /\ Range(<<>>) = {}
  BY <1>1 DEF OutputInv, OneEach, Range
<1>4. Under(o)' = {c \in crossbar' : c.out = o}
  BY <1>3 DEF Under
<1>5. \A x, p : CopyFrom(x, p).out = p
  BY DEF CopyFrom
<1>6. \A c : c \in Under(o)' <=> \E x : Sends(x, o) /\ c = CopyFrom(x, o)
  BY <1>1, <1>4, <1>5 DEF Sends
<1>7. \A x, y : Sends(x, o) /\ Sends(y, o) => x = y
  BY DEF OutputInv, Ready, Sends
<1> QED BY <1>2, <1>6, <1>7

\* How far the packets are after the step, and what is open.
LEMMA SendCounts ==
  ASSUME InputInv, OutputInv, SWAllocUpdate, NEW o \in Outputs
  PROVE  /\ \A p : Left(p, o) = progress[p][o]
         /\ \A x, p : Sends(x, o) /\ p = Front(x).pid => Left(p, o)' = progress[p][o] + 1
         /\ \A p : (\A x : Sends(x, o) => Front(x).pid # p) => Left(p, o)' = progress[p][o]
         /\ \A w, e : Opens(o, w, e) <=> e = open[<<o, w>>]
         /\ \A x, w, e : Sends(x, o) /\ w = outs[x][o] =>
              (Opens(o, w, e)' <=> e = IF Ends(pkt, Front(x)) THEN None ELSE Front(x).pid)
         /\ \A w, e : (\A x : Sends(x, o) => outs[x][o] # w) =>
              (Opens(o, w, e)' <=> e = open[<<o, w>>])
<1>1. /\ Under(o) = {}
      /\ \A x : Sends(x, o) => Under(o)' = {CopyFrom(x, o)}
      /\ (\A x : ~Sends(x, o)) => Under(o)' = {}
  BY SendUnder
<1>2. UNCHANGED <<pkt, open, progress>>
  BY DEF SWAllocUpdate, history
<1>3. \A x : CopyFrom(x, o).flit = Front(x) /\ CopyFrom(x, o).vc = outs[x][o]
  BY DEF CopyFrom
<1>4. /\ \A p : Left(p, o) = progress[p][o]
      /\ \A w, e : Opens(o, w, e) <=> e = open[<<o, w>>]
  BY <1>1 DEF Left, Opens
<1>5. ASSUME NEW x, Sends(x, o)
      PROVE  /\ \A p : Left(p, o)' = IF Front(x).pid = p THEN progress[p][o] + 1
                                     ELSE progress[p][o]
             /\ \A w, e : Opens(o, w, e)' <=>
                  e = IF outs[x][o] = w
                      THEN IF Ends(pkt, Front(x)) THEN None ELSE Front(x).pid
                      ELSE open[<<o, w>>]
  <2>1. Under(o)' = {CopyFrom(x, o)}
    BY <1>1, <1>5
  <2>2. \A p : (\E c \in Under(o)' : c.flit.pid = p) <=> Front(x).pid = p
    BY <1>3, <2>1
  <2>3. \A p : Left(p, o)' = IF Front(x).pid = p THEN progress[p][o] + 1
                             ELSE progress[p][o]
    BY <1>2, <2>2 DEF Left
  <2>4. ASSUME NEW w, NEW e
        PROVE  Opens(o, w, e)' <=>
                  e = IF outs[x][o] = w
                      THEN IF Ends(pkt, Front(x)) THEN None ELSE Front(x).pid
                      ELSE open[<<o, w>>]
    <3>1. (\E c \in Under(o)' : c.vc = w) <=> outs[x][o] = w
      BY <1>3, <2>1
    <3>2. outs[x][o] = w =>
            ((\A c \in Under(o)' : c.vc = w =>
                e = IF Ends(pkt, c.flit) THEN None ELSE c.flit.pid) <=>
             e = IF Ends(pkt, Front(x)) THEN None ELSE Front(x).pid)
      BY <1>3, <2>1
    <3> QED BY <1>2, <3>1, <3>2 DEF Opens
  <2> QED BY <2>3, <2>4
<1>6. ASSUME \A x : ~Sends(x, o)
      PROVE  /\ \A p : Left(p, o)' = progress[p][o]
             /\ \A w, e : Opens(o, w, e)' <=> e = open[<<o, w>>]
  BY <1>1, <1>2, <1>6 DEF Left, Opens
<1>7. \A x, p : Sends(x, o) /\ p = Front(x).pid => Left(p, o)' = progress[p][o] + 1
  BY <1>5
<1>8. \A p : (\A x : Sends(x, o) => Front(x).pid # p) => Left(p, o)' = progress[p][o]
  BY <1>5, <1>6
<1>9. \A x, w, e : Sends(x, o) /\ w = outs[x][o] =>
        (Opens(o, w, e)' <=> e = IF Ends(pkt, Front(x)) THEN None ELSE Front(x).pid)
  BY <1>5
<1>10. \A w, e : (\A x : Sends(x, o) => outs[x][o] # w) =>
         (Opens(o, w, e)' <=> e = open[<<o, w>>])
  BY <1>5, <1>6
<1> QED BY <1>4, <1>7, <1>8, <1>9, <1>10

\* What is left on an input VC when its front flit has been sent.
LEMMA SendRest ==
  ASSUME InputInv, SWAllocUpdate, NEW x \in Granted(swRes)
  PROVE  /\ Len(fifo[x]) \in Nat /\ Len(fifo'[x]) \in Nat
         /\ \A k \in 1 .. Len(fifo'[x]) :
              k + 1 \in 2 .. Len(fifo[x]) /\ fifo'[x][k] = fifo[x][k + 1]
         /\ \A p, j : Comes(x, p, j)' =>
              \/ ~Ends(pkt, Front(x)) /\ p = Front(x).pid /\ j = Front(x).idx + 1
              \/ /\ Ends(pkt, Front(x)) /\ j = 1
                 /\ \E k \in 1 .. Len(fifo'[x]) : IsHead(fifo'[x][k]) /\ fifo'[x][k].pid = p
<1>1. Typed /\ Chained /\ Passing
  BY DEF InputInv
<1>2. /\ pc = "sw_update" /\ inFlit' = inFlit /\ feed' = feed
      /\ fifo' = [y \in InVcs |-> IF y \in Granted(swRes) THEN Tail(fifo[y]) ELSE fifo[y]]
  BY DEF SWAllocUpdate, upstream
<1>3. Arriving(inFlit) = {}
  BY <1>1, <1>2, NoneArriving DEF Passing
<1>4. /\ x \in InVcs /\ fifo[x] # <<>> /\ Front(x) = fifo[x][1] /\ Front(x) \in Flit
  BY SenderFacts
<1> DEFINE q == fifo[x]
           r == fifo'[x]
           n == Len(q)
           f == Front(x)
<1>5. /\ q \in Seq(Flit) /\ q # <<>> /\ r = Tail(q) /\ f = q[1] /\ f \in Flit
  BY <1>1, <1>2, <1>4 DEF Typed
<1>6. /\ \A k \in 1 .. n - 1 : Follows(pkt, q[k], q[k + 1])
      /\ feed[x] = After(pkt, q[n])
  BY <1>1, <1>3, <1>4 DEF Chained
<1>7. \A p, j : Comes(x, p, j)' <=>
        IF r # <<>> THEN p = r[1].pid /\ j = r[1].idx
        ELSE feed[x] # Idle /\ p = feed[x].pid /\ j = feed[x].idx + 1
  BY <1>2, <1>3 DEF Comes
<1> HIDE DEF q, r, f
<1>8. n \in Nat \ {0} /\ r \in Seq(Flit) /\ Len(r) = n - 1
  BY <1>5
<1>9. \A k \in 1 .. Len(r) : k + 1 \in 2 .. n /\ r[k] = q[k + 1]
  <2> TAKE k \in 1 .. Len(r)
  <2>1. k + 1 \in 2 .. n
    BY <1>8
  <2>2. r[k] = q[k + 1]
    BY <1>5, <1>8
  <2> QED BY <2>1, <2>2
<1>10. ASSUME NEW p, NEW j, Comes(x, p, j)'
       PROVE  \/ ~Ends(pkt, f) /\ p = f.pid /\ j = f.idx + 1
              \/ /\ Ends(pkt, f) /\ j = 1
                 /\ \E k \in 1 .. Len(r) : IsHead(r[k]) /\ r[k].pid = p
  <2>1. CASE r # <<>>
    <3>1. p = r[1].pid /\ j = r[1].idx
      BY <1>7, <1>10, <2>1
    <3>2. Len(r) # 0
      BY <1>8, <2>1, EmptySeq
    <3>3. 1 \in 1 .. Len(r) /\ 1 \in 1 .. n - 1
      BY <1>8, <3>2
    <3>4. 1 + 1 = 2 /\ r[1] = q[2]
      BY <1>9, <3>3
    <3>5. Follows(pkt, f, r[1])
      <4>1. Follows(pkt, q[1], q[1 + 1])
        BY <1>6, <3>3
      <4> QED BY <1>5, <3>4, <4>1
    <3>6. CASE Ends(pkt, f)
      <4>1. IsHead(r[1]) /\ j = 1
        BY <3>1, <3>5, <3>6 DEF Follows, IsHead
      <4> QED BY <3>1, <3>3, <3>6, <4>1
    <3>7. CASE ~Ends(pkt, f)
      BY <3>1, <3>5, <3>7 DEF Follows
    <3> QED BY <3>6, <3>7
  <2>2. CASE r = <<>>
    <3>1. feed[x] # Idle /\ p = feed[x].pid /\ j = feed[x].idx + 1
      BY <1>7, <1>10, <2>2
    <3>2. n = 1
      <4>1. Len(<<>>) = 0
        OBVIOUS
      <4>2. Len(r) = 0
        BY <2>2, <4>1
      <4> HIDE DEF n
      <4> QED BY <1>8, <4>2
    <3>3. feed[x] = After(pkt, f)
      BY <1>5, <1>6, <3>2
    <3> QED BY <1>5, <3>1, <3>3, FlitFields
  <2> QED BY <2>1, <2>2
<1> QED BY <1>8, <1>9, <1>10 DEF q, r, f

\* The front flit of a VC that is granted the crossbar is the one that is due
\* on all outputs of its packet, and it leaves on all of them at once.
LEMMA SendOrder ==
  ASSUME InputInv, OutputInv, OrderInv, SWAllocUpdate
  PROVE  OrderInv'
<1> DEFINE granted == Granted(swRes)
           ended == {x \in granted : IsTail(Front(x))}
<1>1. /\ Typed /\ Resolved /\ Passing /\ Owned
      /\ Counts /\ Single /\ HeadsFirst /\ InTurn /\ Opened /\ Going
  BY DEF InputInv, OutputInv, OrderInv
<1>2. /\ pc = "sw_update"
      /\ fifo' = [x \in InVcs |-> IF x \in granted THEN Tail(fifo[x]) ELSE fifo[x]]
      /\ UNCHANGED <<pkt, inFlit, outs, vcRes, feed, started, open, progress>>
      /\ \A x \in InVcs : state'[x] = "active" <=> state[x] = "active" /\ x \notin ended
  BY DEF SWAllocUpdate, upstream, history
<1>3. Arriving(inFlit) = {} /\ Arriving(inFlit') = {}
  BY <1>1, <1>2, NoneArriving DEF Passing, Arriving
<1>4. \A x : x \in ended <=> x \in granted /\ Ends(pkt, Front(x))
  BY DEF IsTail, Ends
<1>5. \A x, o : Sends(x, o) <=> x \in granted /\ o \in DOMAIN outs[x]
  BY DEF Sends
<1> HIDE DEF granted, ended
<1>6. \A x \in granted :
        /\ x \in InVcs /\ Front(x) = fifo[x][1] /\ fifo[x] # <<>>
        /\ Front(x).pid \in Pids /\ Front(x).idx \in Nat \ {0}
        /\ DOMAIN outs[x] = pkt[Front(x).pid].outs /\ DOMAIN outs[x] \subseteq Outputs
        /\ \A o \in DOMAIN outs[x] : outs[x][o] \in Vcs /\ Holds(x, o, outs[x][o])
        /\ Comes(x, Front(x).pid, Front(x).idx) /\ Carries(x, Front(x).pid)
  BY SenderFacts DEF granted
<1>7. \A x \in granted :
        /\ Len(fifo[x]) \in Nat /\ Len(fifo'[x]) \in Nat
        /\ \A k \in 1 .. Len(fifo'[x]) :
             k + 1 \in 2 .. Len(fifo[x]) /\ fifo'[x][k] = fifo[x][k + 1]
        /\ \A p, j : Comes(x, p, j)' =>
             \/ x \notin ended /\ p = Front(x).pid /\ j = Front(x).idx + 1
             \/ /\ x \in ended /\ j = 1
                /\ \E k \in 1 .. Len(fifo'[x]) : IsHead(fifo'[x][k]) /\ fifo'[x][k].pid = p
  BY <1>4, SendRest DEF granted
<1>8. \A x \in InVcs : x \notin granted => fifo'[x] = fifo[x]
  BY <1>2
<1>9. ASSUME NEW x \in InVcs, NEW p, Carries(x, p)'
      PROVE  Carries(x, p)
  <2>1. CASE feed[x] # Idle /\ feed[x].pid = p
    BY <2>1 DEF Carries
  <2>2. CASE \E k \in 1 .. Len(fifo'[x]) : fifo'[x][k].pid = p
    <3>1. PICK k \in 1 .. Len(fifo'[x]) : fifo'[x][k].pid = p
      BY <2>2
    <3>2. CASE x \notin granted
      BY <1>8, <2>2, <3>2 DEF Carries
    <3>3. CASE x \in granted
      <4>1. k + 1 \in 1 .. Len(fifo[x]) /\ fifo[x][k + 1].pid = p
        BY <1>7, <3>1, <3>3
      <4> QED BY <4>1 DEF Carries
    <3> QED BY <3>2, <3>3
  <2> QED BY <1>2, <1>3, <1>9, <2>1, <2>2 DEF Carries
<1>10. Counts' /\ Single'
  BY <1>1, <1>2, <1>9 DEF Counts, Single
<1>11. HeadsFirst'
  <2> SUFFICES ASSUME NEW x \in InVcs, NEW m \in 1 .. Len(fifo'[x]), IsHead(fifo'[x][m]),
                      NEW k \in 1 .. m - 1
               PROVE  fifo'[x][k].pid # fifo'[x][m].pid
    BY <1>3 DEF HeadsFirst, IsHead
  <2>1. CASE x \notin granted
    BY <1>1, <1>8, <2>1 DEF HeadsFirst
  <2>2. CASE x \in granted
    <3>1. /\ m + 1 \in 1 .. Len(fifo[x]) /\ k + 1 \in 1 .. (m + 1) - 1
          /\ k \in 1 .. Len(fifo'[x])
      BY <1>7, <2>2
    <3>2. fifo'[x][m] = fifo[x][m + 1] /\ fifo'[x][k] = fifo[x][k + 1]
      BY <1>7, <2>2, <3>1
    <3> DEFINE a == m + 1
               b == k + 1
    <3>3. a \in 1 .. Len(fifo[x]) /\ b \in 1 .. a - 1 /\ IsHead(fifo[x][a])
      BY <3>1, <3>2
    <3>4. fifo[x][b].pid # fifo[x][a].pid
      <4> HIDE DEF a, b
      <4> QED BY <1>1, <3>3 DEF HeadsFirst
    <3> QED BY <3>2, <3>4
  <2> QED BY <2>1, <2>2
\* How far the packets are.
<1>12. \A o \in Outputs :
         /\ Under(o) = {}
         /\ \A p : Left(p, o) = progress[p][o]
         /\ \A x, p : Sends(x, o) /\ p = Front(x).pid => Left(p, o)' = progress[p][o] + 1
         /\ \A p : (\A x : Sends(x, o) => Front(x).pid # p) => Left(p, o)' = progress[p][o]
         /\ \A w, e : Opens(o, w, e) <=> e = open[<<o, w>>]
         /\ \A x, w, e : Sends(x, o) /\ w = outs[x][o] =>
              (Opens(o, w, e)' <=> e = IF Ends(pkt, Front(x)) THEN None ELSE Front(x).pid)
         /\ \A w, e : (\A x : Sends(x, o) => outs[x][o] # w) =>
              (Opens(o, w, e)' <=> e = open[<<o, w>>])
  BY SendCounts, SendUnder
\* A packet of which no flit is sent stays where it is.
<1>13. ASSUME NEW p \in Pids, \A x \in granted : Front(x).pid # p, NEW j, Due(p, j)
       PROVE  Due(p, j)'
  <2>1. \A o \in pkt[p].outs : o \in Outputs
    BY <1>1, Outward
  <2>2. \A o \in pkt[p].outs : Left(p, o)' = Left(p, o)
    BY <1>5, <1>12, <1>13, <2>1
  <2> QED BY <1>2, <1>13, <2>2 DEF Due
\* The others go one flit on.
<1>14. ASSUME NEW x \in granted, NEW p, p = Front(x).pid, NEW j, j = Front(x).idx + 1
       PROVE  Due(p, j)'
  <2>1. p \in Pids /\ Due(p, Front(x).idx) /\ pkt[p].outs = DOMAIN outs[x]
        /\ pkt[p].outs \subseteq Outputs /\ Front(x).idx \in Nat
    BY <1>1, <1>6, <1>14 DEF InTurn
  <2> SUFFICES ASSUME NEW o \in pkt[p].outs PROVE Left(p, o)' = j - 1
    BY <1>2 DEF Due
  <2>2. o \in Outputs /\ Sends(x, o)
    BY <1>5, <2>1
  <2>3. Left(p, o)' = progress[p][o] + 1 /\ Left(p, o) = progress[p][o]
    BY <1>12, <1>14, <2>2
  <2>4. Left(p, o) = Front(x).idx - 1
    BY <2>1 DEF Due
  <2> DEFINE i == Front(x).idx
             u == Left(p, o)
             v == Left(p, o)'
  <2>5. v = u + 1 /\ u = i - 1 /\ i \in Nat /\ j = i + 1
    BY <1>14, <2>1, <2>3, <2>4
  <2> HIDE DEF i, u, v
  <2>6. v = j - 1
    BY <2>5
  <2> QED BY <2>6 DEF v
\* A head that waits is not of a packet of which a flit is sent.
<1>15. ASSUME NEW x \in InVcs, NEW k \in 1 .. Len(fifo'[x]), IsHead(fifo'[x][k]),
              NEW p, p = fifo'[x][k].pid
       PROVE  p \in Pids /\ Due(p, 1)'
  <2>1. PICK m : /\ m \in 1 .. Len(fifo[x]) /\ fifo'[x][k] = fifo[x][m]
                 /\ x \in granted => 1 \in 1 .. m - 1
    <3>1. CASE x \notin granted
      BY <1>8, <3>1
    <3>2. CASE x \in granted
      <4>1. k + 1 \in 2 .. Len(fifo[x]) /\ fifo'[x][k] = fifo[x][k + 1]
        BY <1>7, <3>2
      <4>2. k + 1 \in 1 .. Len(fifo[x]) /\ 1 \in 1 .. (k + 1) - 1
        BY <1>7, <3>2, <4>1
      <4> QED BY <4>1, <4>2
    <3> QED BY <3>1, <3>2
  <2>2. p = fifo[x][m].pid /\ IsHead(fifo[x][m])
    BY <1>15, <2>1
  <2>3. Carries(x, p) /\ Due(p, 1)
    BY <1>1, <2>1, <2>2 DEF Carries, InTurn
  <2>4. p \in Pids
    <3> DEFINE q == fifo[x]
    <3>1. q \in Seq(Flit) /\ m \in 1 .. Len(q) /\ p = q[m].pid
      BY <1>1, <2>1, <2>2 DEF Typed
    <3> HIDE DEF q
    <3>2. q[m] \in Flit
      BY <3>1
    <3> QED BY <3>1, <3>2, FlitFields
  <2>5. ASSUME NEW y \in granted, Front(y).pid = p PROVE FALSE
    <3>1. y = x
      BY <1>1, <1>6, <2>3, <2>4, <2>5 DEF Single
    <3>2. fifo[x][1].pid # p
      BY <1>1, <2>1, <2>2, <3>1 DEF HeadsFirst
    <3> QED BY <1>6, <2>5, <3>1, <3>2
  <2> QED BY <1>13, <2>3, <2>4, <2>5
<1>16. InTurn'
  <2>1. ASSUME NEW p \in Pids \ started PROVE Due(p, 1)'
    <3>1. \A x \in granted : Front(x).pid # p
      BY <1>1, <1>6 DEF Single
    <3>2. Due(p, 1)
      BY <1>1 DEF InTurn
    <3> QED BY <1>13, <3>1, <3>2
  <2>2. ASSUME NEW x \in InVcs, NEW p, NEW j, Comes(x, p, j)'
        PROVE  Due(p, j)'
    <3>1. CASE x \in granted
      BY <1>7, <1>14, <1>15, <2>2, <3>1
    <3>2. CASE x \notin granted
      <4>1. Comes(x, p, j)
        BY <1>2, <1>8, <2>2, <3>2 DEF Comes, Arriving, FlitOn
      <4>2. p \in Pids /\ Carries(x, p) /\ Due(p, j)
        BY <1>1, <4>1, ComesFacts DEF InTurn
      <4>3. \A y \in granted : Front(y).pid # p
        BY <1>1, <1>6, <3>2, <4>2 DEF Single
      <4> QED BY <1>13, <4>2, <4>3
    <3> QED BY <3>1, <3>2
  <2>3. \A x \in InVcs : \A k \in 1 .. Len(fifo'[x]) :
          IsHead(fifo'[x][k]) => Due(fifo[x][k].pid, 1)'
    BY <1>15
  <2> QED BY <1>2, <1>3, <2>1, <2>2, <2>3 DEF InTurn, IsHead
<1>17. \A x \in InVcs : \A o, w : Holds(x, o, w)' <=> Holds(x, o, w) /\ x \notin ended
  <2>1. DOMAIN vcRes = {}
    BY <1>1, <1>2 DEF Resolved
  <2> QED BY <1>2, <2>1 DEF Holds
<1>18. Opened'
  <2> SUFFICES ASSUME NEW o \in Outputs, NEW w \in Vcs
               PROVE  /\ (\A x \in InVcs : ~Holds(x, o, w)') => Opens(o, w, None)'
                      /\ \A x \in InVcs : Holds(x, o, w)' =>
                           \A p, j : Comes(x, p, j)' => Opens(o, w, IF j = 1 THEN None ELSE p)'
    BY DEF Opened
  <2>1. /\ (\A x \in InVcs : ~Holds(x, o, w)) => Opens(o, w, None)
        /\ \A x \in InVcs : Holds(x, o, w) =>
             \A p, j : Comes(x, p, j) => Opens(o, w, IF j = 1 THEN None ELSE p)
    BY <1>1 DEF Opened
  <2>2. \A x, y \in InVcs : Holds(x, o, w) /\ Holds(y, o, w) => x = y
    BY <1>1 DEF Owned
  <2>3. \A x, v, e : Sends(x, o) /\ v = outs[x][o] =>
              (Opens(o, v, e)' <=> e = IF Ends(pkt, Front(x)) THEN None ELSE Front(x).pid)
    BY <1>12
  <2>4. \A v, e : (\A x : Sends(x, o) => outs[x][o] # v) =>
              (Opens(o, v, e)' <=> e = open[<<o, v>>])
    BY <1>12
  <2>5. CASE \E z : Sends(z, o) /\ outs[z][o] = w
    <3>1. PICK z : Sends(z, o) /\ outs[z][o] = w
      BY <2>5
    <3>2. z \in granted /\ z \in InVcs /\ Holds(z, o, w)
      BY <1>5, <1>6, <3>1
    <3>3. \A e : Opens(o, w, e)' <=> e = IF z \in ended THEN None ELSE Front(z).pid
      <4>1. \A e : Opens(o, w, e)' <=>
              e = IF Ends(pkt, Front(z)) THEN None ELSE Front(z).pid
        BY <2>3, <3>1
      <4> QED BY <1>4, <3>2, <4>1
    <3>4. (\A x \in InVcs : ~Holds(x, o, w)') => Opens(o, w, None)'
      BY <1>17, <3>2, <3>3
    <3>5. ASSUME NEW x \in InVcs, Holds(x, o, w)', NEW p, NEW j, Comes(x, p, j)'
          PROVE  Opens(o, w, IF j = 1 THEN None ELSE p)'
      <4>1. x = z /\ z \notin ended
        BY <1>17, <2>2, <3>2, <3>5
      <4>2. p = Front(z).pid /\ j = Front(z).idx + 1
        BY <1>7, <3>2, <3>5, <4>1
      <4>3. j # 1
        <5>1. Front(z).idx \in Nat \ {0}
          BY <1>6, <3>2
        <5> QED BY <4>2, <5>1
      <4> QED BY <3>3, <4>1, <4>2, <4>3
    <3> QED BY <3>4, <3>5
  <2>6. CASE \A z : Sends(z, o) => outs[z][o] # w
    <3>1. \A e : Opens(o, w, e)' <=> Opens(o, w, e)
      <4>1. \A e : Opens(o, w, e)' <=> e = open[<<o, w>>]
        BY <2>4, <2>6
      <4>2. \A e : Opens(o, w, e) <=> e = open[<<o, w>>]
        BY <1>12, Zenon
      <4> QED BY <4>1, <4>2, Zenon
    <3>2. \A x \in InVcs : Holds(x, o, w) => x \notin granted
      <4>1. \A x \in InVcs : Holds(x, o, w) => o \in DOMAIN outs[x] /\ outs[x][o] = w
        BY DEF Holds
      <4> QED BY <1>5, <2>6, <4>1
    <3>3. \A x \in InVcs : Holds(x, o, w)' <=> Holds(x, o, w)
      BY <1>4, <1>17, <3>2
    <3>4. \A x \in InVcs : Holds(x, o, w) => \A p, j : Comes(x, p, j)' => Comes(x, p, j)
      BY <1>2, <1>8, <3>2 DEF Comes, Arriving, FlitOn
    <3> QED BY <2>1, <3>1, <3>3, <3>4
  <2> QED BY <2>5, <2>6
<1>19. Going'
  <2> SUFFICES ASSUME NEW o \in Outputs, NEW c \in Under(o)'
               PROVE  /\ o \in pkt[c.flit.pid].outs
                      /\ c.flit.idx = progress[c.flit.pid][o] + 1
                      /\ open[<<o, c.vc>>] = IF IsHead(c.flit) THEN None ELSE c.flit.pid
    BY <1>2 DEF Going, IsHead
  <2>1. PICK x : Sends(x, o) /\ c = CopyFrom(x, o)
    BY SendUnder
  <2> DEFINE f == Front(x)
             p == Front(x).pid
             j == Front(x).idx
             w == outs[x][o]
  <2>2. c.flit = f /\ c.vc = w
    BY <2>1 DEF CopyFrom
  <2>3. /\ x \in InVcs /\ p \in Pids /\ j \in Nat \ {0} /\ o \in pkt[p].outs
        /\ w \in Vcs /\ Holds(x, o, w) /\ Comes(x, p, j)
    BY <1>5, <1>6, <2>1
  <2> HIDE DEF p, j, w
  <2>4. Left(p, o) = j - 1 /\ Left(p, o) = progress[p][o]
    BY <1>1, <1>12, <2>3 DEF InTurn, Due
  <2>5. progress[p][o] \in Nat
    BY <1>1, <2>3 DEF Counts
  <2>6. Opens(o, w, IF j = 1 THEN None ELSE p)
    BY <1>1, <2>3 DEF Opened
  <2>7. open[<<o, w>>] = IF j = 1 THEN None ELSE p
    BY <1>12, <2>6
  <2>8. j = progress[p][o] + 1
    BY <2>3, <2>4, <2>5
  <2> QED BY <2>2, <2>3, <2>7, <2>8 DEF p, j, w, IsHead
<1> QED BY <1>10, <1>11, <1>16, <1>18, <1>19 DEF OrderInv

-----------------------------------------------------------------------------
(***************************************************************************)
(* The steps that move no flit, and the last one of a cycle.               *)
(***************************************************************************)
\* From the crossbar to the output buffers everything stays on its way.
LEMMA SwitchOrder ==
  ASSUME InputInv, OutputInv, OrderInv, Switch
  PROVE  OrderInv'
<1>1. Typed /\ OneEach
  BY DEF InputInv, OutputInv
<1>2. /\ pc = "switch"
      /\ outBuf' = [o \in Outputs |-> Output(o)]
      /\ crossbar' = {}
      /\ UNCHANGED <<pkt, inFlit, fifo, state, outs, vcRes, feed, started, open, progress>>
  BY DEF Switch, queues, upstream, history
<1>3. ASSUME NEW o \in Outputs
      PROVE  Under(o)' = Under(o)
  <2> DEFINE here == {c \in crossbar : c.out = o}
  <2>1. outBuf[o] = <<>> /\ outBuf'[o] = Output(o)
    BY <1>1, <1>2 DEF OneEach
  <2>2. Range(<<>>) = {} /\ \A d : Range(<<d>>) = {d}
    BY DEF Range
  <2>3. Under(o) = here
    BY <2>1, <2>2 DEF Under
  <2>4. Under(o)' = {c \in Range(outBuf'[o]) : c.out = o}
    BY <1>2 DEF Under
  <2>5. CASE here = {}
    <3>1. Output(o) = <<>>
      BY <2>1, <2>5, OutputFold
    <3> QED BY <2>1, <2>2, <2>3, <2>4, <2>5, <3>1
  <2>6. CASE here # {}
    <3>1. PICK d : d \in here
      BY <2>6
    <3>2. d \in crossbar /\ d.out = o /\ here = {d}
      BY <1>1, <3>1 DEF OneEach
    <3>3. Output(o) = Append(outBuf[o], d)
      BY <3>2, OutputFold
    <3>4. Append(<<>>, d) = <<d>>
      OBVIOUS
    <3>5. Range(outBuf'[o]) = {d}
      BY <2>1, <2>2, <3>3, <3>4
    <3> QED BY <2>3, <2>4, <3>2, <3>5
  <2> QED BY <2>5, <2>6
<1>4. Standing
  BY <1>2, <1>3 DEF Standing
<1>5. \A o \in Outputs, w \in Vcs, x \in InVcs : Holds(x, o, w)' <=> Holds(x, o, w)
  BY <1>2 DEF Holds
<1> QED BY <1>1, <1>4, <1>5, StandingStep, KeepingOrder

\* Sleep, SWAllocEvaluate, RouteUpdate and VCAllocUpdate do not touch flits, and
\* an input VC that is granted output VCs goes on holding them.
LEMMA RestOrder ==
  ASSUME InputInv, OutputInv, OrderInv,
         Sleep \/ SWAllocEvaluate \/ RouteUpdate \/ VCAllocUpdate \/ UNCHANGED vars
  PROVE  OrderInv'
<1>1. Typed /\ Queued /\ Resolved
  BY DEF InputInv
<1>2. /\ UNCHANGED <<pkt, inFlit, fifo, outs, crossbar, outBuf, feed, started, open, progress>>
      /\ (state' = state /\ vcRes' = vcRes) \/ RouteUpdate \/ VCAllocUpdate
  BY DEF Sleep, SWAllocEvaluate, RouteUpdate, VCAllocUpdate, vars, router, queues, upstream,
         history
<1>3. Standing
  BY <1>2 DEF Standing, Under
<1>4. \A o \in Outputs, w \in Vcs, x \in InVcs : Holds(x, o, w)' <=> Holds(x, o, w)
  <2>1. CASE state' = state /\ vcRes' = vcRes
    BY <1>2, <2>1 DEF Holds
  <2>2. CASE RouteUpdate
    <3>1. \A x \in InVcs : state'[x] = "active" <=> state[x] = "active"
      BY <1>1, <2>2 DEF RouteUpdate, Queued
    <3>2. vcRes' = vcRes
      BY <2>2 DEF RouteUpdate
    <3> QED BY <1>2, <3>1, <3>2 DEF Holds
  <2>3. CASE VCAllocUpdate
    <3>1. \A x \in InVcs : state'[x] = "active" <=> state[x] = "active" \/ x \in Granted(vcRes)
      BY <2>3 DEF VCAllocUpdate
    <3>2. DOMAIN vcRes' = {}
      BY <2>3, NothingResolved DEF VCAllocUpdate
    <3>3. \A x : x \in Granted(vcRes) <=> x \in DOMAIN vcRes /\ vcRes[x]
      BY DEF Granted
    <3> QED BY <1>2, <3>1, <3>2, <3>3 DEF Holds
  <2> QED BY <1>2, <2>1, <2>2, <2>3
<1> QED BY <1>1, <1>3, <1>4, StandingStep, KeepingOrder

\* What is on its way leaves: it is counted, and open is what it leaves open.
LEMMA WriteOrder ==
  ASSUME InputInv, OutputInv, OrderInv, WriteOutputs
  PROVE  OrderInv'
<1> DEFINE sent == {Head(outBuf[o]) : o \in Leaving}
           At(c) == {s \in sent : s.out = c[1] /\ s.vc = c[2]}
           Of(p, o) == {s \in sent : s.out = o /\ s.flit.pid = p}
           Last(S) == (CHOOSE s \in S : TRUE).flit
<1>1. Typed /\ Passing /\ OutTyped /\ OneEach /\ Counts /\ Going
  BY DEF InputInv, OutputInv, OrderInv
<1>2. /\ pc = "write" /\ crossbar' = crossbar
      /\ outBuf' = [o \in Outputs |-> IF o \in Leaving THEN Tail(outBuf[o]) ELSE <<>>]
      /\ open' = [c \in Outputs \X Vcs |->
                    IF At(c) = {} THEN open[c]
                    ELSE IF IsTail(Last(At(c))) THEN None ELSE Last(At(c)).pid]
      /\ progress' = [p \in Pids |-> [o \in Outputs |->
                        progress[p][o] + Cardinality(Of(p, o))]]
      /\ UNCHANGED <<pkt, inFlit, fifo, state, outs, vcRes, feed, started>>
  BY DEF WriteOutputs, queues
<1>3. crossbar = {}
  BY <1>1, <1>2 DEF Passing
<1>4. \A d : Range(<<d>>) = {d} /\ <<d>> # <<>> /\ Head(<<d>>) = d /\ Tail(<<d>>) = <<>>
  BY DEF Range
<1>5. Range(<<>>) = {}
  BY DEF Range
<1>6. ASSUME NEW o \in Outputs
      PROVE  \/ outBuf[o] = <<>> /\ Under(o) = {}
             \/ \E e : outBuf[o] = <<e>> /\ e.out = o /\ Under(o) = {e}
  <2>1. CASE outBuf[o] = <<>>
    BY <1>3, <1>5, <2>1 DEF Under
  <2>2. CASE outBuf[o] # <<>>
    <3>1. outBuf[o] \in Seq(Copies) /\ Len(outBuf[o]) = 1 /\ outBuf[o][1].out = o
      BY <1>1, <2>2 DEF OneEach, OutTyped
    <3>2. outBuf[o] = <<outBuf[o][1]>>
      BY <3>1
    <3> DEFINE e == outBuf[o][1]
    <3>3. outBuf[o] = <<e>> /\ e.out = o
      BY <3>1, <3>2
    <3> HIDE DEF e
    <3>4. Under(o) = {e}
      BY <1>3, <1>4, <3>3 DEF Under
    <3> QED BY <3>3, <3>4
  <2> QED BY <2>1, <2>2
<1>7. ASSUME NEW o \in Outputs
      PROVE  Under(o)' = {}
  <2>1. outBuf'[o] = <<>>
    <3>1. CASE o \notin Leaving
      BY <1>2, <3>1
    <3>2. CASE o \in Leaving
      <4>1. PICK e : outBuf[o] = <<e>>
        BY <1>6, <3>2 DEF Leaving
      <4> QED BY <1>2, <1>4, <3>2, <4>1
    <3> QED BY <3>1, <3>2
  <2> QED BY <1>2, <1>3, <1>5, <2>1 DEF Under
\* What leaves on an output is what was on its way there.
<1>8. ASSUME NEW o \in Outputs
      PROVE  \A s : s \in Under(o) <=> s \in sent /\ s.out = o
  <2>1. \A s \in sent : \E p \in Outputs : outBuf[p] = <<s>> /\ s.out = p
    <3> SUFFICES ASSUME NEW s \in sent
                 PROVE  \E p \in Outputs : outBuf[p] = <<s>> /\ s.out = p
      OBVIOUS
    <3>1. PICK p \in Leaving : s = Head(outBuf[p])
      OBVIOUS
    <3>2. p \in Outputs /\ outBuf[p] # <<>>
      BY DEF Leaving
    <3> QED BY <1>4, <1>6, <3>1, <3>2
  <2>2. \A e : outBuf[o] = <<e>> => e \in sent
    <3> SUFFICES ASSUME NEW e, outBuf[o] = <<e>> PROVE e \in sent
      OBVIOUS
    <3>1. o \in Leaving
      BY <1>4 DEF Leaving
    <3> QED BY <1>4, <3>1
  <2> HIDE DEF sent
  <2>3. \A s, e : <<s>> = <<e>> => s = e
    OBVIOUS
  <2>4. CASE outBuf[o] = <<>> /\ Under(o) = {}
    BY <1>4, <2>1, <2>4
  <2>5. CASE \E e : outBuf[o] = <<e>> /\ e.out = o /\ Under(o) = {e}
    <3>1. PICK e : outBuf[o] = <<e>> /\ e.out = o /\ Under(o) = {e}
      BY <2>5
    <3>2. e \in sent
      BY <2>2, <3>1
    <3>3. \A s \in sent : s.out = o => s = e
      BY <2>1, <2>3, <3>1
    <3> QED BY <3>1, <3>2, <3>3
  <2> QED BY <1>6, <2>4, <2>5
<1> HIDE DEF sent
<1>9. ASSUME NEW o \in Outputs, NEW p \in Pids
      PROVE  /\ progress'[p][o] = Left(p, o) /\ Left(p, o)' = Left(p, o)
             /\ Left(p, o) \in Nat
  <2>1. progress'[p][o] = progress[p][o] + Cardinality(Of(p, o)) /\ progress[p][o] \in Nat
    BY <1>1, <1>2 DEF Counts
  <2>2. \A s : s \in Of(p, o) <=> s \in Under(o) /\ s.flit.pid = p
    BY <1>8
  <2> DEFINE n == progress[p][o]
             S == Of(p, o)
  <2> HIDE DEF n, S
  <2>3. CASE \E c \in Under(o) : c.flit.pid = p
    <3>1. PICK c : c \in Under(o) /\ c.flit.pid = p
      BY <2>3
    <3>2. Under(o) = {c}
      BY <1>6, <3>1
    <3>3. S = {c}
      BY <2>2, <3>1, <3>2 DEF S
    <3>4. Cardinality(S) = 1
      BY <3>3, FS_Singleton
    <3> QED BY <1>7, <2>1, <2>3, <3>4 DEF Left, S
  <2>4. CASE \A c \in Under(o) : c.flit.pid # p
    <3>1. S = {}
      BY <2>2, <2>4 DEF S
    <3>2. Cardinality(S) = 0
      BY <3>1, FS_EmptySet
    <3> QED BY <1>7, <2>1, <2>4, <3>2 DEF Left, S
  <2> QED BY <2>3, <2>4
<1>10. ASSUME NEW o \in Outputs, NEW w \in Vcs, NEW e
       PROVE  Opens(o, w, e)' <=> Opens(o, w, e)
  <2> DEFINE S == At(<<o, w>>)
  <2>1. open'[<<o, w>>] = IF S = {} THEN open[<<o, w>>]
                          ELSE IF IsTail(Last(S)) THEN None ELSE Last(S).pid
    BY <1>2
  <2>2. \A s : s \in S <=> s \in Under(o) /\ s.vc = w
    BY <1>8
  <2>3. Opens(o, w, e)' <=> e = open'[<<o, w>>]
    BY <1>7 DEF Opens
  <2> HIDE DEF S
  <2>4. CASE \E c \in Under(o) : c.vc = w
    <3>1. PICK c : c \in Under(o) /\ c.vc = w
      BY <2>4
    <3>2. Under(o) = {c}
      BY <1>6, <3>1
    <3>3. S = {c}
      BY <2>2, <3>1, <3>2
    <3>4. Last(S) = c.flit
      BY <3>3
    <3>5. Opens(o, w, e) <=> e = IF Ends(pkt, c.flit) THEN None ELSE c.flit.pid
      BY <3>1, <3>2 DEF Opens
    <3>6. open'[<<o, w>>] = IF Ends(pkt, c.flit) THEN None ELSE c.flit.pid
      BY <2>1, <3>3, <3>4 DEF IsTail, Ends
    <3> QED BY <2>3, <3>5, <3>6
  <2>5. CASE \A c \in Under(o) : c.vc # w
    <3>1. S = {}
      BY <2>2, <2>5
    <3>2. Opens(o, w, e) <=> e = open[<<o, w>>]
      BY <2>5 DEF Opens
    <3> QED BY <2>1, <2>3, <3>1, <3>2
  <2> QED BY <2>4, <2>5
<1> HIDE DEF At, Of, Last
<1>11. Keeping
  BY <1>2, <1>9, <1>10 DEF Keeping
<1>12. Counts'
  <2>1. \A p \in Pids : progress'[p] = [o \in Outputs |-> progress'[p][o]]
    BY <1>2
  <2>2. \A p \in Pids : progress'[p] \in [Outputs -> Nat]
    BY <1>9, <2>1
  <2> QED BY <1>2, <2>2 DEF Counts
<1>13. Going'
  BY <1>7 DEF Going
<1>14. \A o \in Outputs, w \in Vcs, x \in InVcs : Holds(x, o, w)' <=> Holds(x, o, w)
  BY <1>2 DEF Holds
<1> QED BY <1>1, <1>11, <1>12, <1>13, <1>14, KeepingOrder

LEMMA InitOrder ==
  ASSUME Init
  PROVE  OrderInv
<1>1. InputInv /\ OutputInv
  BY InitInput, InitOutput
<1>2. /\ pc = "read"
      /\ inFlit = [i \in Inputs |-> None]
      /\ fifo = [x \in InVcs |-> <<>>]
      /\ outs = [x \in InVcs |-> <<>>] /\ state = [x \in InVcs |-> "idle"]
      /\ vcRes = <<>>
      /\ feed = [x \in InVcs |-> Idle]
      /\ started = {}
      /\ open = [c \in Outputs \X Vcs |-> None]
      /\ progress = [p \in Pids |-> [o \in Outputs |-> 0]]
  BY DEF Init
<1>3. \A o \in Outputs : Under(o) = {}
  BY <1>1, <1>2, NoneUnder
<1>4. Arriving(inFlit) = {} /\ Len(<<>>) = 0
  BY <1>2 DEF Arriving
<1>5. \A x \in InVcs : (\A p : ~Carries(x, p)) /\ \A p, j : ~Comes(x, p, j)
  BY <1>2, <1>4 DEF Carries, Comes
<1>6. \A p \in Pids : Due(p, 1)
  <2>1. \A p \in Pids, o \in Outputs : Left(p, o) = 1 - 1
    BY <1>2, <1>3 DEF Left
  <2> QED BY <1>1, <2>1, Outward DEF Due, InputInv
<1>7. Counts /\ Single /\ HeadsFirst /\ Going
  BY <1>2, <1>3, <1>4, <1>5 DEF Counts, Single, HeadsFirst, Going
<1>8. InTurn
  BY <1>2, <1>4, <1>5, <1>6 DEF InTurn
<1>9. Opened
  <2>1. \A o \in Outputs, w \in Vcs : Opens(o, w, None)
    BY <1>2, <1>3 DEF Opens
  <2> QED BY <1>5, <2>1 DEF Opened
<1> QED BY <1>7, <1>8, <1>9 DEF OrderInv

-----------------------------------------------------------------------------
LEMMA NextOrder == InputInv /\ OutputInv /\ OrderInv /\ [Next]_vars => OrderInv'
<1> SUFFICES ASSUME InputInv, OutputInv, OrderInv, [Next]_vars PROVE OrderInv'
  OBVIOUS
<1>1. CASE Receive
  BY <1>1, ReceiveOrder DEF Receive
<1>2. CASE FlitDispatch
  BY <1>2, DispatchOrder
<1>3. CASE AllocateVcs
  BY <1>3, AllocateOrder DEF AllocateVcs
<1>4. CASE SWAllocUpdate
  BY <1>4, SendOrder
<1>5. CASE Switch
  BY <1>5, SwitchOrder
<1>6. CASE WriteOutputs
  BY <1>6, WriteOrder
<1>7. CASE Sleep \/ SWAllocEvaluate \/ RouteUpdate \/ VCAllocUpdate \/ UNCHANGED vars
  BY <1>7, RestOrder
<1> QED BY <1>1, <1>2, <1>3, <1>4, <1>5, <1>6, <1>7 DEF Next, InternalStep

\* What holds at any time of the flits inside the router, those upstream has
\* yet to send and those that have left, from ReadInputs to WriteOutputs.
THEOREM OrderInvariance == Spec => [](InputInv /\ OutputInv /\ OrderInv)
<1>1. Init => InputInv /\ OutputInv /\ OrderInv
  BY InitInput, InitOutput, InitOrder
<1>2. InputInv /\ OutputInv /\ OrderInv /\ [Next]_vars => (InputInv /\ OutputInv /\ OrderInv)'
  BY NextInput, NextOutput, NextOrder
<1> QED BY <1>1, <1>2, PTL DEF Spec

\* On every output VC the flits of a packet leave in order, all of them on all
\* outputs of its route, and no other packet's flits come between them; no
\* output buffer ever holds two flits (SWAllocUpdate, Switch, WriteOutputs).
THEOREM OutputsInOrder == Spec => []OutputInOrder
<1>1. ASSUME InputInv, OutputInv, OrderInv
      PROVE  OutputInOrder
  <2> SUFFICES ASSUME NEW o \in Outputs, outBuf[o] # <<>>,
                      NEW c, c = Head(outBuf[o])
               PROVE  /\ Len(outBuf[o]) = 1
                      /\ o \in pkt[c.flit.pid].outs
                      /\ c.flit.idx = progress[c.flit.pid][o] + 1
                      /\ open[<<o, c.vc>>] = IF IsHead(c.flit) THEN None ELSE c.flit.pid
    BY DEF OutputInOrder
  <2>1. outBuf[o] \in Seq(Copies) /\ Len(outBuf[o]) = 1 /\ outBuf[o][1].out = o
    BY <1>1 DEF OutputInv, OneEach, OutTyped
  <2>2. c = outBuf[o][1] /\ c \in Range(outBuf[o])
    BY <2>1 DEF Range
  <2>3. c \in Under(o)
    BY <2>1, <2>2 DEF Under
  <2> QED BY <1>1, <2>1, <2>3 DEF OrderInv, Going
<1> QED BY <1>1, OrderInvariance, PTL

=============================================================================
