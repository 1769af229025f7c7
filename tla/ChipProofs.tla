----------------------------- MODULE ChipProofs -----------------------------
(***************************************************************************)
(* Theorems about Chip, for every number of cores, threshold and program,  *)
(* with their proofs: the types of the state, that nothing is left         *)
(* anywhere on the chip when the simulation ends, and that every packet    *)
(* that a send makes is on its way, waits to be received, or was received. *)
(***************************************************************************)
EXTENDS Chip, FoldProofs, SequenceTheorems, TLAPS

(***************************************************************************)
(* The inductive invariant.                                                *)
(***************************************************************************)
\* s is what is left of p after some of its first elements are gone.
Remains(s, p) ==
  Len(s) <= Len(p) /\ \A k \in 1 .. Len(s) : s[k] = p[Len(p) - Len(s) + k]

\* TypeOK, with the shapes of the functions and with Remains for IsSuffix.
Typed ==
  /\ prog \in Programs
  /\ phase \in {"head", "core", "noc", "check", "finished", "deadlock"}
  /\ at \in Cores /\ tick \in 0 .. CheckFreq - 1
  /\ DOMAIN tasks = Cores /\ DOMAIN left = Cores
  /\ \A c \in Cores :
       /\ DOMAIN tasks[c] = DOMAIN prog[c] /\ DOMAIN left[c] = DOMAIN prog[c]
       /\ \A t \in DOMAIN prog[c] : /\ tasks[c][t] \in Seq(Instr)
                                    /\ Remains(tasks[c][t], prog[c][t])
                                    /\ left[c][t] \in Nat \cup {-1}
  /\ sendQ \in [Cores -> Seq(PacketType)] /\ recvQ \in [Cores -> Seq(PacketType)]
  /\ partial \in [Cores -> PacketType \cup {None}]
  /\ pipeOpen \in [Cores -> BOOLEAN]
  /\ DOMAIN net \subseteq PacketType
  /\ net \in [DOMAIN net -> [injected : Nat, retired : Nat]]
  /\ backup.checks \in 0 .. 2 /\ moved \in BOOLEAN

\* The flits of a packet leave the network after they have entered it, and the
\* packet is forgotten with its last flit.
Counted ==
  \A p \in DOMAIN net : /\ net[p].injected <= p.n
                        /\ net[p].retired <= net[p].injected
                        /\ net[p].retired < p.n

\* How many instructions of a task have not been executed.
Unexecuted(c, t) == IF left[c][t] = -1 THEN Len(tasks[c][t]) ELSE Len(tasks[c][t]) - 1

\* p is one of the packets of an executed send of core c.
Made(c, p) ==
  /\ p.src = c /\ Len(p.key) = 3
  /\ p.key[1] \in DOMAIN prog[c] /\ p.key[2] > Unexecuted(c, p.key[1])

\* The packets in the send queues and in the network differ from each other and
\* from those that are still to be made.
Distinct ==
  /\ \A c \in Cores : \A k \in DOMAIN sendQ[c] :
       /\ Made(c, sendQ[c][k]) /\ sendQ[c][k] \notin DOMAIN net
       /\ \A j \in DOMAIN sendQ[c] : j # k => sendQ[c][j] # sendQ[c][k]
  /\ \A p \in DOMAIN net : Made(p.src, p)

\* The packet that a source is sending is in the network with flits to come.
Sending ==
  \A c \in Cores : partial[c] # None =>
    /\ partial[c].src = c /\ partial[c] \in DOMAIN net
    /\ net[partial[c]].injected < partial[c].n

\* Between the step of the network and the next one of the cores: a packet in a
\* send queue waits for another one, which is in the network.
Waiting ==
  phase \in {"check", "head", "finished", "deadlock"} =>
    \A c \in Cores : sendQ[c] # <<>> => DOMAIN net # {}

\* The loop ends only with all tasks finished and the network drained.
Ended == phase = "finished" => TaskFinished

IInv == Typed /\ Counted /\ Distinct /\ Sending /\ Waiting /\ Ended

-----------------------------------------------------------------------------
(***************************************************************************)
(* What the operators of the model return.                                 *)
(***************************************************************************)
\* The recursion of Others: what it has collected of the first destinations.
Collected(h, c, q) ==
  /\ h[0] = <<>>
  /\ \A k \in 1 .. Len(q) :
       h[k] = IF q[k] = c THEN h[k - 1] ELSE Append(h[k - 1], q[k])

LEMMA OthersDefined ==
  ASSUME NEW c, NEW i, i.dests \in Seq(Cores)
  PROVE  \E h \in [0 .. Len(i.dests) -> Seq(Cores)] :
           Collected(h, c, i.dests) /\ Others(c, i) = h[Len(i.dests)]
<1> DEFINE q == i.dests
           n == Len(q)
           Step(h, k) == IF q[k] = c THEN h[k - 1] ELSE Append(h[k - 1], q[k])
           body(h) == [k \in 0 .. n |-> IF k = 0 THEN <<>>
                                        ELSE IF q[k] = c THEN h[k - 1]
                                        ELSE Append(h[k - 1], q[k])]
           Upto(m) == \E h \in [0 .. m -> Seq(Cores)] :
                        h[0] = <<>> /\ \A k \in 1 .. m : h[k] = Step(h, k)
           Bad == {m \in 0 .. n : ~Upto(m)}
<1>1. n \in Nat /\ \A k \in 1 .. n : q[k] \in Cores
  OBVIOUS
<1> HIDE DEF q
<1>2. Upto(0)
  <2> DEFINE h == [k \in 0 .. 0 |-> <<>>]
  <2>1. h \in [0 .. 0 -> Seq(Cores)] /\ h[0] = <<>>
    BY EmptySeq
  <2>2. \A k \in 1 .. 0 : h[k] = Step(h, k)
    OBVIOUS
  <2> QED BY <2>1, <2>2
<1>3. ASSUME NEW m \in 1 .. n, Upto(m - 1)
      PROVE  Upto(m)
  <2>1. PICK g \in [0 .. m - 1 -> Seq(Cores)] :
          g[0] = <<>> /\ \A k \in 1 .. m - 1 : g[k] = Step(g, k)
    BY <1>3
  <2> DEFINE h == [k \in 0 .. m |-> IF k < m THEN g[k] ELSE Step(g, k)]
  <2>2. m - 1 \in 0 .. m - 1 /\ q[m] \in Cores
    BY <1>1
  <2>3. Step(g, m) \in Seq(Cores)
    BY <2>2
  <2>4. h \in [0 .. m -> Seq(Cores)]
    BY <2>3
  <2>5. \A k \in 0 .. m - 1 : h[k] = g[k]
    BY <1>1
  <2>6. h[m] = Step(g, m)
    BY <1>1
  <2> HIDE DEF h
  <2>7. h[0] = <<>>
    BY <2>1, <2>5
  <2>8. ASSUME NEW k \in 1 .. m
        PROVE  h[k] = Step(h, k)
    <3>1. k - 1 \in 0 .. m - 1
      BY <1>1
    <3>2. h[k - 1] = g[k - 1]
      BY <2>5, <3>1
    <3>3. h[k] = Step(g, k)
      <4>1. CASE k = m
        BY <4>1, <2>6
      <4>2. CASE k # m
        <5>1. k \in 1 .. m - 1 /\ k \in 0 .. m - 1
          BY <4>2, <1>1
        <5> QED BY <5>1, <2>1, <2>5
      <4> QED BY <4>1, <4>2
    <3> QED BY <3>2, <3>3
  <2> QED BY <2>4, <2>7, <2>8
<1>4. Bad = {}
  <2> SUFFICES ASSUME Bad # {} PROVE FALSE
    OBVIOUS
  <2>0. Bad \subseteq Nat
    BY <1>1
  <2> HIDE DEF Upto
  <2>1. PICK m \in Bad : \A k \in Bad : m <= k
    <3> HIDE DEF Bad
    <3> QED BY <2>0, LeastNumber
  <2>2. m \in 1 .. n /\ m - 1 \in 0 .. n /\ m - 1 \notin Bad
    BY <2>1, <1>1, <1>2
  <2> QED BY <2>1, <2>2, <1>3
<1>5. Upto(n)
  <2> HIDE DEF Upto
  <2> QED BY <1>1, <1>4
<1>6. PICK h \in [0 .. n -> Seq(Cores)] :
        h[0] = <<>> /\ \A k \in 1 .. n : h[k] = Step(h, k)
  BY <1>5
<1>a. 0 \in 0 .. n /\ \A k \in 0 .. n : k # 0 => k \in 1 .. n
  BY <1>1
<1>b. \A k \in 1 .. n : k \in 0 .. n /\ k # 0
  BY <1>1
<1>7. h = body(h)
  <2>1. \A k \in 0 .. n : h[k] = IF k = 0 THEN <<>> ELSE Step(h, k)
    BY <1>6, <1>a
  <2>2. h = [k \in 0 .. n |-> h[k]]
    BY <1>6
  <2> QED BY <2>1, <2>2, Zenon
<1> DEFINE g == CHOOSE g : g = body(g)
<1>8. g = body(g)
  BY <1>7
<1>9. Others(c, i) = g[n]
  BY DEF Others, q
<1> HIDE DEF g
<1>10. g[0] = <<>> /\ \A k \in 1 .. n : g[k] = Step(g, k)
  <2>1. \A k \in 0 .. n : g[k] = body(g)[k]
    BY <1>8
  <2> QED BY <2>1, <1>a, <1>b, Zenon
<1>11. \A k \in 0 .. n : g[k] = h[k]
  <2> DEFINE Off == {k \in 0 .. n : g[k] # h[k]}
  <2> SUFFICES ASSUME Off # {} PROVE FALSE
    OBVIOUS
  <2>0. Off \subseteq Nat
    BY <1>1
  <2>1. PICK k \in Off : \A j \in Off : k <= j
    <3> HIDE DEF Off
    <3> QED BY <2>0, LeastNumber
  <2>2. k \in 1 .. n /\ k - 1 \in 0 .. n /\ k - 1 \notin Off
    BY <2>1, <1>1, <1>6, <1>10
  <2>3. g[k - 1] = h[k - 1] /\ g[k] # h[k]
    BY <2>1, <2>2
  <2> QED BY <2>2, <2>3, <1>6, <1>10
<1> QED BY <1>1, <1>6, <1>9, <1>11 DEF Collected, q

LEMMA OthersType ==
  ASSUME NEW c, NEW i, i.dests \in Seq(Cores)
  PROVE  Others(c, i) \in Seq(Cores)
<1>1. PICK h \in [0 .. Len(i.dests) -> Seq(Cores)] : Others(c, i) = h[Len(i.dests)]
  BY OthersDefined
<1>2. Len(i.dests) \in 0 .. Len(i.dests)
  OBVIOUS
<1> QED BY <1>1, <1>2

\* What is left of a sequence keeps being what is left of it.
LEMMA RemainsTail ==
  ASSUME NEW S, NEW p \in Seq(S), NEW s \in Seq(S), Remains(s, p), s # <<>>
  PROVE  /\ Tail(s) \in Seq(S) /\ Len(Tail(s)) = Len(s) - 1
         /\ Remains(Tail(s), p)
         /\ Head(s) = p[Len(p) - Len(s) + 1]
         /\ Len(p) - Len(s) + 1 \in 1 .. Len(p)
<1> DEFINE r == Tail(s)
           l == Len(s)
           n == Len(p)
<1>1. l \in Nat \ {0} /\ n \in Nat /\ l <= n /\ \A k \in 1 .. l : s[k] = p[n - l + k]
  BY EmptySeq DEF Remains
<1>2. r \in Seq(S) /\ Len(r) = l - 1 /\ \A k \in 1 .. l - 1 : r[k] = s[k + 1]
  BY HeadTailProperties
<1>3. Head(s) = s[1]
  OBVIOUS
<1> HIDE DEF r, l, n
<1>4. n - (l - 1) = n - l + 1 /\ 1 \in 1 .. l
  BY <1>1
<1>5. ASSUME NEW k \in 1 .. l - 1
      PROVE  r[k] = p[n - (l - 1) + k]
  <2>1. k + 1 \in 1 .. l /\ n - l + (k + 1) = n - (l - 1) + k
    BY <1>1
  <2> QED BY <1>1, <1>2, <2>1
<1>6. Head(s) = p[n - l + 1]
  BY <1>1, <1>3, <1>4
<1>7. l - 1 <= n /\ n - l + 1 \in 1 .. n
  BY <1>1
<1> QED BY <1>2, <1>5, <1>6, <1>7 DEF Remains, r, l, n

LEMMA RemainsSuffix ==
  ASSUME NEW S, NEW p \in Seq(S), NEW s \in Seq(S), Remains(s, p)
  PROVE  IsSuffix(s, p)
<1> DEFINE rs == Reverse(s)
           rp == Reverse(p)
           l == Len(s)
           n == Len(p)
<1>1. l \in Nat /\ n \in Nat /\ l <= n /\ \A k \in 1 .. l : s[k] = p[n - l + k]
  BY DEF Remains
<1>2. /\ rs \in Seq(S) /\ Len(rs) = l /\ \A k \in 1 .. l : rs[k] = s[(l - k) + 1]
      /\ rp \in Seq(S) /\ Len(rp) = n /\ \A k \in 1 .. n : rp[k] = p[(n - k) + 1]
  BY DEF Reverse
<1> HIDE DEF rs, rp, l, n
<1>3. ASSUME NEW k \in 1 .. l
      PROVE  rs[k] = rp[k] /\ rs[k] \in S /\ rp[k] \in S
  <2>1. (l - k) + 1 \in 1 .. l /\ n - l + ((l - k) + 1) = (n - k) + 1 /\ k \in 1 .. n
    BY <1>1
  <2>2. rs[k] = s[(l - k) + 1] /\ rp[k] = p[(n - k) + 1]
    BY <1>2, <2>1
  <2>3. s[(l - k) + 1] = p[n - l + ((l - k) + 1)]
    BY <1>1, <2>1
  <2>4. rs[k] = rp[k]
    BY <2>1, <2>2, <2>3
  <2>5. rs[k] \in S
    BY <1>2
  <2> QED BY <2>4, <2>5
<1> DEFINE a == SubSeq(rs, 1, l)
           b == SubSeq(rp, 1, l)
<1>4. a \in Seq(S) /\ Len(a) = l /\ \A k \in 1 .. l : a[k] = rs[k]
  BY <1>1, <1>2
<1>5. b \in Seq(S) /\ Len(b) = l /\ \A k \in 1 .. l : b[k] = rp[k]
  BY <1>1, <1>2
<1>6. a = b
  <2> HIDE DEF a, b
  <2> QED BY <1>3, <1>4, <1>5, SeqEqual
<1>7. Len(rs) <= Len(rp) /\ SubSeq(rs, 1, Len(rs)) = SubSeq(rp, 1, Len(rs))
  BY <1>1, <1>2, <1>6
<1> QED BY <1>7 DEF IsSuffix, IsPrefix, rs, rp

-----------------------------------------------------------------------------
(***************************************************************************)
(* The instructions of a program, and the one that a core executes.        *)
(***************************************************************************)
LEMMA Programmed ==
  ASSUME prog \in Programs, NEW c \in Cores, NEW t \in DOMAIN prog[c]
  PROVE  /\ t \in Nat \ {0}
         /\ prog[c][t] \in Seq(Instr)
         /\ \A k \in 1 .. Len(prog[c][t]) :
              prog[c][t][k].op = "send" => prog[c][t][k].n \in Nat \ {0}
<1>1. prog \in [Cores -> Seq(Seq(Instr))]
  BY ChipAssumption
<1>2. prog[c] \in Seq(Seq(Instr))
  BY <1>1
<1>3. t \in 1 .. Len(prog[c]) /\ prog[c][t] \in Seq(Instr)
  BY <1>2
<1>4. ASSUME NEW k \in 1 .. Len(prog[c][t]), prog[c][t][k].op = "send"
      PROVE  prog[c][t][k].n \in Nat \ {0}
  <2> DEFINE q == prog[c][t]
  <2>1. k \in DOMAIN q /\ q[k] \in Instr
    BY <1>3
  <2>2. q[k].n > 0
    BY <1>4, <2>1, ChipAssumption
  <2>3. q[k].n \in Nat
    <3> HIDE DEF q
    <3> QED BY <2>1 DEF Instr
  <2> HIDE DEF q
  <2>4. q[k].n \in Nat \ {0}
    BY <2>2, <2>3
  <2> QED BY <2>4 DEF q
<1> QED BY <1>3, <1>4

\* The instructions of a task from the one that Issue executes.
Ahead(c, t) == IF left[c][t] = -1 THEN tasks[c][t] ELSE Tail(tasks[c][t])

LEMMA AheadFacts ==
  ASSUME Typed, NEW c \in Cores, NEW t \in DOMAIN prog[c], tasks[c][t] # <<>>
  PROVE  /\ Ahead(c, t) \in Seq(Instr)
         /\ Remains(Ahead(c, t), prog[c][t])
         /\ Unexecuted(c, t) = Len(Ahead(c, t))
         /\ Ahead(c, t) # <<>> =>
              /\ Head(Ahead(c, t)) \in Instr
              /\ Len(prog[c][t]) - Len(Ahead(c, t)) + 1 \in 1 .. Len(prog[c][t])
              /\ Head(Ahead(c, t)) = prog[c][t][Len(prog[c][t]) - Len(Ahead(c, t)) + 1]
<1> DEFINE p == prog[c][t]
           s == tasks[c][t]
           r == Ahead(c, t)
<1>1. p \in Seq(Instr) /\ s \in Seq(Instr) /\ Remains(s, p)
  BY Programmed DEF Typed
<1>2. r = IF left[c][t] = -1 THEN s ELSE Tail(s)
  BY DEF Ahead
<1>3. Unexecuted(c, t) = IF left[c][t] = -1 THEN Len(s) ELSE Len(s) - 1
  BY DEF Unexecuted
<1>4. s # <<>>
  OBVIOUS
<1> HIDE DEF p, s, r
<1>5. /\ Tail(s) \in Seq(Instr) /\ Len(Tail(s)) = Len(s) - 1
      /\ Remains(Tail(s), p)
  BY <1>1, <1>4, RemainsTail
<1>6. r \in Seq(Instr) /\ Remains(r, p) /\ Unexecuted(c, t) = Len(r)
  BY <1>1, <1>2, <1>3, <1>5
<1>7. ASSUME r # <<>>
      PROVE  /\ Head(r) \in Instr
             /\ Head(r) = p[Len(p) - Len(r) + 1]
             /\ Len(p) - Len(r) + 1 \in 1 .. Len(p)
  <2>1. Head(r) \in Instr
    BY <1>6, <1>7
  <2> QED BY <1>1, <1>6, <1>7, <2>1, RemainsTail
<1> QED BY <1>6, <1>7 DEF p, r

\* The packets of a send are new: their key has the instruction's place.
LEMMA PacketsMade ==
  ASSUME Typed, NEW c \in Cores, NEW t \in DOMAIN prog[c], tasks[c][t] # <<>>,
         Ahead(c, t) # <<>>, Head(Ahead(c, t)).op = "send"
  PROVE  /\ PacketsOf(c, t, Ahead(c, t)) \in Seq(PacketType)
         /\ Len(PacketsOf(c, t, Ahead(c, t))) = Len(Others(c, Head(Ahead(c, t))))
         /\ \A k \in 1 .. Len(PacketsOf(c, t, Ahead(c, t))) :
              /\ PacketsOf(c, t, Ahead(c, t))[k].src = c
              /\ PacketsOf(c, t, Ahead(c, t))[k].dest = Others(c, Head(Ahead(c, t)))[k]
              /\ PacketsOf(c, t, Ahead(c, t))[k].fid = Head(Ahead(c, t)).fid
              /\ PacketsOf(c, t, Ahead(c, t))[k].key = <<t, Len(Ahead(c, t)), k>>
<1> DEFINE r == Ahead(c, t)
           i == Head(r)
           o == Others(c, i)
           l == Len(r)
           Packet(k) == [src |-> c, dest |-> o[k], fid |-> i.fid, n |-> i.n,
                         key |-> <<t, l, k>>]
           P == PacketsOf(c, t, r)
<1>1. /\ r \in Seq(Instr) /\ i \in Instr
      /\ Len(prog[c][t]) - Len(r) + 1 \in 1 .. Len(prog[c][t])
      /\ i = prog[c][t][Len(prog[c][t]) - Len(r) + 1]
  BY AheadFacts
<1>2. t \in Nat /\ i.n \in Nat \ {0}
  <2> DEFINE q == prog[c][t]
             m == Len(q) - Len(r) + 1
  <2>1. /\ t \in Nat \ {0}
        /\ \A k \in 1 .. Len(q) : q[k].op = "send" => q[k].n \in Nat \ {0}
    BY Programmed DEF Typed
  <2>2. m \in 1 .. Len(q) /\ i = q[m] /\ i.op = "send"
    BY <1>1
  <2> HIDE DEF q, m, i
  <2> QED BY <2>1, <2>2
<1>3. i.fid \in Nat /\ i.dests \in Seq(Cores)
  <2> HIDE DEF i
  <2> QED BY <1>1 DEF Instr
<1>4. o \in Seq(Cores)
  BY <1>3, OthersType
<1>5. l \in Nat
  BY <1>1
<1>6. P = [k \in DOMAIN o |-> Packet(k)]
  BY DEF PacketsOf
<1>7. DOMAIN o = 1 .. Len(o) /\ Len(o) \in Nat /\ \A k \in 1 .. Len(o) : o[k] \in Cores
  BY <1>4
<1> HIDE DEF o, i, l, r, P
<1>8. ASSUME NEW k \in 1 .. Len(o)
      PROVE  Packet(k) \in PacketType
  <2>1. k \in Nat /\ o[k] \in Cores
    BY <1>7
  <2>2. <<t, l, k>> \in Seq(Nat)
    BY <1>2, <1>5, <2>1
  <2> QED BY <1>2, <1>3, <2>1, <2>2 DEF PacketType
<1>9. P \in [1 .. Len(o) -> PacketType]
  BY <1>6, <1>7, <1>8
<1>10. P \in Seq(PacketType) /\ Len(P) = Len(o)
  BY <1>7, <1>9
<1>11. \A k \in 1 .. Len(P) : /\ P[k].src = c /\ P[k].dest = o[k] /\ P[k].fid = i.fid
                              /\ P[k].key = <<t, l, k>>
  BY <1>6, <1>7, <1>10
<1> QED BY <1>10, <1>11 DEF P, o, i, l, r

\* Taking a packet out of a receive queue turns it round.
LEMMA AfterReceiveType ==
  ASSUME NEW S, NEW q \in Seq(S), NEW k \in 1 .. Len(q)
  PROVE  /\ AfterReceive(q, k) \in Seq(S)
         /\ Len(AfterReceive(q, k)) = Len(q) - 1
         /\ \A j \in 1 .. Len(q) - 1 :
              AfterReceive(q, k)[j] = IF j <= Len(q) - k THEN q[j + k]
                                      ELSE q[j - (Len(q) - k)]
<1> DEFINE n == Len(q)
           a == SubSeq(q, k + 1, n)
           b == SubSeq(q, 1, k - 1)
<1>1. n \in Nat /\ k \in 1 .. n /\ \A j \in 1 .. n : q[j] \in S
  OBVIOUS
<1> HIDE DEF n
<1>2. a \in Seq(S) /\ Len(a) = n - k /\ \A j \in 1 .. n - k : a[j] = q[j + k]
  <2>1. \A j \in k + 1 .. n : q[j] \in S
    BY <1>1
  <2>2. k + 1 \in Int /\ n \in Int /\ n - (k + 1) + 1 = n - k
    BY <1>1
  <2>3. /\ a \in Seq(S)
        /\ Len(a) = IF k + 1 <= n THEN n - (k + 1) + 1 ELSE 0
        /\ \A j \in 1 .. n - (k + 1) + 1 : a[j] = q[k + 1 + j - 1]
    BY <2>1, <2>2, SubSeqProperties
  <2> HIDE DEF a
  <2>4. Len(a) = n - k
    BY <1>1, <2>3
  <2>5. \A j \in 1 .. n - k : k + 1 + j - 1 = j + k
    BY <1>1
  <2> QED BY <2>2, <2>3, <2>4, <2>5
<1>3. b \in Seq(S) /\ Len(b) = k - 1 /\ \A j \in 1 .. k - 1 : b[j] = q[j]
  <2>1. \A j \in 1 .. k - 1 : q[j] \in S
    BY <1>1
  <2>2. 1 \in Int /\ k - 1 \in Int
    BY <1>1
  <2>3. /\ b \in Seq(S)
        /\ Len(b) = IF 1 <= k - 1 THEN k - 1 - 1 + 1 ELSE 0
        /\ \A j \in 1 .. k - 1 - 1 + 1 : b[j] = q[1 + j - 1]
    BY <2>1, <2>2, SubSeqProperties
  <2> HIDE DEF b
  <2>4. Len(b) = k - 1 /\ k - 1 - 1 + 1 = k - 1
    BY <1>1, <2>3
  <2>5. \A j \in 1 .. k - 1 : 1 + j - 1 = j
    BY <1>1
  <2> QED BY <2>3, <2>4, <2>5
<1>4. AfterReceive(q, k) = a \o b
  BY DEF AfterReceive, n
<1> HIDE DEF a, b
<1>5. /\ a \o b \in Seq(S) /\ Len(a \o b) = Len(a) + Len(b)
      /\ \A j \in 1 .. Len(a) + Len(b) :
           (a \o b)[j] = IF j <= Len(a) THEN a[j] ELSE b[j - Len(a)]
  BY <1>2, <1>3, ConcatProperties
<1>6. Len(a) + Len(b) = n - 1
  BY <1>1, <1>2, <1>3
<1>7. ASSUME NEW j \in 1 .. n - 1
      PROVE  (a \o b)[j] = IF j <= n - k THEN q[j + k] ELSE q[j - (n - k)]
  <2>1. CASE j <= n - k
    BY <1>1, <1>2, <1>5, <1>6, <2>1
  <2>2. CASE ~(j <= n - k)
    <3>1. j - (n - k) \in 1 .. k - 1
      BY <1>1, <2>2
    <3>2. (a \o b)[j] = b[j - (n - k)]
      BY <1>2, <1>5, <1>6, <2>2
    <3> QED BY <1>3, <2>2, <3>1, <3>2
  <2> QED BY <2>1, <2>2
<1> QED BY <1>4, <1>5, <1>6, <1>7 DEF n

-----------------------------------------------------------------------------
(***************************************************************************)
(* What Issue does, by the outcome of the instruction.                     *)
(***************************************************************************)
\* The task's last instruction has finished, or the one tried has to be tried
\* again.
NothingDone(c, t) ==
  /\ UNCHANGED <<sendQ, recvQ>>
  /\ \/ Ahead(c, t) = <<>> /\ left[c][t] # -1 /\ left'[c][t] = left[c][t]
     \/ Ahead(c, t) # <<>> /\ left'[c][t] = -1

\* The instruction is executed.
HasSent(c, t) ==
  /\ Head(Ahead(c, t)).op = "send"
  /\ sendQ' = [sendQ EXCEPT ![c] = @ \o PacketsOf(c, t, Ahead(c, t))]
  /\ UNCHANGED recvQ

HasReceived(c, t) ==
  /\ Head(Ahead(c, t)).op = "recv"
  /\ \E k \in DOMAIN recvQ[c] :
       /\ recvQ[c][k].fid = Head(Ahead(c, t)).fid
       /\ recvQ' = [recvQ EXCEPT ![c] = AfterReceive(@, k)]
  /\ UNCHANGED sendQ

HasBegun(c, t) == Head(Ahead(c, t)).op = "exec" /\ UNCHANGED <<sendQ, recvQ>>

SomethingDone(c, t) ==
  /\ Ahead(c, t) # <<>> /\ left'[c][t] \in Nat
  /\ HasSent(c, t) \/ HasReceived(c, t) \/ HasBegun(c, t)

LEMMA TurnPassed ==
  ASSUME Typed, NEW c \in Cores, Turn(c), PassTurn(c)
  PROVE  /\ phase = "core" /\ phase' \in {"core", "noc"} /\ at' \in Cores
         /\ UNCHANGED <<prog, partial, net, tick, backup>>
<1>1. at' \in Cores
  BY ChipAssumption DEF PassTurn, Cores
<1> QED BY <1>1 DEF Turn, PassTurn

LEMMA IssueEffects ==
  ASSUME Typed, NEW c \in Cores, NEW t \in Tasks(c), Issue(c, t)
  PROVE  /\ t \in DOMAIN prog[c] /\ tasks[c][t] # <<>>
         /\ tasks' = [tasks EXCEPT ![c][t] = Ahead(c, t)]
         /\ DOMAIN left' = Cores
         /\ \A d \in Cores : /\ DOMAIN left'[d] = DOMAIN prog[d]
                             /\ \A u \in DOMAIN prog[d] :
                                  d # c \/ u # t => left'[d][u] = left[d][u]
         /\ left'[c][t] \in Nat \cup {-1}
         /\ pipeOpen' \in [Cores -> BOOLEAN]
         /\ moved' \in BOOLEAN
         /\ NothingDone(c, t) \/ SomethingDone(c, t)
<1> DEFINE r == Ahead(c, t)
           i == Head(r)
           l == left[c][t]
           Set(x) == left' = [left EXCEPT ![c][t] = x]
           found == Matches(c, i.fid)
           first == CHOOSE k \in found : \A j \in found : k <= j
<1>1. t \in DOMAIN prog[c] /\ t \in DOMAIN left[c] /\ tasks[c][t] # <<>>
  BY DEF Typed, Tasks, Issue, Selectable, Candidates
<1>2. l \in Nat \cup {-1} /\ DOMAIN left = Cores
      /\ \A d \in Cores : DOMAIN left[d] = DOMAIN prog[d]
  BY <1>1 DEF Typed
<1>3. /\ tasks' = [tasks EXCEPT ![c][t] = r]
      /\ \/ r = <<>> /\ UNCHANGED <<left, pipeOpen, sendQ, recvQ>>
         \/ r # <<>> /\ (SendInstr(c, t, r) \/ RecvInstr(c, t, r) \/ ExecInstr(c, t, r))
  BY DEF Issue, Ahead
<1>4. r # <<>> => i \in Instr
  BY <1>1, AheadFacts
<1>5. ASSUME NEW x, Set(x)
      PROVE  /\ DOMAIN left' = Cores /\ left'[c][t] = x
             /\ \A d \in Cores : /\ DOMAIN left'[d] = DOMAIN prog[d]
                                 /\ \A u \in DOMAIN prog[d] :
                                      d # c \/ u # t => left'[d][u] = left[d][u]
  BY <1>1, <1>2, <1>5
<1>6. pipeOpen \in [Cores -> BOOLEAN] /\ Refreshed(c) \in [Cores -> BOOLEAN]
  BY DEF Typed, Refreshed, HasRoom
<1>7. moved' \in BOOLEAN
  BY DEF Issue
<1>8. CASE r = <<>>
  <2>1. l # -1
    BY <1>1, <1>8 DEF Ahead
  <2>2. UNCHANGED <<left, pipeOpen, sendQ, recvQ>>
    BY <1>3, <1>8
  <2>3. NothingDone(c, t)
    BY <1>8, <2>1, <2>2 DEF NothingDone
  <2> QED BY <1>1, <1>2, <1>3, <1>6, <1>7, <2>2, <2>3
<1>9. CASE r # <<>> /\ SendInstr(c, t, r)
  <2>1. pipeOpen' \in [Cores -> BOOLEAN]
    BY <1>6, <1>9 DEF SendInstr
  <2>2. CASE Sent(c, t, r)
    <3>1. Set(1) /\ HasSent(c, t)
      BY <1>9, <2>2 DEF SendInstr, HasSent
    <3>2. left'[c][t] = 1
      BY <1>5, <3>1
    <3>3. SomethingDone(c, t)
      BY <1>9, <3>1, <3>2 DEF SomethingDone
    <3> QED BY <1>1, <1>3, <1>5, <1>7, <2>1, <3>1, <3>2, <3>3
  <2>3. CASE ~Sent(c, t, r)
    <3>1. Set(-1) /\ UNCHANGED <<sendQ, recvQ>>
      BY <1>9, <2>3 DEF SendInstr
    <3>2. left'[c][t] = -1
      BY <1>5, <3>1
    <3>3. NothingDone(c, t)
      BY <1>9, <3>1, <3>2 DEF NothingDone
    <3> QED BY <1>1, <1>3, <1>5, <1>7, <2>1, <3>1, <3>2, <3>3
  <2> QED BY <2>2, <2>3
<1>10. CASE r # <<>> /\ RecvInstr(c, t, r)
  <2>1. pipeOpen' \in [Cores -> BOOLEAN]
    BY <1>6, <1>10 DEF RecvInstr
  <2>2. CASE found # {}
    <3>1. Set(1) /\ recvQ' = [recvQ EXCEPT ![c] = AfterReceive(@, first)]
          /\ UNCHANGED sendQ /\ i.op = "recv"
      BY <1>10, <2>2 DEF RecvInstr
    <3>2. first \in DOMAIN recvQ[c] /\ recvQ[c][first].fid = i.fid
      <4>1. recvQ[c] \in Seq(PacketType)
        BY DEF Typed
      <4>2. found \subseteq Nat
        BY <4>1 DEF Matches
      <4>3. \E k \in found : \A j \in found : k <= j
        <5> HIDE DEF found
        <5> QED BY <2>2, <4>2, LeastNumber
      <4>4. first \in found
        BY <4>3
      <4> QED BY <4>4 DEF Matches
    <3>3. HasReceived(c, t)
      BY <3>1, <3>2 DEF HasReceived
    <3>4. left'[c][t] = 1
      BY <1>5, <3>1
    <3>5. SomethingDone(c, t)
      BY <1>10, <3>3, <3>4 DEF SomethingDone
    <3> QED BY <1>1, <1>3, <1>5, <1>7, <2>1, <3>1, <3>4, <3>5
  <2>3. CASE found = {}
    <3>1. Set(-1) /\ UNCHANGED <<sendQ, recvQ>>
      BY <1>10, <2>3 DEF RecvInstr
    <3>2. left'[c][t] = -1
      BY <1>5, <3>1
    <3>3. NothingDone(c, t)
      BY <1>10, <3>1, <3>2 DEF NothingDone
    <3> QED BY <1>1, <1>3, <1>5, <1>7, <2>1, <3>1, <3>2, <3>3
  <2> QED BY <2>2, <2>3
<1>11. CASE r # <<>> /\ ExecInstr(c, t, r)
  <2>1. Set(i.n) /\ HasBegun(c, t) /\ UNCHANGED pipeOpen
    BY <1>11 DEF ExecInstr, HasBegun
  <2>2. i.n \in Nat
    <3> HIDE DEF i
    <3> QED BY <1>4, <1>11 DEF Instr
  <2>3. left'[c][t] \in Nat
    BY <1>5, <2>1, <2>2
  <2>4. SomethingDone(c, t)
    BY <1>11, <2>1, <2>3 DEF SomethingDone
  <2> QED BY <1>1, <1>3, <1>5, <1>6, <1>7, <2>1, <2>3, <2>4
<1> QED BY <1>3, <1>8, <1>9, <1>10, <1>11

\* An executed instruction is one less to execute; another one is none less.
LEMMA IssueCounts ==
  ASSUME Typed, NEW c \in Cores, NEW t \in Tasks(c), Issue(c, t)
  PROVE  /\ \A d \in Cores : \A u \in DOMAIN prog[d] :
              /\ Unexecuted(d, u) \in Int /\ Unexecuted(d, u)' \in Int
              /\ Unexecuted(d, u)' <= Unexecuted(d, u)
              /\ d # c \/ u # t => Unexecuted(d, u)' = Unexecuted(d, u)
         /\ SomethingDone(c, t) => Unexecuted(c, t)' = Unexecuted(c, t) - 1
<1>1. /\ t \in DOMAIN prog[c] /\ tasks[c][t] # <<>>
      /\ tasks' = [tasks EXCEPT ![c][t] = Ahead(c, t)]
      /\ \A d \in Cores : \A u \in DOMAIN prog[d] : d # c \/ u # t => left'[d][u] = left[d][u]
      /\ left'[c][t] \in Nat \cup {-1}
      /\ NothingDone(c, t) \/ SomethingDone(c, t)
  BY IssueEffects
<1>2. /\ DOMAIN tasks = Cores
      /\ \A d \in Cores : /\ DOMAIN tasks[d] = DOMAIN prog[d]
                          /\ \A u \in DOMAIN prog[d] : tasks[d][u] \in Seq(Instr)
  BY DEF Typed
<1>3. \A d \in Cores : \A u \in DOMAIN prog[d] :
        d # c \/ u # t => tasks'[d][u] = tasks[d][u]
  BY <1>1, <1>2
<1>4. tasks'[c][t] = Ahead(c, t)
  BY <1>1, <1>2
<1>5. \A d \in Cores : \A u \in DOMAIN prog[d] :
        Unexecuted(d, u) \in Int /\ (d # c \/ u # t => Unexecuted(d, u)' = Unexecuted(d, u))
  BY <1>1, <1>2, <1>3 DEF Unexecuted
<1>6. Ahead(c, t) \in Seq(Instr) /\ Unexecuted(c, t) = Len(Ahead(c, t))
  BY <1>1, AheadFacts
<1>7. Unexecuted(c, t)' = IF left'[c][t] = -1 THEN Len(Ahead(c, t)) ELSE Len(Ahead(c, t)) - 1
  BY <1>4 DEF Unexecuted
<1>8. /\ Unexecuted(c, t)' \in Int /\ Unexecuted(c, t)' <= Unexecuted(c, t)
      /\ SomethingDone(c, t) => Unexecuted(c, t)' = Unexecuted(c, t) - 1
  BY <1>6, <1>7 DEF SomethingDone
<1> QED BY <1>1, <1>5, <1>8

\* The send queues hold what they held and, after a send, its packets at the
\* end of the core's own.
LEMMA IssueQueues ==
  ASSUME Typed, NEW c \in Cores, NEW t \in Tasks(c), Issue(c, t)
  PROVE  /\ sendQ' \in [Cores -> Seq(PacketType)] /\ recvQ' \in [Cores -> Seq(PacketType)]
         /\ \A d \in Cores \ {c} : sendQ'[d] = sendQ[d] /\ recvQ'[d] = recvQ[d]
         /\ \A k \in 1 .. Len(sendQ[c]) : sendQ'[c][k] = sendQ[c][k]
         /\ \/ sendQ' = sendQ
            \/ /\ Ahead(c, t) # <<>> /\ SomethingDone(c, t)
               /\ Len(sendQ'[c]) >= Len(sendQ[c])
               /\ \A k \in Len(sendQ[c]) + 1 .. Len(sendQ'[c]) :
                    /\ sendQ'[c][k].src = c
                    /\ sendQ'[c][k].key = <<t, Len(Ahead(c, t)), k - Len(sendQ[c])>>
<1> DEFINE P == PacketsOf(c, t, Ahead(c, t))
           q == sendQ[c]
<1>1. /\ t \in DOMAIN prog[c] /\ tasks[c][t] # <<>>
      /\ NothingDone(c, t) \/ SomethingDone(c, t)
  BY IssueEffects
<1>2. /\ sendQ \in [Cores -> Seq(PacketType)] /\ recvQ \in [Cores -> Seq(PacketType)]
      /\ q \in Seq(PacketType)
  BY DEF Typed
<1>3. CASE NothingDone(c, t) \/ HasBegun(c, t)
  BY <1>2, <1>3 DEF NothingDone, HasBegun
<1>4. CASE SomethingDone(c, t) /\ HasReceived(c, t)
  <2>1. PICK k \in DOMAIN recvQ[c] : recvQ' = [recvQ EXCEPT ![c] = AfterReceive(@, k)]
    BY <1>4 DEF HasReceived
  <2>2. sendQ' = sendQ
    BY <1>4 DEF HasReceived
  <2>3. recvQ[c] \in Seq(PacketType) /\ k \in 1 .. Len(recvQ[c])
    BY <1>2
  <2>4. AfterReceive(recvQ[c], k) \in Seq(PacketType)
    BY <2>3, AfterReceiveType
  <2> QED BY <1>2, <2>1, <2>2, <2>4
<1>5. CASE SomethingDone(c, t) /\ HasSent(c, t)
  <2>1. Ahead(c, t) # <<>> /\ Head(Ahead(c, t)).op = "send"
        /\ sendQ' = [sendQ EXCEPT ![c] = q \o P] /\ UNCHANGED recvQ
    BY <1>5 DEF SomethingDone, HasSent
  <2>2. /\ P \in Seq(PacketType)
        /\ \A k \in 1 .. Len(P) : P[k].src = c /\ P[k].key = <<t, Len(Ahead(c, t)), k>>
    BY <1>1, <2>1, PacketsMade
  <2> HIDE DEF P, q
  <2>3. /\ q \o P \in Seq(PacketType) /\ Len(q \o P) = Len(q) + Len(P)
        /\ \A k \in 1 .. Len(q) + Len(P) :
             (q \o P)[k] = IF k <= Len(q) THEN q[k] ELSE P[k - Len(q)]
    BY <1>2, <2>2, ConcatProperties
  <2>4. sendQ'[c] = q \o P /\ sendQ' \in [Cores -> Seq(PacketType)]
        /\ \A d \in Cores \ {c} : sendQ'[d] = sendQ[d]
    BY <1>2, <2>1, <2>3
  <2>5. Len(q) \in Nat /\ Len(P) \in Nat
    BY <1>2, <2>2
  <2>6. ASSUME NEW k \in Len(q) + 1 .. Len(q) + Len(P)
        PROVE  /\ (q \o P)[k].src = c
               /\ (q \o P)[k].key = <<t, Len(Ahead(c, t)), k - Len(q)>>
    <3>1. k \in 1 .. Len(q) + Len(P) /\ ~(k <= Len(q)) /\ k - Len(q) \in 1 .. Len(P)
      BY <2>5
    <3>2. (q \o P)[k] = P[k - Len(q)]
      BY <2>3, <3>1
    <3> QED BY <2>2, <3>1, <3>2
  <2>7. \A k \in 1 .. Len(q) : (q \o P)[k] = q[k]
    BY <2>3, <2>5
  <2> DEFINE r == sendQ'[c]
             n == Len(q)
             m == Len(P)
  <2>8. r = q \o P /\ n \in Nat /\ m \in Nat /\ Len(r) = n + m
    BY <2>3, <2>4, <2>5
  <2>9. \A k \in 1 .. n : r[k] = q[k]
    BY <2>7, <2>8
  <2>10. \A k \in n + 1 .. n + m :
           r[k].src = c /\ r[k].key = <<t, Len(Ahead(c, t)), k - n>>
    BY <2>6, <2>8
  <2>11. Len(r) >= n
    <3> HIDE DEF r, n, m
    <3> QED BY <2>8
  <2>12. \A k \in n + 1 .. Len(r) :
           r[k].src = c /\ r[k].key = <<t, Len(Ahead(c, t)), k - n>>
    <3> HIDE DEF r, n, m
    <3> QED BY <2>8, <2>10
  <2> QED BY <1>2, <1>5, <2>1, <2>4, <2>9, <2>11, <2>12 DEF q
<1> QED BY <1>1, <1>3, <1>4, <1>5 DEF SomethingDone

LEMMA IssueInv ==
  ASSUME IInv, NEW c \in Cores, NEW t \in Tasks(c), Issue(c, t)
  PROVE  IInv'
<1>1. Typed /\ Counted /\ Distinct /\ Sending
  BY DEF IInv
<1>2. /\ t \in DOMAIN prog[c] /\ tasks[c][t] # <<>>
      /\ tasks' = [tasks EXCEPT ![c][t] = Ahead(c, t)]
      /\ DOMAIN left' = Cores
      /\ \A d \in Cores : /\ DOMAIN left'[d] = DOMAIN prog[d]
                          /\ \A u \in DOMAIN prog[d] :
                               d # c \/ u # t => left'[d][u] = left[d][u]
      /\ left'[c][t] \in Nat \cup {-1}
      /\ pipeOpen' \in [Cores -> BOOLEAN]
      /\ moved' \in BOOLEAN
  BY <1>1, IssueEffects
<1>3. /\ phase = "core" /\ phase' \in {"core", "noc"} /\ at' \in Cores
      /\ UNCHANGED <<prog, partial, net, tick, backup>>
  BY <1>1, TurnPassed DEF Issue
<1>4. /\ sendQ' \in [Cores -> Seq(PacketType)] /\ recvQ' \in [Cores -> Seq(PacketType)]
      /\ \A d \in Cores \ {c} : sendQ'[d] = sendQ[d] /\ recvQ'[d] = recvQ[d]
      /\ \A k \in 1 .. Len(sendQ[c]) : sendQ'[c][k] = sendQ[c][k]
      /\ \/ sendQ' = sendQ
         \/ /\ Ahead(c, t) # <<>> /\ SomethingDone(c, t)
            /\ Len(sendQ'[c]) >= Len(sendQ[c])
            /\ \A k \in Len(sendQ[c]) + 1 .. Len(sendQ'[c]) :
                 /\ sendQ'[c][k].src = c
                 /\ sendQ'[c][k].key = <<t, Len(Ahead(c, t)), k - Len(sendQ[c])>>
  BY <1>1, IssueQueues
<1>5. /\ \A d \in Cores : \A u \in DOMAIN prog[d] :
           /\ Unexecuted(d, u) \in Int /\ Unexecuted(d, u)' \in Int
           /\ Unexecuted(d, u)' <= Unexecuted(d, u)
      /\ SomethingDone(c, t) => Unexecuted(c, t)' = Unexecuted(c, t) - 1
  BY <1>1, IssueCounts
<1>6. /\ Ahead(c, t) \in Seq(Instr) /\ Remains(Ahead(c, t), prog[c][t])
      /\ Unexecuted(c, t) = Len(Ahead(c, t))
  BY <1>1, <1>2, AheadFacts
<1>7. Typed'
  <2>1. /\ DOMAIN tasks' = Cores
        /\ \A d \in Cores : /\ DOMAIN tasks'[d] = DOMAIN prog[d]
                            /\ \A u \in DOMAIN prog[d] :
                                 tasks'[d][u] = IF d = c /\ u = t THEN Ahead(c, t)
                                                ELSE tasks[d][u]
    BY <1>1, <1>2 DEF Typed
  <2>2. \A d \in Cores : \A u \in DOMAIN prog[d] :
          /\ tasks'[d][u] \in Seq(Instr)
          /\ Remains(tasks'[d][u], prog[d][u])
          /\ left'[d][u] \in Nat \cup {-1}
    BY <1>1, <1>2, <1>6, <2>1 DEF Typed
  <2>3. \A d \in Cores : \A u \in DOMAIN prog'[d] :
          /\ tasks'[d][u] \in Seq(Instr)
          /\ Remains(tasks[d][u], prog[d][u])'
          /\ left'[d][u] \in Nat \cup {-1}
    <3>1. prog' = prog
      BY <1>3
    <3>2. \A d \in Cores : \A u \in DOMAIN prog[d] :
            Remains(tasks[d][u], prog[d][u])' <=> Remains(tasks'[d][u], prog[d][u])
      BY <3>1 DEF Remains
    <3> QED BY <2>2, <3>1, <3>2
  <2>4. \A d \in Cores : DOMAIN tasks'[d] = DOMAIN prog'[d] /\ DOMAIN left'[d] = DOMAIN prog'[d]
    BY <1>2, <1>3, <2>1
  <2>5. /\ prog' \in Programs
        /\ phase' \in {"head", "core", "noc", "check", "finished", "deadlock"}
        /\ tick' \in 0 .. CheckFreq - 1 /\ partial' \in [Cores -> PacketType \cup {None}]
        /\ DOMAIN net' \subseteq PacketType
        /\ net' \in [DOMAIN net' -> [injected : Nat, retired : Nat]]
        /\ backup'.checks \in 0 .. 2
    BY <1>1, <1>3 DEF Typed
  <2> QED BY <1>2, <1>3, <1>4, <2>1, <2>3, <2>4, <2>5 DEF Typed
<1>8. Counted'
  BY <1>1, <1>3 DEF Counted
<1>9. Sending'
  BY <1>1, <1>3 DEF Sending
<1>10. Waiting' /\ Ended'
  BY <1>3 DEF Waiting, Ended
<1> DEFINE L == [d \in Cores |-> [u \in DOMAIN prog[d] |-> Unexecuted(d, u)']]
           Later(d, p) == /\ p.src = d /\ Len(p.key) = 3
                          /\ p.key[1] \in DOMAIN prog[d] /\ p.key[2] > L[d][p.key[1]]
<1>11. ASSUME NEW d \in Cores, NEW p \in PacketType, Made(d, p)
       PROVE  Later(d, p)
  <2> DEFINE j == p.key[2]
             u == p.key[1]
  <2>1. p.src = d /\ Len(p.key) = 3 /\ u \in DOMAIN prog[d] /\ j > Unexecuted(d, u)
    BY <1>11 DEF Made
  <2>2. j \in Nat
    BY <2>1 DEF PacketType
  <2>3. /\ Unexecuted(d, u) \in Int /\ L[d][u] \in Int
        /\ L[d][u] <= Unexecuted(d, u)
    BY <1>5, <2>1
  <2> HIDE DEF j, u, L
  <2>4. j > L[d][u]
    BY <2>1, <2>2, <2>3
  <2> QED BY <2>1, <2>4 DEF j, u
<1>12. Distinct'
  <2> DEFINE q == sendQ[c]
             r == sendQ'[c]
             n == Len(q)
             a == Len(Ahead(c, t))
  <2>1. /\ q \in Seq(PacketType) /\ r \in Seq(PacketType) /\ n \in Nat /\ a \in Nat
        /\ sendQ \in [Cores -> Seq(PacketType)] /\ DOMAIN net \subseteq PacketType
    BY <1>1, <1>4, <1>6 DEF Typed
  <2>2. \A p \in DOMAIN net : Made(p.src, p) /\ p.src \in Cores /\ p \in PacketType
    BY <1>1, <2>1 DEF Distinct, PacketType
  <2>3. \A p \in DOMAIN net : Later(p.src, p)
    <3> HIDE DEF Later
    <3> QED BY <1>11, <2>2
  <2>4. ASSUME NEW d \in Cores, NEW k \in DOMAIN sendQ[d]
        PROVE  /\ Made(d, sendQ[d][k]) /\ Later(d, sendQ[d][k])
               /\ sendQ[d][k] \in PacketType /\ sendQ[d][k] \notin DOMAIN net
               /\ \A j \in DOMAIN sendQ[d] : j # k => sendQ[d][j] # sendQ[d][k]
    <3>1. sendQ[d][k] \in PacketType
      BY <2>1
    <3>2. /\ Made(d, sendQ[d][k]) /\ sendQ[d][k] \notin DOMAIN net
          /\ \A j \in DOMAIN sendQ[d] : j # k => sendQ[d][j] # sendQ[d][k]
      BY <1>1 DEF Distinct
    <3> HIDE DEF Later
    <3> QED BY <1>11, <3>1, <3>2
  <2>5. \A d \in Cores : \A k \in DOMAIN sendQ'[d] :
          /\ Later(d, sendQ'[d][k]) /\ sendQ'[d][k] \notin DOMAIN net
          /\ \A j \in DOMAIN sendQ'[d] : j # k => sendQ'[d][j] # sendQ'[d][k]
    <3>1. CASE sendQ' = sendQ
      <4> HIDE DEF Later
      <4> QED BY <2>4, <3>1
    <3>2. CASE sendQ' # sendQ
      <4>1. /\ SomethingDone(c, t) /\ Len(r) >= n
            /\ \A k \in 1 .. n : r[k] = q[k]
            /\ \A k \in n + 1 .. Len(r) : r[k].src = c /\ r[k].key = <<t, a, k - n>>
            /\ \A d \in Cores \ {c} : sendQ'[d] = sendQ[d]
        BY <1>4, <3>2
      <4>2. L[c][t] = a - 1 /\ Unexecuted(c, t) = a
        BY <1>2, <1>5, <1>6, <4>1
      <4>3. \A k \in 1 .. n : /\ Made(c, q[k]) /\ Later(c, q[k]) /\ q[k] \notin DOMAIN net
                              /\ \A j \in 1 .. n : j # k => q[j] # q[k]
        <5> HIDE DEF Later
        <5> QED BY <2>1, <2>4
      <4> HIDE DEF q, r, n, a, L
      <4>4. ASSUME NEW k \in n + 1 .. Len(r)
            PROVE  /\ Later(c, r[k]) /\ ~Made(c, r[k])
                   /\ \A j \in n + 1 .. Len(r) : j # k => r[j] # r[k]
        <5>1. /\ r[k].src = c /\ Len(r[k].key) = 3 /\ r[k].key[1] = t /\ r[k].key[2] = a
              /\ r[k].key[3] = k - n
          <6> DEFINE x == r[k].key
          <6>1. r[k].src = c /\ x = <<t, a, k - n>>
            BY <4>1
          <6> HIDE DEF x
          <6>2. Len(x) = 3 /\ x[1] = t /\ x[2] = a /\ x[3] = k - n
            BY <6>1
          <6> QED BY <6>1, <6>2 DEF x
        <5>2. Later(c, r[k])
          BY <1>2, <2>1, <4>2, <5>1
        <5>3. ~Made(c, r[k])
          BY <2>1, <4>2, <5>1 DEF Made
        <5>4. ASSUME NEW j \in n + 1 .. Len(r)
              PROVE  r[j].key[3] = j - n
          <6> DEFINE x == r[j].key
          <6>1. x = <<t, a, j - n>>
            BY <4>1
          <6> HIDE DEF x
          <6>2. x[3] = j - n
            BY <6>1
          <6> QED BY <6>2 DEF x
        <5>5. \A j \in n + 1 .. Len(r) : j # k => r[j] # r[k]
          BY <2>1, <5>1, <5>4
        <5> QED BY <5>2, <5>3, <5>5
      <4>5. ASSUME NEW k \in 1 .. Len(r)
            PROVE  /\ Later(c, r[k]) /\ r[k] \notin DOMAIN net
                   /\ \A j \in 1 .. Len(r) : j # k => r[j] # r[k]
        <5> HIDE DEF Later
        <5>1. CASE k <= n
          <6>1. k \in 1 .. n /\ r[k] = q[k]
            BY <2>1, <4>1, <5>1
          <6>2. ASSUME NEW j \in 1 .. Len(r), j # k
                PROVE  r[j] # r[k]
            <7>1. CASE j <= n
              <8>1. j \in 1 .. n
                BY <2>1, <7>1
              <8> QED BY <4>1, <4>3, <6>1, <6>2, <8>1
            <7>2. CASE ~(j <= n)
              <8>1. j \in n + 1 .. Len(r)
                BY <2>1, <7>2
              <8> QED BY <4>3, <4>4, <6>1, <8>1
            <7> QED BY <7>1, <7>2
          <6> QED BY <4>3, <6>1, <6>2
        <5>2. CASE ~(k <= n)
          <6>1. k \in n + 1 .. Len(r)
            BY <2>1, <5>2
          <6>2. ASSUME NEW j \in 1 .. Len(r), j # k
                PROVE  r[j] # r[k]
            <7>1. CASE j <= n
              <8>1. j \in 1 .. n
                BY <2>1, <7>1
              <8> QED BY <4>1, <4>3, <4>4, <6>1, <8>1
            <7>2. CASE ~(j <= n)
              <8>1. j \in n + 1 .. Len(r)
                BY <2>1, <7>2
              <8> QED BY <4>4, <6>1, <6>2, <8>1
            <7> QED BY <7>1, <7>2
          <6>3. r[k] \notin DOMAIN net
            <7>1. r[k].src = c
              BY <4>1, <6>1
            <7> QED BY <2>2, <4>4, <6>1, <7>1
          <6> QED BY <4>4, <6>1, <6>2, <6>3
        <5> QED BY <5>1, <5>2
      <4>6. DOMAIN r = 1 .. Len(r)
        BY <2>1
      <4> HIDE DEF Later
      <4>7. \A k \in DOMAIN r : /\ Later(c, r[k]) /\ r[k] \notin DOMAIN net
                                /\ \A j \in DOMAIN r : j # k => r[j] # r[k]
        BY <4>5, <4>6
      <4> QED BY <2>4, <4>1, <4>7 DEF r
    <3> QED BY <3>1, <3>2
  <2>6. \A d \in Cores : \A u \in DOMAIN prog[d] :
          L[d][u] = IF left'[d][u] = -1 THEN Len(tasks'[d][u]) ELSE Len(tasks'[d][u]) - 1
    BY DEF Unexecuted
  <2>7. \A d \in Cores : \A k \in DOMAIN sendQ'[d] : Made(d, sendQ[d][k])'
    <3> HIDE DEF L
    <3> QED BY <1>3, <2>5, <2>6 DEF Made, Unexecuted
  <2>8. \A p \in DOMAIN net : p.src \in Cores
    BY <2>2
  <2>9. \A p \in DOMAIN net' : Made(p.src, p)'
    <3> HIDE DEF L
    <3> QED BY <1>3, <2>3, <2>6, <2>8 DEF Made, Unexecuted
  <2> HIDE DEF Later, L
  <2> QED BY <1>3, <2>5, <2>7, <2>9 DEF Distinct
<1> QED BY <1>7, <1>8, <1>9, <1>10, <1>12 DEF IInv

-----------------------------------------------------------------------------
(***************************************************************************)
(* A step of the network.                                                  *)
(***************************************************************************)
Fresh == {Head(sendQ[c]) : c \in Generating}
Known == DOMAIN net \cup Fresh
FlitsOf(p) == IF p \in DOMAIN net THEN net[p] ELSE [injected |-> 0, retired |-> 0]
In(p, inject) ==
  FlitsOf(p).injected + (IF p \in {Current(c) : c \in inject} THEN 1 ELSE 0)
Out(p, retire) ==
  FlitsOf(p).retired + (IF p \in {retire[d] : d \in Cores} \ {None} THEN 1 ELSE 0)

\* The choices of Network.
NetworkChoice(inject, retire) ==
  /\ inject \in SUBSET {c \in Cores : Current(c) # None}
  /\ retire \in [Cores -> Arrived \cup {None}]
  /\ \A d \in Cores : retire[d] # None => retire[d].dest = d

LEMMA NocEffects ==
  ASSUME NEW inject, NEW retire, NocStep(inject, retire)
  PROVE  /\ phase = "noc" /\ phase' = "check"
         /\ sendQ' = [c \in Cores |-> IF c \in Generating THEN Tail(sendQ[c]) ELSE sendQ[c]]
         /\ partial' = [c \in Cores |->
              IF Current(c) # None /\ In(Current(c), inject) < Current(c).n
              THEN Current(c) ELSE None]
         /\ net' = [p \in {q \in Known : Out(q, retire) < q.n} |->
                      [injected |-> In(p, inject), retired |-> Out(p, retire)]]
         /\ recvQ' = [d \in Cores |->
              IF retire[d] # None /\ net[retire[d]].retired = 0
              THEN Append(recvQ[d], retire[d]) ELSE recvQ[d]]
         /\ left' = [c \in Cores |-> [t \in Tasks(c) |->
              IF left[c][t] > 0 THEN left[c][t] - 1 ELSE left[c][t]]]
         /\ tick' = (tick + 1) % CheckFreq
         /\ moved' \in BOOLEAN
         /\ UNCHANGED <<prog, at, tasks, pipeOpen, backup>>
  BY DEF NocStep, Known, Fresh, FlitsOf, In, Out

\* A source that generates takes the head of its queue.
LEMMA Generated ==
  ASSUME Typed, Distinct, NEW c \in Generating
  PROVE  /\ c \in Cores /\ sendQ[c] # <<>>
         /\ Head(sendQ[c]) = sendQ[c][1] /\ 1 \in DOMAIN sendQ[c]
         /\ Head(sendQ[c]) \in PacketType /\ Head(sendQ[c]).src = c
         /\ Head(sendQ[c]) \notin DOMAIN net /\ Head(sendQ[c]) \in Fresh
         /\ Current(c) = Head(sendQ[c])
         /\ Made(c, Head(sendQ[c]))
<1>1. c \in Cores /\ sendQ[c] # <<>> /\ sendQ[c] \in Seq(PacketType)
  BY DEF Generating, Typed
<1>2. Head(sendQ[c]) = sendQ[c][1] /\ 1 \in DOMAIN sendQ[c] /\ Head(sendQ[c]) \in PacketType
  BY <1>1
<1>3. Made(c, Head(sendQ[c])) /\ Head(sendQ[c]) \notin DOMAIN net
  BY <1>1, <1>2 DEF Distinct
<1> QED BY <1>1, <1>2, <1>3 DEF Made, Fresh, Current

\* What is known of a packet whose flits are counted.
LEMMA KnownFlits ==
  ASSUME Typed, Distinct, Counted, NEW p \in Known
  PROVE  /\ p \in PacketType /\ p.n \in Nat \ {0} /\ p.src \in Cores
         /\ FlitsOf(p).injected \in Nat /\ FlitsOf(p).retired \in Nat
         /\ FlitsOf(p).injected <= p.n
         /\ FlitsOf(p).retired <= FlitsOf(p).injected
         /\ FlitsOf(p).retired < p.n
<1>1. p \in PacketType
  BY Generated DEF Known, Fresh, Typed
<1>2. p.n \in Nat \ {0} /\ p.src \in Cores
  BY <1>1 DEF PacketType
<1>3. CASE p \in DOMAIN net
  <2>1. FlitsOf(p) = net[p] /\ net[p] \in [injected : Nat, retired : Nat]
    BY <1>3 DEF FlitsOf, Typed
  <2> QED BY <1>1, <1>2, <1>3, <2>1 DEF Counted
<1>4. CASE p \notin DOMAIN net
  BY <1>1, <1>2, <1>4 DEF FlitsOf
<1> QED BY <1>3, <1>4

\* The packet that a source is sending has flits to come.
LEMMA CurrentFlits ==
  ASSUME Typed, Distinct, Counted, Sending, NEW c \in Cores, Current(c) # None
  PROVE  /\ Current(c) \in Known /\ Current(c).src = c
         /\ FlitsOf(Current(c)).injected < Current(c).n
<1>1. CASE c \in Generating
  <2>1. Current(c) \in Fresh /\ Current(c).src = c /\ Current(c) \notin DOMAIN net
        /\ Current(c) \in PacketType
    BY <1>1, Generated
  <2>2. FlitsOf(Current(c)).injected = 0
    BY <2>1 DEF FlitsOf
  <2>3. Current(c).n > 0
    BY <2>1 DEF PacketType
  <2> QED BY <2>1, <2>2, <2>3 DEF Known
<1>2. CASE c \notin Generating
  <2>1. Current(c) = partial[c] /\ partial[c] # None
    BY <1>2 DEF Current
  <2> QED BY <2>1 DEF Sending, Known, FlitsOf
<1> QED BY <1>1, <1>2

\* The counts after the step.
LEMMA CountsAfter ==
  ASSUME Typed, Distinct, Counted, Sending,
         NEW inject, NEW retire, NetworkChoice(inject, retire), NEW p \in Known
  PROVE  /\ In(p, inject) \in Nat /\ Out(p, retire) \in Nat
         /\ FlitsOf(p).injected <= In(p, inject) /\ In(p, inject) <= p.n
         /\ Out(p, retire) <= FlitsOf(p).injected
<1> DEFINE i == FlitsOf(p).injected
           r == FlitsOf(p).retired
           sending == p \in {Current(c) : c \in inject}
           retiring == p \in {retire[d] : d \in Cores} \ {None}
<1>1. i \in Nat /\ r \in Nat /\ p.n \in Nat /\ i <= p.n /\ r <= i
  BY KnownFlits
<1>2. sending => i < p.n
  BY CurrentFlits DEF NetworkChoice
<1>3. retiring => r < i
  <2> SUFFICES ASSUME retiring PROVE r < i
    OBVIOUS
  <2>1. p \in Arrived
    BY DEF NetworkChoice
  <2>2. p \in DOMAIN net /\ net[p].injected > net[p].retired
    BY <2>1 DEF Arrived
  <2>3. FlitsOf(p) = net[p]
    BY <2>2 DEF FlitsOf
  <2>4. i > r
    BY <2>2, <2>3
  <2> HIDE DEF i, r
  <2> QED BY <1>1, <2>4
<1>4. In(p, inject) = i + (IF sending THEN 1 ELSE 0)
  BY DEF In
<1>5. Out(p, retire) = r + (IF retiring THEN 1 ELSE 0)
  BY DEF Out
<1> HIDE DEF i, r, sending, retiring
<1>6. In(p, inject) \in Nat /\ i <= In(p, inject) /\ In(p, inject) <= p.n
  <2>1. CASE sending
    BY <1>1, <1>2, <1>4, <2>1
  <2>2. CASE ~sending
    BY <1>1, <1>4, <2>2
  <2> QED BY <2>1, <2>2
<1>7. Out(p, retire) \in Nat /\ Out(p, retire) <= i
  <2>1. CASE retiring
    BY <1>1, <1>3, <1>5, <2>1
  <2>2. CASE ~retiring
    BY <1>1, <1>5, <2>2
  <2> QED BY <2>1, <2>2
<1> QED BY <1>6, <1>7 DEF i

LEMMA NocInv ==
  ASSUME IInv, NEW inject, NEW retire, NetworkChoice(inject, retire),
         NocStep(inject, retire)
  PROVE  IInv'
<1> DEFINE i(p) == In(p, inject)
           o(p) == Out(p, retire)
<1>1. Typed /\ Counted /\ Distinct /\ Sending
  BY DEF IInv
<1>2. /\ phase = "noc" /\ phase' = "check"
      /\ sendQ' = [c \in Cores |-> IF c \in Generating THEN Tail(sendQ[c]) ELSE sendQ[c]]
      /\ partial' = [c \in Cores |->
           IF Current(c) # None /\ i(Current(c)) < Current(c).n THEN Current(c) ELSE None]
      /\ net' = [p \in {q \in Known : o(q) < q.n} |-> [injected |-> i(p), retired |-> o(p)]]
      /\ recvQ' = [d \in Cores |->
           IF retire[d] # None /\ net[retire[d]].retired = 0
           THEN Append(recvQ[d], retire[d]) ELSE recvQ[d]]
      /\ left' = [c \in Cores |-> [t \in Tasks(c) |->
           IF left[c][t] > 0 THEN left[c][t] - 1 ELSE left[c][t]]]
      /\ tick' = (tick + 1) % CheckFreq
      /\ moved' \in BOOLEAN
      /\ UNCHANGED <<prog, at, tasks, pipeOpen, backup>>
  BY NocEffects
<1>3. \A p \in Known : /\ i(p) \in Nat /\ o(p) \in Nat
                       /\ FlitsOf(p).injected <= i(p) /\ i(p) <= p.n
                       /\ o(p) <= FlitsOf(p).injected
  BY <1>1, CountsAfter
<1>4. \A p \in Known : /\ p \in PacketType /\ p.n \in Nat \ {0} /\ p.src \in Cores
                       /\ FlitsOf(p).injected \in Nat
  BY <1>1, KnownFlits
<1>5. \A c \in Cores : Current(c) # None =>
        /\ Current(c) \in Known /\ Current(c).src = c
        /\ FlitsOf(Current(c)).injected < Current(c).n
  BY <1>1, CurrentFlits
<1> HIDE DEF i, o
<1>6. DOMAIN net' = {q \in Known : o(q) < q.n} /\ DOMAIN net' \subseteq Known
      /\ \A p \in DOMAIN net' : net'[p] = [injected |-> i(p), retired |-> o(p)]
  BY <1>2
<1>b. ASSUME NEW p \in DOMAIN net'
      PROVE  /\ net'[p] \in [injected : Nat, retired : Nat]
             /\ net'[p].injected = i(p) /\ net'[p].retired = o(p)
  <2> DEFINE a == i(p)
             b == o(p)
             x == net'[p]
  <2>1. a \in Nat /\ b \in Nat /\ x = [injected |-> a, retired |-> b]
    BY <1>3, <1>6
  <2> HIDE DEF a, b, x
  <2>2. x \in [injected : Nat, retired : Nat] /\ x.injected = a /\ x.retired = b
    BY <2>1
  <2> QED BY <2>2 DEF a, b, x
<1>7. ASSUME NEW c \in Cores, Current(c) # None
      PROVE  Current(c) \in DOMAIN net'
  <2> DEFINE p == Current(c)
             m == FlitsOf(p).injected
  <2>1. p \in Known /\ o(p) \in Nat /\ o(p) <= m /\ m \in Nat /\ m < p.n /\ p.n \in Nat
    BY <1>3, <1>4, <1>5, <1>7
  <2> HIDE DEF p, m
  <2>2. o(p) < p.n
    BY <2>1
  <2> QED BY <1>6, <2>1, <2>2 DEF p
<1>8. \A c \in Cores : \A t \in DOMAIN prog[c] :
        /\ left'[c][t] = IF left[c][t] > 0 THEN left[c][t] - 1 ELSE left[c][t]
        /\ left[c][t] \in Nat \cup {-1}
  BY <1>1, <1>2 DEF Typed, Tasks
<1>9. Typed'
  <2>1. sendQ' \in [Cores -> Seq(PacketType)]
    <3>1. ASSUME NEW c \in Cores
          PROVE  sendQ'[c] \in Seq(PacketType)
      <4>1. sendQ[c] \in Seq(PacketType)
        BY <1>1 DEF Typed
      <4>2. CASE c \in Generating
        <5>1. sendQ[c] # <<>> /\ sendQ'[c] = Tail(sendQ[c])
          BY <1>2, <4>2 DEF Generating
        <5> QED BY <4>1, <5>1
      <4>3. CASE c \notin Generating
        BY <1>2, <4>1, <4>3
      <4> QED BY <4>2, <4>3
    <3> QED BY <1>2, <3>1
  <2>2. recvQ' \in [Cores -> Seq(PacketType)]
    <3>1. ASSUME NEW d \in Cores
          PROVE  recvQ'[d] \in Seq(PacketType)
      <4>1. recvQ[d] \in Seq(PacketType)
        BY <1>1 DEF Typed
      <4>2. retire[d] # None => retire[d] \in PacketType
        BY <1>1 DEF NetworkChoice, Arrived, Typed
      <4> QED BY <1>2, <4>1, <4>2
    <3> QED BY <1>2, <3>1
  <2>3. partial' \in [Cores -> PacketType \cup {None}]
    BY <1>2, <1>4, <1>5
  <2>4. DOMAIN net' \subseteq PacketType
    BY <1>4, <1>6
  <2>5. net' \in [DOMAIN net' -> [injected : Nat, retired : Nat]]
    <3>1. net' = [p \in DOMAIN net' |-> net'[p]]
      BY <1>2, <1>6
    <3>2. \A p \in DOMAIN net' : net'[p] \in [injected : Nat, retired : Nat]
      BY <1>b
    <3> QED BY <3>1, <3>2
  <2>6. tick' \in 0 .. CheckFreq - 1
    <3>1. tick + 1 \in Nat /\ CheckFreq \in Nat \ {0}
      BY <1>1, ChipAssumption DEF Typed
    <3> QED BY <1>2, <3>1
  <2>7. DOMAIN left' = Cores /\ \A c \in Cores : DOMAIN left'[c] = DOMAIN prog[c]
    BY <1>1, <1>2 DEF Typed, Tasks
  <2>8. \A c \in Cores : \A t \in DOMAIN prog[c] : left'[c][t] \in Nat \cup {-1}
    BY <1>8
  <2>9. \A c \in Cores :
          /\ DOMAIN tasks'[c] = DOMAIN prog'[c] /\ DOMAIN left'[c] = DOMAIN prog'[c]
          /\ \A t \in DOMAIN prog'[c] : /\ tasks'[c][t] \in Seq(Instr)
                                        /\ Remains(tasks[c][t], prog[c][t])'
                                        /\ left'[c][t] \in Nat \cup {-1}
    BY <1>1, <1>2, <2>7, <2>8 DEF Typed, Remains
  <2>10. /\ prog' \in Programs /\ phase' \in {"head", "core", "noc", "check", "finished", "deadlock"}
         /\ at' \in Cores /\ DOMAIN tasks' = Cores
         /\ pipeOpen' \in [Cores -> BOOLEAN] /\ backup'.checks \in 0 .. 2 /\ moved' \in BOOLEAN
    BY <1>1, <1>2 DEF Typed
  <2> QED BY <2>1, <2>2, <2>3, <2>4, <2>5, <2>6, <2>7, <2>9, <2>10 DEF Typed
<1>10. Counted'
  <2>1. ASSUME NEW p \in DOMAIN net'
        PROVE  net'[p].injected <= p.n /\ net'[p].retired <= net'[p].injected
               /\ net'[p].retired < p.n
    <3>1. /\ i(p) \in Nat /\ o(p) \in Nat /\ i(p) <= p.n /\ o(p) <= i(p) /\ o(p) < p.n
      <4>1. p \in Known /\ o(p) < p.n
        BY <1>6
      <4>2. FlitsOf(p).injected <= i(p) /\ o(p) <= FlitsOf(p).injected
            /\ FlitsOf(p).injected \in Nat /\ i(p) \in Nat /\ o(p) \in Nat /\ i(p) <= p.n
        BY <1>3, <1>4, <4>1
      <4> QED BY <4>1, <4>2
    <3> QED BY <1>b, <3>1
  <2> QED BY <2>1 DEF Counted
<1>11. Sending'
  <2>1. ASSUME NEW c \in Cores, partial'[c] # None
        PROVE  /\ partial'[c].src = c /\ partial'[c] \in DOMAIN net'
               /\ net'[partial'[c]].injected < partial'[c].n
    <3>1. Current(c) # None /\ i(Current(c)) < Current(c).n /\ partial'[c] = Current(c)
      BY <1>2, <2>1
    <3> QED BY <1>5, <1>b, <1>7, <3>1
  <2> QED BY <2>1 DEF Sending
<1>12. Waiting'
  <2>1. ASSUME NEW c \in Cores, sendQ'[c] # <<>>
        PROVE  DOMAIN net' # {}
    <3>1. Current(c) # None
      <4>1. CASE c \in Generating
        <5>1. Current(c) \in PacketType
          BY <1>1, <4>1, Generated
        <5> QED BY <5>1, ChipAssumption
      <4>2. CASE c \notin Generating
        <5>1. sendQ[c] # <<>>
          BY <1>2, <2>1, <4>2
        <5> QED BY <4>2, <5>1 DEF Generating, Current
      <4> QED BY <4>1, <4>2
    <3> QED BY <1>7, <3>1
  <2> QED BY <2>1 DEF Waiting
<1>13. Distinct'
  <2> DEFINE U == [c \in Cores |-> [t \in DOMAIN prog[c] |-> Unexecuted(c, t)]]
  <2>1. \A c \in Cores : \A t \in DOMAIN prog[c] :
          U[c][t] = IF left'[c][t] = -1 THEN Len(tasks'[c][t]) ELSE Len(tasks'[c][t]) - 1
    BY <1>2, <1>8 DEF Unexecuted
  <2>2. \A c \in Generating : /\ Head(sendQ[c]) = sendQ[c][1] /\ 1 \in DOMAIN sendQ[c]
                              /\ Head(sendQ[c]).src = c /\ c \in Cores
                              /\ Made(c, Head(sendQ[c]))
    BY <1>1, Generated
  <2>3. ASSUME NEW c \in Cores
        PROVE  \E m \in {0, 1} :
                 \A k \in DOMAIN sendQ'[c] :
                   /\ k + m \in DOMAIN sendQ[c] /\ sendQ'[c][k] = sendQ[c][k + m]
                   /\ c \in Generating => k + m # 1
    <3>1. sendQ[c] \in Seq(PacketType)
      BY <1>1 DEF Typed
    <3>2. CASE c \in Generating
      <4>1. sendQ[c] # <<>> /\ sendQ'[c] = Tail(sendQ[c])
        BY <1>2, <3>2 DEF Generating
      <4>2. Len(sendQ[c]) \in Nat /\ DOMAIN sendQ[c] = 1 .. Len(sendQ[c])
            /\ DOMAIN sendQ'[c] = 1 .. Len(sendQ[c]) - 1
            /\ \A k \in 1 .. Len(sendQ[c]) - 1 : sendQ'[c][k] = sendQ[c][k + 1]
        BY <3>1, <4>1
      <4>3. \A k \in DOMAIN sendQ'[c] :
              k + 1 \in DOMAIN sendQ[c] /\ sendQ'[c][k] = sendQ[c][k + 1] /\ k + 1 # 1
        BY <4>2
      <4> QED BY <4>3
    <3>3. CASE c \notin Generating
      <4>1. sendQ'[c] = sendQ[c]
        BY <1>2, <3>3
      <4>2. \A k \in DOMAIN sendQ'[c] :
              k + 0 \in DOMAIN sendQ[c] /\ sendQ'[c][k] = sendQ[c][k + 0]
        BY <3>1, <4>1
      <4> QED BY <3>3, <4>2
    <3> QED BY <3>2, <3>3
  <2>4. ASSUME NEW c \in Cores, NEW k \in DOMAIN sendQ[c], c \in Generating => k # 1
        PROVE  sendQ[c][k] \notin Known
    <3>1. sendQ[c][k] \notin DOMAIN net /\ sendQ[c][k].src = c
          /\ \A j \in DOMAIN sendQ[c] : j # k => sendQ[c][j] # sendQ[c][k]
      BY <1>1 DEF Distinct, Made
    <3> QED BY <2>2, <2>4, <3>1 DEF Known, Fresh
  <2>5. ASSUME NEW c \in Cores, NEW k \in DOMAIN sendQ'[c]
        PROVE  /\ sendQ'[c][k] \notin DOMAIN net'
               /\ Made(c, sendQ'[c][k])
               /\ \A j \in DOMAIN sendQ'[c] : j # k => sendQ'[c][j] # sendQ'[c][k]
    <3>1. PICK m \in {0, 1} :
            \A j \in DOMAIN sendQ'[c] :
              /\ j + m \in DOMAIN sendQ[c] /\ sendQ'[c][j] = sendQ[c][j + m]
              /\ c \in Generating => j + m # 1
      BY <2>3
    <3>2. sendQ'[c][k] \notin DOMAIN net'
      BY <1>6, <2>4, <3>1
    <3>3. Made(c, sendQ[c][k + m])
      BY <1>1, <3>1 DEF Distinct
    <3>4. ASSUME NEW j \in DOMAIN sendQ'[c], j # k
          PROVE  sendQ'[c][j] # sendQ'[c][k]
      <4>1. DOMAIN sendQ'[c] \subseteq Nat
        BY <1>9 DEF Typed
      <4>2. j + m # k + m
        BY <3>4, <4>1
      <4>3. sendQ[c][j + m] # sendQ[c][k + m]
        BY <1>1, <3>1, <4>2 DEF Distinct
      <4> QED BY <3>1, <4>3
    <3> QED BY <3>1, <3>2, <3>3, <3>4
  <2>6. \A c \in Cores : \A k \in DOMAIN sendQ'[c] : Made(c, sendQ[c][k])'
    <3>1. \A c \in Cores : \A k \in DOMAIN sendQ'[c] : Made(c, sendQ'[c][k])
      BY <2>5
    <3>2. \A c \in Cores : \A k \in DOMAIN sendQ'[c] :
            /\ sendQ'[c][k].src = c /\ Len(sendQ'[c][k].key) = 3
            /\ sendQ'[c][k].key[1] \in DOMAIN prog[c]
            /\ sendQ'[c][k].key[2] > U[c][sendQ'[c][k].key[1]]
      BY <3>1 DEF Made
    <3>3. prog' = prog
      BY <1>2
    <3> HIDE DEF U
    <3> QED BY <2>1, <3>2, <3>3 DEF Made, Unexecuted
  <2>7. \A p \in Known : Made(p.src, p) /\ p.src \in Cores
    BY <1>1, <1>4, <2>2 DEF Known, Fresh, Distinct
  <2>8. \A p \in DOMAIN net' : Made(p.src, p)'
    <3>1. \A p \in DOMAIN net' :
            /\ p.src \in Cores /\ Len(p.key) = 3
            /\ p.key[1] \in DOMAIN prog[p.src]
            /\ p.key[2] > U[p.src][p.key[1]]
      BY <1>6, <2>7 DEF Made
    <3> HIDE DEF U
    <3> QED BY <1>2, <2>1, <3>1 DEF Made, Unexecuted
  <2> QED BY <2>5, <2>6, <2>8 DEF Distinct
<1> QED BY <1>2, <1>9, <1>10, <1>11, <1>12, <1>13 DEF IInv, Ended

-----------------------------------------------------------------------------
(***************************************************************************)
(* The invariant holds.                                                    *)
(***************************************************************************)
LEMMA InitInv == Init => IInv
<1> SUFFICES ASSUME Init PROVE IInv
  OBVIOUS
<1>1. \A c \in Cores : \A t \in DOMAIN prog[c] :
        /\ tasks[c][t] = prog[c][t] /\ prog[c][t] \in Seq(Instr) /\ left[c][t] = -1
  BY Programmed DEF Init
<1>2. ASSUME NEW c \in Cores, NEW t \in DOMAIN prog[c]
      PROVE  Remains(tasks[c][t], prog[c][t])
  <2> DEFINE p == prog[c][t]
  <2>1. p \in Seq(Instr) /\ tasks[c][t] = p
    BY <1>1
  <2> HIDE DEF p
  <2>2. Remains(p, p)
    BY <2>1 DEF Remains
  <2> QED BY <2>1, <2>2 DEF p
<1>3. 0 \in Cores /\ 0 \in 0 .. CheckFreq - 1
  BY ChipAssumption DEF Cores
<1>4. DOMAIN net = {} /\ net \in [DOMAIN net -> [injected : Nat, retired : Nat]]
  BY DEF Init
<1>5. DOMAIN tasks = Cores
  BY ChipAssumption DEF Init
<1>6. sendQ \in [Cores -> Seq(PacketType)] /\ recvQ \in [Cores -> Seq(PacketType)]
  BY EmptySeq DEF Init
<1>7. Typed
  <2>1. \A c \in Cores : DOMAIN tasks[c] = DOMAIN prog[c] /\ DOMAIN left[c] = DOMAIN prog[c]
    BY DEF Init
  <2>2. /\ prog \in Programs /\ phase = "head" /\ at = 0 /\ tick = 0
        /\ partial \in [Cores -> PacketType \cup {None}]
        /\ pipeOpen \in [Cores -> BOOLEAN] /\ backup.checks = 0 /\ moved = FALSE
    BY DEF Init
  <2>3. DOMAIN left = Cores
    BY DEF Init
  <2>4. \A c \in Cores : \A t \in DOMAIN prog[c] :
          /\ tasks[c][t] \in Seq(Instr) /\ left[c][t] \in Nat \cup {-1}
          /\ Remains(tasks[c][t], prog[c][t])
    BY <1>1, <1>2
  <2>5. /\ phase \in {"head", "core", "noc", "check", "finished", "deadlock"}
        /\ at \in Cores /\ tick \in 0 .. CheckFreq - 1
        /\ backup.checks \in 0 .. 2 /\ DOMAIN net \subseteq PacketType
    BY <1>3, <1>4, <2>2
  <2>6. moved \in BOOLEAN
    BY <2>2
  <2> QED BY <1>4, <1>5, <1>6, <2>1, <2>2, <2>3, <2>4, <2>5, <2>6 DEF Typed
<1>8. \A c \in Cores : DOMAIN sendQ[c] = {}
  BY DEF Init
<1>9. Counted /\ Distinct
  BY <1>4, <1>8 DEF Counted, Distinct
<1>10. Sending /\ Waiting /\ Ended
  BY DEF Init, Sending, Waiting, Ended
<1> QED BY <1>7, <1>9, <1>10 DEF IInv

\* A step that leaves the cores and the network alone.
LEMMA QuietInv ==
  ASSUME IInv, UNCHANGED <<prog, cores, network>>,
         phase' \in {"head", "core", "noc", "check", "finished", "deadlock"},
         at' \in Cores, tick' \in 0 .. CheckFreq - 1, backup'.checks \in 0 .. 2,
         moved' \in BOOLEAN,
         Waiting', Ended'
  PROVE  IInv'
<1>1. UNCHANGED <<prog, tasks, left, pipeOpen, sendQ, recvQ, partial, net>>
  BY DEF cores, network
<1>2. Typed'
  BY <1>1 DEF IInv, Typed, Remains
<1>3. Counted' /\ Sending'
  BY <1>1 DEF IInv, Counted, Sending
<1>4. Distinct'
  BY <1>1 DEF IInv, Distinct, Made, Unexecuted
<1> QED BY <1>2, <1>3, <1>4 DEF IInv

LEMMA Inductive == IInv /\ [Next]_vars => IInv'
<1> SUFFICES ASSUME IInv, [Next]_vars PROVE IInv'
  OBVIOUS
<1>1. /\ Typed /\ Waiting /\ Ended
      /\ phase \in {"head", "core", "noc", "check", "finished", "deadlock"}
      /\ at \in Cores /\ tick \in 0 .. CheckFreq - 1 /\ backup.checks \in 0 .. 2
      /\ moved \in BOOLEAN
  BY DEF IInv, Typed
<1>2. CASE LoopHead
  <2>1. /\ UNCHANGED <<prog, at, cores, network, tick, backup, moved>>
        /\ phase = "head" /\ phase' \in {"finished", "core"}
        /\ phase' = "finished" => TaskFinished
    BY <1>2 DEF LoopHead
  <2>2. Waiting'
    BY <1>1, <2>1 DEF Waiting, network
  <2>3. Ended'
    BY <1>1, <2>1 DEF Ended, TaskFinished, TrafficDrained, FinishAllTasks, Tasks, cores, network
  <2> QED BY <1>1, <2>1, <2>2, <2>3, QuietInv
<1>3. ASSUME NEW c \in Cores, Rest(c)
      PROVE  IInv'
  <2>1. /\ phase = "core" /\ phase' \in {"core", "noc"} /\ at' \in Cores
        /\ UNCHANGED <<prog, partial, net, tick, backup>>
    BY <1>1, <1>3, TurnPassed DEF Rest
  <2>2. UNCHANGED <<tasks, left, pipeOpen, sendQ, recvQ, moved>>
    BY <1>3 DEF Rest
  <2>3. Waiting' /\ Ended'
    BY <2>1 DEF Waiting, Ended
  <2> QED BY <1>1, <2>1, <2>2, <2>3, QuietInv DEF cores, network
<1>4. ASSUME NEW c \in Cores, NEW t \in Tasks(c), Issue(c, t)
      PROVE  IInv'
  BY <1>4, IssueInv
<1>5. CASE Network
  <2>1. PICK inject \in SUBSET {c \in Cores : Current(c) # None},
             retire \in [Cores -> Arrived \cup {None}] :
          /\ \A d \in Cores : retire[d] # None => retire[d].dest = d
          /\ NocStep(inject, retire)
    BY <1>5 DEF Network
  <2>2. NetworkChoice(inject, retire)
    BY <2>1 DEF NetworkChoice
  <2> QED BY <2>1, <2>2, NocInv
<1>6. CASE Check
  <2>1. /\ UNCHANGED <<prog, at, cores, network, tick>>
        /\ phase = "check" /\ phase' \in {"head", "deadlock"}
        /\ (backup' = NextBackup /\ moved' = (StateUnchanged /\ moved)) \/ UNCHANGED <<backup, moved>>
    BY <1>6 DEF Check
  <2>2. backup'.checks \in 0 .. 2
    BY <1>1, <2>1 DEF NextBackup
  <2>3. moved' \in BOOLEAN
    BY <1>1, <2>1
  <2>4. Waiting' /\ Ended'
    BY <1>1, <2>1 DEF Waiting, Ended, network
  <2> QED BY <1>1, <2>1, <2>2, <2>3, <2>4, QuietInv
<1>7. CASE UNCHANGED vars
  <2>1. UNCHANGED <<prog, phase, at, cores, network, tick, backup, moved>>
    BY <1>7 DEF vars
  <2>2. Waiting'
    BY <1>1, <2>1 DEF Waiting, network
  <2>3. Ended'
    BY <1>1, <2>1 DEF Ended, TaskFinished, TrafficDrained, FinishAllTasks, Tasks, cores, network
  <2> QED BY <1>1, <2>1, <2>2, <2>3, QuietInv
<1> QED BY <1>2, <1>3, <1>4, <1>5, <1>6, <1>7 DEF Next

\* In every state the parts of the chip fit together: what is left of a task is
\* the end of its program, no packet is in two places, the flits of a packet
\* leave the network after they have entered it, and the packet that a source is
\* sending is in flight.
THEOREM Invariance == Spec => []IInv
<1> QED BY InitInv, Inductive, PTL DEF Spec

\* The types of the state.
THEOREM TypeCorrect == Spec => []TypeOK
<1>1. IInv => TypeOK
  <2> SUFFICES ASSUME IInv PROVE TypeOK
    OBVIOUS
  <2>1. Typed /\ Counted /\ Sending
    BY DEF IInv
  <2>2. ASSUME NEW c \in Cores, NEW t \in Tasks(c)
        PROVE  /\ tasks[c][t] \in Seq(Instr) /\ IsSuffix(tasks[c][t], prog[c][t])
               /\ left[c][t] \in Nat \cup {-1}
    <3>1. t \in DOMAIN prog[c] /\ tasks[c][t] \in Seq(Instr) /\ left[c][t] \in Nat \cup {-1}
          /\ Remains(tasks[c][t], prog[c][t])
      BY <2>1 DEF Typed, Tasks
    <3>2. prog[c][t] \in Seq(Instr)
      BY <2>1, <3>1, Programmed DEF Typed
    <3> QED BY <3>1, <3>2, RemainsSuffix
  <2>3. ASSUME NEW p \in DOMAIN net
        PROVE  /\ p \in PacketType /\ net[p].injected \in 0 .. p.n
               /\ net[p].retired \in 0 .. net[p].injected
    <3>1. p \in PacketType /\ net[p] \in [injected : Nat, retired : Nat]
      BY <2>1 DEF Typed
    <3>2. p.n \in Nat /\ net[p].injected \in Nat /\ net[p].retired \in Nat
          /\ net[p].injected <= p.n /\ net[p].retired <= net[p].injected
      BY <2>1, <3>1 DEF PacketType, Counted
    <3> QED BY <3>1, <3>2
  <2>4. \A c \in Cores : partial[c] # None => partial[c] \in DOMAIN net
    BY <2>1 DEF Sending
  <2> QED BY <2>1, <2>2, <2>3, <2>4 DEF Typed, TypeOK, Tasks
<1> QED BY <1>1, Invariance, PTL

\* When the simulation ends nothing is left: not in the network, although the
\* end test looks at no source, because a packet that waits in a send queue
\* between two cycles waits for one that is in flight; and not in a task.
THEOREM EndIsComplete == Spec => []FinishedIsComplete
<1>1. IInv => FinishedIsComplete
  <2> SUFFICES ASSUME IInv, phase = "finished"
               PROVE  /\ net = <<>>
                      /\ \A c \in Cores : /\ sendQ[c] = <<>> /\ partial[c] = None
                                          /\ \A t \in Tasks(c) : tasks[c][t] = <<>>
    BY DEF FinishedIsComplete
  <2>1. Typed /\ Sending /\ Waiting /\ TaskFinished
    BY DEF IInv, Ended
  <2>2. DOMAIN net = {} /\ net = [p \in DOMAIN net |-> net[p]]
    BY <2>1 DEF TaskFinished, TrafficDrained, Typed
  <2>3. net = <<>>
    BY <2>2
  <2>4. \A c \in Cores : sendQ[c] = <<>> /\ partial[c] = None
    BY <2>1, <2>2 DEF Waiting, Sending
  <2>5. \A c \in Cores : \A t \in Tasks(c) : tasks[c][t] = <<>>
    BY <2>1 DEF TaskFinished, FinishAllTasks
  <2> QED BY <2>3, <2>4, <2>5
<1> QED BY <1>1, Invariance, PTL

-----------------------------------------------------------------------------
(***************************************************************************)
(* The flow of packets.                                                    *)
(***************************************************************************)
\* The packets with tensor f for core d.
Packets(d, f) == {p \in PacketType : p.dest = d /\ p.fid = f}

\* The terms of FlowConserved: the packets that the executed sends made, and
\* those in the send queues, on their way, and taken by the executed receives.
MadeCount(d, f) == SumFunction([x \in Fired |-> Copies(x, d, f)])
QueuedCount(d, f) == SumFunction([c \in Cores |-> CountIn(sendQ[c], d, f)])
UnderWay(d, f) == {p \in DOMAIN net : p.dest = d /\ p.fid = f /\ net[p].retired = 0}
TakenBy(d, f) ==
  {x \in Fired : InstrAt(x).op = "recv" /\ InstrAt(x).fid = f /\ x[1] = d}

Flow(d, f) ==
  MadeCount(d, f) = QueuedCount(d, f) + Cardinality(UnderWay(d, f))
                    + CountIn(recvQ[d], d, f) + Cardinality(TakenBy(d, f))

\* What FlowConserved needs besides: a packet is received where it was sent to.
AtHome == \A d \in Cores : \A k \in DOMAIN recvQ[d] : recvQ[d][k].dest = d
Finite == IsFiniteSet(Fired) /\ IsFiniteSet(DOMAIN net)
FlowInv == AtHome /\ Finite /\ \A d \in Cores, f \in Nat : Flow(d, f)

\* A send makes a packet for each of its destinations but the core itself.
Times(d, q) == Count(q, {d})

LEMMA CountOthers ==
  ASSUME NEW c, NEW i, i.dests \in Seq(Cores), NEW d
  PROVE  Times(d, Others(c, i)) = IF d = c THEN 0 ELSE Times(d, i.dests)
<1> DEFINE q == i.dests
           n == Len(q)
           Upto(m) == {k \in 1 .. m : q[k] = d}
<1>1. PICK h \in [0 .. n -> Seq(Cores)] : Collected(h, c, q) /\ Others(c, i) = h[n]
  BY OthersDefined
<1>2. n \in Nat /\ q \in Seq(Cores) /\ DOMAIN q = 1 .. n /\ \A k \in 1 .. n : q[k] \in Cores
  OBVIOUS
<1>3. h[0] = <<>> /\ \A k \in 1 .. n :
        h[k] = IF q[k] = c THEN h[k - 1] ELSE Append(h[k - 1], q[k])
  BY <1>1 DEF Collected
<1> HIDE DEF q, n
<1>4. \A m \in 0 .. n : IsFiniteSet(Upto(m)) /\ Cardinality(Upto(m)) \in Nat
  <2> SUFFICES ASSUME NEW m \in 0 .. n
               PROVE  IsFiniteSet(Upto(m)) /\ Cardinality(Upto(m)) \in Nat
    OBVIOUS
  <2>1. IsFiniteSet(1 .. m)
    BY <1>2, FS_Interval
  <2>2. IsFiniteSet(Upto(m))
    BY <2>1, FS_Subset
  <2> QED BY <2>2, FS_CardinalityType
<1> DEFINE Right(m) == Count(h[m], {d}) = IF d = c THEN 0 ELSE Cardinality(Upto(m))
           Bad == {m \in 0 .. n : ~Right(m)}
<1>5. Right(0)
  <2>1. Upto(0) = {} /\ Places(<<>>, {d}) = {}
    BY DEF Places
  <2> QED BY <1>3, <2>1, FS_EmptySet DEF Count
<1>6. ASSUME NEW m \in 1 .. n, Right(m - 1)
      PROVE  Right(m)
  <2>1. m - 1 \in 0 .. n /\ m \in 0 .. n /\ h[m - 1] \in Seq(Cores) /\ q[m] \in Cores
    BY <1>1, <1>2
  <2>2. Upto(m) = IF q[m] = d THEN Upto(m - 1) \cup {m} ELSE Upto(m - 1)
    <3>1. \A k \in 1 .. m : k = m \/ k \in 1 .. m - 1
      BY <1>2
    <3>2. m \in 1 .. m /\ \A k \in 1 .. m - 1 : k \in 1 .. m
      BY <1>2
    <3> QED BY <3>1, <3>2
  <2>3. m \notin Upto(m - 1)
    BY <1>2
  <2> DEFINE a == Cardinality(Upto(m - 1))
             b == Cardinality(Upto(m))
  <2>4. a \in Nat /\ b = IF q[m] = d THEN a + 1 ELSE a
    BY <1>4, <2>1, <2>2, <2>3, FS_AddElement
  <2>5. Count(h[m - 1], {d}) = IF d = c THEN 0 ELSE a
    BY <1>6
  <2>6. Count(h[m], {d}) = IF q[m] = c THEN Count(h[m - 1], {d})
                           ELSE Count(h[m - 1], {d}) + (IF q[m] = d THEN 1 ELSE 0)
    <3>1. CASE q[m] = c
      BY <1>3, <3>1
    <3>2. CASE q[m] # c
      <4>1. h[m] = Append(h[m - 1], q[m])
        BY <1>3, <3>2
      <4>2. Count(Append(h[m - 1], q[m]), {d})
            = Count(h[m - 1], {d}) + (IF q[m] \in {d} THEN 1 ELSE 0)
        BY <2>1, CountAppend
      <4> QED BY <3>2, <4>1, <4>2
    <3> QED BY <3>1, <3>2
  <2> HIDE DEF a, b
  <2>7. Count(h[m], {d}) = IF d = c THEN 0 ELSE b
    BY <2>4, <2>5, <2>6
  <2> QED BY <2>7 DEF b
<1>7. Bad = {}
  <2> SUFFICES ASSUME Bad # {} PROVE FALSE
    OBVIOUS
  <2>1. Bad \subseteq Nat
    BY <1>2
  <2> HIDE DEF Right
  <2>2. PICK m \in Bad : \A k \in Bad : m <= k
    <3> HIDE DEF Bad
    <3> QED BY <2>1, LeastNumber
  <2>3. m \in 1 .. n /\ m - 1 \in 0 .. n /\ m - 1 \notin Bad
    BY <1>2, <1>5, <2>2
  <2> QED BY <1>6, <2>2, <2>3
<1>8. Right(n)
  <2>1. n \in 0 .. n
    BY <1>2
  <2>2. n \notin Bad
    <3> HIDE DEF Bad
    <3> QED BY <1>7
  <2> HIDE DEF Right
  <2> QED BY <2>1, <2>2
<1>9. Upto(n) = Places(q, {d})
  BY <1>2 DEF Places
<1> QED BY <1>1, <1>8, <1>9 DEF Times, Count, q, n

LEMMA CountInIs ==
  ASSUME NEW q \in Seq(PacketType), NEW d, NEW f
  PROVE  /\ CountIn(q, d, f) = Count(q, Packets(d, f))
         /\ CountIn(q, d, f) \in Nat
<1>1. {k \in DOMAIN q : q[k].dest = d /\ q[k].fid = f} = Places(q, Packets(d, f))
  BY DEF Places, Packets
<1> QED BY <1>1, CountType DEF CountIn, Count

\* Taking a packet out of a queue.
LEMMA CountReceived ==
  ASSUME NEW S, NEW q \in Seq(S), NEW k \in 1 .. Len(q), NEW M
  PROVE  Count(q, M) = Count(AfterReceive(q, k), M) + (IF q[k] \in M THEN 1 ELSE 0)
<1> DEFINE r == AfterReceive(q, k)
           n == Len(q)
           g == [j \in 1 .. n - 1 |-> IF j <= n - k THEN j + k ELSE j - (n - k)]
           B == {j \in (1 .. n) \ {k} : q[j] \in M}
<1>1. /\ r \in Seq(S) /\ Len(r) = n - 1 /\ n \in Nat
      /\ \A j \in 1 .. n - 1 : r[j] = IF j <= n - k THEN q[j + k] ELSE q[j - (n - k)]
  BY AfterReceiveType
<1>2. Count(q, M) = Cardinality(B) + (IF q[k] \in M THEN 1 ELSE 0)
  BY CountBut
<1> HIDE DEF r, n
<1>3. k \in 1 .. n
  BY DEF n
<1>4. \A j \in 1 .. Len(r) : /\ g[j] \in (1 .. n) \ {k} /\ r[j] = q[g[j]]
                             /\ g[j] = IF j <= n - k THEN j + k ELSE j - (n - k)
  BY <1>1, <1>3
<1>5. \A i, j \in 1 .. Len(r) : g[i] = g[j] => i = j
  BY <1>1, <1>3, <1>4
<1>6. ASSUME NEW y \in B
      PROVE  \E j \in 1 .. Len(r) : r[j] \in M /\ g[j] = y
  <2>1. y \in 1 .. n /\ y # k /\ q[y] \in M
    OBVIOUS
  <2>2. CASE y > k
    <3>1. y - k \in 1 .. Len(r) /\ y - k <= n - k /\ (y - k) + k = y
      BY <1>1, <1>3, <2>1, <2>2
    <3>2. g[y - k] = y
      BY <1>4, <3>1
    <3> QED BY <1>4, <2>1, <3>1, <3>2
  <2>3. CASE ~(y > k)
    <3>1. y + (n - k) \in 1 .. Len(r) /\ ~(y + (n - k) <= n - k) /\ (y + (n - k)) - (n - k) = y
      BY <1>1, <1>3, <2>1, <2>3
    <3>2. g[y + (n - k)] = y
      BY <1>4, <3>1
    <3> QED BY <1>4, <2>1, <3>1, <3>2
  <2> QED BY <2>2, <2>3
<1>7. \A j \in 1 .. Len(r) : r[j] \in M => g[j] \in B
  BY <1>4
<1> HIDE DEF g, B
<1>8. Count(r, M) = Cardinality(B)
  <2>1. Corresponds(g, r, M, B)
    BY <1>5, <1>6, <1>7 DEF Corresponds
  <2>2. r \in Seq(S)
    BY <1>1
  <2> QED BY ONLY <2>1, <2>2, CountVia
<1> QED BY <1>2, <1>8 DEF r

\* The instructions that have been executed.
LEMMA FiredFacts ==
  ASSUME Typed, NEW x \in Fired
  PROVE  /\ x[1] \in Cores /\ x[2] \in DOMAIN prog[x[1]]
         /\ x = <<x[1], x[2], x[3]>>
         /\ x[3] \in 1 .. Executed(x[1], x[2])
         /\ InstrAt(x) \in Instr
<1>1. PICK c, t, k : /\ c \in Cores /\ t \in Tasks(c)
                      /\ k \in 1 .. Executed(c, t) /\ x = <<c, t, k>>
  BY DEF Fired
<1>2. t \in DOMAIN prog[c] /\ tasks[c][t] \in Seq(Instr) /\ Remains(tasks[c][t], prog[c][t])
  BY <1>1 DEF Typed, Tasks
<1>3. prog[c][t] \in Seq(Instr)
  BY <1>1, <1>2, Programmed DEF Typed
<1> DEFINE n == Len(prog[c][t])
           m == Len(tasks[c][t])
<1>4. n \in Nat /\ m \in Nat /\ m <= n /\ (m = 0 <=> tasks[c][t] = <<>>)
  BY <1>2, <1>3, EmptySeq DEF Remains
<1>5. Executed(c, t) = n - m + (IF tasks[c][t] # <<>> /\ left[c][t] # -1 THEN 1 ELSE 0)
  BY DEF Executed
<1> HIDE DEF n, m
<1>6. Executed(c, t) \in 0 .. n
  BY <1>4, <1>5
<1>7. k \in 1 .. n
  BY <1>1, <1>4, <1>6
<1>8. prog[c][t][k] \in Instr
  BY <1>3, <1>7 DEF n
<1> QED BY <1>1, <1>2, <1>8 DEF InstrAt

LEMMA InFired ==
  ASSUME NEW c \in Cores, NEW t \in Tasks(c), NEW k \in 1 .. Executed(c, t)
  PROVE  <<c, t, k>> \in Fired
  BY DEF Fired

\* An issue step executes one instruction or none.
LEMMA FiredAfter ==
  ASSUME Typed, NEW c \in Cores, NEW t \in Tasks(c), Issue(c, t)
  PROVE  /\ NothingDone(c, t) => Fired' = Fired
         /\ SomethingDone(c, t) =>
              \E x : /\ x \notin Fired /\ Fired' = Fired \cup {x}
                     /\ x[1] = c /\ InstrAt(x) = Head(Ahead(c, t))
<1>1. /\ t \in DOMAIN prog[c] /\ tasks[c][t] # <<>>
      /\ tasks' = [tasks EXCEPT ![c][t] = Ahead(c, t)]
      /\ \A d \in Cores : \A u \in DOMAIN prog[d] : d # c \/ u # t => left'[d][u] = left[d][u]
      /\ left'[c][t] \in Nat \cup {-1}
  BY IssueEffects
<1>2. prog' = prog
  BY TurnPassed DEF Issue
<1>3. /\ DOMAIN tasks = Cores
      /\ \A d \in Cores : /\ DOMAIN tasks[d] = DOMAIN prog[d]
                          /\ \A u \in DOMAIN prog[d] : tasks[d][u] \in Seq(Instr)
  BY DEF Typed
<1>4. /\ tasks'[c][t] = Ahead(c, t)
      /\ \A d \in Cores : /\ DOMAIN tasks'[d] = DOMAIN prog[d]
                          /\ \A u \in DOMAIN prog[d] :
                               d # c \/ u # t => tasks'[d][u] = tasks[d][u]
  BY <1>1, <1>3
<1> DEFINE E == [d \in Cores |-> [u \in DOMAIN prog[d] |-> Executed(d, u)]]
           F == [d \in Cores |-> [u \in DOMAIN prog[d] |-> Executed(d, u)']]
           n == Len(prog[c][t])
           m == Len(Ahead(c, t))
           e == E[c][t]
           All(G) == UNION {UNION {{<<d, u, k>> : k \in 1 .. G[d][u]} : u \in DOMAIN prog[d]} : d \in Cores}
<1>5. Fired = All(E) /\ Fired' = All(F)
  <2>1. \A d \in Cores : \A u \in DOMAIN prog[d] :
          E[d][u] = Executed(d, u) /\ F[d][u] = Executed(d, u)'
    OBVIOUS
  <2>2. \A d \in Cores : Tasks(d) = DOMAIN prog[d] /\ Tasks(d)' = DOMAIN prog[d]
    BY <1>3, <1>4 DEF Tasks
  <2> HIDE DEF E, F
  <2> QED BY <2>1, <2>2 DEF Fired
<1>6. \A d \in Cores : \A u \in DOMAIN prog[d] : d # c \/ u # t => F[d][u] = E[d][u]
  <2> SUFFICES ASSUME NEW d \in Cores, NEW u \in DOMAIN prog[d], d # c \/ u # t
               PROVE  F[d][u] = E[d][u]
    OBVIOUS
  <2>1. left'[d][u] = left[d][u] /\ tasks'[d][u] = tasks[d][u] /\ prog'[d][u] = prog[d][u]
    BY <1>1, <1>2, <1>4
  <2>2. Executed(d, u)' = Executed(d, u)
    BY <2>1 DEF Executed
  <2> QED BY <2>2
<1>7. /\ Ahead(c, t) \in Seq(Instr) /\ Unexecuted(c, t) = m
      /\ Ahead(c, t) # <<>> => n - m + 1 \in 1 .. n /\ Head(Ahead(c, t)) = prog[c][t][n - m + 1]
  BY <1>1, AheadFacts
<1>8. e = n - m
  <2>1. tasks[c][t] \in Seq(Instr) /\ Unexecuted(c, t) = m /\ m \in Nat
    BY <1>1, <1>3, <1>7
  <2>2. n \in Nat
    BY <1>1, Programmed DEF Typed
  <2>3. m = IF left[c][t] = -1 THEN Len(tasks[c][t]) ELSE Len(tasks[c][t]) - 1
    BY <2>1 DEF Unexecuted
  <2>4. e = n - Len(tasks[c][t]) + (IF left[c][t] # -1 THEN 1 ELSE 0)
    BY <1>1 DEF Executed
  <2> DEFINE l == Len(tasks[c][t])
  <2>5. l \in Nat /\ m = (IF left[c][t] = -1 THEN l ELSE l - 1)
        /\ e = n - l + (IF left[c][t] # -1 THEN 1 ELSE 0)
    <3>1. l \in Nat
      BY <2>1
    <3> HIDE DEF e, n, m
    <3> QED BY <2>3, <2>4, <3>1
  <2> HIDE DEF e, n, m, l
  <2>6. CASE left[c][t] = -1
    <3>1. m = l /\ e = n - l + 0
      BY <2>5, <2>6
    <3> QED BY <2>2, <2>5, <3>1
  <2>7. CASE left[c][t] # -1
    <3>1. m = l - 1 /\ e = n - l + 1
      BY <2>5, <2>7
    <3> QED BY <2>2, <2>5, <3>1
  <2> QED BY <2>6, <2>7
<1>9. F[c][t] = n - m + (IF Ahead(c, t) # <<>> /\ left'[c][t] # -1 THEN 1 ELSE 0)
  BY <1>1, <1>2, <1>4 DEF Executed
<1>10. n \in Nat /\ m \in Nat /\ m <= n
  <2>1. Remains(Ahead(c, t), prog[c][t])
    BY <1>1, AheadFacts
  <2>2. n \in Nat
    BY <1>1, Programmed DEF Typed
  <2> QED BY <1>7, <2>1, <2>2 DEF Remains
<1>11. E[c][t] = e
  OBVIOUS
<1> HIDE DEF E, F, n, m, e
<1>12. ASSUME NothingDone(c, t)
       PROVE  Fired' = Fired
  <2>1. F[c][t] = e
    BY <1>8, <1>9, <1>10, <1>12 DEF NothingDone
  <2>2. \A d \in Cores : \A u \in DOMAIN prog[d] : F[d][u] = E[d][u]
    BY <1>6, <1>11, <2>1
  <2> QED BY <1>5, <2>2
<1>13. ASSUME SomethingDone(c, t)
       PROVE  \E x : /\ x \notin Fired /\ Fired' = Fired \cup {x}
                     /\ x[1] = c /\ InstrAt(x) = Head(Ahead(c, t))
  <2> DEFINE x == <<c, t, e + 1>>
  <2>1. Ahead(c, t) # <<>> /\ left'[c][t] # -1
    BY <1>13 DEF SomethingDone
  <2>2. F[c][t] = e + 1 /\ e \in Nat
    BY <1>8, <1>9, <1>10, <2>1
  <2>3. InstrAt(x) = Head(Ahead(c, t)) /\ x[1] = c
    BY <1>7, <1>8, <2>1 DEF InstrAt
  <2>4. x \notin Fired
    <3> SUFFICES ASSUME x \in Fired PROVE FALSE
      OBVIOUS
    <3>1. PICK d, u, k : /\ d \in Cores /\ u \in DOMAIN prog[d]
                        /\ k \in 1 .. E[d][u] /\ x = <<d, u, k>>
      BY <1>5
    <3>2. d = c /\ u = t /\ k = e + 1
      BY <3>1
    <3>3. k \in 1 .. e
      BY <1>11, <3>1, <3>2
    <3> QED BY <2>2, <3>2, <3>3
  <2>5. Fired' \subseteq Fired \cup {x}
    <3> SUFFICES ASSUME NEW y \in Fired' PROVE y \in Fired \/ y = x
      OBVIOUS
    <3>1. PICK d, u, k : /\ d \in Cores /\ u \in DOMAIN prog[d]
                        /\ k \in 1 .. F[d][u] /\ y = <<d, u, k>>
      BY <1>5
    <3>2. CASE k \in 1 .. E[d][u]
      BY <1>5, <3>1, <3>2
    <3>3. CASE k \notin 1 .. E[d][u]
      <4>1. d = c /\ u = t
        BY <1>6, <3>1, <3>3
      <4>2. k \in 1 .. e + 1 /\ k \notin 1 .. e
        BY <1>11, <2>2, <3>1, <3>3, <4>1
      <4>3. k = e + 1
        BY <2>2, <4>2
      <4> QED BY <3>1, <4>1, <4>3
    <3> QED BY <3>2, <3>3
  <2>6. x \in Fired'
    <3>1. e + 1 \in 1 .. F[c][t]
      BY <2>2
    <3> QED BY <1>1, <1>5, <3>1
  <2>7. Fired \subseteq Fired'
    <3> SUFFICES ASSUME NEW y \in Fired PROVE y \in Fired'
      OBVIOUS
    <3>1. PICK d, u, k : /\ d \in Cores /\ u \in DOMAIN prog[d]
                        /\ k \in 1 .. E[d][u] /\ y = <<d, u, k>>
      BY <1>5
    <3>2. k \in 1 .. F[d][u]
      <4>1. CASE d = c /\ u = t
        <5>1. k \in 1 .. e /\ F[d][u] = e + 1
          BY <1>11, <2>2, <3>1, <4>1
        <5> QED BY <2>2, <5>1
      <4>2. CASE ~(d = c /\ u = t)
        BY <1>6, <3>1, <4>2
      <4> QED BY <4>1, <4>2
    <3> QED BY <1>5, <3>1, <3>2
  <2>8. Fired' = Fired \cup {x}
    BY <2>5, <2>6, <2>7
  <2> QED BY <2>3, <2>4, <2>8
<1> QED BY <1>12, <1>13

\* What an executed instruction adds to the packets made.
LEMMA CopiesIs ==
  ASSUME NEW x, InstrAt(x) \in Instr, NEW d, NEW f
  PROVE  /\ Copies(x, d, f) \in Nat
         /\ Copies(x, d, f) = IF InstrAt(x).op = "send" /\ InstrAt(x).fid = f /\ x[1] # d
                              THEN Count(InstrAt(x).dests, {d}) ELSE 0
<1> DEFINE q == InstrAt(x).dests
           A == {k \in DOMAIN q : q[k] = d}
<1>1. q \in Seq(Cores)
  <2> DEFINE i == InstrAt(x)
  <2> HIDE DEF i
  <2>1. i \in Instr
    BY DEF i
  <2>2. i.dests \in Seq(Cores)
    BY <2>1 DEF Instr
  <2> QED BY <2>2 DEF i
<1>2. A = Places(q, {d})
  BY DEF Places
<1>3. Cardinality(A) = Count(q, {d}) /\ Count(q, {d}) \in Nat
  BY <1>1, <1>2, CountType DEF Count
<1> QED BY <1>3 DEF Copies

LEMMA MadeAfter ==
  ASSUME Typed, Finite, prog' = prog, NEW x, x \notin Fired, Fired' = Fired \cup {x},
         InstrAt(x) \in Instr, NEW d, NEW f
  PROVE  MadeCount(d, f)' = MadeCount(d, f) + Copies(x, d, f)
<1> DEFINE F == [y \in Fired |-> Copies(y, d, f)]
           G == [y \in Fired' |-> Copies(y, d, f)]
<1>1. MadeCount(d, f) = SumFunctionOnSet(F, Fired)
  BY DEF MadeCount, SumFunction
<1>2. MadeCount(d, f)' = SumFunctionOnSet(G, Fired')
  <2>1. \A y : Copies(y, d, f)' = Copies(y, d, f)
    BY DEF Copies, InstrAt
  <2>2. G = [y \in Fired' |-> Copies(y, d, f)']
    BY <2>1
  <2> QED BY <2>2 DEF MadeCount, SumFunction
<1>3. \A y \in Fired' : G[y] \in Int
  <2> SUFFICES ASSUME NEW y \in Fired' PROVE Copies(y, d, f) \in Int
    OBVIOUS
  <2>1. InstrAt(y) \in Instr
    BY FiredFacts
  <2>2. Copies(y, d, f) \in Nat
    BY <2>1, CopiesIs
  <2> QED BY <2>2
<1>4. IsFiniteSet(Fired) /\ IsFiniteSet(Fired')
  BY FS_AddElement DEF Finite
<1>5. x \in Fired' /\ Fired' \ {x} = Fired /\ G[x] = Copies(x, d, f)
  OBVIOUS
<1>6. \A y \in Fired : F[y] \in Int /\ G[y] = F[y]
  BY <1>3
<1> HIDE DEF F, G
<1>7. SumFunctionOnSet(G, Fired') = G[x] + SumFunctionOnSet(G, Fired' \ {x})
  BY <1>3, <1>4, <1>5, SumRemove
<1>8. SumFunctionOnSet(G, Fired) = SumFunctionOnSet(F, Fired)
  BY <1>4, <1>6, SumCongruent
<1>9. SumFunctionOnSet(F, Fired) \in Int
  <2>1. \A y \in Fired : F[y] \in Int
    BY <1>3, <1>5, <1>6
  <2> QED BY ONLY <1>4, <2>1, SumType
<1>10. Copies(x, d, f) \in Int
  <2>1. Copies(x, d, f) \in Nat
    BY ONLY InstrAt(x) \in Instr, CopiesIs
  <2> QED BY <2>1
<1> DEFINE a == SumFunctionOnSet(F, Fired)
           b == SumFunctionOnSet(G, Fired')
           e == Copies(x, d, f)
<1>11. b = e + a /\ a \in Int /\ e \in Int
  BY <1>5, <1>7, <1>8, <1>9, <1>10
<1>12. b = a + e
  <2> HIDE DEF a, b, e
  <2> QED BY <1>11
<1> QED BY <1>1, <1>2, <1>12

LEMMA FiniteCores == IsFiniteSet(Cores)
<1>1. NumCores - 1 \in Int
  BY ChipAssumption
<1> QED BY <1>1, FS_Interval DEF Cores

LEMMA QueuedAfter ==
  ASSUME sendQ \in [Cores -> Seq(PacketType)], sendQ' \in [Cores -> Seq(PacketType)],
         NEW c \in Cores, \A e \in Cores \ {c} : sendQ'[e] = sendQ[e], NEW d, NEW f
  PROVE  QueuedCount(d, f)'
         = QueuedCount(d, f) - CountIn(sendQ[c], d, f) + CountIn(sendQ'[c], d, f)
<1> DEFINE F == [e \in Cores |-> CountIn(sendQ[e], d, f)]
           G == [e \in Cores |-> CountIn(sendQ'[e], d, f)]
<1>1. QueuedCount(d, f) = SumFunctionOnSet(F, Cores)
  BY DEF QueuedCount, SumFunction
<1>2. QueuedCount(d, f)' = SumFunctionOnSet(G, Cores)
  BY DEF QueuedCount, SumFunction, CountIn
<1>3. \A e \in Cores : F[e] \in Int /\ G[e] \in Int
  BY CountInIs
<1>4. \A e \in Cores \ {c} : G[e] = F[e]
  OBVIOUS
<1>5. F[c] = CountIn(sendQ[c], d, f) /\ G[c] = CountIn(sendQ'[c], d, f)
  OBVIOUS
<1> HIDE DEF F, G
<1>6. SumFunctionOnSet(G, Cores) = SumFunctionOnSet(F, Cores) - F[c] + G[c]
  <2>1. (\A e \in Cores : F[e] \in Int) /\ G[c] \in Int
    BY <1>3
  <2> QED BY ONLY <2>1, <1>4, FiniteCores, SumUpdate, c \in Cores
<1> QED BY <1>1, <1>2, <1>5, <1>6

\* The terms are numbers.
LEMMA FlowTypes ==
  ASSUME Typed, Finite, NEW d \in Cores, NEW f
  PROVE  /\ MadeCount(d, f) \in Int /\ QueuedCount(d, f) \in Int
         /\ IsFiniteSet(UnderWay(d, f)) /\ Cardinality(UnderWay(d, f)) \in Nat
         /\ CountIn(recvQ[d], d, f) \in Nat
         /\ IsFiniteSet(TakenBy(d, f)) /\ Cardinality(TakenBy(d, f)) \in Nat
<1>1. MadeCount(d, f) \in Int
  <2> DEFINE F == [y \in Fired |-> Copies(y, d, f)]
  <2>1. \A y \in Fired : F[y] \in Int
    <3> SUFFICES ASSUME NEW y \in Fired PROVE Copies(y, d, f) \in Int
      OBVIOUS
    <3>1. InstrAt(y) \in Instr
      BY FiredFacts
    <3>2. Copies(y, d, f) \in Nat
      BY <3>1, CopiesIs
    <3> QED BY <3>2
  <2>2. MadeCount(d, f) = SumFunctionOnSet(F, Fired)
    BY DEF MadeCount, SumFunction
  <2> HIDE DEF F
  <2> QED BY <2>1, <2>2, SumType DEF Finite
<1>2. QueuedCount(d, f) \in Int
  <2> DEFINE F == [e \in Cores |-> CountIn(sendQ[e], d, f)]
  <2>1. \A e \in Cores : F[e] \in Int
    BY CountInIs DEF Typed
  <2>2. QueuedCount(d, f) = SumFunctionOnSet(F, Cores)
    BY DEF QueuedCount, SumFunction
  <2> HIDE DEF F
  <2> QED BY <2>1, <2>2, FiniteCores, SumType
<1>3. IsFiniteSet(UnderWay(d, f))
  BY FS_Subset DEF Finite, UnderWay
<1>4. IsFiniteSet(TakenBy(d, f))
  BY FS_Subset DEF Finite, TakenBy
<1>5. CountIn(recvQ[d], d, f) \in Nat
  BY CountInIs DEF Typed
<1> QED BY <1>1, <1>2, <1>3, <1>4, <1>5, FS_CardinalityType

\* The packets of a send, by destination.
LEMMA CountMade ==
  ASSUME Typed, NEW c \in Cores, NEW t \in DOMAIN prog[c], tasks[c][t] # <<>>,
         Ahead(c, t) # <<>>, Head(Ahead(c, t)).op = "send", NEW x, x[1] = c,
         InstrAt(x) = Head(Ahead(c, t)), NEW d, NEW f
  PROVE  CountIn(PacketsOf(c, t, Ahead(c, t)), d, f) = Copies(x, d, f)
<1> DEFINE P == PacketsOf(c, t, Ahead(c, t))
           i == Head(Ahead(c, t))
           o == Others(c, i)
           A == {k \in DOMAIN P : P[k].dest = d /\ P[k].fid = f}
<1>1. i \in Instr
  BY AheadFacts
<1>2. i.dests \in Seq(Cores)
  <2> HIDE DEF i
  <2> QED BY <1>1 DEF Instr
<1>3. /\ P \in Seq(PacketType) /\ Len(P) = Len(o)
      /\ \A k \in 1 .. Len(P) : P[k].dest = o[k] /\ P[k].fid = i.fid
  BY PacketsMade
<1>4. o \in Seq(Cores)
  BY <1>2, OthersType
<1>5. Count(o, {d}) = IF d = c THEN 0 ELSE Count(i.dests, {d})
  <2>1. Times(d, o) = IF d = c THEN 0 ELSE Times(d, i.dests)
    <3> HIDE DEF i
    <3> QED BY <1>2, CountOthers
  <2> QED BY <2>1 DEF Times
<1>6. Copies(x, d, f) = IF i.fid = f /\ c # d THEN Count(i.dests, {d}) ELSE 0
  BY <1>1, CopiesIs
<1>7. CountIn(P, d, f) = Cardinality(A)
  BY DEF CountIn
<1>8. DOMAIN P = DOMAIN o /\ \A k \in DOMAIN o : P[k].dest = o[k] /\ P[k].fid = i.fid
  BY <1>3, <1>4
<1> HIDE DEF P, o, i
<1>9. CASE i.fid = f
  <2>1. A = Places(o, {d})
    BY <1>8, <1>9 DEF Places
  <2> QED BY <1>5, <1>6, <1>7, <1>9, <2>1 DEF Count, P
<1>10. CASE i.fid # f
  <2>1. A = {}
    BY <1>8, <1>10
  <2>2. Cardinality(A) = 0
    BY <2>1, FS_EmptySet
  <2> QED BY <1>6, <1>7, <1>10, <2>2 DEF P
<1> QED BY <1>9, <1>10

\* What an executed instruction, or none, adds to the packets taken.
LEMMA TakenAfter ==
  ASSUME prog' = prog, NEW x, Fired' = Fired \cup {x}, NEW d, NEW f
  PROVE  TakenBy(d, f)'
         = TakenBy(d, f)
           \cup (IF InstrAt(x).op = "recv" /\ InstrAt(x).fid = f /\ x[1] = d THEN {x} ELSE {})
<1>1. \A y : InstrAt(y)' = InstrAt(y)
  BY DEF InstrAt
<1>2. TakenBy(d, f)'
      = {y \in Fired' : InstrAt(y).op = "recv" /\ InstrAt(y).fid = f /\ y[1] = d}
  BY <1>1 DEF TakenBy
<1> QED BY <1>2 DEF TakenBy

LEMMA NoneExecuted ==
  ASSUME prog' = prog, Fired' = Fired, NEW d, NEW f
  PROVE  MadeCount(d, f)' = MadeCount(d, f) /\ TakenBy(d, f)' = TakenBy(d, f)
<1>1. \A y : InstrAt(y)' = InstrAt(y)
  BY DEF InstrAt
<1>2. \A y : Copies(y, d, f)' = Copies(y, d, f)
  BY <1>1 DEF Copies
<1>3. [y \in Fired' |-> Copies(y, d, f)'] = [y \in Fired |-> Copies(y, d, f)]
  BY <1>2
<1> QED BY <1>1, <1>3 DEF MadeCount, TakenBy

\* An issue step leaves every receive queue with packets for its core.
LEMMA IssueAtHome ==
  ASSUME Typed, AtHome, NEW c \in Cores, NEW t \in Tasks(c), Issue(c, t)
  PROVE  AtHome'
<1>1. NothingDone(c, t) \/ SomethingDone(c, t)
  BY IssueEffects
<1>2. CASE recvQ' = recvQ
  BY <1>2 DEF AtHome
<1>3. CASE HasReceived(c, t)
  <2>1. PICK k \in DOMAIN recvQ[c] : recvQ' = [recvQ EXCEPT ![c] = AfterReceive(@, k)]
    BY <1>3 DEF HasReceived
  <2> DEFINE q == recvQ[c]
             r == AfterReceive(q, k)
  <2>2. recvQ \in [Cores -> Seq(PacketType)]
    BY DEF Typed
  <2>3. q \in Seq(PacketType) /\ k \in 1 .. Len(q) /\ recvQ'[c] = r
        /\ \A d \in Cores : d # c => recvQ'[d] = recvQ[d]
    BY <2>1, <2>2
  <2>4. /\ r \in Seq(PacketType) /\ Len(r) = Len(q) - 1 /\ Len(q) \in Nat
        /\ \A j \in 1 .. Len(q) - 1 :
             r[j] = IF j <= Len(q) - k THEN q[j + k] ELSE q[j - (Len(q) - k)]
    <3>1. q \in Seq(PacketType) /\ k \in 1 .. Len(q) /\ Len(q) \in Nat
      BY <2>3
    <3> HIDE DEF q
    <3> QED BY <3>1, AfterReceiveType
  <2>5. \A j \in 1 .. Len(q) : q[j].dest = c
    BY <2>3 DEF AtHome
  <2> DEFINE n == Len(q)
  <2>6. \A j \in DOMAIN r : r[j].dest = c
    <3> SUFFICES ASSUME NEW j \in DOMAIN r PROVE r[j].dest = c
      OBVIOUS
    <3>1. j \in 1 .. n - 1 /\ k \in 1 .. n /\ n \in Nat
      BY <2>3, <2>4
    <3>2. r[j] = (IF j <= n - k THEN q[j + k] ELSE q[j - (n - k)])
      BY <2>4, <3>1
    <3>3. j <= n - k => j + k \in 1 .. n
      <4> HIDE DEF n
      <4> QED BY <3>1
    <3>4. ~(j <= n - k) => j - (n - k) \in 1 .. n
      <4> HIDE DEF n
      <4> QED BY <3>1
    <3> HIDE DEF r
    <3> QED BY <2>5, <3>2, <3>3, <3>4
  <2> HIDE DEF r
  <2> QED BY <2>3, <2>6 DEF AtHome
<1> QED BY <1>1, <1>2, <1>3 DEF NothingDone, SomethingDone, HasSent, HasBegun

LEMMA IssueFlow ==
  ASSUME IInv, FlowInv, NEW c \in Cores, NEW t \in Tasks(c), Issue(c, t)
  PROVE  FlowInv'
<1>1. Typed /\ AtHome /\ Finite /\ Typed'
  BY IssueInv DEF IInv, FlowInv
<1>2. prog' = prog /\ net' = net
  BY <1>1, TurnPassed DEF Issue
<1>3. /\ t \in DOMAIN prog[c] /\ tasks[c][t] # <<>>
      /\ NothingDone(c, t) \/ SomethingDone(c, t)
  BY <1>1, IssueEffects
<1>4. /\ NothingDone(c, t) => Fired' = Fired
      /\ SomethingDone(c, t) =>
           \E x : /\ x \notin Fired /\ Fired' = Fired \cup {x}
                  /\ x[1] = c /\ InstrAt(x) = Head(Ahead(c, t))
  BY <1>1, FiredAfter
<1>5. AtHome'
  BY <1>1, IssueAtHome
<1>6. Finite'
  BY <1>1, <1>2, <1>3, <1>4, FS_AddElement DEF Finite
<1>7. sendQ \in [Cores -> Seq(PacketType)] /\ sendQ' \in [Cores -> Seq(PacketType)]
      /\ recvQ \in [Cores -> Seq(PacketType)] /\ recvQ' \in [Cores -> Seq(PacketType)]
  BY <1>1 DEF Typed
<1> SUFFICES ASSUME NEW d \in Cores, NEW f \in Nat
             PROVE  Flow(d, f)'
  BY <1>5, <1>6 DEF FlowInv
<1>8. Flow(d, f)
  BY DEF FlowInv
<1>9. UnderWay(d, f)' = UnderWay(d, f)
  BY <1>2 DEF UnderWay
<1> DEFINE made == MadeCount(d, f)
           queued == QueuedCount(d, f)
           waiting == CountIn(recvQ[d], d, f)
           taken == TakenBy(d, f)
           way == Cardinality(UnderWay(d, f))
<1>10. made \in Int /\ queued \in Int /\ waiting \in Nat /\ way \in Nat
       /\ IsFiniteSet(taken) /\ Cardinality(taken) \in Nat
  BY <1>1, FlowTypes
<1>11. CASE NothingDone(c, t)
  <2>1. UNCHANGED <<sendQ, recvQ>> /\ Fired' = Fired
    BY <1>4, <1>11 DEF NothingDone
  <2>2. made' = made /\ taken' = taken
    BY <1>2, <2>1, NoneExecuted
  <2>3. queued' = queued /\ waiting' = waiting
    BY <2>1 DEF QueuedCount, CountIn
  <2> QED BY <1>8, <1>9, <2>2, <2>3 DEF Flow
<1>12. CASE SomethingDone(c, t)
  <2> DEFINE i == Head(Ahead(c, t))
  <2>1. PICK x : /\ x \notin Fired /\ Fired' = Fired \cup {x}
                 /\ x[1] = c /\ InstrAt(x) = i
    BY <1>4, <1>12
  <2>2. Ahead(c, t) # <<>> /\ i \in Instr
    BY <1>1, <1>3, <1>12, AheadFacts DEF SomethingDone
  <2> DEFINE copies == Copies(x, d, f)
             got == IF i.op = "recv" /\ i.fid = f /\ c = d THEN 1 ELSE 0
  <2>3. made' = made + copies /\ copies \in Nat
    BY <1>1, <1>2, <2>1, <2>2, MadeAfter, CopiesIs
  <2>4. Cardinality(taken)' = Cardinality(taken) + got
    <3> DEFINE mine == i.op = "recv" /\ i.fid = f /\ c = d
               after == TakenBy(d, f)'
    <3>1. after = taken \cup (IF mine THEN {x} ELSE {})
      BY <1>2, <2>1, TakenAfter
    <3>2. x \notin taken /\ got = IF mine THEN 1 ELSE 0
      BY <2>1 DEF TakenBy
    <3>3. Cardinality(after) = Cardinality(taken) + got
      <4> HIDE DEF taken, after, mine, got
      <4>1. CASE mine
        <5>1. after = taken \cup {x} /\ got = 1
          BY <3>1, <3>2, <4>1
        <5> QED BY <1>10, <3>2, <5>1, FS_AddElement
      <4>2. CASE ~mine
        <5>1. after = taken /\ got = 0
          BY <3>1, <3>2, <4>2
        <5> QED BY <1>10, <5>1
      <4> QED BY <4>1, <4>2
    <3> QED BY <3>3
  <2>5. /\ queued' = queued + copies
        /\ waiting' + got = waiting /\ waiting' \in Nat
    <3>1. waiting' = CountIn(recvQ'[d], d, f)
      BY DEF CountIn
    <3>2. i.op # "send" => copies = 0
      BY <2>1, <2>2, CopiesIs
    <3>3. CASE HasSent(c, t)
      <4> DEFINE P == PacketsOf(c, t, Ahead(c, t))
      <4>1. i.op = "send" /\ sendQ' = [sendQ EXCEPT ![c] = @ \o P] /\ recvQ' = recvQ
        BY <3>3 DEF HasSent
      <4>2. sendQ'[c] = sendQ[c] \o P /\ \A e \in Cores \ {c} : sendQ'[e] = sendQ[e]
        BY <1>7, <4>1
      <4>3. P \in Seq(PacketType)
        BY <1>1, <1>3, <2>2, <4>1, PacketsMade
      <4>4. CountIn(P, d, f) = copies
        BY <1>1, <1>3, <2>1, <2>2, <4>1, CountMade
      <4> DEFINE a == CountIn(sendQ[c], d, f)
                 b == CountIn(sendQ'[c], d, f)
      <4>5. b = a + copies /\ a \in Nat
        <5> HIDE DEF P
        <5>1. sendQ[c] \in Seq(PacketType) /\ sendQ'[c] \in Seq(PacketType)
          BY <1>7
        <5>2. /\ CountIn(sendQ[c], d, f) = Count(sendQ[c], Packets(d, f))
              /\ CountIn(sendQ'[c], d, f) = Count(sendQ'[c], Packets(d, f))
              /\ CountIn(P, d, f) = Count(P, Packets(d, f))
              /\ a \in Nat
          BY <4>3, <5>1, CountInIs
        <5>3. Count(sendQ'[c], Packets(d, f)) = Count(sendQ[c], Packets(d, f)) + Count(P, Packets(d, f))
          BY <4>2, <4>3, <5>1, CountConcat
        <5> QED BY <4>4, <5>2, <5>3
      <4>6. queued' = queued - a + b
        BY <1>7, <4>2, QueuedAfter
      <4>7. waiting' = waiting /\ got = 0
        BY <3>1, <4>1
      <4> HIDE DEF a, b, queued, waiting, copies, got
      <4> QED BY <1>10, <2>3, <4>5, <4>6, <4>7
    <3>4. CASE HasBegun(c, t)
      <4>1. i.op = "exec" /\ UNCHANGED <<sendQ, recvQ>>
        BY <3>4 DEF HasBegun
      <4>2. queued' = queued /\ waiting' = waiting /\ got = 0
        BY <3>1, <4>1 DEF QueuedCount, CountIn
      <4> HIDE DEF queued, waiting, copies, got
      <4> QED BY <1>10, <3>2, <4>1, <4>2
    <3>5. CASE HasReceived(c, t)
      <4>1. PICK k \in DOMAIN recvQ[c] :
              /\ i.op = "recv" /\ recvQ[c][k].fid = i.fid
              /\ recvQ' = [recvQ EXCEPT ![c] = AfterReceive(@, k)] /\ sendQ' = sendQ
        BY <3>5 DEF HasReceived
      <4>2. queued' = queued
        BY <4>1 DEF QueuedCount, CountIn
      <4>3. waiting' + got = waiting /\ waiting' \in Nat
        <5>1. CASE d # c
          <6>1. recvQ'[d] = recvQ[d]
            BY <1>7, <4>1, <5>1
          <6>2. waiting' = waiting /\ got = 0
            BY <3>1, <5>1, <6>1
          <6> HIDE DEF waiting, got
          <6> QED BY <1>10, <6>2
        <5>2. CASE d = c
          <6> DEFINE q == recvQ[c]
                     r == AfterReceive(q, k)
                     M == Packets(d, f)
          <6>1. q \in Seq(PacketType) /\ k \in 1 .. Len(q) /\ recvQ'[c] = r
                /\ r \in Seq(PacketType) /\ q[k] \in PacketType
            BY <1>7, <4>1
          <6>2. waiting = Count(q, M) /\ waiting' = Count(r, M) /\ waiting' \in Nat
            BY <3>1, <5>2, <6>1, CountInIs
          <6>3. q[k] \in M <=> q[k].fid = f
            BY <1>1, <5>2, <6>1 DEF AtHome, Packets
          <6>4. Count(q, M) = Count(r, M) + (IF q[k] \in M THEN 1 ELSE 0)
            BY <6>1, CountReceived
          <6>5. q[k].fid = i.fid /\ i.op = "recv"
            BY <4>1
          <6>6. got = IF q[k] \in M THEN 1 ELSE 0
            BY <5>2, <6>3, <6>5
          <6> HIDE DEF got, q, r, M, waiting
          <6> QED BY <6>2, <6>4, <6>6
        <5> QED BY <5>1, <5>2
      <4> HIDE DEF queued, waiting, copies, got
      <4> QED BY <1>10, <3>2, <4>1, <4>2, <4>3
    <3> QED BY <1>12, <3>3, <3>4, <3>5 DEF SomethingDone
  <2>6. made = queued + way + waiting + Cardinality(taken)
    BY <1>8 DEF Flow
  <2>7. way' = way
    BY <1>9
  <2>8. got \in {0, 1}
    OBVIOUS
  <2> DEFINE n == Cardinality(taken)
  <2>9. n' = n + got /\ n \in Nat
    BY <1>10, <2>4
  <2>10. made = queued + way + waiting + n
    BY <2>6
  <2>11. made' = queued' + way' + waiting' + n'
    <3> DEFINE made1 == MadeCount(d, f)'
               queued1 == QueuedCount(d, f)'
               way1 == Cardinality(UnderWay(d, f))'
               waiting1 == CountIn(recvQ[d], d, f)'
               n1 == Cardinality(TakenBy(d, f))'
    <3>1. made1 = made + copies /\ queued1 = queued + copies /\ way1 = way
          /\ waiting1 + got = waiting /\ waiting1 \in Nat /\ n1 = n + got
      BY <2>3, <2>5, <2>7, <2>9
    <3>2. /\ made \in Int /\ queued \in Int /\ way \in Nat /\ waiting \in Nat
          /\ n \in Nat /\ copies \in Nat
      BY <1>10, <2>3, <2>9
    <3>3. made1 = queued1 + way1 + waiting1 + n1
      <4> HIDE DEF made, queued, way, waiting, n, copies, got, made1, queued1, way1, waiting1, n1
      <4> QED BY <2>8, <2>10, <3>1, <3>2
    <3> QED BY <3>3
  <2> QED BY <2>11 DEF Flow
<1> QED BY <1>3, <1>11, <1>12

\* The clock executes nothing.
LEMMA NothingFired ==
  ASSUME prog' = prog, tasks' = tasks,
         \A c \in Cores : \A t \in Tasks(c) : left'[c][t] = -1 <=> left[c][t] = -1
  PROVE  Fired' = Fired
<1> DEFINE E == [c \in Cores |-> [t \in Tasks(c) |-> Executed(c, t)]]
           F == [c \in Cores |-> [t \in Tasks(c) |-> Executed(c, t)']]
<1>1. \A c \in Cores : Tasks(c)' = Tasks(c)
  BY DEF Tasks
<1>2. ASSUME NEW c \in Cores, NEW t \in Tasks(c)
      PROVE  Executed(c, t)' = Executed(c, t)
  <2>1. left'[c][t] # -1 <=> left[c][t] # -1
    OBVIOUS
  <2> QED BY <2>1 DEF Executed
<1>3. \A c \in Cores : \A t \in Tasks(c) :
        E[c][t] = Executed(c, t) /\ F[c][t] = Executed(c, t)' /\ F[c][t] = E[c][t]
  BY <1>2
<1> HIDE DEF E, F
<1> QED BY <1>1, <1>3 DEF Fired

\* A packet of its own from every source that generates one: S are sources, T
\* their packets.
LEMMA OneEach ==
  ASSUME Typed, Distinct, NEW S \in SUBSET Generating, NEW T,
         \A c \in S : Head(sendQ[c]) \in T, \A p \in T : \E c \in S : Head(sendQ[c]) = p
  PROVE  IsFiniteSet(T) /\ Cardinality(T) = Cardinality(S)
<1> DEFINE g == [c \in S |-> Head(sendQ[c])]
<1>1. \A c \in S : Head(sendQ[c]).src = c
  BY Generated
<1>2. IsFiniteSet(S)
  <2>1. S \subseteq Cores
    BY DEF Generating
  <2> QED BY <2>1, FiniteCores, FS_Subset
<1>3. /\ g \in [S -> T] /\ \A y \in T : \E x \in S : g[x] = y
      /\ \A a, b \in S : g[a] = g[b] => a = b
  BY <1>1
<1> HIDE DEF g
<1> QED BY <1>2, <1>3, SameSize

\* The sources whose next packet is one with tensor f for core d, and those
\* packets.
Sources(d, f) == {c \in Generating : Head(sendQ[c]) \in Packets(d, f)}
Entering(d, f) == {p \in Fresh : p.dest = d /\ p.fid = f}

LEMMA EnteringSize ==
  ASSUME Typed, Distinct, NEW d, NEW f
  PROVE  /\ IsFiniteSet(Entering(d, f)) /\ Cardinality(Entering(d, f)) \in Nat
         /\ Cardinality(Entering(d, f)) = Cardinality(Sources(d, f))
<1> DEFINE S == Sources(d, f)
           T == Entering(d, f)
<1>1. S \subseteq Generating
  BY DEF Sources
<1>2. \A c \in S : Head(sendQ[c]) \in T
  BY DEF Sources, Entering, Packets, Fresh
<1>3. \A p \in T : \E c \in S : Head(sendQ[c]) = p
  BY Generated DEF Sources, Entering, Packets, Fresh
<1> HIDE DEF S, T
<1>4. IsFiniteSet(T) /\ Cardinality(T) = Cardinality(S)
  BY <1>1, <1>2, <1>3, OneEach
<1>5. Cardinality(T) \in Nat
  BY <1>4, FS_CardinalityType
<1> QED BY <1>4, <1>5 DEF S, T

LEMMA QueuesMove ==
  ASSUME Typed, Distinct, NEW inject, NEW retire, NocStep(inject, retire), Typed',
         NEW d, NEW f
  PROVE  /\ QueuedCount(d, f) = QueuedCount(d, f)' + Cardinality(Sources(d, f))
         /\ QueuedCount(d, f)' \in Int /\ Cardinality(Sources(d, f)) \in Nat
<1> DEFINE F == [c \in Cores |-> CountIn(sendQ[c], d, f)]
           G == [c \in Cores |-> CountIn(sendQ'[c], d, f)]
           S == Sources(d, f)
           I == [c \in Cores |-> IF c \in S THEN 1 ELSE 0]
<1>1. QueuedCount(d, f) = SumFunctionOnSet(F, Cores)
  BY DEF QueuedCount, SumFunction
<1>2. QueuedCount(d, f)' = SumFunctionOnSet(G, Cores)
  BY DEF QueuedCount, SumFunction, CountIn
<1>3. ASSUME NEW c \in Cores
      PROVE  G[c] \in Int /\ I[c] \in Int /\ F[c] = G[c] + I[c]
  <2> DEFINE q == sendQ[c]
             r == sendQ'[c]
             M == Packets(d, f)
  <2>1. q \in Seq(PacketType) /\ r \in Seq(PacketType)
    BY DEF Typed
  <2>2. /\ CountIn(q, d, f) = Count(q, M) /\ CountIn(r, d, f) = Count(r, M)
        /\ CountIn(q, d, f) \in Nat /\ CountIn(r, d, f) \in Nat
    BY <2>1, CountInIs
  <2>3. r = IF c \in Generating THEN Tail(q) ELSE q
    BY NocEffects
  <2>4. Count(q, M) = Count(r, M) + I[c]
    <3>1. CASE c \in Generating
      <4>1. q # <<>> /\ (c \in S <=> Head(q) \in M)
        BY <3>1 DEF Generating, Sources
      <4>2. Count(q, M) = Count(Tail(q), M) + (IF Head(q) \in M THEN 1 ELSE 0)
        <5> HIDE DEF q, M
        <5> QED BY <2>1, <4>1, CountTail
      <4> QED BY <2>3, <3>1, <4>1, <4>2
    <3>2. CASE c \notin Generating
      <4>1. c \notin S /\ r = q
        BY <2>3, <3>2 DEF Sources
      <4> QED BY <2>2, <4>1
    <3> QED BY <3>1, <3>2
  <2>5. I[c] \in Int /\ F[c] = CountIn(q, d, f) /\ G[c] = CountIn(r, d, f)
    OBVIOUS
  <2> HIDE DEF F, G, I, q, r, M
  <2> QED BY <2>2, <2>4, <2>5
<1>4. S \subseteq Cores
  BY DEF Sources, Generating
<1>5. \A c \in Cores : I[c] = IF c \in S THEN 1 ELSE 0
  OBVIOUS
<1>6. Cardinality(S) \in Nat
  BY <1>4, FiniteCores, FS_Subset, FS_CardinalityType
<1> HIDE DEF F, G, I, S
<1>7. SumFunctionOnSet(F, Cores) = SumFunctionOnSet(G, Cores) + SumFunctionOnSet(I, Cores)
  BY <1>3, FiniteCores, SumPlus
<1>8. SumFunctionOnSet(I, Cores) = Cardinality(S)
  BY <1>4, <1>5, FiniteCores, SumIndicator
<1>9. SumFunctionOnSet(G, Cores) \in Int
  BY <1>3, FiniteCores, SumType
<1> QED BY <1>1, <1>2, <1>6, <1>7, <1>8, <1>9 DEF S

\* The effects of the step one by one.
LEMMA NocEach ==
  ASSUME NEW inject, NEW retire, NocStep(inject, retire)
  PROVE  /\ \A p : p \in DOMAIN net' <=> p \in Known /\ Out(p, retire) < p.n
         /\ \A p \in DOMAIN net' : net'[p].retired = Out(p, retire)
         /\ \A d \in Cores : recvQ'[d] = IF retire[d] # None /\ net[retire[d]].retired = 0
                                        THEN Append(recvQ[d], retire[d]) ELSE recvQ[d]
         /\ \A c \in Cores : \A t \in Tasks(c) :
              left'[c][t] = IF left[c][t] > 0 THEN left[c][t] - 1 ELSE left[c][t]
<1> DEFINE i(p) == In(p, inject)
           o(p) == Out(p, retire)
<1>1. /\ phase = "noc" /\ phase' = "check"
      /\ sendQ' = [c \in Cores |-> IF c \in Generating THEN Tail(sendQ[c]) ELSE sendQ[c]]
      /\ partial' = [c \in Cores |->
           IF Current(c) # None /\ i(Current(c)) < Current(c).n THEN Current(c) ELSE None]
      /\ net' = [p \in {q \in Known : o(q) < q.n} |-> [injected |-> i(p), retired |-> o(p)]]
      /\ recvQ' = [d \in Cores |->
           IF retire[d] # None /\ net[retire[d]].retired = 0
           THEN Append(recvQ[d], retire[d]) ELSE recvQ[d]]
      /\ left' = [c \in Cores |-> [t \in Tasks(c) |->
           IF left[c][t] > 0 THEN left[c][t] - 1 ELSE left[c][t]]]
      /\ tick' = (tick + 1) % CheckFreq
      /\ moved' \in BOOLEAN
      /\ UNCHANGED <<prog, at, tasks, pipeOpen, backup>>
  BY NocEffects
<1> HIDE DEF i, o
<1> DEFINE D == {q \in Known : o(q) < q.n}
<1>2. DOMAIN net' = D
      /\ \A p \in DOMAIN net' : net'[p] = [injected |-> i(p), retired |-> o(p)]
  BY <1>1
<1>3. ASSUME NEW p
      PROVE  p \in DOMAIN net' <=> p \in Known /\ o(p) < p.n
  <2>1. p \in D <=> p \in Known /\ o(p) < p.n
    OBVIOUS
  <2> HIDE DEF D
  <2> QED BY <1>2, <2>1
<1>4. ASSUME NEW p \in DOMAIN net'
      PROVE  net'[p].retired = o(p)
  <2> DEFINE x == net'[p]
             a == i(p)
             b == o(p)
  <2>1. x = [injected |-> a, retired |-> b]
    BY <1>2
  <2> HIDE DEF x, a, b
  <2>2. x.retired = b
    BY <2>1
  <2> QED BY <2>2 DEF x, b
<1> QED BY <1>1, <1>3, <1>4 DEF o

\* The head flit of a packet with tensor f arrives at core d.
Arrives(d, f, retire) ==
  retire[d] # None /\ net[retire[d]].retired = 0 /\ retire[d].fid = f

LEMMA WayMoves ==
  ASSUME Typed, Distinct, Counted, Sending, Finite,
         NEW inject, NEW retire, NetworkChoice(inject, retire), NocStep(inject, retire),
         NEW d \in Cores, NEW f
  PROVE  Cardinality(UnderWay(d, f))'
         = Cardinality(UnderWay(d, f)) - (IF Arrives(d, f, retire) THEN 1 ELSE 0)
           + Cardinality(Entering(d, f))
<1> DEFINE U == UnderWay(d, f)
           V == UnderWay(d, f)'
           H == Entering(d, f)
           r == retire[d]
           left1 == IF Arrives(d, f, retire) THEN U \ {r} ELSE U
<1>1. ASSUME NEW p \in PacketType, p.dest = d, p.fid = f
      PROVE  p \in V <=> p \in H \/ (p \in U /\ p # r)
  <2>1. p \in V <=> p \in DOMAIN net' /\ net'[p].retired = 0
    BY <1>1 DEF UnderWay
  <2>2. p \in DOMAIN net' <=> p \in Known /\ Out(p, retire) < p.n
    <3>1. \A y : y \in DOMAIN net' <=> y \in Known /\ Out(y, retire) < y.n
      BY NocEach, Zenon
    <3> QED BY ONLY <3>1, Zenon
  <2>3. p \in DOMAIN net' => net'[p].retired = Out(p, retire)
    BY NocEach
  <2>4. CASE p \in Known
    <3> DEFINE m == FlitsOf(p).retired
               out == Out(p, retire)
               retiring == p \in {retire[e] : e \in Cores} \ {None}
    <3>1. m \in Nat /\ p.n \in Nat \ {0}
      BY <2>4, KnownFlits
    <3>2. out = m + (IF retiring THEN 1 ELSE 0)
      BY DEF Out
    <3>3. retiring <=> p = r
      <4>1. p # None
        BY ChipAssumption
      <4>2. \A e \in Cores : retire[e] = p => e = d
        BY <1>1, <4>1 DEF NetworkChoice
      <4> QED BY <4>1, <4>2
    <3>4. p \in V <=> m = 0 /\ p # r
      <4> DEFINE n == p.n
      <4> HIDE DEF m, out, retiring, n
      <4>1. out = 0 <=> m = 0 /\ ~retiring
        BY <3>1, <3>2 DEF n
      <4>2. out = 0 => out < n
        BY <3>1 DEF n
      <4> QED BY <2>1, <2>2, <2>3, <2>4, <3>3, <4>1, <4>2 DEF out, n
    <3>5. CASE p \in DOMAIN net
      <4>1. p \notin H
        BY <3>5, Generated DEF Entering, Fresh
      <4>2. p \in U <=> m = 0
        BY <1>1, <3>5 DEF UnderWay, FlitsOf
      <4> QED BY <3>4, <4>1, <4>2
    <3>6. CASE p \notin DOMAIN net
      <4>1. p \in H
        BY <1>1, <2>4, <3>6 DEF Entering, Known
      <4>2. m = 0
        BY <3>6 DEF FlitsOf
      <4>3. p # r
        BY <3>3, <3>6, ChipAssumption DEF NetworkChoice, Arrived
      <4> QED BY <3>4, <4>1, <4>2, <4>3
    <3> QED BY <3>5, <3>6
  <2>5. CASE p \notin Known
    <3>1. p \notin V /\ p \notin H /\ p \notin U
      BY <2>1, <2>2, <2>5 DEF Known, Entering, UnderWay
    <3> QED BY <3>1
  <2> QED BY <2>4, <2>5
<1>2. U \subseteq Packets(d, f) /\ H \subseteq Packets(d, f) /\ U \cap H = {}
  <2>1. U \subseteq Packets(d, f) /\ U \subseteq DOMAIN net
    BY DEF Typed, UnderWay, Packets
  <2>2. \A p \in H : p \in Packets(d, f) /\ p \notin DOMAIN net
    BY Generated DEF Entering, Fresh, Packets
  <2> QED BY <2>1, <2>2
<1>3. V \subseteq Packets(d, f)
  <2>1. \A p \in V : p \in Known /\ p.dest = d /\ p.fid = f
    BY NocEach DEF UnderWay
  <2> QED BY <2>1, KnownFlits DEF Packets
<1>4. V = left1 \cup H /\ left1 \cap H = {} /\ (Arrives(d, f, retire) => r \in U)
  <2>1. \A p \in Packets(d, f) : p \in V <=> p \in H \/ (p \in U /\ p # r)
    BY <1>1 DEF Packets
  <2>2. r \in U <=> Arrives(d, f, retire)
    <3>1. r # None => r \in DOMAIN net /\ r.dest = d
      BY DEF NetworkChoice, Arrived
    <3>2. None \notin U
      BY <1>2, ChipAssumption DEF Packets
    <3> QED BY <3>1, <3>2 DEF UnderWay, Arrives
  <2> HIDE DEF U, V, H, r
  <2> QED BY <1>2, <1>3, <2>1, <2>2
<1>5. /\ IsFiniteSet(U) /\ Cardinality(U) \in Nat
      /\ IsFiniteSet(H) /\ Cardinality(H) \in Nat
  BY FlowTypes, EnteringSize
<1> DEFINE a == Arrives(d, f, retire)
<1>6. Cardinality(V) = Cardinality(U) - (IF a THEN 1 ELSE 0) + Cardinality(H)
  <2> HIDE DEF U, V, H, r, a
  <2>1. /\ IsFiniteSet(left1) /\ Cardinality(left1) \in Nat
        /\ Cardinality(left1) = Cardinality(U) - (IF a THEN 1 ELSE 0)
    <3>1. CASE a
      <4>1. left1 = U \ {r} /\ r \in U
        BY <1>4, <3>1 DEF a
      <4> HIDE DEF left1
      <4>2. IsFiniteSet(U \ {r}) /\ Cardinality(U \ {r}) = Cardinality(U) - 1
        BY <1>5, <4>1, FS_RemoveElement
      <4>3. Cardinality(U \ {r}) \in Nat
        BY <4>2, FS_CardinalityType
      <4> QED BY <3>1, <4>1, <4>2, <4>3
    <3>2. CASE ~a
      <4>1. left1 = U
        BY <3>2 DEF a
      <4> HIDE DEF left1
      <4> QED BY <1>5, <3>2, <4>1
    <3> QED BY <3>1, <3>2
  <2>2. V = left1 \cup H /\ left1 \cap H = {}
    BY <1>4
  <2> HIDE DEF left1
  <2>3. Cardinality(V) = Cardinality(left1) + Cardinality(H)
    <3>1. Cardinality(left1 \cup H) = Cardinality(left1) + Cardinality(H) - Cardinality(left1 \cap H)
      BY <1>5, <2>1, FS_Union
    <3>2. Cardinality(left1 \cap H) = 0
      BY <2>2, FS_EmptySet
    <3> QED BY <1>5, <2>1, <2>2, <3>1, <3>2
  <2> QED BY <2>1, <2>3
<1> QED BY <1>6

LEMMA ReceiveMoves ==
  ASSUME Typed, NEW inject, NEW retire, NetworkChoice(inject, retire),
         NocStep(inject, retire), NEW d \in Cores, NEW f
  PROVE  CountIn(recvQ[d], d, f)'
         = CountIn(recvQ[d], d, f) + (IF Arrives(d, f, retire) THEN 1 ELSE 0)
<1> DEFINE q == recvQ[d]
           r == recvQ'[d]
           M == Packets(d, f)
           p == retire[d]
           comes == p # None /\ net[p].retired = 0
<1>1. q \in Seq(PacketType) /\ r = IF comes THEN Append(q, p) ELSE q
  BY NocEach DEF Typed
<1>2. comes => p \in PacketType /\ (p \in M <=> Arrives(d, f, retire))
  BY DEF Typed, NetworkChoice, Arrived, Packets, Arrives
<1>3. ~comes => ~Arrives(d, f, retire)
  BY DEF Arrives
<1>4. CountIn(recvQ[d], d, f)' = CountIn(r, d, f)
  BY DEF CountIn
<1> HIDE DEF q, r, M, p, comes
<1>5. r \in Seq(PacketType)
  BY <1>1, <1>2
<1>6. CountIn(q, d, f) = Count(q, M) /\ CountIn(r, d, f) = Count(r, M) /\ Count(q, M) \in Nat
  BY <1>1, <1>5, CountInIs DEF M
<1>7. CASE comes
  <2>1. Count(Append(q, p), M) = Count(q, M) + (IF p \in M THEN 1 ELSE 0)
    BY <1>1, <1>2, <1>7, CountAppend
  <2> QED BY <1>1, <1>2, <1>4, <1>6, <1>7, <2>1 DEF q
<1>8. CASE ~comes
  BY <1>1, <1>3, <1>4, <1>6, <1>8 DEF q
<1> QED BY <1>7, <1>8

LEMMA NocFlow ==
  ASSUME IInv, FlowInv, NEW inject, NEW retire, NetworkChoice(inject, retire),
         NocStep(inject, retire)
  PROVE  FlowInv'
<1>1. Typed /\ Distinct /\ Counted /\ Sending /\ AtHome /\ Finite /\ Typed'
  BY NocInv DEF IInv, FlowInv
<1>2. prog' = prog /\ Fired' = Fired
  <2>1. prog' = prog /\ tasks' = tasks
    BY NocEffects
  <2>2. ASSUME NEW c \in Cores, NEW t \in Tasks(c)
        PROVE  left'[c][t] = -1 <=> left[c][t] = -1
    <3>1. left'[c][t] = IF left[c][t] > 0 THEN left[c][t] - 1 ELSE left[c][t]
      BY NocEach
    <3>2. left[c][t] \in Nat \cup {-1}
      BY <1>1 DEF Typed, Tasks
    <3> DEFINE l == left[c][t]
    <3> HIDE DEF l
    <3>3. (IF l > 0 THEN l - 1 ELSE l) = -1 <=> l = -1
      BY <3>2 DEF l
    <3> QED BY <3>1, <3>3 DEF l
  <2> QED BY <2>1, <2>2, NothingFired
<1>3. Finite'
  <2>1. IsFiniteSet(Fresh)
    <3>1. \A c \in Generating : Head(sendQ[c]) \in Fresh
      BY DEF Fresh
    <3>2. \A p \in Fresh : \E c \in Generating : Head(sendQ[c]) = p
      BY DEF Fresh
    <3> QED BY <1>1, <3>1, <3>2, OneEach
  <2>2. IsFiniteSet(Known)
    BY <1>1, <2>1, FS_Union DEF Known, Finite
  <2>3. DOMAIN net' \subseteq Known
    BY NocEach
  <2> QED BY <1>1, <1>2, <2>2, <2>3, FS_Subset DEF Finite
<1>4. AtHome'
  <2>1. ASSUME NEW d \in Cores, NEW k \in DOMAIN recvQ'[d]
        PROVE  recvQ'[d][k].dest = d
    <3>1. recvQ[d] \in Seq(PacketType) /\ \A j \in DOMAIN recvQ[d] : recvQ[d][j].dest = d
      BY <1>1 DEF Typed, AtHome
    <3>2. recvQ'[d] = recvQ[d] \/ (retire[d] # None /\ recvQ'[d] = Append(recvQ[d], retire[d]))
      BY NocEach
    <3>3. retire[d] # None => retire[d].dest = d /\ retire[d] \in PacketType
      BY <1>1 DEF NetworkChoice, Typed, Arrived
    <3> DEFINE q == recvQ[d]
               r == recvQ'[d]
    <3> HIDE DEF q, r
    <3>4. CASE r = q
      BY <3>1, <3>4 DEF q, r
    <3>5. CASE retire[d] # None /\ r = Append(q, retire[d])
      <4>1. k \in 1 .. Len(q) + 1 /\ Len(q) \in Nat
        BY <2>1, <3>1, <3>3, <3>5 DEF q, r
      <4>2. CASE k = Len(q) + 1
        <5>1. r[k] = retire[d]
          BY <3>1, <3>3, <3>5, <4>2 DEF q
        <5> QED BY <3>3, <3>5, <5>1 DEF r
      <4>3. CASE k # Len(q) + 1
        <5>1. k \in 1 .. Len(q)
          BY <4>1, <4>3
        <5>2. r[k] = q[k] /\ k \in DOMAIN q
          BY <3>1, <3>3, <3>5, <5>1 DEF q
        <5> QED BY <3>1, <5>2 DEF q, r
      <4> QED BY <4>2, <4>3
    <3> QED BY <3>2, <3>4, <3>5 DEF q, r
  <2> QED BY <2>1 DEF AtHome
<1> SUFFICES ASSUME NEW d \in Cores, NEW f \in Nat
             PROVE  Flow(d, f)'
  BY <1>3, <1>4 DEF FlowInv
<1> DEFINE made == MadeCount(d, f)
           queued == QueuedCount(d, f)
           waiting == CountIn(recvQ[d], d, f)
           taken == Cardinality(TakenBy(d, f))
           way == Cardinality(UnderWay(d, f))
           made1 == MadeCount(d, f)'
           queued1 == QueuedCount(d, f)'
           way1 == Cardinality(UnderWay(d, f))'
           waiting1 == CountIn(recvQ[d], d, f)'
           taken1 == Cardinality(TakenBy(d, f))'
           g == Cardinality(Sources(d, f))
           h == Cardinality(Entering(d, f))
           a == IF Arrives(d, f, retire) THEN 1 ELSE 0
<1>5. made = queued + way + waiting + taken
  BY DEF FlowInv, Flow
<1>6. made \in Int /\ queued \in Int /\ waiting \in Nat /\ way \in Nat /\ taken \in Nat
  BY <1>1, FlowTypes
<1>7. made1 = made /\ taken1 = taken
  BY <1>2, NoneExecuted
<1>8. queued = queued1 + g /\ queued1 \in Int /\ g \in Nat
  BY <1>1, QueuesMove
<1>9. g = h
  BY <1>1, EnteringSize
<1>10. way1 = way - a + h
  BY <1>1, WayMoves
<1>11. waiting1 = waiting + a
  BY <1>1, ReceiveMoves
<1>12. a \in Int
  OBVIOUS
<1>13. made1 = queued1 + way1 + waiting1 + taken1
  <2> HIDE DEF made, queued, way, waiting, taken, made1, queued1, way1, waiting1, taken1, g, h, a
  <2> QED BY <1>5, <1>6, <1>7, <1>8, <1>9, <1>10, <1>11, <1>12
<1> QED BY <1>13 DEF Flow

\* A step that leaves the cores and the network alone.
LEMMA QuietFlow ==
  ASSUME FlowInv, UNCHANGED <<prog, cores, network>>
  PROVE  FlowInv'
<1>1. UNCHANGED <<prog, tasks, left, sendQ, recvQ, net>>
  BY DEF cores, network
<1>2. Fired' = Fired
  BY <1>1, NothingFired
<1>3. AtHome' /\ Finite'
  BY <1>1, <1>2 DEF FlowInv, AtHome, Finite
<1>4. ASSUME NEW d \in Cores, NEW f \in Nat
      PROVE  Flow(d, f)'
  <2>1. MadeCount(d, f)' = MadeCount(d, f) /\ TakenBy(d, f)' = TakenBy(d, f)
    BY <1>1, <1>2, NoneExecuted
  <2>2. /\ QueuedCount(d, f)' = QueuedCount(d, f) /\ UnderWay(d, f)' = UnderWay(d, f)
        /\ CountIn(recvQ[d], d, f)' = CountIn(recvQ[d], d, f)
    BY <1>1 DEF QueuedCount, UnderWay, CountIn
  <2> QED BY <2>1, <2>2 DEF FlowInv, Flow
<1> QED BY <1>3, <1>4 DEF FlowInv

LEMMA InitFlow == Init => FlowInv
<1> SUFFICES ASSUME Init PROVE FlowInv
  OBVIOUS
<1>1. /\ Typed /\ tasks = prog /\ net = <<>>
      /\ \A c \in Cores : sendQ[c] = <<>> /\ recvQ[c] = <<>>
      /\ \A c \in Cores : \A t \in DOMAIN prog[c] : left[c][t] = -1
  BY InitInv DEF Init, IInv
<1>2. Fired = {}
  <2>1. ASSUME NEW c \in Cores, NEW t \in Tasks(c)
        PROVE  Executed(c, t) = 0
    <3>1. tasks[c][t] = prog[c][t] /\ left[c][t] = -1 /\ t \in DOMAIN prog[c]
      BY <1>1 DEF Tasks
    <3>2. Len(prog[c][t]) \in Nat
      BY <1>1, <3>1, Programmed DEF Typed
    <3> DEFINE n == Len(prog[c][t])
    <3>3. Executed(c, t) = n - n + 0
      BY <3>1 DEF Executed
    <3> HIDE DEF n
    <3> QED BY <3>2, <3>3 DEF n
  <2>2. \A c \in Cores : \A t \in Tasks(c) : 1 .. Executed(c, t) = {}
    BY <2>1
  <2> QED BY <2>2 DEF Fired
<1>3. DOMAIN net = {}
  BY <1>1
<1>4. AtHome /\ Finite
  BY <1>1, <1>2, <1>3, FS_EmptySet DEF AtHome, Finite
<1>5. \A d, f : CountIn(<<>>, d, f) = 0
  <2>1. \A d, f : {k \in DOMAIN <<>> : <<>>[k].dest = d /\ <<>>[k].fid = f} = {}
    OBVIOUS
  <2> QED BY <2>1, FS_EmptySet DEF CountIn
<1>6. ASSUME NEW d \in Cores, NEW f \in Nat
      PROVE  Flow(d, f)
  <2>1. MadeCount(d, f) = 0
    <3> DEFINE F == [x \in Fired |-> Copies(x, d, f)]
    <3>1. MadeCount(d, f) = SumFunctionOnSet(F, {})
      BY <1>2 DEF MadeCount, SumFunction
    <3> HIDE DEF F
    <3> QED BY <3>1, SumEmpty
  <2>2. QueuedCount(d, f) = 0
    <3> DEFINE F == [c \in Cores |-> CountIn(sendQ[c], d, f)]
               none == {}
    <3>1. QueuedCount(d, f) = SumFunctionOnSet(F, Cores)
      BY DEF QueuedCount, SumFunction
    <3>2. \A c \in Cores : F[c] = IF c \in none THEN 1 ELSE 0
      BY <1>1, <1>5
    <3>3. none \in SUBSET Cores
      OBVIOUS
    <3> HIDE DEF F, none
    <3>4. SumFunctionOnSet(F, Cores) = Cardinality(none)
      BY <3>2, <3>3, FiniteCores, SumIndicator
    <3> QED BY <3>1, <3>4, FS_EmptySet DEF none
  <2>3. UnderWay(d, f) = {} /\ TakenBy(d, f) = {}
    BY <1>2, <1>3 DEF UnderWay, TakenBy
  <2>4. Cardinality(UnderWay(d, f)) = 0 /\ Cardinality(TakenBy(d, f)) = 0
    BY <2>3, FS_EmptySet
  <2>5. CountIn(recvQ[d], d, f) = 0
    BY <1>1, <1>5
  <2> QED BY <2>1, <2>2, <2>4, <2>5 DEF Flow
<1> QED BY <1>4, <1>6 DEF FlowInv

LEMMA FlowInductive == IInv /\ FlowInv /\ [Next]_vars => FlowInv'
<1> SUFFICES ASSUME IInv, FlowInv, [Next]_vars PROVE FlowInv'
  OBVIOUS
<1>1. CASE LoopHead
  BY <1>1, QuietFlow DEF LoopHead
<1>2. ASSUME NEW c \in Cores, Rest(c)
      PROVE  FlowInv'
  <2>1. UNCHANGED <<prog, cores, network>>
    BY <1>2 DEF Rest, PassTurn, cores, network
  <2> QED BY <2>1, QuietFlow
<1>3. ASSUME NEW c \in Cores, NEW t \in Tasks(c), Issue(c, t)
      PROVE  FlowInv'
  BY <1>3, IssueFlow
<1>4. CASE Network
  <2>1. PICK inject \in SUBSET {c \in Cores : Current(c) # None},
             retire \in [Cores -> Arrived \cup {None}] :
          /\ \A d \in Cores : retire[d] # None => retire[d].dest = d
          /\ NocStep(inject, retire)
    BY <1>4 DEF Network
  <2>2. NetworkChoice(inject, retire)
    BY <2>1 DEF NetworkChoice
  <2> QED BY <2>1, <2>2, NocFlow
<1>5. CASE Check
  BY <1>5, QuietFlow DEF Check
<1>6. CASE UNCHANGED vars
  <2>1. UNCHANGED <<prog, cores, network>>
    BY <1>6 DEF vars
  <2> QED BY <2>1, QuietFlow
<1> QED BY <1>1, <1>2, <1>3, <1>4, <1>5, <1>6 DEF Next

\* Every tensor is sent once to each of its destinations and received once,
\* whatever the order of retries, closed pipes, queue rotations and cycles in
\* the network: the packets that the executed sends made are those on their
\* way, those that wait in the receive queue and those that were taken.
THEOREM FlowIsConserved == Spec => []FlowConserved
<1>1. Init => IInv /\ FlowInv
  BY InitInv, InitFlow
<1>2. IInv /\ FlowInv /\ [Next]_vars => (IInv /\ FlowInv)'
  BY Inductive, FlowInductive
<1>3. IInv /\ FlowInv => FlowConserved
  <2> SUFFICES ASSUME IInv, FlowInv, NEW d \in Cores, NEW f \in Fids
               PROVE  Flow(d, f)
    BY DEF FlowConserved, Flow, MadeCount, QueuedCount, UnderWay, TakenBy
  <2>1. f \in Nat
    <3>1. PICK x \in Fired : f = InstrAt(x).fid
      BY DEF Fids
    <3> DEFINE i == InstrAt(x)
    <3>2. i \in Instr
      BY FiredFacts DEF IInv
    <3> HIDE DEF i
    <3>3. i.fid \in Nat
      BY <3>2 DEF Instr
    <3> QED BY <3>1, <3>3 DEF i
  <2> QED BY <2>1 DEF FlowInv
<1> QED BY <1>1, <1>2, <1>3, PTL DEF Spec

=============================================================================
