-------------------------- MODULE CreditLinkProofs --------------------------
(***************************************************************************)
(* Proofs about CreditLink for every number of VCs, buffer configuration,  *)
(* buffer policy, packet count and packet length.                          *)
(***************************************************************************)
EXTENDS CreditLink, BufferStateProofs, SequenceTheorems

-----------------------------------------------------------------------------
(***************************************************************************)
(* Type correctness and the inductive invariant.                           *)
(***************************************************************************)

\* While a packet is being sent on a VC the BufferState knows it as the owner
\* and has not seen its tail; this is what keeps a VC from being taken, or
\* released by a credit, in the middle of a packet.
Known(c, owner, tailSent) ==
  IF c.pid = None THEN c = Idle
  ELSE owner # None /\ ~tailSent /\ c.sent < c.len

OwnerKnown == \A v \in Vcs : Known(cur[v], bs.inUseBy[v], bs.tailSent[v])

\* Along a VC, from the receiver's expected packet e through the flits w of
\* the channel to the packet o the sender is in the middle of, the flits of a
\* packet follow each other up to its tail.
Ordered(w, e, o) ==
  IF w = <<>> THEN e = o
  ELSE /\ e \in {None, w[1].pid}
       /\ \A i \in 1 .. Len(w) - 1 : w[i].tail \/ w[i + 1].pid = w[i].pid
       /\ o = IF w[Len(w)].tail THEN None ELSE w[Len(w)].pid

OpenPid(c) == IF c.sent = 0 THEN None ELSE c.pid

Unmixed == \A v \in Vcs : Ordered(wire[v], expected[v], OpenPid(cur[v]))

IInv == TypeOK /\ CreditsConserved /\ OwnerKnown /\ Unmixed

-----------------------------------------------------------------------------
\* A flit belongs to a packet.
LEMMA FlitFields ==
  \A f \in Flits : f.pid \in Pids /\ f.pid # None /\ f.tail \in BOOLEAN
  BY CreditLinkAssumption DEF Flits, Pids

\* A flit sent into a VC that is between packets, or into its own packet,
\* keeps the VC ordered.
LEMMA OrderedAppend ==
  ASSUME NEW w \in Seq(Flits), NEW f \in Flits, NEW e, NEW o,
         Ordered(w, e, o), o = None \/ o = f.pid
  PROVE  Ordered(Append(w, f), e, IF f.tail THEN None ELSE f.pid)
<1> DEFINE k == Len(w)
           x == Append(w, f)
<1>1. /\ Len(x) = k + 1 /\ x # <<>>
      /\ \A i \in 1 .. k : x[i] = w[i]
      /\ x[k + 1] = f
  BY AppendProperties
<1>2. k \in Nat /\ (w = <<>> <=> k = 0)
  BY EmptySeq, LenProperties
<1>3. \A i \in 1 .. k : w[i].pid # None
  BY ElementOfSeq, FlitFields
<1> HIDE DEF x, k
<1>4. e \in {None, x[1].pid}
  <2>1. CASE k = 0
    BY <2>1, <1>1, <1>2 DEF Ordered
  <2>2. CASE k > 0
    BY <2>2, <1>1, <1>2 DEF Ordered
  <2> QED BY <2>1, <2>2, <1>2
<1>5. ASSUME NEW i \in 1 .. k
      PROVE  x[i].tail \/ x[i + 1].pid = x[i].pid
  <2>1. x[i] = w[i] /\ w # <<>>
    BY <1>1, <1>2
  <2>2. CASE i < k
    <3>1. i \in 1 .. k - 1 /\ x[i + 1] = w[i + 1]
      BY <2>2, <1>1, <1>2
    <3> QED BY <3>1, <2>1 DEF Ordered, k
  <2>3. CASE i = k
    <3>1. o = IF w[k].tail THEN None ELSE w[k].pid
      BY <2>1 DEF Ordered, k
    <3> QED BY <3>1, <2>1, <2>3, <1>1, <1>3
  <2> QED BY <2>2, <2>3, <1>2
<1>6. Len(x) - 1 = k
  BY <1>1, <1>2
<1> QED BY <1>1, <1>4, <1>5, <1>6 DEF Ordered, x

\* The receiver of an ordered VC expects its next flit, and the VC stays
\* ordered when that flit is buffered.
LEMMA OrderedTail ==
  ASSUME NEW w \in Seq(Flits), NEW e, NEW o, Ordered(w, e, o), w # <<>>
  PROVE  /\ e \in {None, Head(w).pid}
         /\ Ordered(Tail(w), IF Head(w).tail THEN None ELSE Head(w).pid, o)
<1> DEFINE k == Len(w)
           x == Tail(w)
           f == Head(w)
<1>1. /\ x \in Seq(Flits) /\ Len(x) = k - 1 /\ f = w[1]
      /\ \A i \in 1 .. k - 1 : x[i] = w[i + 1]
  <2>1. f = w[1]
    OBVIOUS
  <2>2. x \in Seq(Flits) /\ Len(x) = k - 1
    BY HeadTailProperties
  <2>3. \A i \in 1 .. Len(x) : x[i] = w[i + 1]
    BY HeadTailProperties
  <2> HIDE DEF x, k
  <2> QED BY <2>1, <2>2, <2>3
<1>2. k \in Nat \ {0} /\ (x = <<>> <=> k = 1)
  <2>1. k \in Nat \ {0}
    BY EmptySeq
  <2>2. /\ Len(<<>>) = 0
        /\ x # <<>> => Len(x) \in Nat \ {0}
    BY <1>1, EmptySeq
  <2> HIDE DEF x, k
  <2> QED BY <2>1, <2>2, <1>1
<1>3. /\ e \in {None, w[1].pid}
      /\ \A i \in 1 .. k - 1 : w[i].tail \/ w[i + 1].pid = w[i].pid
      /\ o = IF w[k].tail THEN None ELSE w[k].pid
  BY DEF Ordered
<1> HIDE DEF x, f, k
<1>4. CASE k = 1
  BY <1>1, <1>2, <1>3, <1>4 DEF Ordered, x, f
<1>5. CASE k > 1
  <2>1. Len(x) \in 1 .. k - 1 /\ Len(x) = k - 1 /\ x # <<>>
    BY <1>1, <1>2, <1>5
  <2>2. x[1] = w[2] /\ x[Len(x)] = w[k]
    BY <2>1, <1>1, <1>2, <1>5
  <2>3. f.tail \/ w[2].pid = f.pid
    BY <1>1, <1>2, <1>3, <1>5
  <2>4. ASSUME NEW i \in 1 .. Len(x) - 1
        PROVE  x[i].tail \/ x[i + 1].pid = x[i].pid
    <3>1. i + 1 \in 1 .. k - 1 /\ i \in 1 .. k - 1
      BY <2>1, <1>2, <1>5
    <3> QED BY <3>1, <1>1, <1>3
  <2> QED BY <2>1, <2>2, <2>3, <2>4, <1>1, <1>3 DEF Ordered, x, f
<1> QED BY <1>2, <1>4, <1>5

-----------------------------------------------------------------------------
\* What the invariant says of one VC.
LEMMA OneVc ==
  ASSUME IInv, NEW v \in Vcs
  PROVE  /\ cur[v] \in [pid : Pids \cup {None}, len : 0 .. MaxLen, sent : 0 .. MaxLen]
         /\ wire[v] \in Seq(Flits) /\ Len(wire[v]) \in Nat
         /\ buf[v] \in Seq(Flits) /\ Len(buf[v]) \in Nat
         /\ expected[v] \in Pids \cup {None}
         /\ credits[v] \in Nat
         /\ bs.vcOcc[v] \in Int
         /\ bs.vcOcc[v] = Len(wire[v]) + Len(buf[v]) + credits[v]
         /\ Known(cur[v], bs.inUseBy[v], bs.tailSent[v])
         /\ Ordered(wire[v], expected[v], OpenPid(cur[v]))
<1>1. wire[v] \in Seq(Flits) /\ buf[v] \in Seq(Flits)
  BY DEF IInv, TypeOK
<1>2. Len(wire[v]) \in Nat /\ Len(buf[v]) \in Nat
  BY <1>1, LenProperties
<1>3. bs.vcOcc[v] \in Int
  BY DEF IInv, TypeOK, BufferStates, BufferStatesOf
<1>4. /\ cur[v] \in [pid : Pids \cup {None}, len : 0 .. MaxLen, sent : 0 .. MaxLen]
      /\ expected[v] \in Pids \cup {None} /\ credits[v] \in Nat
  BY DEF IInv, TypeOK
<1>5. bs.vcOcc[v] = Len(wire[v]) + Len(buf[v]) + credits[v]
  BY DEF IInv, CreditsConserved
<1>6. Known(cur[v], bs.inUseBy[v], bs.tailSent[v])
  BY DEF IInv, OwnerKnown
<1>7. Ordered(wire[v], expected[v], OpenPid(cur[v]))
  BY DEF IInv, Unmixed
<1> QED BY <1>1, <1>2, <1>3, <1>4, <1>5, <1>6, <1>7

\* How each step moves a slot between the four places it can be in.
LEMMA SlotMoves ==
  ASSUME IInv, NEW v \in Vcs
  PROVE  LET o == bs.vcOcc[v]
             a == Len(wire[v])
             b == Len(buf[v])
             c == credits[v]
         IN  /\ o + 1 = (a + 1) + b + c
             /\ o = (a - 1) + (b + 1) + c
             /\ o = a + (b - 1) + (c + 1)
             /\ o - 1 = a + b + (c - 1)
<1> DEFINE o == bs.vcOcc[v]
           a == Len(wire[v])
           b == Len(buf[v])
           c == credits[v]
<1>1. o \in Int /\ a \in Nat /\ b \in Nat /\ c \in Nat /\ o = a + b + c
  BY OneVc
<1> HIDE DEF o, a, b, c
<1>2. /\ o + 1 = (a + 1) + b + c
      /\ o = (a - 1) + (b + 1) + c
      /\ o = a + (b - 1) + (c + 1)
      /\ o - 1 = a + b + (c - 1)
  BY <1>1
<1> QED BY <1>2 DEF o, a, b, c

\* The link starts idle.
LEMMA InitEstablishes == Init => IInv
<1> SUFFICES ASSUME Init PROVE IInv
  OBVIOUS
<1>1. PICK c \in Configs : bs = New(c[1], c[2])
  BY DEF Init
<1>2. c[1] \in Policies /\ c[2] \in BOOLEAN
  BY CreditLinkAssumption
<1>3. bs \in BufferStates /\ bs.vcOcc = [v \in Vcs |-> 0]
  BY <1>1, <1>2, NewType DEF BufferStates
<1>4. TypeOK
  <2>1. Idle \in [pid : Pids \cup {None}, len : 0 .. MaxLen, sent : 0 .. MaxLen]
    BY CreditLinkAssumption DEF Idle
  <2>2. 1 \in 1 .. MaxPkts + 1 /\ <<>> \in Seq(Flits)
    BY CreditLinkAssumption, EmptySeq
  <2> QED BY <1>3, <2>1, <2>2 DEF Init, TypeOK
<1>5. CreditsConserved
  BY <1>3, EmptySeq DEF Init, CreditsConserved
<1>6. OwnerKnown
  BY DEF Init, OwnerKnown, Known, Idle
<1>7. Unmixed
  BY DEF Init, Unmixed, Ordered, OpenPid, Idle
<1> QED BY <1>4, <1>5, <1>6, <1>7 DEF IInv

\* Giving a VC to a packet: only an available VC, whose last packet is over.
LEMMA TakeVcPreserves ==
  ASSUME IInv, NEW v \in Vcs, NEW n \in 1 .. MaxLen, TakeVc(v, n)
  PROVE  IInv'
<1> DEFINE c == [pid |-> next, len |-> n, sent |-> 0]
<1>1. next \in Pids /\ next # None /\ next + 1 \in 1 .. MaxPkts + 1
  BY CreditLinkAssumption DEF TakeVc, Pids, IInv, TypeOK
<1>2. bs \in BufferStates /\ bs' = TakeBuffer(bs, v, next) /\ bs.inUseBy[v] = None
  BY DEF IInv, TypeOK, TakeVc, IsAvailableFor
<1>3. /\ bs' \in BufferStates
      /\ bs'.vcOcc = bs.vcOcc
      /\ bs'.inUseBy = [bs.inUseBy EXCEPT ![v] = next]
      /\ bs'.tailSent = [bs.tailSent EXCEPT ![v] = FALSE]
  BY <1>1, <1>2, TakeBufferEffect DEF BufferStates
<1>4. cur[v].pid = None /\ cur[v] = Idle
  BY <1>2, OneVc DEF Known
<1>5. /\ cur' = [cur EXCEPT ![v] = c] /\ next' = next + 1
      /\ UNCHANGED <<wire, buf, expected, credits, done>>
  BY DEF TakeVc
<1>6. c \in [pid : Pids \cup {None}, len : 0 .. MaxLen, sent : 0 .. MaxLen]
  BY <1>1, CreditLinkAssumption
<1>7. TypeOK'
  <2> HIDE DEF c
  <2> QED BY <1>1, <1>3, <1>5, <1>6 DEF TypeOK, IInv
<1>8. CreditsConserved'
  BY <1>3, <1>5 DEF IInv, CreditsConserved
<1>9. OwnerKnown'
  <2> SUFFICES ASSUME NEW u \in Vcs
               PROVE  Known(cur'[u], bs'.inUseBy[u], bs'.tailSent[u])
    BY DEF OwnerKnown
  <2>1. CASE u = v
    <3>1. bs'.inUseBy[v] = next /\ bs'.tailSent[v] = FALSE
      BY <1>2, <1>3 DEF BufferStates, BufferStatesOf
    <3>2. cur'[v] = c
      BY <1>5 DEF IInv, TypeOK
    <3> QED BY <2>1, <3>1, <3>2, <1>1 DEF Known
  <2>2. CASE u # v
    <3>1. bs'.inUseBy[u] = bs.inUseBy[u] /\ bs'.tailSent[u] = bs.tailSent[u]
      BY <1>2, <1>3, <2>2 DEF BufferStates, BufferStatesOf
    <3>2. cur'[u] = cur[u]
      BY <1>5, <2>2 DEF IInv, TypeOK
    <3> QED BY <3>1, <3>2, OneVc
  <2> QED BY <2>1, <2>2
<1>10. Unmixed'
  <2>1. \A u \in Vcs : OpenPid(cur'[u]) = OpenPid(cur[u])
    BY <1>4, <1>5 DEF OpenPid, Idle, IInv, TypeOK
  <2> QED BY <2>1, <1>5 DEF Unmixed, IInv
<1> QED BY <1>7, <1>8, <1>9, <1>10 DEF IInv

\* Sending a flit: it continues the packet that is open on the VC.
LEMMA SendFlitPreserves ==
  ASSUME IInv, NEW v \in Vcs, SendFlit(v)
  PROVE  IInv'
<1> DEFINE n == cur[v].sent + 1
           last == n = cur[v].len
           f == [pid |-> cur[v].pid, idx |-> n, tail |-> last]
           c == IF last THEN Idle ELSE [cur[v] EXCEPT !.sent = n]
<1>0. /\ cur[v] \in [pid : Pids \cup {None}, len : 0 .. MaxLen, sent : 0 .. MaxLen]
      /\ Known(cur[v], bs.inUseBy[v], bs.tailSent[v])
      /\ wire[v] \in Seq(Flits) /\ Len(wire[v]) \in Nat /\ Len(buf[v]) \in Nat
      /\ credits[v] \in Nat
      /\ bs.vcOcc[v] = Len(wire[v]) + Len(buf[v]) + credits[v]
  BY OneVc
<1>1. /\ cur[v].pid \in Pids /\ cur[v].pid # None
      /\ n \in 1 .. MaxLen /\ n <= cur[v].len /\ last \in BOOLEAN
      /\ bs.inUseBy[v] # None /\ ~bs.tailSent[v]
  <2>1. cur[v] # Idle
    BY DEF SendFlit
  <2>2. /\ cur[v].pid # None /\ cur[v].sent < cur[v].len
        /\ bs.inUseBy[v] # None /\ ~bs.tailSent[v]
    BY <2>1, <1>0 DEF Known
  <2>3. cur[v].pid \in Pids /\ cur[v].sent \in 0 .. MaxLen /\ cur[v].len \in 0 .. MaxLen
    BY <2>2, <1>0
  <2> HIDE DEF last
  <2>4. last \in BOOLEAN
    BY DEF last
  <2>5. n \in 1 .. MaxLen /\ n <= cur[v].len
    BY <2>2, <2>3, CreditLinkAssumption
  <2> QED BY <2>2, <2>3, <2>4, <2>5
<1>2. /\ bs \in BufferStates /\ bs' = SendingFlit(bs, v, last)
      /\ cur' = [cur EXCEPT ![v] = c]
      /\ wire' = [wire EXCEPT ![v] = Append(wire[v], f)]
      /\ UNCHANGED <<next, buf, expected, credits, done>>
  BY DEF SendFlit, IInv, TypeOK
<1>3. f \in Flits
  BY <1>1 DEF Flits
<1>4. c \in [pid : Pids \cup {None}, len : 0 .. MaxLen, sent : 0 .. MaxLen]
  <2>1. CASE last
    BY <2>1, CreditLinkAssumption DEF Idle
  <2>2. CASE ~last
    <3>1. c = [pid |-> cur[v].pid, len |-> cur[v].len, sent |-> n]
      BY <2>2, <1>0
    <3> QED BY <3>1, <1>0, <1>1
  <2> QED BY <2>1, <2>2
<1>5. ~last => c.pid = cur[v].pid /\ c.sent = n /\ c.len = cur[v].len
  BY <1>0
<1>6. last => c = Idle
  OBVIOUS
<1>7. f.pid = cur[v].pid /\ f.tail = last
  OBVIOUS
<1> HIDE DEF last, f, c
<1>14. OpenPid(c) = IF last THEN None ELSE cur[v].pid
  BY <1>1, <1>5, <1>6 DEF OpenPid, Idle
<1>15. ~last => Known(c, bs.inUseBy[v], bs.tailSent[v])
  BY <1>0, <1>1, <1>5 DEF Known, last
<1> HIDE DEF n
<1>8. /\ bs' \in BufferStates
      /\ bs'.vcOcc = [bs.vcOcc EXCEPT ![v] = @ + 1]
      /\ bs'.tailSent = IF last THEN [bs.tailSent EXCEPT ![v] = TRUE] ELSE bs.tailSent
      /\ bs'.inUseBy = IF last /\ ~bs.wait THEN [bs.inUseBy EXCEPT ![v] = None]
                       ELSE bs.inUseBy
  BY <1>1, <1>2, SendingFlitEffect DEF BufferStates
<1>9. /\ Append(wire[v], f) \in Seq(Flits)
      /\ Len(Append(wire[v], f)) = Len(wire[v]) + 1
  BY <1>0, <1>3, AppendProperties
<1>10. TypeOK'
  BY <1>2, <1>4, <1>8, <1>9 DEF TypeOK, IInv
<1>11. CreditsConserved'
  <2> SUFFICES ASSUME NEW u \in Vcs
               PROVE  bs'.vcOcc[u] = Len(wire'[u]) + Len(buf'[u]) + credits'[u]
    BY DEF CreditsConserved
  <2>1. CASE u = v
    <3>1. bs'.vcOcc[v] = bs.vcOcc[v] + 1 /\ wire'[v] = Append(wire[v], f)
      BY <1>2, <1>8 DEF IInv, TypeOK, BufferStates, BufferStatesOf
    <3>2. Len(wire'[v]) = Len(wire[v]) + 1 /\ buf' = buf /\ credits' = credits
      BY <3>1, <1>2, <1>9
    <3>3. bs'.vcOcc[v] = Len(wire'[v]) + Len(buf[v]) + credits[v]
      <4>1. bs.vcOcc[v] + 1 = (Len(wire[v]) + 1) + Len(buf[v]) + credits[v]
        BY SlotMoves
      <4> QED BY <4>1, <3>1, <3>2
    <3> QED BY <2>1, <3>2, <3>3
  <2>2. CASE u # v
    <3>1. bs'.vcOcc[u] = bs.vcOcc[u] /\ wire'[u] = wire[u]
      BY <1>2, <1>8, <2>2 DEF IInv, TypeOK, BufferStates, BufferStatesOf
    <3> QED BY <3>1, <1>2, OneVc
  <2> QED BY <2>1, <2>2
<1>12. OwnerKnown'
  <2> SUFFICES ASSUME NEW u \in Vcs
               PROVE  Known(cur'[u], bs'.inUseBy[u], bs'.tailSent[u])
    BY DEF OwnerKnown
  <2>1. CASE u = v /\ last
    <3>1. cur'[v] = Idle
      BY <2>1, <1>2, <1>6 DEF IInv, TypeOK
    <3> QED BY <2>1, <3>1 DEF Known, Idle
  <2>2. CASE u = v /\ ~last
    <3>1. cur'[v] = c /\ bs'.inUseBy = bs.inUseBy /\ bs'.tailSent = bs.tailSent
      BY <2>2, <1>2, <1>8 DEF IInv, TypeOK
    <3> QED BY <2>2, <3>1, <1>15
  <2>3. CASE u # v
    <3>1. bs'.inUseBy[u] = bs.inUseBy[u] /\ bs'.tailSent[u] = bs.tailSent[u]
      BY <1>2, <1>8, <2>3 DEF BufferStates, BufferStatesOf
    <3>2. cur'[u] = cur[u]
      BY <1>2, <2>3 DEF IInv, TypeOK
    <3> QED BY <3>1, <3>2, OneVc
  <2> QED BY <2>1, <2>2, <2>3
<1>13. Unmixed'
  <2> SUFFICES ASSUME NEW u \in Vcs
               PROVE  Ordered(wire'[u], expected'[u], OpenPid(cur'[u]))
    BY DEF Unmixed
  <2>1. CASE u = v
    <3>1. wire'[v] = Append(wire[v], f) /\ cur'[v] = c
      BY <1>2 DEF IInv, TypeOK
    <3>2. OpenPid(cur[v]) = None \/ OpenPid(cur[v]) = f.pid
      BY <1>7 DEF OpenPid
    <3>3. Ordered(Append(wire[v], f), expected[v], IF f.tail THEN None ELSE f.pid)
      BY <1>3, <3>2, OneVc, OrderedAppend
    <3> QED BY <2>1, <3>1, <3>3, <1>2, <1>14, <1>7
  <2>2. CASE u # v
    <3>1. wire'[u] = wire[u] /\ cur'[u] = cur[u]
      BY <1>2, <2>2 DEF IInv, TypeOK
    <3> QED BY <3>1, <1>2, OneVc
  <2> QED BY <2>1, <2>2
<1> QED BY <1>10, <1>11, <1>12, <1>13 DEF IInv

\* Buffering a flit: the receiver's expectation moves on with it.
LEMMA AddFlitPreserves ==
  ASSUME IInv, NEW v \in Vcs, AddFlit(v)
  PROVE  IInv'
<1> DEFINE f == Head(wire[v])
           w == Tail(wire[v])
           b == Append(buf[v], f)
           e == IF f.tail THEN None ELSE f.pid
<1>0. /\ wire[v] \in Seq(Flits) /\ wire[v] # <<>> /\ Len(wire[v]) \in Nat
      /\ buf[v] \in Seq(Flits) /\ Len(buf[v]) \in Nat
      /\ credits[v] \in Nat
      /\ bs.vcOcc[v] = Len(wire[v]) + Len(buf[v]) + credits[v]
      /\ Ordered(wire[v], expected[v], OpenPid(cur[v]))
  BY OneVc DEF AddFlit
<1>1. f \in Flits /\ w \in Seq(Flits) /\ Len(w) = Len(wire[v]) - 1
  BY <1>0, HeadTailProperties
<1>2. b \in Seq(Flits) /\ Len(b) = Len(buf[v]) + 1
  BY <1>0, <1>1, AppendProperties
<1>3. /\ f.pid \in Pids /\ f.pid # None /\ f.tail \in BOOLEAN
      /\ e \in Pids \cup {None}
  BY <1>1, FlitFields
<1>4. expected[v] \in {None, f.pid} /\ Ordered(w, e, OpenPid(cur[v]))
  BY <1>0, OrderedTail
<1>5. /\ wire' = [wire EXCEPT ![v] = w] /\ buf' = [buf EXCEPT ![v] = b]
      /\ UNCHANGED <<bs, cur, next, credits, done>>
  BY DEF AddFlit
<1>6. expected' = [expected EXCEPT ![v] = e]
  BY <1>3, <1>4 DEF AddFlit
<1> HIDE DEF f, w, b, e
<1>7. TypeOK'
  BY <1>1, <1>2, <1>3, <1>5, <1>6 DEF TypeOK, IInv
<1>8. CreditsConserved'
  <2> SUFFICES ASSUME NEW u \in Vcs
               PROVE  bs'.vcOcc[u] = Len(wire'[u]) + Len(buf'[u]) + credits'[u]
    BY DEF CreditsConserved
  <2>1. CASE u = v
    <3>1. /\ wire'[v] = w /\ buf'[v] = b /\ bs' = bs /\ credits' = credits
      BY <1>5 DEF IInv, TypeOK
    <3>2. bs.vcOcc[v] = Len(w) + Len(b) + credits[v]
      <4>1. bs.vcOcc[v] = (Len(wire[v]) - 1) + (Len(buf[v]) + 1) + credits[v]
        BY SlotMoves
      <4> QED BY <4>1, <1>1, <1>2
    <3> QED BY <2>1, <3>1, <3>2
  <2>2. CASE u # v
    <3>1. wire'[u] = wire[u] /\ buf'[u] = buf[u]
      BY <1>5, <2>2 DEF IInv, TypeOK
    <3> QED BY <3>1, <1>5, OneVc
  <2> QED BY <2>1, <2>2
<1>9. OwnerKnown'
  BY <1>5 DEF OwnerKnown, IInv
<1>10. Unmixed'
  <2> SUFFICES ASSUME NEW u \in Vcs
               PROVE  Ordered(wire'[u], expected'[u], OpenPid(cur'[u]))
    BY DEF Unmixed
  <2>1. CASE u = v
    <3>1. wire'[v] = w /\ expected'[v] = e /\ cur' = cur
      BY <1>5, <1>6 DEF IInv, TypeOK
    <3> QED BY <2>1, <3>1, <1>4
  <2>2. CASE u # v
    <3>1. wire'[u] = wire[u] /\ expected'[u] = expected[u]
      BY <1>5, <1>6, <2>2 DEF IInv, TypeOK
    <3> QED BY <3>1, <1>5, OneVc
  <2> QED BY <2>1, <2>2
<1> QED BY <1>7, <1>8, <1>9, <1>10 DEF IInv

\* Removing a flit: its slot becomes a credit under way.
LEMMA RemoveFlitPreserves ==
  ASSUME IInv, NEW v \in Vcs, RemoveFlit(v)
  PROVE  IInv'
<1> DEFINE f == Head(buf[v])
           b == Tail(buf[v])
           c == credits[v] + 1
<1>0. /\ buf[v] \in Seq(Flits) /\ buf[v] # <<>> /\ Len(buf[v]) \in Nat
      /\ credits[v] \in Nat /\ Len(wire[v]) \in Nat
      /\ bs.vcOcc[v] = Len(wire[v]) + Len(buf[v]) + credits[v]
  BY OneVc DEF RemoveFlit
<1>1. f \in Flits /\ b \in Seq(Flits) /\ Len(b) = Len(buf[v]) - 1
  BY <1>0, HeadTailProperties
<1>2. f.pid \in Pids
  BY <1>1, FlitFields
<1>3. /\ buf' = [buf EXCEPT ![v] = b] /\ credits' = [credits EXCEPT ![v] = c]
      /\ UNCHANGED <<bs, cur, next, wire, expected>>
      /\ done' \in {done, done \cup {f.pid}}
  BY DEF RemoveFlit
<1> HIDE DEF f, b
<1>4. c \in Nat
  BY <1>0
<1>5. TypeOK'
  <2> HIDE DEF c
  <2> QED BY <1>1, <1>2, <1>3, <1>4 DEF TypeOK, IInv
<1>6. CreditsConserved'
  <2> SUFFICES ASSUME NEW u \in Vcs
               PROVE  bs'.vcOcc[u] = Len(wire'[u]) + Len(buf'[u]) + credits'[u]
    BY DEF CreditsConserved
  <2>1. CASE u = v
    <3>1. /\ buf'[v] = b /\ credits'[v] = c /\ bs' = bs /\ wire' = wire
      BY <1>3 DEF IInv, TypeOK
    <3>2. bs.vcOcc[v] = Len(wire[v]) + Len(b) + c
      <4>1. bs.vcOcc[v] = Len(wire[v]) + (Len(buf[v]) - 1) + (credits[v] + 1)
        BY SlotMoves
      <4> QED BY <4>1, <1>1
    <3> QED BY <2>1, <3>1, <3>2
  <2>2. CASE u # v
    <3>1. buf'[u] = buf[u] /\ credits'[u] = credits[u]
      BY <1>3, <2>2 DEF IInv, TypeOK
    <3> QED BY <3>1, <1>3, OneVc
  <2> QED BY <2>1, <2>2
<1>7. OwnerKnown' /\ Unmixed'
  BY <1>3 DEF OwnerKnown, Unmixed, IInv
<1> QED BY <1>5, <1>6, <1>7 DEF IInv

\* Processing a credit: a VC is released only after its packet's tail.
LEMMA ProcessCreditPreserves ==
  ASSUME IInv, NEW v \in Vcs, ProcessCredit(v)
  PROVE  IInv'
<1> DEFINE c == credits[v] - 1
<1>0. /\ Len(buf[v]) \in Nat /\ credits[v] \in Nat /\ Len(wire[v]) \in Nat
      /\ bs.vcOcc[v] = Len(wire[v]) + Len(buf[v]) + credits[v]
      /\ bs \in BufferStates
  BY OneVc DEF IInv, TypeOK
<1>1. /\ bs' = ProcessCreditFor(bs, v) /\ credits' = [credits EXCEPT ![v] = c]
      /\ credits[v] > 0 /\ c \in Nat
      /\ UNCHANGED <<cur, next, wire, buf, expected, done>>
  BY <1>0 DEF ProcessCredit
<1>2. /\ bs' \in BufferStates
      /\ bs'.vcOcc = [bs.vcOcc EXCEPT ![v] = @ - 1]
      /\ bs'.tailSent = bs.tailSent
      /\ bs'.inUseBy = IF bs.wait /\ bs.vcOcc[v] = 1 /\ bs.tailSent[v]
                       THEN [bs.inUseBy EXCEPT ![v] = None] ELSE bs.inUseBy
  <2>1. bs \in BufferStatesOf(Pids)
    BY <1>0 DEF BufferStates
  <2>2. LET b2 == ProcessCreditFor(bs, v)
        IN  /\ b2 \in BufferStatesOf(Pids)
            /\ b2.vcOcc = [bs.vcOcc EXCEPT ![v] = @ - 1]
            /\ b2.tailSent = bs.tailSent
            /\ b2.inUseBy = IF bs.wait /\ bs.vcOcc[v] = 1 /\ bs.tailSent[v]
                            THEN [bs.inUseBy EXCEPT ![v] = None] ELSE bs.inUseBy
    BY <2>1, ProcessCreditEffect
  <2> QED BY <1>1, <2>2 DEF BufferStates
<1>3. TypeOK'
  <2> HIDE DEF c
  <2> QED BY <1>1, <1>2 DEF TypeOK, IInv
<1>4. CreditsConserved'
  <2> SUFFICES ASSUME NEW u \in Vcs
               PROVE  bs'.vcOcc[u] = Len(wire'[u]) + Len(buf'[u]) + credits'[u]
    BY DEF CreditsConserved
  <2>1. CASE u = v
    <3>1. /\ bs'.vcOcc[v] = bs.vcOcc[v] - 1 /\ credits'[v] = c
          /\ buf' = buf /\ wire' = wire
      BY <1>1, <1>2 DEF IInv, TypeOK, BufferStates, BufferStatesOf
    <3>2. bs'.vcOcc[v] = Len(wire[v]) + Len(buf[v]) + c
      <4>1. bs.vcOcc[v] - 1 = Len(wire[v]) + Len(buf[v]) + (credits[v] - 1)
        BY SlotMoves
      <4> QED BY <4>1, <3>1
    <3> QED BY <2>1, <3>1, <3>2
  <2>2. CASE u # v
    <3>1. bs'.vcOcc[u] = bs.vcOcc[u] /\ credits'[u] = credits[u]
      BY <1>1, <1>2, <2>2 DEF IInv, TypeOK, BufferStates, BufferStatesOf
    <3> QED BY <3>1, <1>1, OneVc
  <2> QED BY <2>1, <2>2
<1>5. OwnerKnown'
  <2> SUFFICES ASSUME NEW u \in Vcs
               PROVE  Known(cur[u], bs'.inUseBy[u], bs.tailSent[u])
    BY <1>1, <1>2 DEF OwnerKnown
  <2>1. Known(cur[u], bs.inUseBy[u], bs.tailSent[u])
    BY OneVc
  <2>2. bs'.inUseBy[u] = bs.inUseBy[u] \/ bs.tailSent[u]
    BY <1>0, <1>2 DEF BufferStates, BufferStatesOf
  <2> QED BY <2>1, <2>2 DEF Known
<1>6. Unmixed'
  BY <1>1 DEF Unmixed, IInv
<1> QED BY <1>3, <1>4, <1>5, <1>6 DEF IInv

\* The invariant is inductive.
LEMMA StepPreserves == IInv /\ [Next]_vars => IInv'
<1> SUFFICES ASSUME IInv, [Next]_vars PROVE IInv'
  OBVIOUS
<1>1. CASE UNCHANGED vars
  BY <1>1 DEF vars, IInv, TypeOK, CreditsConserved, OwnerKnown, Unmixed
<1>2. ASSUME NEW v \in Vcs, NEW n \in 1 .. MaxLen, TakeVc(v, n) PROVE IInv'
  BY <1>2, TakeVcPreserves
<1>3. ASSUME NEW v \in Vcs, SendFlit(v) PROVE IInv'
  BY <1>3, SendFlitPreserves
<1>4. ASSUME NEW v \in Vcs, AddFlit(v) PROVE IInv'
  BY <1>4, AddFlitPreserves
<1>5. ASSUME NEW v \in Vcs, RemoveFlit(v) PROVE IInv'
  BY <1>5, RemoveFlitPreserves
<1>6. ASSUME NEW v \in Vcs, ProcessCredit(v) PROVE IInv'
  BY <1>6, ProcessCreditPreserves
<1> QED BY <1>1, <1>2, <1>3, <1>4, <1>5, <1>6 DEF Next

\* IInv is an invariant of the link.
THEOREM Invariance == Spec => []IInv
  BY InitEstablishes, StepPreserves, PTL DEF Spec

-----------------------------------------------------------------------------
(***************************************************************************)
(* The properties of the link that follow.                                 *)
(***************************************************************************)

\* The state of the link, and every field of the BufferState, keeps its type.
THEOREM TypeCorrect == Spec => []TypeOK
<1>1. IInv => TypeOK
  BY DEF IInv
<1> QED BY <1>1, Invariance, PTL

\* Credits are conserved under every buffer policy: what the sender counts as
\* occupied is on the channel, in the buffer or on its way back.
THEOREM CreditConservation == Spec => []CreditsConserved
<1>1. IInv => CreditsConserved
  BY DEF IInv
<1> QED BY <1>1, Invariance, PTL

\* Under every policy, with or without waiting for the tail's credit, a VC
\* never delivers a flit of another packet than the one it expects.
THEOREM PacketsNeverMix == Spec => []NoUnexpectedPid
<1>1. IInv => NoUnexpectedPid
  <2> SUFFICES ASSUME IInv, NEW v \in Vcs, wire[v] # <<>>
               PROVE  ~UnexpectedPid(v, Head(wire[v]))
    BY DEF NoUnexpectedPid
  <2>1. wire[v] \in Seq(Flits) /\ Ordered(wire[v], expected[v], OpenPid(cur[v]))
    BY OneVc
  <2>2. expected[v] \in {None, Head(wire[v]).pid}
    BY <2>1, OrderedTail
  <2> QED BY <2>2 DEF UnexpectedPid
<1> QED BY <1>1, Invariance, PTL

\* A flit is sent only where the VC is not full, and takes one slot of it.
LEMMA SendFlitOccupancy ==
  ASSUME bs \in BufferStates, NEW v \in Vcs, SendFlit(v)
  PROVE  /\ bs'.policy = bs.policy
         /\ bs'.vcOcc = [bs.vcOcc EXCEPT ![v] = @ + 1]
         /\ ~IsFullFor(bs, v)
<1> DEFINE last == cur[v].sent + 1 = cur[v].len
           c == SendingFlit(bs, v, last)
<1>1. bs' = c /\ ~IsFullFor(bs, v)
  BY DEF SendFlit
<1>2. last \in BOOLEAN
  OBVIOUS
<1> HIDE DEF last
<1>3. /\ c \in BufferStates
      /\ c.policy = bs.policy
      /\ c.vcOcc = [bs.vcOcc EXCEPT ![v] = @ + 1]
      /\ c.tailSent = IF last THEN [bs.tailSent EXCEPT ![v] = TRUE] ELSE bs.tailSent
      /\ c.inUseBy = IF last /\ ~bs.wait THEN [bs.inUseBy EXCEPT ![v] = None]
                     ELSE bs.inUseBy
  BY <1>2, SendingFlitEffect DEF BufferStates
<1> QED BY <1>1, <1>3

\* A step changes the occupancy of one VC by at most one, raises it only where
\* the VC is not full, and leaves the policy alone.
LEMMA OccupancyStep ==
  ASSUME IInv, [Next]_vars
  PROVE  /\ bs'.policy = bs.policy
         /\ \A u \in Vcs : \/ bs'.vcOcc[u] <= bs.vcOcc[u]
                           \/ ~IsFullFor(bs, u) /\ bs'.vcOcc[u] = bs.vcOcc[u] + 1
<1>0. bs \in BufferStates /\ \A u \in Vcs : bs.vcOcc[u] \in Int
  BY DEF IInv, TypeOK, BufferStates, BufferStatesOf
<1>1. CASE bs' = bs
  BY <1>0, <1>1
<1>2. ASSUME NEW v \in Vcs, NEW n \in 1 .. MaxLen, TakeVc(v, n)
      PROVE  bs'.policy = bs.policy /\ bs'.vcOcc = bs.vcOcc
  <2>1. bs' = TakeBuffer(bs, v, next)
    BY <1>2 DEF TakeVc
  <2>2. bs \in BufferStatesOf(Pids) /\ next \in Pids
    BY <1>0, <1>2 DEF BufferStates, TakeVc, Pids, IInv, TypeOK
  <2>3. LET c == TakeBuffer(bs, v, next)
        IN  /\ c \in BufferStatesOf(Pids)
            /\ c.policy = bs.policy
            /\ c.wait = bs.wait
            /\ c.vcOcc = bs.vcOcc
            /\ c.inUseBy = [bs.inUseBy EXCEPT ![v] = next]
            /\ c.tailSent = [bs.tailSent EXCEPT ![v] = FALSE]
    BY <1>2, <2>2, TakeBufferEffect
  <2> QED BY <2>1, <2>3
<1>3. ASSUME NEW v \in Vcs, SendFlit(v)
      PROVE  /\ bs'.policy = bs.policy
             /\ bs'.vcOcc = [bs.vcOcc EXCEPT ![v] = @ + 1]
             /\ ~IsFullFor(bs, v)
  BY <1>0, <1>3, SendFlitOccupancy
<1>4. ASSUME NEW v \in Vcs, ProcessCredit(v)
      PROVE  /\ bs'.policy = bs.policy
             /\ bs'.vcOcc = [bs.vcOcc EXCEPT ![v] = @ - 1]
  <2>1. bs \in BufferStatesOf(Pids)
    BY <1>0 DEF BufferStates
  <2>2. LET c == ProcessCreditFor(bs, v)
        IN  /\ c \in BufferStatesOf(Pids)
            /\ c.policy = bs.policy
            /\ c.wait = bs.wait
            /\ c.tailSent = bs.tailSent
            /\ c.vcOcc = [bs.vcOcc EXCEPT ![v] = @ - 1]
            /\ c.inUseBy = IF bs.wait /\ bs.vcOcc[v] = 1 /\ bs.tailSent[v]
                           THEN [bs.inUseBy EXCEPT ![v] = None]
                           ELSE bs.inUseBy
    BY <1>4, <2>1, ProcessCreditEffect
  <2> QED BY <1>4, <2>2 DEF ProcessCredit
<1>5. ASSUME NEW v \in Vcs, AddFlit(v) \/ RemoveFlit(v) PROVE bs' = bs
  BY <1>5 DEF AddFlit, RemoveFlit
<1>6. CASE \E v \in Vcs, n \in 1 .. MaxLen : TakeVc(v, n)
  BY <1>0, <1>2, <1>6
<1>7. CASE \E v \in Vcs : SendFlit(v)
  <2>1. PICK v \in Vcs : SendFlit(v)
    BY <1>7
  <2>2. bs'.vcOcc = [bs.vcOcc EXCEPT ![v] = @ + 1] /\ ~IsFullFor(bs, v)
    BY <2>1, <1>3
  <2>3. bs.vcOcc \in [Vcs -> Int]
    BY <1>0 DEF BufferStates, BufferStatesOf
  <2>4. \A u \in Vcs : bs'.vcOcc[u] = IF u = v THEN bs.vcOcc[u] + 1 ELSE bs.vcOcc[u]
    BY <2>2, <2>3
  <2> QED BY <1>0, <1>3, <2>1, <2>2, <2>4
<1>8. CASE \E v \in Vcs : ProcessCredit(v)
  <2>1. PICK v \in Vcs : ProcessCredit(v)
    BY <1>8
  <2>2. bs'.vcOcc = [bs.vcOcc EXCEPT ![v] = @ - 1]
    BY <2>1, <1>4
  <2>3. bs.vcOcc \in [Vcs -> Int]
    BY <1>0 DEF BufferStates, BufferStatesOf
  <2>4. \A u \in Vcs : bs'.vcOcc[u] = IF u = v THEN bs.vcOcc[u] - 1 ELSE bs.vcOcc[u]
    BY <2>2, <2>3
  <2>5. \A u \in Vcs : bs.vcOcc[u] \in Int
    BY <1>0
  <2>6. \A u \in Vcs : bs'.vcOcc[u] <= bs.vcOcc[u]
    BY <2>4, <2>5
  <2> QED BY <1>4, <2>1, <2>6
<1> QED BY <1>1, <1>5, <1>6, <1>7, <1>8 DEF Next, vars

\* The private policy never overflows a VC, whatever the sizes configured.
THEOREM PrivateNeverOverflows == Spec => []VcWithinLimit
<1>1. Init => VcWithinLimit
  <2> SUFFICES ASSUME Init PROVE VcWithinLimit
    OBVIOUS
  <2>1. PICK c \in Configs : bs = New(c[1], c[2])
    BY DEF Init
  <2>2. c[1] \in Policies /\ c[2] \in BOOLEAN
    BY CreditLinkAssumption
  <2>3. bs.vcOcc = [v \in Vcs |-> 0]
    BY <2>1, <2>2, NewType
  <2> QED BY <2>3, VcLimitType DEF VcWithinLimit
<1>2. IInv /\ IInv' /\ VcWithinLimit /\ [Next]_vars => VcWithinLimit'
  <2> SUFFICES ASSUME IInv, IInv', VcWithinLimit, [Next]_vars, bs'.policy = "private",
                      NEW v \in Vcs
               PROVE  bs'.vcOcc[v] \in 0 .. VcLimit
    BY DEF VcWithinLimit
  <2> DEFINE o == bs.vcOcc[v]
             p == bs'.vcOcc[v]
  <2>1. bs.policy = "private" /\ (p <= o \/ (~IsFullFor(bs, v) /\ p = o + 1))
    BY OccupancyStep
  <2>2. o \in 0 .. VcLimit
    BY <2>1 DEF VcWithinLimit
  <2>3. p \in Nat
    <3>1. wire' \in [Vcs -> Seq(Flits)] /\ buf' \in [Vcs -> Seq(Flits)] /\ credits' \in [Vcs -> Nat]
      BY DEF IInv, TypeOK
    <3>2. Len(wire'[v]) \in Nat /\ Len(buf'[v]) \in Nat /\ credits'[v] \in Nat
      BY <3>1, LenProperties
    <3>3. p = Len(wire'[v]) + Len(buf'[v]) + credits'[v]
      BY DEF IInv, CreditsConserved
    <3> DEFINE a == Len(wire'[v])
               b == Len(buf'[v])
               c == credits'[v]
    <3>4. a \in Nat /\ b \in Nat /\ c \in Nat /\ p = a + b + c
      BY <3>2, <3>3
    <3> HIDE DEF p, a, b, c
    <3> QED BY <3>4
  <2>4. ~IsFullFor(bs, v) => ~(o >= VcLimit)
    BY <2>1 DEF IsFullFor
  <2> HIDE DEF o, p
  <2>5. p \in 0 .. VcLimit
    BY <2>1, <2>2, <2>3, <2>4, VcLimitType
  <2> QED BY <2>5 DEF p
<1> QED BY <1>1, <1>2, Invariance, PTL DEF Spec

-----------------------------------------------------------------------------
(***************************************************************************)
(* The bookkeeping of the five buffer policies.                            *)
(***************************************************************************)
\* The policy in use is one that was configured.
Configured == \E c \in Configs : bs.policy = c[1]

\* The policies considered are used in configurations they can work in.  The
\* others stop the program: a private buffer of no slots at the first flit, a
\* dynamic one whose VCs get no slots each at the assertion of TakeBuffer.
AllWorkable == \A c \in Configs : Workable(c[1])

LEMMA SoundInit == Init => Sound(bs) /\ Configured /\ ~bs.err
<1> SUFFICES ASSUME Init PROVE Sound(bs) /\ Configured /\ ~bs.err
  OBVIOUS
<1>1. PICK c \in Configs : bs = New(c[1], c[2])
  BY DEF Init
<1>2. c[1] \in Policies /\ c[2] \in BOOLEAN
  BY CreditLinkAssumption
<1>3. bs.policy = c[1]
  BY <1>1, <1>2, NewType
<1> QED BY <1>1, <1>2, <1>3, NewSound DEF Configured

\* Every step keeps the BufferState sound and, in a configuration that can
\* work, raises no error: the link calls its methods only as they allow.
LEMMA SoundStep ==
  ASSUME IInv, Sound(bs), [Next]_vars
  PROVE  Sound(bs') /\ (Workable(bs.policy) /\ ~bs.err => ~bs'.err)
<1>0. bs \in BufferStatesOf(Pids)
  BY DEF IInv, TypeOK, BufferStates
<1>1. CASE bs' = bs
  BY <1>1
<1>2. ASSUME NEW v \in Vcs, NEW n \in 1 .. MaxLen, TakeVc(v, n)
      PROVE  Sound(bs') /\ (Workable(bs.policy) /\ ~bs.err => ~bs'.err)
  <2>1. next \in Pids /\ next # None
    BY <1>2, CreditLinkAssumption DEF TakeVc, Pids, IInv, TypeOK
  <2>2. bs' = TakeBuffer(bs, v, next) /\ bs.inUseBy[v] = None
    BY <1>2 DEF TakeVc, IsAvailableFor
  <2> QED BY <1>0, <2>1, <2>2, TakeSound
<1>3. ASSUME NEW v \in Vcs, SendFlit(v)
      PROVE  Sound(bs') /\ (Workable(bs.policy) /\ ~bs.err => ~bs'.err)
  <2> DEFINE last == cur[v].sent + 1 = cur[v].len
  <2>1. last \in BOOLEAN
    OBVIOUS
  <2>2. bs' = SendingFlit(bs, v, last) /\ ~IsFullFor(bs, v) /\ cur[v] # Idle
    BY <1>3 DEF SendFlit
  <2>3. v \in Taken(bs)
    BY <2>2, OneVc DEF Known, Taken
  <2> HIDE DEF last
  <2> QED BY <1>0, <2>1, <2>2, <2>3, SendSound
<1>4. ASSUME NEW v \in Vcs, ProcessCredit(v)
      PROVE  Sound(bs') /\ (Workable(bs.policy) /\ ~bs.err => ~bs'.err)
  <2>1. bs' = ProcessCreditFor(bs, v) /\ credits[v] > 0
    BY <1>4 DEF ProcessCredit
  <2>2. bs.vcOcc[v] > 0
    <3> DEFINE o == bs.vcOcc[v]
               a == Len(wire[v])
               b == Len(buf[v])
               c == credits[v]
    <3>1. a \in Nat /\ b \in Nat /\ c \in Nat /\ o = a + b + c /\ c > 0
      BY <2>1, OneVc
    <3> HIDE DEF o, a, b, c
    <3>2. o > 0
      BY <3>1
    <3> QED BY <3>2 DEF o
  <2> QED BY <1>0, <2>1, <2>2, CreditSound
<1>5. ASSUME NEW v \in Vcs, AddFlit(v) \/ RemoveFlit(v) PROVE bs' = bs
  BY <1>5 DEF AddFlit, RemoveFlit
<1> QED BY <1>1, <1>2, <1>3, <1>4, <1>5 DEF Next, vars

\* The counters of the BufferState agree with each other and with the packets
\* that hold the VCs, under every policy and configuration.
THEOREM SoundBookkeeping == Spec => [](Sound(bs) /\ Configured)
<1>1. IInv /\ Sound(bs) /\ Configured /\ [Next]_vars => (Sound(bs) /\ Configured)'
  <2> SUFFICES ASSUME IInv, Sound(bs), Configured, [Next]_vars
               PROVE  Sound(bs') /\ Configured'
    OBVIOUS
  <2>1. Sound(bs') /\ bs'.policy = bs.policy
    BY SoundStep, OccupancyStep
  <2> QED BY <2>1 DEF Configured
<1> QED BY <1>1, SoundInit, Invariance, PTL DEF Spec

\* A reserved slot belongs to a packet that holds the VC and has no flit
\* downstream, and no VC reserves more than one.
THEOREM ReservesAreHeld == Spec => []ReserveIsHeld
<1>1. Sound(bs) => ReserveIsHeld
  BY DEF Sound, ReserveSound, Taken, ReserveIsHeld
<1> QED BY <1>1, SoundBookkeeping, PTL

\* Every slot of a partition that is counted as used is occupied or reserved,
\* and the shared pool is charged exactly for what the partitions exceed.
THEOREM SlotsAreAccounted == Spec => []SlotsAccounted
<1>1. Sound(bs) => SlotsAccounted
  BY DEF Sound, SharingSound, Accounts, Held, SlotsAccounted
<1> QED BY <1>1, SoundBookkeeping, PTL

\* No Error() or assertion of BufferState and its policies can be reached.
THEOREM NoErrors ==
  ASSUME AllWorkable
  PROVE  Spec => []NoBufferStateError
<1>1. Init => NoBufferStateError
  BY SoundInit DEF NoBufferStateError
<1>2. IInv /\ Sound(bs) /\ Configured /\ NoBufferStateError /\ [Next]_vars
        => NoBufferStateError'
  <2> SUFFICES ASSUME IInv, Sound(bs), Configured, NoBufferStateError, [Next]_vars
               PROVE  NoBufferStateError'
    OBVIOUS
  <2>1. Workable(bs.policy)
    BY AllWorkable DEF AllWorkable, Configured
  <2> QED BY <2>1, SoundStep DEF NoBufferStateError
<1> QED BY <1>1, <1>2, Invariance, SoundBookkeeping, PTL DEF Spec

\* The flits of a VC are among the slots the sender counts for it.
LEMMA FlitsAreCounted ==
  ASSUME IInv
  PROVE  /\ \A v \in Vcs : /\ bs.vcOcc[v] \in Nat /\ Len(buf[v]) \in Nat
                           /\ Len(wire[v]) \in Nat
                           /\ Len(buf[v]) + Len(wire[v]) <= bs.vcOcc[v]
                           /\ Len(buf[v]) <= bs.vcOcc[v]
         /\ DOMAIN bs.vcOcc = Vcs
<1>1. ASSUME NEW v \in Vcs
      PROVE  /\ bs.vcOcc[v] \in Nat /\ Len(buf[v]) \in Nat /\ Len(wire[v]) \in Nat
             /\ Len(buf[v]) + Len(wire[v]) <= bs.vcOcc[v]
             /\ Len(buf[v]) <= bs.vcOcc[v]
  <2> DEFINE o == bs.vcOcc[v]
             a == Len(wire[v])
             b == Len(buf[v])
             c == credits[v]
  <2>1. a \in Nat /\ b \in Nat /\ c \in Nat /\ o = a + b + c
    BY OneVc
  <2> HIDE DEF o, a, b, c
  <2>2. o \in Nat /\ b + a <= o /\ b <= o
    BY <2>1
  <2> QED BY <2>1, <2>2 DEF o, a, b
<1>2. DOMAIN bs.vcOcc = Vcs
  BY DEF IInv, TypeOK, BufferStates, BufferStatesOf
<1> QED BY <1>1, <1>2

\* The flits buffered at the receiver fit into its buffer, however the policy
\* shares it among the VCs.
THEOREM BufferNeverOverflows ==
  ASSUME AllWorkable
  PROVE  Spec => []NoBufferOverflow
<1>1. IInv /\ Sound(bs) /\ Configured => NoBufferOverflow
  <2> SUFFICES ASSUME IInv, Sound(bs), Configured PROVE BufferedFlits <= Size
    BY DEF NoBufferOverflow
  <2> DEFINE l == [v \in Vcs |-> Len(buf[v])]
             o == bs.vcOcc
  <2>1. SumFunction(o) <= Size
    <3>1. bs \in BufferStatesOf(Pids) /\ Workable(bs.policy)
      BY AllWorkable DEF IInv, TypeOK, BufferStates, AllWorkable, Configured
    <3> QED BY <3>1, SoundCapacity
  <2>2. /\ \A v \in Vcs : l[v] \in Int /\ o[v] \in Int /\ l[v] <= o[v]
        /\ DOMAIN l = Vcs /\ DOMAIN o = Vcs
    <3>1. \A v \in Vcs : l[v] = Len(buf[v]) /\ l[v] \in Nat /\ o[v] \in Nat /\ l[v] <= o[v]
      <4> SUFFICES ASSUME NEW v \in Vcs
                   PROVE  l[v] = Len(buf[v]) /\ l[v] \in Nat /\ o[v] \in Nat /\ l[v] <= o[v]
        OBVIOUS
      <4>1. l[v] = Len(buf[v])
        OBVIOUS
      <4>2. Len(buf[v]) \in Nat /\ o[v] \in Nat /\ Len(buf[v]) <= o[v]
        BY FlitsAreCounted
      <4> HIDE DEF l, o
      <4> QED BY <4>1, <4>2, Zenon
    <3>2. DOMAIN l = Vcs /\ DOMAIN o = Vcs
      BY FlitsAreCounted
    <3> HIDE DEF l, o
    <3> QED BY <3>1, <3>2
  <2> HIDE DEF l, o
  <2>3. SumFunctionOnSet(l, Vcs) <= SumFunctionOnSet(o, Vcs)
    BY <2>2, SumMonotone, Partition
  <2>4. SumFunctionOnSet(l, Vcs) \in Int /\ SumFunctionOnSet(o, Vcs) \in Int
    BY <2>2, SumType, Partition
  <2>5. SumFunction(l) = SumFunctionOnSet(l, Vcs) /\ SumFunction(o) = SumFunctionOnSet(o, Vcs)
    BY <2>2 DEF SumFunction
  <2>6. SumFunction(l) <= Size
    BY <2>1, <2>3, <2>4, <2>5, SizesAreIntegers
  <2> QED BY <2>6 DEF l, BufferedFlits
<1> QED BY <1>1, Invariance, SoundBookkeeping, PTL

-----------------------------------------------------------------------------
(***************************************************************************)
(* The hop implements the bounded packet queue, under every policy.        *)
(***************************************************************************)
AllPrivate == \A c \in Configs : c[1] = "private"

\* The queue of VC v, and the packet that is entering it, as PacketFifo sees
\* them.
Queue(v) == buf[v] \o wire[v]
Entering(c) == [pid |-> IF c.sent = 0 THEN None ELSE c.pid, sent |-> c.sent]

\* Moving the front flit of the channel to the end of the buffer leaves the
\* queue they form as it is.
LEMMA MoveAcross ==
  ASSUME NEW b \in Seq(Flits), NEW w \in Seq(Flits), w # <<>>
  PROVE  Append(b, Head(w)) \o Tail(w) = b \o w
<1> DEFINE f == Head(w)
           t == Tail(w)
<1>1. f \in Flits /\ t \in Seq(Flits) /\ <<f>> \in Seq(Flits)
  BY HeadTailProperties
<1>2. w = <<f>> \o t
  OBVIOUS
<1>3. Append(b, f) = b \o <<f>>
  BY <1>1, AppendIsConcat
<1>4. (b \o <<f>>) \o t = b \o (<<f>> \o t)
  BY <1>1, ConcatAssociative
<1> HIDE DEF f, t
<1>5. Append(b, f) \o t = b \o w
  BY <1>2, <1>3, <1>4
<1> QED BY <1>5 DEF f, t

\* A flit that enters the channel enters the queue.
LEMMA EnterBehind ==
  ASSUME NEW b \in Seq(Flits), NEW w \in Seq(Flits), NEW f \in Flits
  PROVE  b \o Append(w, f) = Append(b \o w, f)
<1>1. <<f>> \in Seq(Flits) /\ b \o w \in Seq(Flits)
  BY ConcatProperties
<1>2. Append(w, f) = w \o <<f>> /\ Append(b \o w, f) = (b \o w) \o <<f>>
  BY <1>1, AppendIsConcat
<1>3. (b \o w) \o <<f>> = b \o (w \o <<f>>)
  BY <1>1, ConcatAssociative
<1> QED BY <1>2, <1>3

\* A flit that leaves the buffer leaves the queue.
LEMMA LeaveInFront ==
  ASSUME NEW b \in Seq(Flits), NEW w \in Seq(Flits), b # <<>>
  PROVE  b \o w # <<>> /\ Tail(b) \o w = Tail(b \o w)
<1> DEFINE f == Head(b)
           t == Tail(b)
<1>1. f \in Flits /\ t \in Seq(Flits) /\ <<f>> \in Seq(Flits)
  BY HeadTailProperties
<1>2. b = <<f>> \o t
  OBVIOUS
<1>3. (<<f>> \o t) \o w = <<f>> \o (t \o w) /\ t \o w \in Seq(Flits)
  BY <1>1, ConcatAssociative, ConcatProperties
<1> HIDE DEF f, t
<1>4. b \o w = <<f>> \o (t \o w)
  BY <1>2, <1>3
<1>5. \A s \in Seq(Flits) : <<f>> \o s # <<>> /\ Tail(<<f>> \o s) = s
  BY <1>1
<1>6. b \o w # <<>> /\ t \o w = Tail(b \o w)
  BY <1>3, <1>4, <1>5
<1> QED BY <1>6 DEF t

Queues == [v \in Vcs |-> Queue(v)]
Openings == [v \in Vcs |-> Entering(cur[v])]

\* A step of PacketFifo, on the link's state.
FifoPut(v, p, last) ==
  /\ Openings[v] = [pid |-> None, sent |-> 0] \/ Openings[v].pid = p
  /\ Openings[v].sent < MaxLen
  /\ Len(Queues[v]) < HopCapacity
  /\ LET n == Openings[v].sent + 1
     IN  /\ Queues' = [Queues EXCEPT
                        ![v] = Append(@, [pid |-> p, idx |-> n, tail |-> last])]
         /\ Openings' = [Openings EXCEPT
                          ![v] = IF last THEN [pid |-> None, sent |-> 0]
                                 ELSE [pid |-> p, sent |-> n]]

FifoGet(v) ==
  /\ Queues[v] # <<>>
  /\ Queues' = [Queues EXCEPT ![v] = Tail(@)]
  /\ UNCHANGED Openings

\* A flit that is sent is put into the VC's queue, which has room for it.
LEMMA SendFlitPuts ==
  ASSUME IInv, NEW v \in Vcs, SendFlit(v), Len(Queues[v]) < HopCapacity
  PROVE  \E p \in Pids, last \in BOOLEAN : FifoPut(v, p, last)
<1> DEFINE n == cur[v].sent + 1
           last == n = cur[v].len
           p == cur[v].pid
           f == [pid |-> p, idx |-> n, tail |-> last]
           c == IF last THEN Idle ELSE [cur[v] EXCEPT !.sent = n]
<1>1. /\ cur[v] \in [pid : Pids \cup {None}, len : 0 .. MaxLen, sent : 0 .. MaxLen]
      /\ Known(cur[v], bs.inUseBy[v], bs.tailSent[v])
      /\ wire[v] \in Seq(Flits) /\ buf[v] \in Seq(Flits)
  BY OneVc
<1>2. /\ cur[v] # Idle /\ ~IsFullFor(bs, v)
      /\ cur' = [cur EXCEPT ![v] = c]
      /\ wire' = [wire EXCEPT ![v] = Append(wire[v], f)]
      /\ buf' = buf
  BY DEF SendFlit, IInv, TypeOK
<1>3. p \in Pids /\ p # None /\ cur[v].sent < cur[v].len /\ cur[v].sent \in 0 .. MaxLen
      /\ cur[v].len \in 0 .. MaxLen
  BY <1>1, <1>2 DEF Known
<1>4. last \in BOOLEAN
  OBVIOUS
<1>5. n \in 1 .. MaxLen /\ cur[v].sent < MaxLen
  BY <1>3, CreditLinkAssumption
<1>6. f \in Flits
  <2> HIDE DEF last, n, p
  <2> QED BY <1>3, <1>4, <1>5 DEF Flits
<1>7. Entering(c) = IF last THEN [pid |-> None, sent |-> 0] ELSE [pid |-> p, sent |-> n]
  <2>1. CASE last
    BY <2>1 DEF Entering, Idle
  <2>2. CASE ~last
    <3>1. c.pid = p /\ c.sent = n
      BY <2>2, <1>1
    <3>2. n # 0
      BY <1>5
    <3> HIDE DEF c, n, p, last
    <3> QED BY <2>2, <3>1, <3>2 DEF Entering
  <2> QED BY <2>1, <2>2
<1>8. /\ Openings[v].sent = cur[v].sent
      /\ Openings[v] = [pid |-> None, sent |-> 0] \/ Openings[v].pid = p
  BY DEF Openings, Entering
<1> HIDE DEF f, c, last, n
<1>10. Queues' = [Queues EXCEPT ![v] = Append(@, f)]
  <2>1. Queue(v)' = Append(Queue(v), f)
    <3>1. Queue(v)' = buf[v] \o Append(wire[v], f)
      BY <1>2 DEF Queue, IInv, TypeOK
    <3> QED BY <3>1, <1>1, <1>6, EnterBehind DEF Queue
  <2>2. \A u \in Vcs : u # v => Queue(u)' = Queue(u)
    BY <1>2 DEF Queue, IInv, TypeOK
  <2> QED BY <2>1, <2>2 DEF Queues
<1>11. Openings' = [Openings EXCEPT ![v] = Entering(c)]
  BY <1>2 DEF Openings, IInv, TypeOK
<1>12. FifoPut(v, p, last)
  <2>1. Openings[v].sent + 1 = n
    BY <1>8 DEF n
  <2> QED BY <2>1, <1>5, <1>7, <1>8, <1>10, <1>11 DEF FifoPut, f
<1> HIDE DEF p
<1> QED BY <1>3, <1>4, <1>12

\* A VC that is not full has room in its queue for the flit that is sent.
LEMMA RoomToSend ==
  ASSUME IInv, IInv', Sound(bs), Sound(bs'), Configured, AllPrivate \/ AllWorkable,
         NEW v \in Vcs, SendFlit(v)
  PROVE  Len(Queues[v]) < HopCapacity
<1>1. /\ bs'.policy = bs.policy /\ bs'.vcOcc = [bs.vcOcc EXCEPT ![v] = @ + 1]
      /\ ~IsFullFor(bs, v)
  BY SendFlitOccupancy DEF IInv, TypeOK
<1>2. Len(Queues[v]) = Len(buf[v]) + Len(wire[v])
  <2>1. wire[v] \in Seq(Flits) /\ buf[v] \in Seq(Flits)
    BY OneVc
  <2> QED BY <2>1, ConcatProperties DEF Queue, Queues
<1>3. Len(Queues[v]) \in Nat /\ bs.vcOcc[v] \in Nat /\ Len(Queues[v]) <= bs.vcOcc[v]
  <2> DEFINE q == Len(Queues[v])
             a == Len(buf[v])
             b == Len(wire[v])
             o == bs.vcOcc[v]
  <2>1. q = a + b /\ a \in Nat /\ b \in Nat /\ o \in Nat /\ a + b <= o
    BY <1>2, FlitsAreCounted
  <2> HIDE DEF q, a, b, o
  <2>2. q \in Nat /\ o \in Nat /\ q <= o
    BY <2>1
  <2> QED BY <2>2 DEF q, o
<1>4. CASE AllPrivate
  <2>1. bs.policy = "private" /\ HopCapacity = VcLimit
    BY <1>4 DEF AllPrivate, HopCapacity, Configured
  <2>2. ~(bs.vcOcc[v] >= VcLimit)
    BY <1>1, <2>1 DEF IsFullFor
  <2> QED BY <1>3, <2>1, <2>2, VcLimitType
<1>5. CASE ~AllPrivate
  <2>1. HopCapacity = Size
    BY <1>5 DEF AllPrivate, HopCapacity
  <2>2. bs' \in BufferStatesOf(Pids) /\ Workable(bs'.policy)
    BY <1>1, <1>5 DEF IInv, TypeOK, BufferStates, AllWorkable, Configured
  <2>3. SumFunction(bs'.vcOcc) <= Size
    BY <2>2, SoundCapacity
  <2> DEFINE o == bs'.vcOcc
  <2>4. (\A u \in Vcs : o[u] \in Nat) /\ DOMAIN o = Vcs
    BY <2>2 DEF Sound, OccupancySound, BufferStatesOf
  <2>5. o[v] = bs.vcOcc[v] + 1
    BY <1>1, FlitsAreCounted
  <2> HIDE DEF o
  <2>6. SumFunctionOnSet(o, Vcs) \in Nat /\ o[v] <= SumFunctionOnSet(o, Vcs)
    BY <2>4, SumNat, Partition
  <2>7. SumFunction(o) = SumFunctionOnSet(o, Vcs)
    BY <2>4 DEF SumFunction
  <2>8. o[v] <= Size
    BY <2>3, <2>4, <2>6, <2>7, SizesAreIntegers DEF o
  <2> QED BY <1>3, <2>1, <2>4, <2>5, <2>8, SizesAreIntegers
<1> QED BY <1>4, <1>5

\* A flit that is removed is taken from the front of the VC's queue.
LEMMA RemoveFlitGets ==
  ASSUME IInv, NEW v \in Vcs, RemoveFlit(v)
  PROVE  FifoGet(v)
<1>1. wire[v] \in Seq(Flits) /\ buf[v] \in Seq(Flits)
  BY OneVc
<1>2. /\ buf[v] # <<>> /\ buf' = [buf EXCEPT ![v] = Tail(buf[v])]
      /\ wire' = wire /\ cur' = cur
  BY DEF RemoveFlit
<1>3. Queue(v) # <<>> /\ Queue(v)' = Tail(Queue(v))
  <2>1. Queue(v)' = Tail(buf[v]) \o wire[v]
    BY <1>2 DEF Queue, IInv, TypeOK
  <2> QED BY <2>1, <1>1, <1>2, LeaveInFront DEF Queue
<1>4. \A u \in Vcs : u # v => Queue(u)' = Queue(u)
  BY <1>2 DEF Queue, IInv, TypeOK
<1>5. Queues' = [Queues EXCEPT ![v] = Tail(@)] /\ Queues[v] # <<>>
  BY <1>3, <1>4 DEF Queues
<1> QED BY <1>2, <1>5 DEF FifoGet, Openings

\* Every other step of the link leaves the queues as they are.
LEMMA OthersStutter ==
  ASSUME IInv, NEW v \in Vcs,
         \/ \E n \in 1 .. MaxLen : TakeVc(v, n)
         \/ AddFlit(v) \/ ProcessCredit(v)
  PROVE  UNCHANGED <<Queues, Openings>>
<1>1. CASE \E n \in 1 .. MaxLen : TakeVc(v, n)
  <2>1. PICK n \in 1 .. MaxLen : TakeVc(v, n)
    BY <1>1
  <2>2. /\ bs.inUseBy[v] = None
        /\ cur' = [cur EXCEPT ![v] = [pid |-> next, len |-> n, sent |-> 0]]
        /\ wire' = wire /\ buf' = buf
    BY <2>1 DEF TakeVc, IsAvailableFor
  <2>3. cur[v] = Idle
    BY <2>2, OneVc DEF Known
  <2>4. \A u \in Vcs : Entering(cur'[u]) = Entering(cur[u])
    BY <2>2, <2>3 DEF Entering, Idle, IInv, TypeOK
  <2> QED BY <2>2, <2>4 DEF Queues, Queue, Openings
<1>2. CASE AddFlit(v)
  <2>1. /\ wire[v] \in Seq(Flits) /\ buf[v] \in Seq(Flits) /\ wire[v] # <<>>
        /\ buf' = [buf EXCEPT ![v] = Append(buf[v], Head(wire[v]))]
        /\ wire' = [wire EXCEPT ![v] = Tail(wire[v])]
        /\ cur' = cur
    BY <1>2, OneVc DEF AddFlit
  <2>2. Queue(v)' = Queue(v)
    <3>1. Queue(v)' = Append(buf[v], Head(wire[v])) \o Tail(wire[v])
      BY <2>1 DEF Queue, IInv, TypeOK
    <3> QED BY <3>1, <2>1, MoveAcross DEF Queue
  <2>3. \A u \in Vcs : u # v => Queue(u)' = Queue(u)
    BY <2>1 DEF Queue, IInv, TypeOK
  <2> QED BY <2>1, <2>2, <2>3 DEF Queues, Openings
<1>3. CASE ProcessCredit(v)
  BY <1>3 DEF ProcessCredit, Queues, Queue, Openings
<1> QED BY <1>1, <1>2, <1>3

\* Every behaviour of the link is one of the bounded packet queue, under every
\* policy: nothing is lost, reordered, duplicated or interleaved, and no VC
\* holds more flits than the buffer, or than its share of it when all the
\* configurations are private.
THEOREM HopImplementsFifo ==
  ASSUME AllPrivate \/ AllWorkable
  PROVE  Spec => ImplementsFifo
<1> DEFINE SInv == Sound(bs) /\ Configured
<1>1. Init => Fifo!Init
  <2> SUFFICES ASSUME Init PROVE Fifo!Init
    OBVIOUS
  <2>1. \A v \in Vcs : buf[v] \o wire[v] = <<>>
    BY DEF Init
  <2>2. \A v \in Vcs : Entering(cur[v]) = [pid |-> None, sent |-> 0]
    BY DEF Init, Idle, Entering
  <2> QED BY <2>1, <2>2 DEF Fifo!Init, Fifo!Closed, Entering
<1>2. IInv /\ IInv' /\ SInv /\ SInv' /\ [Next]_vars => [Fifo!Next]_<<Queues, Openings>>
  <2> SUFFICES ASSUME IInv, IInv', SInv, SInv', [Next]_vars
               PROVE  Fifo!Next \/ UNCHANGED <<Queues, Openings>>
    OBVIOUS
  <2>1. ASSUME NEW v \in Vcs, SendFlit(v) PROVE Fifo!Next
    <3>1. Len(Queues[v]) < HopCapacity
      BY <2>1, RoomToSend
    <3>2. PICK p \in Pids, last \in BOOLEAN : FifoPut(v, p, last)
      BY <2>1, <3>1, SendFlitPuts
    <3>3. Fifo!Put(v, p, last)
      BY <3>2 DEF FifoPut, Fifo!Put, Fifo!Closed, Queues, Queue, Openings, Entering
    <3> QED BY <3>3 DEF Fifo!Next
  <2>2. ASSUME NEW v \in Vcs, RemoveFlit(v) PROVE Fifo!Next
    <3>1. FifoGet(v)
      BY <2>2, RemoveFlitGets
    <3>2. Fifo!Get(v)
      BY <3>1 DEF FifoGet, Fifo!Get, Queues, Queue, Openings, Entering
    <3> QED BY <3>2 DEF Fifo!Next
  <2>3. ASSUME NEW v \in Vcs,
               \/ \E n \in 1 .. MaxLen : TakeVc(v, n)
               \/ AddFlit(v) \/ ProcessCredit(v)
        PROVE  UNCHANGED <<Queues, Openings>>
    BY <2>3, OthersStutter
  <2>4. CASE UNCHANGED vars
    BY <2>4 DEF vars, Queues, Queue, Openings
  <2> QED BY <2>1, <2>2, <2>3, <2>4 DEF Next
<1>3. [Fifo!Next]_<<Queues, Openings>> =>
      [Fifo!Next]_<<[v \in Vcs |-> buf[v] \o wire[v]],
                    [v \in Vcs |-> [pid |-> IF cur[v].sent = 0 THEN None ELSE cur[v].pid,
                                    sent |-> cur[v].sent]]>>
  BY DEF Queues, Queue, Openings, Entering
<1> QED BY <1>1, <1>2, <1>3, Invariance, SoundBookkeeping, PTL
        DEF Spec, ImplementsFifo, Fifo!Spec
=============================================================================
