-------------------------- MODULE XskSocketProofs --------------------------
(***************************************************************************)
(* Theorems about the AF_XDP socket (XskSocket) for every number of frames *)
(* and descriptors, every batch size and both builds.                      *)
(*                                                                         *)
(* A frame is counted in the seven queues it travels through; every step   *)
(* of the kernel, of the main thread and of the sender moves frames from   *)
(* one queue to another, so each count stays one (FramesConserved).  Then  *)
(* no packet is written into a frame that another queue holds, and two     *)
(* logs never change but at their end: what arrived is what was handled    *)
(* and then what the open part of the receive ring holds, and what is sent *)
(* is continued by what the frames on the transmit side hold.              *)
(***************************************************************************)
EXTENDS XskSocket, CountingProofs

(* What the frames of queue q hold when memory is c. *)
Contents(c, q) == [n \in 1..Len(q) |-> c[q[n]]]

(* What is sent and will be sent, in that order. *)
OutLog == sent \o Contents(content, nic \o tx)

-----------------------------------------------------------------------------
(* The inductive invariant. *)

Control ==
    /\ mpc # "process" => done = 0
    /\ rcvd <= Len(rx)
    /\ tpc # "end" => id <= Iters
    /\ SERVER => tpc = "end" /\ ~starved
    /\ net \subseteq 1..Iters /\ arrived \in Seq(1..Iters)
    /\ ~starved => tx \in Seq(Frames)

InOrder == ~starved => arrived = handled \o Contents(content, OpenRx)

ServerOut == SERVER /\ dropped = {} => OutLog = handled

ClientOut ==
    ~SERVER /\ ~starved =>
        /\ \A m, n \in 1..Len(OutLog) : m < n => OutLog[m] < OutLog[n]
        /\ \A n \in 1..Len(OutLog) : OutLog[n] <= id /\ (tpc = "send" => OutLog[n] < id)

XskInv ==
    /\ TypeOK
    /\ Control
    /\ FramesConserved
    /\ OutstandingExact
    /\ InOrder
    /\ ServerOut
    /\ ClientOut
-----------------------------------------------------------------------------
(* Queues of frames. *)

(* The sizes and the addresses. *)
LEMMA Sizes ==
    /\ NUM_FRAMES \in Nat \ {0} /\ RING_SIZE \in Nat \ {0} /\ RX_BATCH_SIZE \in Nat \ {0}
    /\ Iters \in Nat \ {0}
    /\ \A f \in Frames : f \in Addr /\ f # INVALID_UMEM_FRAME
    /\ INVALID_UMEM_FRAME \in Addr /\ INVALID_UMEM_FRAME \notin Frames /\ 0 \in Frames
    /\ \A x \in 1..Iters : x \in 0..Iters
  BY SizesAssumption DEF Frames, Addr, INVALID_UMEM_FRAME

(* A queue of frames is one of addresses. *)
LEMMA FrameQueue ==
    ASSUME NEW q \in Seq(Frames)
    PROVE  q \in Seq(Addr)
  BY Sizes, SeqWiden, Zenon

(* The part of a queue after its first d entries. *)
After(q, d) == SubSeq(q, d + 1, Len(q))

(* Its type and its entries. *)
LEMMA Dropped ==
    ASSUME NEW T, NEW q \in Seq(T), NEW d \in 0..Len(q)
    PROVE  /\ SubSeq(q, d + 1, Len(q)) \in Seq(T)
           /\ Len(SubSeq(q, d + 1, Len(q))) = Len(q) - d
           /\ \A n \in 1..(Len(q) - d) : SubSeq(q, d + 1, Len(q))[n] = q[d + n]
  <1>1. Len(q) \in Nat /\ \A n \in 1..Len(q) : q[n] \in T
    BY LenProperties, ElementOfSeq
  <1>2. SubSeq(q, d + 1, Len(q)) \in Seq(T)
    BY <1>1, CountSplit, Zenon
  <1> QED
    BY <1>1, <1>2, SubSeqProperties

(* It is the whole, or loses its head, or grows with the queue. *)
LEMMA DroppedSteps ==
    ASSUME NEW T, NEW q \in Seq(T), NEW d \in 0..Len(q)
    PROVE  /\ d = 0 => After(q, d) = q
           /\ d < Len(q) => /\ q[d + 1] \in T /\ After(q, d) # <<>>
                            /\ Head(After(q, d)) = q[d + 1] /\ Tail(After(q, d)) = After(q, d + 1)
           /\ \A x \in T : After(Append(q, x), d) = Append(After(q, d), x)
  <1> DEFINE r == SubSeq(q, d + 1, Len(q))
  <1>1. Len(q) \in Nat /\ \A n \in 1..Len(q) : q[n] \in T
    BY LenProperties, ElementOfSeq
  <1>2. r \in Seq(T) /\ Len(r) = Len(q) - d /\ \A n \in 1..(Len(q) - d) : r[n] = q[d + n]
    BY Dropped
  <1>3. d = 0 => r = q
    BY <1>1, SubSeqFull
  <1>4. ASSUME d < Len(q)
        PROVE  /\ q[d + 1] \in T /\ r # <<>> /\ Head(r) = q[d + 1]
               /\ Tail(r) = SubSeq(q, (d + 1) + 1, Len(q))
    <2>1. d + 1 \in 0..Len(q) /\ Len(r) > 0 /\ d + 1 \in 1..Len(q)
      BY <1>1, <1>2, <1>4
    <2>2. r # <<>> /\ Head(r) = q[d + 1] /\ q[d + 1] \in T
      BY <1>1, <1>2, <2>1
    <2> DEFINE u == SubSeq(q, (d + 1) + 1, Len(q))
               e == d + 1
    <2>3. u \in Seq(T) /\ Len(u) = Len(q) - e /\ \A n \in 1..(Len(q) - e) : u[n] = q[e + n]
      BY <2>1, Dropped
    <2>4. Tail(r) \in Seq(T) /\ Len(Tail(r)) = Len(r) - 1 /\ \A n \in 1..(Len(r) - 1) : Tail(r)[n] = r[n + 1]
      BY <1>2, <2>2, HeadTailProperties
    <2> HIDE DEF u, r
    <2>5. Len(u) = Len(Tail(r)) /\ \A n \in 1..Len(u) : u[n] = Tail(r)[n]
      <3>1. Len(u) = Len(Tail(r)) /\ Len(u) = Len(q) - d - 1
        BY <1>1, <1>2, <2>1, <2>3, <2>4
      <3>2. ASSUME NEW n \in 1..Len(u)
            PROVE  u[n] = Tail(r)[n]
        <4>1. n \in 1..(Len(q) - e) /\ n \in 1..(Len(r) - 1) /\ n + 1 \in 1..(Len(q) - d) /\ e + n = d + (n + 1)
          BY <1>1, <1>2, <2>1, <3>1
        <4> QED
          BY <1>2, <2>3, <2>4, <4>1
      <3> QED
        BY <3>1, <3>2
    <2>6. u = Tail(r)
      BY <2>3, <2>4, <2>5, SeqEqual, Zenon
    <2> QED
      BY <2>2, <2>6 DEF u, r
  <1>5. ASSUME NEW x \in T
        PROVE  SubSeq(Append(q, x), d + 1, Len(Append(q, x))) = Append(r, x)
    <2> DEFINE a == Append(q, x)
               u == SubSeq(a, d + 1, Len(a))
    <2>1. /\ a \in Seq(T) /\ Len(a) = Len(q) + 1 /\ a[Len(q) + 1] = x
          /\ \A n \in 1..Len(q) : a[n] = q[n]
      BY AppendProperties
    <2>2. d \in 0..Len(a)
      BY <1>1, <2>1
    <2>3. u \in Seq(T) /\ Len(u) = Len(a) - d /\ \A n \in 1..(Len(a) - d) : u[n] = a[d + n]
      BY <2>1, <2>2, Dropped, Zenon
    <2> HIDE DEF u, a, r
    <2>4. /\ Append(r, x) \in Seq(T) /\ Len(Append(r, x)) = Len(r) + 1 /\ Append(r, x)[Len(r) + 1] = x
          /\ \A n \in 1..Len(r) : Append(r, x)[n] = r[n]
      BY <1>2, AppendProperties
    <2>5. Len(u) = Len(Append(r, x)) /\ \A n \in 1..Len(u) : u[n] = Append(r, x)[n]
      <3>1. Len(u) = Len(Append(r, x)) /\ Len(u) = Len(r) + 1
        BY <1>1, <1>2, <2>1, <2>3, <2>4
      <3>2. ASSUME NEW n \in 1..Len(u)
            PROVE  u[n] = Append(r, x)[n]
        <4>1. u[n] = a[d + n]
          BY <2>3
        <4>2. CASE n = Len(r) + 1
          <5>1. d + n = Len(q) + 1
            BY <1>1, <1>2, <4>2
          <5> QED
            BY <2>1, <2>4, <4>1, <4>2, <5>1
        <4>3. CASE n # Len(r) + 1
          <5>1. n \in 1..Len(r) /\ d + n \in 1..Len(q) /\ n \in 1..(Len(q) - d)
            BY <1>1, <1>2, <3>1, <4>3
          <5> QED
            BY <1>2, <2>1, <2>4, <4>1, <5>1
        <4> QED
          BY <4>2, <4>3
      <3> QED
        BY <3>1, <3>2
    <2>6. u = Append(r, x)
      BY <2>3, <2>4, <2>5, SeqEqual, Zenon
    <2> QED
      BY <2>6 DEF u, a
  <1> QED
    BY <1>3, <1>4, <1>5 DEF After

(* The head of what is left. *)
LEMMA AfterHead ==
    ASSUME NEW T, NEW q \in Seq(T), NEW d \in 0..Len(q), d < Len(q)
    PROVE  /\ q[d + 1] \in T /\ After(q, d) # <<>>
           /\ Head(After(q, d)) = q[d + 1] /\ Tail(After(q, d)) = After(q, d + 1)
  BY DroppedSteps

(* An entry is added at the end. *)
LEMMA AfterAppend ==
    ASSUME NEW T, NEW q \in Seq(T), NEW d \in 0..Len(q), NEW x \in T
    PROVE  After(Append(q, x), d) = Append(After(q, d), x)
  BY DroppedSteps

(* The head of one queue becomes the end of another; an address that is    *)
(* not a frame is not counted.                                             *)
LEMMA MoveHead ==
    ASSUME NEW a \in Seq(Addr), a # <<>>, NEW b \in Seq(Addr), NEW f \in Frames
    PROVE  /\ Count(Tail(a), {f}) + Count(Append(b, Head(a)), {f}) = Count(a, {f}) + Count(b, {f})
           /\ Head(a) # f => /\ Count(Tail(a), {f}) = Count(a, {f})
                             /\ Count(Append(b, Head(a)), {f}) = Count(b, {f})
           /\ Head(a) = f => Count(a, {f}) = Count(Tail(a), {f}) + 1
           /\ Count(a, {f}) \in Nat /\ Count(b, {f}) \in Nat /\ Count(Tail(a), {f}) \in Nat
           /\ Count(Append(b, Head(a)), {f}) \in Nat
  <1>1. Head(a) \in Addr /\ Tail(a) \in Seq(Addr)
    BY HeadTailProperties
  <1>2. Append(b, Head(a)) \in Seq(Addr)
    BY <1>1, AppendProperties
  <1>3. Count(a, {f}) = Count(Tail(a), {f}) + Hit(Head(a), {f})
    BY CountTail, Zenon
  <1>4. Count(Append(b, Head(a)), {f}) = Count(b, {f}) + Hit(Head(a), {f})
    BY <1>1, CountAppend, Zenon
  <1>5. /\ Count(a, {f}) \in Nat /\ Count(b, {f}) \in Nat /\ Count(Tail(a), {f}) \in Nat
        /\ Count(Append(b, Head(a)), {f}) \in Nat
    BY <1>1, <1>2, CountType, Zenon
  <1>6. (Head(a) = f => Hit(Head(a), {f}) = 1) /\ (Head(a) # f => Hit(Head(a), {f}) = 0)
    BY DEF Hit
  <1> QED
    BY <1>3, <1>4, <1>5, <1>6

(* xsk_alloc_umem_frame, called n times, neither loses nor repeats a       *)
(* frame: those handed out and those left are those that were free.        *)
LEMMA Alloc ==
    ASSUME NEW s \in Seq(Frames), NEW n \in Nat
    PROVE  /\ AllocN(s, n) \in Seq(Addr) /\ Len(AllocN(s, n)) = n
           /\ AfterAllocN(s, n) \in Seq(Frames)
           /\ \A f \in Frames : Count(AllocN(s, n), {f}) + Count(AfterAllocN(s, n), {f}) = Count(s, {f})
  <1> DEFINE m == IF n <= Len(s) THEN n ELSE Len(s)
             r == AllocN(s, n)
             t == AfterAllocN(s, n)
  <1>1. Len(s) \in Nat /\ DOMAIN s = 1..Len(s) /\ \A k \in 1..Len(s) : s[k] \in Frames
    BY LenProperties, ElementOfSeq
  <1>2. m \in 0..Len(s) /\ m <= n /\ t = SubSeq(s, 1, Len(s) - m) /\ Len(s) - m \in 0..Len(s)
    BY <1>1 DEF AfterAllocN
  <1>3. r \in [1..n -> Addr]
    <2>1. \A k \in 1..n : k <= Len(s) => Len(s) + 1 - k \in 1..Len(s)
      BY <1>1
    <2> QED
      BY <1>1, <2>1, Sizes DEF AllocN
  <1>4. r \in Seq(Addr) /\ Len(r) = n /\ DOMAIN r = 1..n
    BY <1>3
  <1>5. t \in Seq(Frames)
    BY <1>2, CountSplit, ZenonT(40)
  <1>6. ASSUME NEW f \in Frames
        PROVE  Count(r, {f}) + Count(t, {f}) = Count(s, {f})
    <2> DEFINE P == Positions(r, {f})
               Q == Positions(t, {f})
               R == {j \in (Len(s) - m + 1)..Len(s) : s[j] \in {f}}
               g == [k \in P |-> Len(s) + 1 - k]
    <2>1. /\ Len(t) = Len(s) - m /\ DOMAIN t = 1..(Len(s) - m)
          /\ \A j \in 1..(Len(s) - m) : t[j] = s[j]
      <3> DEFINE l == Len(s) - m
      <3>1. t = SubSeq(s, 1, l) /\ l \in 0..Len(s)
        BY <1>2
      <3> HIDE DEF l, t, m
      <3>2. SubSeq(s, 1, l) = [j \in 1..l |-> s[j]]
        BY <1>1, <3>1, SubSeqProperties
      <3>3. Len(t) = l /\ DOMAIN t = 1..l /\ \A j \in 1..l : t[j] = s[j]
        BY <1>1, <3>1, <3>2
      <3> QED
        BY <3>3 DEF l
    <2>2. \A k \in 1..n : r[k] = IF k <= Len(s) THEN s[Len(s) + 1 - k] ELSE INVALID_UMEM_FRAME
      BY DEF AllocN
    <2>3. P = {k \in 1..m : s[Len(s) + 1 - k] \in {f}}
      <3>1. \A k \in 1..n : k > m => r[k] \notin {f}
        BY <1>1, <2>2, Sizes
      <3>2. \A k \in 1..m : k \in 1..n /\ r[k] = s[Len(s) + 1 - k]
        BY <1>1, <1>2, <2>2
      <3>3. \A k \in 1..n : k > m \/ k \in 1..m
        BY <1>1, <1>2
      <3> HIDE DEF m, r
      <3> QED
        BY <1>4, <3>1, <3>2, <3>3 DEF Positions
    <2> HIDE DEF P, m, r, t
    <2>4. Positions(s, {f}) = Q \cup R
      <3>1. Q = {j \in 1..(Len(s) - m) : s[j] \in {f}}
        BY <2>1 DEF Positions
      <3>2. \A j : j \in 1..Len(s) <=> j \in 1..(Len(s) - m) \/ j \in (Len(s) - m + 1)..Len(s)
        BY <1>1, <1>2
      <3> QED
        BY <1>1, <3>1, <3>2 DEF Positions
    <2>5. Q \cap R = {}
      <3>1. \A j \in Q : j \in 1..(Len(s) - m)
        BY <2>1 DEF Positions
      <3>2. \A j \in 1..(Len(s) - m) : j \notin (Len(s) - m + 1)..Len(s)
        BY <1>1, <1>2
      <3> QED
        BY <3>1, <3>2
    <2>6. g \in Bijection(P, R)
      <3>1. \A k \in P : k \in 1..m /\ s[Len(s) + 1 - k] \in {f}
        BY <2>3
      <3>2. g \in [P -> R]
        BY <1>1, <1>2, <3>1
      <3>3. \A a, b \in P : g[a] = g[b] => a = b
        BY <1>1, <1>2, <3>1
      <3>4. \A j \in R : \E k \in P : g[k] = j
        <4> TAKE j \in R
        <4>1. Len(s) + 1 - j \in 1..m /\ Len(s) + 1 - (Len(s) + 1 - j) = j
          BY <1>1, <1>2
        <4>2. Len(s) + 1 - j \in P
          BY <2>3, <4>1
        <4> QED
          BY <4>1, <4>2
      <3> QED
        BY <3>2, <3>3, <3>4, Fun_IsBij
    <2>7. IsFiniteSet(P) /\ IsFiniteSet(Q)
      BY <1>4, <1>5, CountType, Zenon DEF P
    <2>8. IsFiniteSet(R) /\ Cardinality(R) = Cardinality(P)
      BY <2>6, <2>7, FS_Bijection DEF ExistsBijection
    <2> HIDE DEF Q, R, g
    <2>9. Cardinality(Q \cup R) = Cardinality(Q) + Cardinality(R) - Cardinality({})
      BY <2>5, <2>7, <2>8, FS_Union
    <2>10. Cardinality({}) = 0 /\ Cardinality(Q) \in Nat /\ Cardinality(P) \in Nat
      BY <2>7, FS_EmptySet, FS_CardinalityType
    <2>11. Count(r, {f}) = Cardinality(P) /\ Count(t, {f}) = Cardinality(Q) /\ Count(s, {f}) = Cardinality(Q \cup R)
      BY <2>4 DEF Count, P, Q
    <2> QED
      BY <2>8, <2>9, <2>10, <2>11
  <1> QED
    BY <1>4, <1>5, <1>6
-----------------------------------------------------------------------------
(* Logs of what frames hold. *)

(* The contents of a queue are a log as long as the queue. *)
LEMMA ContentsType ==
    ASSUME NEW c \in [Frames -> 0..Iters], NEW q \in Seq(Frames)
    PROVE  /\ Contents(c, q) \in Seq(0..Iters) /\ Len(Contents(c, q)) = Len(q)
           /\ \A n \in 1..Len(q) : Contents(c, q)[n] = c[q[n]]
  <1>1. Len(q) \in Nat /\ \A n \in 1..Len(q) : q[n] \in Frames
    BY LenProperties, ElementOfSeq
  <1>2. Contents(c, q) \in [1..Len(q) -> 0..Iters]
    BY <1>1 DEF Contents
  <1> QED
    BY <1>1, <1>2 DEF Contents

(* A frame is added to the queue. *)
LEMMA ContentsAppend ==
    ASSUME NEW c \in [Frames -> 0..Iters], NEW q \in Seq(Frames), NEW x \in Frames
    PROVE  Contents(c, Append(q, x)) = Append(Contents(c, q), c[x])
  <1> DEFINE a == Append(q, x)
             u == Contents(c, a)
             v == Append(Contents(c, q), c[x])
  <1>1. /\ a \in Seq(Frames) /\ Len(a) = Len(q) + 1 /\ Len(q) \in Nat /\ a[Len(q) + 1] = x
        /\ \A n \in 1..Len(q) : a[n] = q[n]
    BY AppendProperties, LenProperties
  <1>2. u \in Seq(0..Iters) /\ Len(u) = Len(a) /\ \A n \in 1..Len(a) : u[n] = c[a[n]]
    BY <1>1, ContentsType
  <1>3. /\ Contents(c, q) \in Seq(0..Iters) /\ Len(Contents(c, q)) = Len(q)
        /\ \A n \in 1..Len(q) : Contents(c, q)[n] = c[q[n]]
    BY ContentsType
  <1>4. /\ v \in Seq(0..Iters) /\ Len(v) = Len(q) + 1 /\ v[Len(q) + 1] = c[x]
        /\ \A n \in 1..Len(q) : v[n] = c[q[n]]
    BY <1>3, AppendProperties
  <1> HIDE DEF a, u, v
  <1>5. Len(u) = Len(v) /\ \A n \in 1..Len(u) : u[n] = v[n]
    <2>1. \A n \in 1..Len(u) : n \in 1..Len(a) /\ (n = Len(q) + 1 \/ n \in 1..Len(q))
      BY <1>1, <1>2
    <2>2. ASSUME NEW n \in 1..Len(u)
          PROVE  u[n] = v[n]
      <3>1. u[n] = c[a[n]]
        BY <1>2, <2>1
      <3>2. CASE n = Len(q) + 1
        BY <1>1, <1>4, <3>1, <3>2
      <3>3. CASE n \in 1..Len(q)
        BY <1>1, <1>4, <3>1, <3>3
      <3> QED
        BY <2>1, <3>2, <3>3
    <2> QED
      BY <1>1, <1>2, <1>4, <2>2
  <1>6. u = v
    BY <1>2, <1>4, <1>5, SeqEqual, Zenon
  <1> QED
    BY <1>6 DEF u, v, a

(* The head of the queue is taken. *)
LEMMA ContentsTail ==
    ASSUME NEW c \in [Frames -> 0..Iters], NEW q \in Seq(Frames), q # <<>>
    PROVE  /\ Contents(c, q) # <<>> /\ Head(Contents(c, q)) = c[Head(q)]
           /\ Tail(Contents(c, q)) = Contents(c, Tail(q))
  <1> DEFINE u == Contents(c, q)
             v == Contents(c, Tail(q))
  <1>1. /\ Len(q) \in Nat /\ Len(q) > 0 /\ Tail(q) \in Seq(Frames) /\ Len(Tail(q)) = Len(q) - 1
        /\ \A n \in 1..(Len(q) - 1) : Tail(q)[n] = q[n + 1]
        /\ Head(q) = q[1]
    BY LenProperties, HeadTailProperties, EmptySeq
  <1>2. u \in Seq(0..Iters) /\ Len(u) = Len(q) /\ \A n \in 1..Len(q) : u[n] = c[q[n]]
    BY ContentsType
  <1>3. v \in Seq(0..Iters) /\ Len(v) = Len(q) - 1 /\ \A n \in 1..(Len(q) - 1) : v[n] = c[Tail(q)[n]]
    BY <1>1, ContentsType
  <1> HIDE DEF u, v
  <1>4. u # <<>> /\ Head(u) = c[Head(q)]
    BY <1>1, <1>2
  <1>5. /\ Tail(u) \in Seq(0..Iters) /\ Len(Tail(u)) = Len(u) - 1
        /\ \A n \in 1..(Len(u) - 1) : Tail(u)[n] = u[n + 1]
    BY <1>2, <1>4, HeadTailProperties
  <1>6. Len(Tail(u)) = Len(v) /\ \A n \in 1..Len(Tail(u)) : Tail(u)[n] = v[n]
    <2>1. \A n \in 1..Len(Tail(u)) : n \in 1..(Len(q) - 1) /\ n + 1 \in 1..Len(q)
      BY <1>1, <1>2, <1>5
    <2> QED
      BY <1>1, <1>2, <1>3, <1>5, <2>1
  <1>7. Tail(u) = v
    BY <1>3, <1>5, <1>6, SeqEqual, Zenon
  <1> QED
    BY <1>4, <1>7 DEF u, v

(* A packet is written into a frame that is not in the queue. *)
LEMMA ContentsWrite ==
    ASSUME NEW c \in [Frames -> 0..Iters], NEW q \in Seq(Frames), NEW f \in Frames, NEW p \in 0..Iters,
           Count(q, {f}) = 0
    PROVE  Contents([c EXCEPT ![f] = p], q) = Contents(c, q)
  <1>1. \A n \in 1..Len(q) : q[n] \notin {f}
    BY CountZero, Zenon
  <1>2. \A n \in 1..Len(q) : q[n] \in Frames
    BY ElementOfSeq, LenProperties
  <1>3. \A n \in 1..Len(q) : [c EXCEPT ![f] = p][q[n]] = c[q[n]]
    BY <1>1, <1>2
  <1> QED
    BY <1>3 DEF Contents

(* Something moves from the head of the second part of a log to the end of *)
(* the first, or is added at its end.                                      *)
LEMMA ShiftLog ==
    ASSUME NEW T, NEW s \in Seq(T), NEW t \in Seq(T)
    PROVE  /\ t # <<>> => Append(s, Head(t)) \o Tail(t) = s \o t
           /\ \A x \in T : s \o Append(t, x) = Append(s \o t, x)
           /\ s \o t \in Seq(T) /\ Len(s \o t) = Len(s) + Len(t)
           /\ Len(s) \in Nat /\ Len(t) \in Nat
           /\ \A n \in 1..Len(s) : (s \o t)[n] = s[n]
  <1>1. t # <<>> => Append(s, Head(t)) \o Tail(t) = s \o t
    OBVIOUS
  <1>2. \A x \in T : s \o Append(t, x) = Append(s \o t, x)
    OBVIOUS
  <1>3. Len(s) \in Nat /\ Len(t) \in Nat
    BY LenProperties
  <1>4. s \o t \in Seq(T) /\ Len(s \o t) = Len(s) + Len(t)
    BY ConcatProperties
  <1>5. \A n \in 1..Len(s) : (s \o t)[n] = s[n]
    BY <1>3
  <1> QED
    BY <1>1, <1>2, <1>3, <1>4, <1>5

(* An entry is added at the end of the log. *)
LEMMA PushLog ==
    ASSUME NEW T, NEW s \in Seq(T), NEW t \in Seq(T), NEW x \in T
    PROVE  s \o Append(t, x) = Append(s \o t, x) /\ s \o t \in Seq(T)
  BY ShiftLog

(* To append the only entry of a sequence is to append the sequence. *)
LEMMA AppendOne ==
    ASSUME NEW T, NEW s \in Seq(T), NEW t \in Seq(T), Len(t) = 1
    PROVE  t[1] \in T /\ Append(s, t[1]) = s \o t
  <1>1. t[1] \in T
    BY ElementOfSeq, 1 \in 1..Len(t)
  <1>2. t = <<t[1]>>
    BY LenProperties
  <1> DEFINE x == t[1]
  <1>3. Append(s, x) = s \o <<x>>
    <2>1. x \in T
      BY <1>1
    <2> HIDE DEF x
    <2> QED
      BY <2>1
  <1> QED
    BY <1>1, <1>2, <1>3

-----------------------------------------------------------------------------
(* What the invariant says of the queues. *)

(* The queues have their types. *)
LEMMA Queues ==
    TypeOK /\ Control =>
        /\ OpenRx \in Seq(Frames) /\ done \in 0..Len(rx) /\ Len(OpenRx) = Len(rx) - done
        /\ fq \in Seq(Addr) /\ hw \in Seq(Addr) /\ OpenRx \in Seq(Addr) /\ tx \in Seq(Addr)
        /\ nic \in Seq(Addr) /\ cq \in Seq(Addr) /\ umem_frame_addr \in Seq(Addr)
  <1> SUFFICES ASSUME TypeOK, Control
               PROVE  /\ OpenRx \in Seq(Frames) /\ done \in 0..Len(rx) /\ Len(OpenRx) = Len(rx) - done
                      /\ fq \in Seq(Addr) /\ hw \in Seq(Addr) /\ OpenRx \in Seq(Addr) /\ tx \in Seq(Addr)
                      /\ nic \in Seq(Addr) /\ cq \in Seq(Addr) /\ umem_frame_addr \in Seq(Addr)
    OBVIOUS
  <1>1. rx \in Seq(Frames) /\ Len(rx) \in Nat
    BY LenProperties DEF TypeOK
  <1>2. done \in 0..Len(rx)
    BY <1>1, Sizes DEF TypeOK, Control
  <1>3. OpenRx \in Seq(Frames) /\ Len(OpenRx) = Len(rx) - done
    BY <1>1, <1>2, Dropped DEF OpenRx
  <1> QED
    BY <1>2, <1>3, FrameQueue DEF TypeOK

(* The places of a frame, one queue at a time. *)
SumOf(f) ==
    Count(fq, {f}) + Count(hw, {f}) + Count(OpenRx, {f}) + Count(tx, {f}) + Count(nic, {f})
    + Count(cq, {f}) + Count(umem_frame_addr, {f})

(* The two ways to count agree ... *)
LEMMA PlacesSum == TypeOK /\ Control => \A f \in Frames : Places(f) = SumOf(f)
  <1> SUFFICES ASSUME TypeOK, Control, NEW f \in Frames PROVE Places(f) = SumOf(f)
    OBVIOUS
  <1>1. /\ fq \in Seq(Addr) /\ hw \in Seq(Addr) /\ OpenRx \in Seq(Addr) /\ tx \in Seq(Addr)
        /\ nic \in Seq(Addr) /\ cq \in Seq(Addr) /\ umem_frame_addr \in Seq(Addr)
    BY Queues
  <1> DEFINE two   == fq \o hw
             three == two \o OpenRx
             four  == three \o tx
             five  == four \o nic
             six   == five \o cq
  <1> HIDE DEF two, three, four, five, six
  <1>2. two \in Seq(Addr) /\ Count(two, {f}) = Count(fq, {f}) + Count(hw, {f})
    BY <1>1, CountConcat, ConcatProperties DEF two
  <1>3. three \in Seq(Addr) /\ Count(three, {f}) = Count(two, {f}) + Count(OpenRx, {f})
    BY <1>1, <1>2, CountConcat, ConcatProperties DEF three
  <1>4. four \in Seq(Addr) /\ Count(four, {f}) = Count(three, {f}) + Count(tx, {f})
    BY <1>1, <1>3, CountConcat, ConcatProperties DEF four
  <1>5. five \in Seq(Addr) /\ Count(five, {f}) = Count(four, {f}) + Count(nic, {f})
    BY <1>1, <1>4, CountConcat, ConcatProperties DEF five
  <1>6. six \in Seq(Addr) /\ Count(six, {f}) = Count(five, {f}) + Count(cq, {f})
    BY <1>1, <1>5, CountConcat, ConcatProperties DEF six
  <1>7. Count(six \o umem_frame_addr, {f}) = Count(six, {f}) + Count(umem_frame_addr, {f})
    BY <1>1, <1>6, CountConcat
  <1>8. Places(f) = Count(six \o umem_frame_addr, {f})
    BY DEF Places, six, five, four, three, two
  <1> QED
    BY <1>2, <1>3, <1>4, <1>5, <1>6, <1>7, <1>8, Zenon DEF SumOf

(* ... also after a step. *)
LEMMA PlacesSumNext == TypeOK' /\ Control' => \A f \in Frames : Places(f)' = SumOf(f)'
  <1>1. (TypeOK /\ Control => \A f \in Frames : Places(f) = SumOf(f))'
    BY PlacesSum, PTL
  <1> QED
    BY <1>1

(* The counts of a frame are natural numbers that add up to at most one. *)
LEMMA FrameCounts ==
    ASSUME XskInv, NEW f \in Frames
    PROVE  /\ SumOf(f) = IF f \in dropped THEN 0 ELSE 1
           /\ Count(fq, {f}) \in Nat /\ Count(hw, {f}) \in Nat /\ Count(OpenRx, {f}) \in Nat
           /\ Count(tx, {f}) \in Nat /\ Count(nic, {f}) \in Nat /\ Count(cq, {f}) \in Nat
           /\ Count(umem_frame_addr, {f}) \in Nat
  <1>1. SumOf(f) = IF f \in dropped THEN 0 ELSE 1
    BY PlacesSum DEF XskInv, FramesConserved
  <1>2. /\ fq \in Seq(Addr) /\ hw \in Seq(Addr) /\ OpenRx \in Seq(Addr) /\ tx \in Seq(Addr)
        /\ nic \in Seq(Addr) /\ cq \in Seq(Addr) /\ umem_frame_addr \in Seq(Addr)
    BY Queues DEF XskInv
  <1>3. \A q \in Seq(Addr) : Count(q, {f}) \in Nat
    BY CountType, Zenon
  <1> QED
    BY <1>1, <1>2, <1>3

(* A frame the driver or the stack holds is in no ring. *)
LEMMA OnlyPlace ==
    ASSUME XskInv, NEW f \in Frames, Count(hw, {f}) # 0 \/ Count(umem_frame_addr, {f}) # 0
    PROVE  Count(OpenRx, {f}) = 0 /\ Count(nic, {f}) = 0 /\ Count(tx, {f}) = 0
  <1>1. /\ Count(fq, {f}) \in Nat /\ Count(hw, {f}) \in Nat /\ Count(OpenRx, {f}) \in Nat
        /\ Count(tx, {f}) \in Nat /\ Count(nic, {f}) \in Nat /\ Count(cq, {f}) \in Nat
        /\ Count(umem_frame_addr, {f}) \in Nat
    BY FrameCounts, Zenon
  <1>2. SumOf(f) = 0 \/ SumOf(f) = 1
    BY FrameCounts
  <1> QED
    BY <1>1, <1>2 DEF SumOf

(* A step that keeps the sums keeps the frames. *)
LEMMA SumsKept ==
    ASSUME XskInv, TypeOK', Control', UNCHANGED dropped, \A f \in Frames : SumOf(f)' = SumOf(f)
    PROVE  FramesConserved'
  <1>1. \A f \in Frames : SumOf(f) = IF f \in dropped THEN 0 ELSE 1
    BY FrameCounts
  <1> QED
    BY <1>1, PlacesSumNext DEF FramesConserved

(* A step that changes neither the transmit side nor memory. *)
LEMMA OutKept ==
    ASSUME XskInv, UNCHANGED <<SERVER, sent, nic, tx, content, handled, dropped, starved, tpc, id>>
    PROVE  ServerOut' /\ ClientOut'
  <1>1. OutLog' = OutLog
    BY DEF OutLog
  <1> QED
    BY <1>1 DEF XskInv, ServerOut, ClientOut

(* A step that changes neither the receive side nor memory. *)
LEMMA InKept ==
    ASSUME XskInv, UNCHANGED <<arrived, handled, content, starved>>, OpenRx' = OpenRx
    PROVE  InOrder'
  BY DEF XskInv, InOrder

(* complete_tx collects completions or leaves them; no frame is lost. *)
LEMMA Completed ==
    ASSUME XskInv, complete_tx
    PROVE  /\ umem_frame_addr' \in Seq(Frames) /\ cq' \in Seq(Frames) /\ outstanding_tx' \in Nat
           /\ ~starved => outstanding_tx' = Len(tx) + Len(nic) + Len(cq')
           /\ \A f \in Frames : Count(cq', {f}) + Count(umem_frame_addr', {f})
                                  = Count(cq, {f}) + Count(umem_frame_addr, {f})
  <1>1. /\ cq \in Seq(Frames) /\ umem_frame_addr \in Seq(Frames) /\ outstanding_tx \in Nat
        /\ ~starved => outstanding_tx = Len(tx) + Len(nic) + Len(cq)
        /\ tx \in Seq(Addr) /\ nic \in Seq(Frames)
    BY DEF XskInv, TypeOK, OutstandingExact
  <1>2. Len(cq) \in Nat /\ Len(tx) \in Nat /\ Len(nic) \in Nat
    BY <1>1, LenProperties
  <1>3. CASE outstanding_tx = 0 /\ UNCHANGED <<cq, umem_frame_addr, outstanding_tx>>
    BY <1>1, <1>3
  <1>4. CASE /\ outstanding_tx > 0
             /\ umem_frame_addr' = umem_frame_addr \o cq
             /\ outstanding_tx' = IF Len(cq) < outstanding_tx THEN outstanding_tx - Len(cq) ELSE 0
             /\ cq' = <<>>
    <2>1. umem_frame_addr' \in Seq(Frames) /\ cq' \in Seq(Frames) /\ Len(cq') = 0
      BY <1>1, <1>4, ConcatProperties
    <2>2. /\ outstanding_tx' = IF Len(cq) < outstanding_tx THEN outstanding_tx - Len(cq) ELSE 0
          /\ outstanding_tx \in Nat /\ outstanding_tx' \in Nat
      BY <1>1, <1>2, <1>4
    <2>5. ASSUME ~starved PROVE outstanding_tx' = Len(tx) + Len(nic) + Len(cq')
      <3>1. outstanding_tx = Len(tx) + Len(nic) + Len(cq)
        BY <1>1, <2>5
      <3> QED
        BY <1>2, <2>1, <2>2, <3>1
    <2>3. ASSUME NEW f \in Frames
          PROVE  Count(cq', {f}) + Count(umem_frame_addr', {f}) = Count(cq, {f}) + Count(umem_frame_addr, {f})
      <3>1. Count(umem_frame_addr \o cq, {f}) = Count(umem_frame_addr, {f}) + Count(cq, {f})
        BY <1>1, CountConcat
      <3>2. Count(cq', {f}) = 0
        BY <1>4, CountEmpty, Zenon
      <3>3. Count(umem_frame_addr, {f}) \in Nat /\ Count(cq, {f}) \in Nat
        BY <1>1, CountType, Zenon
      <3> QED
        BY <1>4, <3>1, <3>2, <3>3
    <2> QED
      BY <2>1, <2>2, <2>3, <2>5
  <1> QED
    BY <1>3, <1>4 DEF complete_tx

-----------------------------------------------------------------------------
(* Steps of the kernel. *)

(* A frame of the fill ring goes to the driver. *)
LEMMA StepKernelFill == XskInv /\ KernelFill => XskInv'
  <1> SUFFICES ASSUME XskInv, KernelFill PROVE XskInv'
    OBVIOUS
  <1>1. TypeOK /\ Control /\ hw \in Seq(Frames) /\ hw \in Seq(Addr) /\ fq \in Seq(Addr) /\ fq # <<>>
    BY Queues DEF XskInv, TypeOK, KernelFill
  <1>2. Head(fq) \in Addr /\ Tail(fq) \in Seq(Addr)
    BY <1>1, HeadTailProperties
  <1>3. hw' \in Seq(Frames) /\ fq' \in Seq(Addr)
    BY <1>1, <1>2, AppendProperties DEF KernelFill
  <1>4. TypeOK'
    BY <1>1, <1>3 DEF TypeOK, KernelFill, mainVars, senderVars
  <1>5. Control'
    BY <1>1 DEF Control, KernelFill, mainVars, senderVars
  <1>6. OpenRx' = OpenRx
    BY DEF OpenRx, KernelFill, mainVars
  <1>7. ASSUME NEW f \in Frames PROVE SumOf(f)' = SumOf(f)
    <2>1. /\ Count(Tail(fq), {f}) + Count(Append(hw, Head(fq)), {f}) = Count(fq, {f}) + Count(hw, {f})
          /\ Head(fq) # f => Count(Tail(fq), {f}) = Count(fq, {f})
      BY <1>1, MoveHead, Zenon
    <2>2. Count(fq', {f}) + Count(hw', {f}) = Count(fq, {f}) + Count(hw, {f})
      BY <2>1 DEF KernelFill
    <2>3. /\ Count(OpenRx', {f}) = Count(OpenRx, {f}) /\ Count(tx', {f}) = Count(tx, {f})
          /\ Count(nic', {f}) = Count(nic, {f}) /\ Count(cq', {f}) = Count(cq, {f})
          /\ Count(umem_frame_addr', {f}) = Count(umem_frame_addr, {f})
      BY <1>6 DEF KernelFill
    <2> QED
      BY <2>2, <2>3 DEF SumOf
  <1>8. FramesConserved'
    BY <1>4, <1>5, <1>7, SumsKept DEF KernelFill, mainVars
  <1>9. OutstandingExact'
    BY DEF XskInv, OutstandingExact, KernelFill, senderVars
  <1>10. InOrder'
    BY <1>6, InKept DEF KernelFill, mainVars, senderVars
  <1>11. ServerOut' /\ ClientOut'
    BY OutKept DEF KernelFill, mainVars, senderVars
  <1> QED
    BY <1>4, <1>5, <1>8, <1>9, <1>10, <1>11 DEF XskInv

(* A packet arrives in a frame that no other queue holds. *)
LEMMA StepKernelReceive == XskInv /\ KernelReceive => XskInv'
  <1> SUFFICES ASSUME XskInv, KernelReceive PROVE XskInv'
    OBVIOUS
  <1> DEFINE h == Head(hw)
  <1>1. /\ TypeOK /\ Control /\ hw \in Seq(Frames) /\ hw \in Seq(Addr) /\ hw # <<>> /\ rx \in Seq(Frames)
        /\ OpenRx \in Seq(Frames) /\ OpenRx \in Seq(Addr) /\ done \in 0..Len(rx) /\ nic \in Seq(Frames)
    BY Queues DEF XskInv, TypeOK, KernelReceive
  <1>2. h \in Frames /\ Tail(hw) \in Seq(Frames)
    BY <1>1, HeadTailProperties
  <1>3. PICK p \in net : /\ net' = net \ {p}
                         /\ content' = [content EXCEPT ![h] = p]
                         /\ arrived' = Append(arrived, p)
    BY DEF KernelReceive
  <1>4. /\ rx' = Append(rx, h) /\ hw' = Tail(hw)
        /\ UNCHANGED <<SERVER, nic, sent, fq, tx, cq, umem_frame_addr, outstanding_tx, lock>>
        /\ UNCHANGED <<mpc, rcvd, done, handled, dropped, global_exit, tpc, id, starved>>
    BY DEF KernelReceive, mainVars, senderVars
  <1>5. p \in 1..Iters /\ p \in 0..Iters /\ content \in [Frames -> 0..Iters]
    BY <1>1, Sizes DEF TypeOK, Control
  <1> HIDE DEF h
  <1>6. /\ rx' \in Seq(Frames) /\ Len(rx') = Len(rx) + 1 /\ Len(rx) \in Nat
    BY <1>1, <1>2, <1>4, AppendProperties, LenProperties
  <1>7. arrived' \in Seq(0..Iters) /\ arrived' \in Seq(1..Iters)
    BY <1>1, <1>3, <1>5, AppendProperties DEF TypeOK, Control
  <1>8. TypeOK'
    <2>1. net' \subseteq 0..Iters /\ content' \in [Frames -> 0..Iters]
      BY <1>1, <1>2, <1>3, <1>5 DEF TypeOK
    <2> QED
      BY <1>1, <1>2, <1>4, <1>6, <1>7, <2>1 DEF TypeOK
  <1>9. Control'
    <2>1. net' \subseteq 1..Iters
      BY <1>1, <1>3 DEF Control
    <2>2. rcvd' <= Len(rx')
      BY <1>1, <1>4, <1>6, Sizes DEF TypeOK, Control
    <2> QED
      BY <1>1, <1>4, <1>7, <2>1, <2>2 DEF Control
  <1>10. OpenRx' = Append(OpenRx, h)
    <2>1. rx \in Seq(Frames) /\ done \in 0..Len(rx)
      BY <1>1
    <2>2. After(Append(rx, h), done) = Append(After(rx, done), h)
      BY <1>2, <2>1, AfterAppend, Zenon
    <2>3. OpenRx' = After(Append(rx, h), done) /\ OpenRx = After(rx, done)
      BY <1>4 DEF OpenRx, After
    <2> QED
      BY <2>2, <2>3, Zenon
  <1>11. ASSUME NEW f \in Frames PROVE SumOf(f)' = SumOf(f)
    <2>1. Count(Tail(hw), {f}) + Count(Append(OpenRx, h), {f}) = Count(hw, {f}) + Count(OpenRx, {f})
      BY <1>1, MoveHead, Zenon DEF h
    <2>2. /\ Count(fq, {f}) \in Nat /\ Count(hw, {f}) \in Nat /\ Count(OpenRx, {f}) \in Nat
          /\ Count(Tail(hw), {f}) \in Nat /\ Count(Append(OpenRx, h), {f}) \in Nat
      BY <1>1, MoveHead, FrameCounts, Zenon DEF h
    <2>3. /\ Count(hw', {f}) = Count(Tail(hw), {f}) /\ Count(OpenRx', {f}) = Count(Append(OpenRx, h), {f})
          /\ Count(tx', {f}) = Count(tx, {f})
          /\ Count(nic', {f}) = Count(nic, {f}) /\ Count(cq', {f}) = Count(cq, {f})
          /\ Count(umem_frame_addr', {f}) = Count(umem_frame_addr, {f}) /\ Count(fq', {f}) = Count(fq, {f})
      BY <1>4, <1>10
    <2>4. Count(fq', {f}) + Count(hw', {f}) + Count(OpenRx', {f})
             = Count(fq, {f}) + Count(hw, {f}) + Count(OpenRx, {f})
      BY <2>1, <2>2, <2>3
    <2> QED
      BY <2>3, <2>4 DEF SumOf
  <1>12. FramesConserved'
    BY <1>4, <1>8, <1>9, <1>11, SumsKept
  <1>13. OutstandingExact'
    BY <1>4 DEF XskInv, OutstandingExact
  <1>14. Count(OpenRx, {h}) = 0 /\ Count(nic, {h}) = 0 /\ Count(tx, {h}) = 0
    <2>1. Count(hw, {h}) = Count(Tail(hw), {h}) + 1 /\ Count(Tail(hw), {h}) \in Nat
      BY <1>1, <1>2, MoveHead, Zenon DEF h
    <2>2. Count(hw, {h}) # 0
      BY <2>1
    <2> QED
      BY <1>2, <2>2, OnlyPlace
  <1>15. InOrder'
    <2> SUFFICES ASSUME ~starved PROVE arrived' = handled' \o Contents(content', OpenRx')
      BY <1>4 DEF InOrder
    <2> DEFINE u == Contents(content, OpenRx)
    <2>1. Contents(content', OpenRx) = u
      BY <1>1, <1>2, <1>3, <1>5, <1>14, ContentsWrite
    <2>2. content' \in [Frames -> 0..Iters] /\ content'[h] = p
      BY <1>2, <1>3, <1>5
    <2>3. Contents(content', OpenRx') = Append(u, p)
      BY <1>1, <1>2, <1>10, <2>1, <2>2, ContentsAppend
    <2>4. u \in Seq(0..Iters) /\ handled \in Seq(0..Iters) /\ arrived = handled \o u
      BY <1>1, <1>5, ContentsType DEF TypeOK, XskInv, InOrder
    <2> HIDE DEF u
    <2>5. handled \o Append(u, p) = Append(handled \o u, p)
      BY <1>5, <2>4, ShiftLog
    <2> QED
      BY <1>3, <1>4, <2>3, <2>4, <2>5
  <1>16. ~starved => OutLog' = OutLog
    <2> SUFFICES ASSUME ~starved PROVE OutLog' = OutLog
      OBVIOUS
    <2>1. tx \in Seq(Frames) /\ nic \o tx \in Seq(Frames)
      BY <1>1, ConcatProperties DEF Control
    <2>2. Count(nic \o tx, {h}) = Count(nic, {h}) + Count(tx, {h})
      BY <1>1, <2>1, CountConcat, Zenon
    <2>3. Contents(content', nic \o tx) = Contents(content, nic \o tx)
      <3>1. Count(nic \o tx, {h}) = 0
        BY <1>14, <2>2
      <3> QED
        BY <1>2, <1>3, <1>5, <2>1, <3>1, ContentsWrite
    <2> QED
      BY <1>4, <2>3 DEF OutLog
  <1>17. ServerOut' /\ ClientOut'
    BY <1>1, <1>4, <1>16 DEF XskInv, ServerOut, ClientOut, Control
  <1> QED
    BY <1>8, <1>9, <1>12, <1>13, <1>15, <1>17 DEF XskInv

(* A descriptor of the transmit ring goes to the driver. *)
LEMMA StepKernelTransmit == XskInv /\ KernelTransmit => XskInv'
  <1> SUFFICES ASSUME XskInv, KernelTransmit PROVE XskInv'
    OBVIOUS
  <1>1. /\ TypeOK /\ Control /\ nic \in Seq(Frames) /\ nic \in Seq(Addr) /\ tx \in Seq(Addr) /\ tx # <<>>
        /\ cq \in Seq(Frames)
    BY Queues DEF XskInv, TypeOK, KernelTransmit
  <1>2. Head(tx) \in Addr /\ Tail(tx) \in Seq(Addr) /\ (~starved => Head(tx) \in Frames /\ Tail(tx) \in Seq(Frames))
    BY <1>1, HeadTailProperties DEF Control
  <1>3. /\ nic' = (IF Head(tx) \in Frames THEN Append(nic, Head(tx)) ELSE nic) /\ tx' = Tail(tx)
        /\ UNCHANGED <<SERVER, net, hw, arrived, sent, fq, rx, cq, umem_frame_addr>>
        /\ UNCHANGED <<outstanding_tx, content, lock, mpc, rcvd, done, handled, dropped>>
        /\ UNCHANGED <<global_exit, tpc, id, starved>>
    BY DEF KernelTransmit, mainVars, senderVars
  <1>4. nic' \in Seq(Frames) /\ tx' \in Seq(Addr)
    BY <1>1, <1>2, <1>3, AppendProperties
  <1>5. TypeOK'
    BY <1>1, <1>3, <1>4 DEF TypeOK
  <1>6. Control'
    BY <1>1, <1>2, <1>3 DEF Control
  <1>7. OpenRx' = OpenRx
    BY <1>3 DEF OpenRx
  <1>8. ASSUME NEW f \in Frames PROVE SumOf(f)' = SumOf(f)
    <2>1. /\ Count(Tail(tx), {f}) + Count(Append(nic, Head(tx)), {f}) = Count(tx, {f}) + Count(nic, {f})
          /\ Head(tx) # f => Count(Tail(tx), {f}) = Count(tx, {f})
      BY <1>1, MoveHead, Zenon
    <2>2. Count(tx', {f}) + Count(nic', {f}) = Count(tx, {f}) + Count(nic, {f})
      BY <1>3, <2>1
    <2>3. /\ Count(OpenRx', {f}) = Count(OpenRx, {f}) /\ Count(fq', {f}) = Count(fq, {f})
          /\ Count(hw', {f}) = Count(hw, {f}) /\ Count(cq', {f}) = Count(cq, {f})
          /\ Count(umem_frame_addr', {f}) = Count(umem_frame_addr, {f})
      BY <1>3, <1>7
    <2>4. /\ Count(tx, {f}) \in Nat /\ Count(nic, {f}) \in Nat /\ Count(Tail(tx), {f}) \in Nat
          /\ Count(nic', {f}) \in Nat /\ Count(tx', {f}) \in Nat
      BY <1>1, <1>3, <1>4, CountType, Zenon
    <2>5. /\ Count(fq, {f}) \in Nat /\ Count(hw, {f}) \in Nat /\ Count(OpenRx, {f}) \in Nat
          /\ Count(cq, {f}) \in Nat /\ Count(umem_frame_addr, {f}) \in Nat
      BY FrameCounts, Zenon
    <2> QED
      BY <2>2, <2>3, <2>4, <2>5 DEF SumOf
  <1>9. FramesConserved'
    BY <1>3, <1>5, <1>6, <1>8, SumsKept
  <1>10. OutstandingExact'
    <2> SUFFICES ASSUME ~starved PROVE outstanding_tx' = Len(tx') + Len(nic') + Len(cq')
      BY <1>3 DEF OutstandingExact
    <2>1. outstanding_tx = Len(tx) + Len(nic) + Len(cq)
      BY DEF XskInv, OutstandingExact
    <2>2. Len(tx) \in Nat /\ Len(nic) \in Nat /\ Len(cq) \in Nat /\ Len(tx') = Len(tx) - 1
      BY <1>1, <1>3, LenProperties, HeadTailProperties
    <2>3. Len(nic') = Len(nic) + 1
      BY <1>1, <1>2, <1>3, AppendProperties
    <2>4. Len(cq') = Len(cq) /\ outstanding_tx' = outstanding_tx
      BY <1>3
    <2> QED
      BY <2>1, <2>2, <2>3, <2>4
  <1>11. InOrder'
    BY <1>3, <1>7, InKept
  <1>12. ~starved => OutLog' = OutLog
    <2> SUFFICES ASSUME ~starved PROVE OutLog' = OutLog
      OBVIOUS
    <2>1. tx \in Seq(Frames)
      BY <1>1 DEF Control
    <2>2. Append(nic, Head(tx)) \o Tail(tx) = nic \o tx
      BY <1>1, <2>1, ShiftLog
    <2>3. nic' \o tx' = nic \o tx
      BY <1>2, <1>3, <2>2
    <2> QED
      BY <1>3, <2>3 DEF OutLog
  <1>13. ServerOut' /\ ClientOut'
    BY <1>1, <1>3, <1>12 DEF XskInv, ServerOut, ClientOut, Control
  <1> QED
    BY <1>5, <1>6, <1>9, <1>10, <1>11, <1>13 DEF XskInv

(* A packet is on the wire. *)
LEMMA StepKernelComplete == XskInv /\ KernelComplete => XskInv'
  <1> SUFFICES ASSUME XskInv, KernelComplete PROVE XskInv'
    OBVIOUS
  <1> DEFINE h == Head(nic)
  <1>1. /\ TypeOK /\ Control /\ nic \in Seq(Frames) /\ nic \in Seq(Addr) /\ nic # <<>> /\ tx \in Seq(Addr)
        /\ cq \in Seq(Frames) /\ cq \in Seq(Addr) /\ content \in [Frames -> 0..Iters] /\ sent \in Seq(0..Iters)
    BY Queues DEF XskInv, TypeOK, KernelComplete
  <1>2. h \in Frames /\ Tail(nic) \in Seq(Frames)
    BY <1>1, HeadTailProperties
  <1>3. /\ sent' = Append(sent, content[h]) /\ cq' = Append(cq, h) /\ nic' = Tail(nic)
        /\ net' = IF SERVER THEN net ELSE net \cup ({content[h]} \ {0})
        /\ UNCHANGED <<SERVER, hw, arrived, fq, rx, tx, umem_frame_addr, outstanding_tx>>
        /\ UNCHANGED <<content, lock, mpc, rcvd, done, handled, dropped>>
        /\ UNCHANGED <<global_exit, tpc, id, starved>>
    BY DEF KernelComplete, mainVars, senderVars
  <1> HIDE DEF h
  <1>4. content[h] \in 0..Iters
    BY <1>1, <1>2
  <1>5. cq' \in Seq(Frames) /\ sent' \in Seq(0..Iters)
    BY <1>1, <1>2, <1>3, <1>4, AppendProperties
  <1>6. net' \subseteq 1..Iters /\ net' \subseteq 0..Iters
    <2>1. \A x \in 0..Iters : x # 0 => x \in 1..Iters
      BY Sizes
    <2> QED
      BY <1>1, <1>3, <1>4, <2>1 DEF Control, TypeOK
  <1>7. TypeOK'
    BY <1>1, <1>2, <1>3, <1>5, <1>6 DEF TypeOK
  <1>8. Control'
    BY <1>1, <1>3, <1>6 DEF Control
  <1>9. OpenRx' = OpenRx
    BY <1>3 DEF OpenRx
  <1>10. ASSUME NEW f \in Frames PROVE SumOf(f)' = SumOf(f)
    <2>1. Count(Tail(nic), {f}) + Count(Append(cq, h), {f}) = Count(nic, {f}) + Count(cq, {f})
      BY <1>1, MoveHead, Zenon DEF h
    <2>2. /\ Count(nic, {f}) \in Nat /\ Count(cq, {f}) \in Nat
          /\ Count(Tail(nic), {f}) \in Nat /\ Count(Append(cq, h), {f}) \in Nat
      BY <1>1, MoveHead, Zenon DEF h
    <2>3. /\ Count(OpenRx', {f}) = Count(OpenRx, {f}) /\ Count(fq', {f}) = Count(fq, {f})
          /\ Count(hw', {f}) = Count(hw, {f}) /\ Count(tx', {f}) = Count(tx, {f})
          /\ Count(umem_frame_addr', {f}) = Count(umem_frame_addr, {f})
          /\ Count(nic', {f}) = Count(Tail(nic), {f}) /\ Count(cq', {f}) = Count(Append(cq, h), {f})
      BY <1>3, <1>9
    <2>4. /\ Count(fq, {f}) \in Nat /\ Count(hw, {f}) \in Nat /\ Count(OpenRx, {f}) \in Nat
          /\ Count(tx, {f}) \in Nat /\ Count(umem_frame_addr, {f}) \in Nat
      BY FrameCounts, Zenon
    <2> QED
      BY <2>1, <2>2, <2>3, <2>4 DEF SumOf
  <1>11. FramesConserved'
    BY <1>3, <1>7, <1>8, <1>10, SumsKept
  <1>12. OutstandingExact'
    <2> SUFFICES ASSUME ~starved PROVE outstanding_tx' = Len(tx') + Len(nic') + Len(cq')
      BY <1>3 DEF OutstandingExact
    <2>1. outstanding_tx = Len(tx) + Len(nic) + Len(cq)
      BY DEF XskInv, OutstandingExact
    <2>2. Len(tx) \in Nat /\ Len(nic) \in Nat /\ Len(cq) \in Nat /\ Len(nic') = Len(nic) - 1
      BY <1>1, <1>3, LenProperties, HeadTailProperties
    <2>3. Len(cq') = Len(cq) + 1
      BY <1>1, <1>2, <1>3, AppendProperties
    <2>4. Len(tx') = Len(tx) /\ outstanding_tx' = outstanding_tx
      BY <1>3
    <2> QED
      BY <2>1, <2>2, <2>3, <2>4
  <1>13. InOrder'
    BY <1>3, <1>9, InKept
  <1>14. ~starved => OutLog' = OutLog
    <2> SUFFICES ASSUME ~starved PROVE OutLog' = OutLog
      OBVIOUS
    <2> DEFINE q == nic \o tx
               u == Contents(content, q)
    <2>1. tx \in Seq(Frames)
      BY <1>1 DEF Control
    <2>2. q \in Seq(Frames) /\ q # <<>> /\ Head(q) = h /\ Tail(q) = Tail(nic) \o tx
      <3>1. nic \in Seq(Frames) /\ nic # <<>>
        BY <1>1
      <3> QED
        BY <2>1, <3>1, SMTT(30) DEF h
    <2>3. u # <<>> /\ Head(u) = content[h] /\ Tail(u) = Contents(content, Tail(nic) \o tx) /\ u \in Seq(0..Iters)
      BY <1>1, <2>2, ContentsTail, ContentsType
    <2> HIDE DEF q, u
    <2>4. Append(sent, Head(u)) \o Tail(u) = sent \o u
      BY <1>1, <2>3, ShiftLog
    <2>5. OutLog' = Append(sent, content[h]) \o Contents(content, Tail(nic) \o tx)
      BY <1>3 DEF OutLog
    <2> QED
      BY <2>3, <2>4, <2>5 DEF OutLog, q, u
  <1>15. ServerOut' /\ ClientOut'
    BY <1>1, <1>3, <1>14 DEF XskInv, ServerOut, ClientOut, Control
  <1> QED
    BY <1>7, <1>8, <1>11, <1>12, <1>13, <1>15 DEF XskInv

-----------------------------------------------------------------------------
(* Steps of the main thread. *)

(* A batch begins. *)
LEMMA StepPeek == XskInv /\ Peek => XskInv'
  <1> SUFFICES ASSUME XskInv, Peek PROVE XskInv'
    OBVIOUS
  <1>1. TypeOK /\ Control /\ rx \in Seq(Frames) /\ Len(rx) \in Nat /\ done = 0
    BY LenProperties DEF XskInv, TypeOK, Control, Peek
  <1>2. /\ rcvd' = (IF Len(rx) < RX_BATCH_SIZE THEN Len(rx) ELSE RX_BATCH_SIZE)
        /\ done' = 0 /\ mpc' = "restock"
        /\ UNCHANGED <<SERVER, net, hw, nic, arrived, sent, fq, rx, tx, cq, umem_frame_addr>>
        /\ UNCHANGED <<outstanding_tx, content, lock, handled, dropped, global_exit, tpc, id, starved>>
    BY DEF Peek, kernelVars, senderVars
  <1>3. rcvd' \in 0..RX_BATCH_SIZE /\ rcvd' <= Len(rx) /\ done' \in 0..rcvd'
    BY <1>1, <1>2, Sizes
  <1>4. TypeOK'
    BY <1>1, <1>2, <1>3 DEF TypeOK
  <1>5. Control'
    BY <1>1, <1>2, <1>3 DEF Control
  <1>6. OpenRx' = OpenRx
    BY <1>1, <1>2 DEF OpenRx
  <1>7. \A f \in Frames : SumOf(f)' = SumOf(f)
    BY <1>2, <1>6 DEF SumOf
  <1>8. FramesConserved'
    BY <1>2, <1>4, <1>5, <1>7, SumsKept
  <1>9. OutstandingExact'
    BY <1>2 DEF XskInv, OutstandingExact
  <1>10. InOrder'
    BY <1>2, <1>6, InKept
  <1>11. ServerOut' /\ ClientOut'
    BY <1>2, OutKept
  <1> QED
    BY <1>4, <1>5, <1>8, <1>9, <1>10, <1>11 DEF XskInv

(* Free frames go to the fill ring. *)
LEMMA StepRestock == XskInv /\ Restock => XskInv'
  <1> SUFFICES ASSUME XskInv, Restock PROVE XskInv'
    OBVIOUS
  <1>1. /\ TypeOK /\ Control /\ umem_frame_addr \in Seq(Frames) /\ fq \in Seq(Addr) /\ Len(fq) \in Nat
        /\ done = 0
    BY LenProperties DEF XskInv, TypeOK, Control, Restock
  <1>2. PICK n \in 0..(RING_SIZE - Len(fq)) :
          /\ fq' = fq \o AllocN(umem_frame_addr, n)
          /\ umem_frame_addr' = AfterAllocN(umem_frame_addr, n)
    BY DEF Restock
  <1>3. /\ lock' = (IF SERVER THEN lock ELSE "main") /\ mpc' = "process"
        /\ UNCHANGED <<SERVER, net, hw, nic, arrived, sent, rx, tx, cq, outstanding_tx, content>>
        /\ UNCHANGED <<rcvd, done, handled, dropped, global_exit, tpc, id, starved>>
    BY DEF Restock, kernelVars, senderVars
  <1>4. n \in Nat
    BY <1>1, Sizes
  <1> DEFINE r == AllocN(umem_frame_addr, n)
             t == AfterAllocN(umem_frame_addr, n)
  <1>5. /\ r \in Seq(Addr) /\ t \in Seq(Frames)
        /\ \A f \in Frames : Count(r, {f}) + Count(t, {f}) = Count(umem_frame_addr, {f})
    BY <1>1, <1>4, Alloc
  <1> HIDE DEF r, t
  <1>6. fq' = fq \o r /\ umem_frame_addr' = t
    BY <1>2 DEF r, t
  <1>7. fq' \in Seq(Addr)
    BY <1>1, <1>5, <1>6, ConcatProperties
  <1>8. TypeOK'
    BY <1>1, <1>3, <1>5, <1>6, <1>7 DEF TypeOK
  <1>9. Control'
    BY <1>1, <1>3 DEF Control
  <1>10. OpenRx' = OpenRx
    BY <1>3 DEF OpenRx
  <1>11. ASSUME NEW f \in Frames PROVE SumOf(f)' = SumOf(f)
    <2>1. Count(fq \o r, {f}) = Count(fq, {f}) + Count(r, {f})
      BY <1>1, <1>5, CountConcat
    <2>2. Count(r, {f}) + Count(t, {f}) = Count(umem_frame_addr, {f})
      BY <1>5
    <2>3. Count(r, {f}) \in Nat /\ Count(t, {f}) \in Nat
      BY <1>5, CountType, Zenon
    <2>4. /\ Count(fq, {f}) \in Nat /\ Count(hw, {f}) \in Nat /\ Count(OpenRx, {f}) \in Nat
          /\ Count(tx, {f}) \in Nat /\ Count(nic, {f}) \in Nat /\ Count(cq, {f}) \in Nat
      BY FrameCounts, Zenon
    <2>5. /\ Count(OpenRx', {f}) = Count(OpenRx, {f}) /\ Count(fq', {f}) = Count(fq \o r, {f})
          /\ Count(hw', {f}) = Count(hw, {f}) /\ Count(tx', {f}) = Count(tx, {f})
          /\ Count(nic', {f}) = Count(nic, {f}) /\ Count(cq', {f}) = Count(cq, {f})
          /\ Count(umem_frame_addr', {f}) = Count(t, {f})
      BY <1>3, <1>6, <1>10
    <2> QED
      BY <2>1, <2>2, <2>3, <2>4, <2>5, SMTT(60) DEF SumOf
  <1>12. FramesConserved'
    BY <1>3, <1>8, <1>9, <1>11, SumsKept
  <1>13. OutstandingExact'
    BY <1>3 DEF XskInv, OutstandingExact
  <1>14. InOrder'
    BY <1>3, <1>10, InKept
  <1>15. ServerOut' /\ ClientOut'
    BY <1>3, OutKept
  <1> QED
    BY <1>8, <1>9, <1>12, <1>13, <1>14, <1>15 DEF XskInv

(* The next packet of the batch is the head of the open part of the ring,  *)
(* and a pingpong packet unless the sender has spoiled a frame.            *)
LEMMA NextPacket ==
    ASSUME XskInv, done < rcvd
    PROVE  /\ OpenRx \in Seq(Frames) /\ OpenRx # <<>> /\ rx[done + 1] \in Frames
           /\ rx[done + 1] = Head(OpenRx)
           /\ SubSeq(rx, (done + 1) + 1, Len(rx)) = Tail(OpenRx)
           /\ done + 1 \in 0..rcvd
           /\ ~starved => content[rx[done + 1]] # 0
  <1>1. /\ TypeOK /\ Control /\ rx \in Seq(Frames) /\ Len(rx) \in Nat /\ done \in 0..Len(rx)
        /\ OpenRx \in Seq(Frames) /\ content \in [Frames -> 0..Iters]
    BY Queues, LenProperties DEF XskInv, TypeOK
  <1>2. done < Len(rx) /\ done + 1 \in 0..rcvd
    BY <1>1, Sizes DEF TypeOK, Control
  <1>3. /\ rx[done + 1] \in Frames /\ OpenRx # <<>> /\ Head(OpenRx) = rx[done + 1]
        /\ Tail(OpenRx) = SubSeq(rx, (done + 1) + 1, Len(rx))
    <2>1. rx \in Seq(Frames) /\ done \in 0..Len(rx) /\ done < Len(rx)
      BY <1>1, <1>2
    <2>2. /\ rx[done + 1] \in Frames /\ After(rx, done) # <<>>
          /\ Head(After(rx, done)) = rx[done + 1] /\ Tail(After(rx, done)) = After(rx, done + 1)
      BY <2>1, AfterHead, Zenon
    <2> QED
      BY <2>2 DEF OpenRx, After
  <1>4. ASSUME ~starved PROVE content[rx[done + 1]] # 0
    <2> DEFINE u == Contents(content, OpenRx)
    <2>1. u \in Seq(0..Iters) /\ u # <<>> /\ Head(u) = content[rx[done + 1]]
      BY <1>1, <1>3, ContentsTail, ContentsType
    <2>2. arrived = handled \o u /\ handled \in Seq(0..Iters) /\ arrived \in Seq(1..Iters)
      BY <1>1, <1>4 DEF XskInv, InOrder, TypeOK, Control
    <2> HIDE DEF u
    <2>3. Len(handled) \in Nat /\ Len(u) \in Nat /\ Len(u) > 0 /\ Len(arrived) = Len(handled) + Len(u)
      BY <2>1, <2>2, LenProperties, ConcatProperties, EmptySeq
    <2>4. arrived[Len(handled) + 1] = Head(u)
      BY <2>1, <2>2, <2>3
    <2>5. Len(handled) + 1 \in 1..Len(arrived)
      BY <2>3
    <2>6. arrived[Len(handled) + 1] \in 1..Iters
      BY <2>2, <2>5, ElementOfSeq
    <2> QED
      BY <2>1, <2>4, <2>6, Sizes
  <1> QED
    BY <1>1, <1>2, <1>3, <1>4

(* A frame that was spoiled is freed. *)
LEMMA StepProcessRejects == XskInv /\ ProcessRejects => XskInv'
  <1> SUFFICES ASSUME XskInv, ProcessRejects PROVE XskInv'
    OBVIOUS
  <1> DEFINE h == rx[done + 1]
  <1>1. /\ OpenRx \in Seq(Frames) /\ OpenRx # <<>> /\ h \in Frames /\ h = Head(OpenRx)
        /\ SubSeq(rx, (done + 1) + 1, Len(rx)) = Tail(OpenRx) /\ done + 1 \in 0..rcvd
        /\ starved
    BY NextPacket DEF ProcessRejects, XskInv, TypeOK
  <1>2. /\ TypeOK /\ Control /\ umem_frame_addr \in Seq(Frames) /\ umem_frame_addr \in Seq(Addr)
        /\ OpenRx \in Seq(Addr)
    BY Queues DEF XskInv, TypeOK
  <1>3. /\ umem_frame_addr' = Append(umem_frame_addr, h) /\ done' = done + 1 /\ mpc = "process"
        /\ UNCHANGED <<SERVER, net, hw, nic, arrived, sent, fq, rx, tx, cq, outstanding_tx>>
        /\ UNCHANGED <<content, lock, mpc, rcvd, handled, dropped, global_exit, tpc, id, starved>>
    BY DEF ProcessRejects, kernelVars, senderVars
  <1> HIDE DEF h
  <1>4. umem_frame_addr' \in Seq(Frames)
    BY <1>1, <1>2, <1>3, AppendProperties
  <1>5. TypeOK'
    BY <1>1, <1>2, <1>3, <1>4 DEF TypeOK
  <1>6. Control'
    BY <1>2, <1>3 DEF Control
  <1>7. OpenRx' = Tail(OpenRx)
    BY <1>1, <1>3 DEF OpenRx
  <1>8. ASSUME NEW f \in Frames PROVE SumOf(f)' = SumOf(f)
    <2>1. /\ Count(Tail(OpenRx), {f}) + Count(Append(umem_frame_addr, h), {f})
               = Count(OpenRx, {f}) + Count(umem_frame_addr, {f})
          /\ Count(OpenRx, {f}) \in Nat /\ Count(umem_frame_addr, {f}) \in Nat
          /\ Count(Tail(OpenRx), {f}) \in Nat /\ Count(Append(umem_frame_addr, h), {f}) \in Nat
      BY <1>1, <1>2, MoveHead, Zenon
    <2>2. /\ Count(fq, {f}) \in Nat /\ Count(hw, {f}) \in Nat
          /\ Count(tx, {f}) \in Nat /\ Count(nic, {f}) \in Nat /\ Count(cq, {f}) \in Nat
      BY FrameCounts, Zenon
    <2>3. /\ Count(OpenRx', {f}) = Count(Tail(OpenRx), {f}) /\ Count(fq', {f}) = Count(fq, {f})
          /\ Count(hw', {f}) = Count(hw, {f}) /\ Count(tx', {f}) = Count(tx, {f})
          /\ Count(nic', {f}) = Count(nic, {f}) /\ Count(cq', {f}) = Count(cq, {f})
          /\ Count(umem_frame_addr', {f}) = Count(Append(umem_frame_addr, h), {f})
      BY <1>3, <1>7
    <2> QED
      BY <2>1, <2>2, <2>3 DEF SumOf
  <1>9. FramesConserved'
    BY <1>3, <1>5, <1>6, <1>8, SumsKept
  <1>10. OutstandingExact' /\ InOrder' /\ ServerOut' /\ ClientOut'
    BY <1>1, <1>2, <1>3 DEF OutstandingExact, InOrder, ServerOut, ClientOut, Control
  <1> QED
    BY <1>5, <1>6, <1>9, <1>10 DEF XskInv

(* Batch and memory are left alone: the released part of the ring is the   *)
(* processed one.                                                          *)
LEMMA StepRelease == XskInv /\ Release => XskInv'
  <1> SUFFICES ASSUME XskInv, Release PROVE XskInv'
    OBVIOUS
  <1>1. /\ TypeOK /\ Control /\ rx \in Seq(Frames) /\ OpenRx \in Seq(Frames) /\ done = rcvd
        /\ Len(OpenRx) \in Nat
    BY Queues, LenProperties DEF XskInv, TypeOK, Release
  <1>2. /\ rx' = OpenRx /\ lock' = (IF SERVER THEN lock ELSE "free") /\ mpc' = "peek" /\ rcvd' = 0 /\ done' = 0
        /\ UNCHANGED <<SERVER, net, hw, nic, arrived, sent, fq, tx, content>>
        /\ UNCHANGED <<handled, dropped, global_exit, tpc, id, starved>>
    BY <1>1 DEF Release, kernelVars, senderVars, OpenRx
  <1>3. /\ umem_frame_addr' \in Seq(Frames) /\ cq' \in Seq(Frames) /\ outstanding_tx' \in Nat
        /\ ~starved => outstanding_tx' = Len(tx) + Len(nic) + Len(cq')
        /\ \A f \in Frames : Count(cq', {f}) + Count(umem_frame_addr', {f})
                               = Count(cq, {f}) + Count(umem_frame_addr, {f})
    BY Completed DEF Release
  <1>4. TypeOK'
    <2>1. rcvd' \in 0..RX_BATCH_SIZE /\ done' \in 0..rcvd' /\ lock' \in {"free", "main", "sender"}
      BY <1>1, <1>2, Sizes DEF TypeOK
    <2>2. rx' \in Seq(Frames) /\ mpc' \in {"peek", "restock", "process", "exit"}
      BY <1>1, <1>2
    <2> QED
      BY <1>1, <1>2, <1>3, <2>1, <2>2 DEF TypeOK
  <1>5. Control'
    BY <1>1, <1>2 DEF Control
  <1>6. OpenRx' = OpenRx
    <2>1. OpenRx' = SubSeq(OpenRx, 1, Len(OpenRx))
      BY <1>2 DEF OpenRx
    <2> QED
      BY <1>1, <2>1, SubSeqFull
  <1>7. ASSUME NEW f \in Frames PROVE SumOf(f)' = SumOf(f)
    <2>1. Count(cq', {f}) + Count(umem_frame_addr', {f}) = Count(cq, {f}) + Count(umem_frame_addr, {f})
      BY <1>3
    <2>2. /\ Count(fq, {f}) \in Nat /\ Count(hw, {f}) \in Nat /\ Count(OpenRx, {f}) \in Nat
          /\ Count(tx, {f}) \in Nat /\ Count(nic, {f}) \in Nat /\ Count(cq, {f}) \in Nat
          /\ Count(umem_frame_addr, {f}) \in Nat
      BY FrameCounts, Zenon
    <2>3. Count(cq', {f}) \in Nat /\ Count(umem_frame_addr', {f}) \in Nat
      BY <1>3, CountType, Zenon
    <2>4. /\ Count(OpenRx', {f}) = Count(OpenRx, {f}) /\ Count(fq', {f}) = Count(fq, {f})
          /\ Count(hw', {f}) = Count(hw, {f}) /\ Count(tx', {f}) = Count(tx, {f})
          /\ Count(nic', {f}) = Count(nic, {f})
      BY <1>2, <1>6
    <2> QED
      BY <2>1, <2>2, <2>3, <2>4 DEF SumOf
  <1>8. FramesConserved'
    BY <1>2, <1>4, <1>5, <1>7, SumsKept
  <1>9. OutstandingExact'
    BY <1>2, <1>3 DEF OutstandingExact
  <1>10. InOrder'
    BY <1>2, <1>6, InKept
  <1>11. ServerOut' /\ ClientOut'
    BY <1>2, OutKept
  <1> QED
    BY <1>4, <1>5, <1>8, <1>9, <1>10, <1>11 DEF XskInv

(* The three alternatives of process_packet. *)
TurnRound ==
    /\ SERVER /\ tx' = Append(tx, rx[done + 1]) /\ outstanding_tx' = outstanding_tx + 1
    /\ UNCHANGED <<umem_frame_addr, dropped>>
KeepFrame ==
    SERVER /\ dropped' = dropped \cup {rx[done + 1]} /\ UNCHANGED <<umem_frame_addr, tx, outstanding_tx>>
FreeFrame ==
    /\ ~SERVER /\ umem_frame_addr' = Append(umem_frame_addr, rx[done + 1])
    /\ UNCHANGED <<tx, outstanding_tx, dropped>>

(* What every alternative of process_packet does to the batch. *)
LEMMA Processed ==
    ASSUME XskInv, Process
    PROVE  /\ OpenRx' = Tail(OpenRx) /\ OpenRx \in Seq(Frames) /\ OpenRx # <<>>
           /\ rx[done + 1] = Head(OpenRx) /\ rx[done + 1] \in Frames
           /\ done' \in 0..rcvd' /\ handled' \in Seq(0..Iters) /\ global_exit' \in BOOLEAN
           /\ handled' = Append(handled, content[rx[done + 1]])
           /\ InOrder'
  <1> DEFINE h == rx[done + 1]
             u == Contents(content, OpenRx)
  <1>1. /\ OpenRx \in Seq(Frames) /\ OpenRx # <<>> /\ h \in Frames /\ h = Head(OpenRx)
        /\ SubSeq(rx, (done + 1) + 1, Len(rx)) = Tail(OpenRx) /\ done + 1 \in 0..rcvd
    BY NextPacket DEF Process
  <1>2. /\ done' = done + 1 /\ UNCHANGED <<rx, rcvd, content, arrived, starved>>
        /\ handled' = Append(handled, content[h])
        /\ global_exit' = (global_exit \/ content[h] >= Iters)
    BY DEF Process, kernelVars, senderVars
  <1>3. content \in [Frames -> 0..Iters] /\ handled \in Seq(0..Iters) /\ global_exit \in BOOLEAN
    BY DEF XskInv, TypeOK
  <1> HIDE DEF h
  <1>4. content[h] \in 0..Iters
    BY <1>1, <1>3
  <1>5. handled' \in Seq(0..Iters) /\ global_exit' \in BOOLEAN
    BY <1>2, <1>3, <1>4, AppendProperties
  <1>6. OpenRx' = Tail(OpenRx)
    BY <1>1, <1>2 DEF OpenRx
  <1>7. InOrder'
    <2> SUFFICES ASSUME ~starved PROVE arrived' = handled' \o Contents(content', OpenRx')
      BY <1>2 DEF InOrder
    <2>1. u \in Seq(0..Iters) /\ u # <<>> /\ Head(u) = content[h] /\ Tail(u) = Contents(content, Tail(OpenRx))
      BY <1>1, <1>3, ContentsTail, ContentsType
    <2>2. arrived = handled \o u
      BY DEF XskInv, InOrder
    <2> HIDE DEF u
    <2>3. Append(handled, Head(u)) \o Tail(u) = handled \o u
      BY <1>3, <2>1, ShiftLog
    <2> QED
      BY <1>2, <1>6, <2>1, <2>2, <2>3
  <1> QED
    BY <1>1, <1>2, <1>5, <1>6, <1>7 DEF h

(* The server turns the packet round. *)
LEMMA StepTurnRound == ASSUME XskInv, Process, TurnRound PROVE XskInv'
  <1> DEFINE h == rx[done + 1]
  <1>1. /\ OpenRx' = Tail(OpenRx) /\ OpenRx \in Seq(Frames) /\ OpenRx # <<>>
        /\ h = Head(OpenRx) /\ h \in Frames
        /\ done' \in 0..rcvd' /\ handled' \in Seq(0..Iters) /\ global_exit' \in BOOLEAN
        /\ handled' = Append(handled, content[h]) /\ InOrder'
    BY Processed
  <1>2. /\ TypeOK /\ Control /\ tx \in Seq(Addr) /\ OpenRx \in Seq(Addr) /\ nic \in Seq(Frames)
        /\ cq \in Seq(Frames) /\ content \in [Frames -> 0..Iters] /\ ~starved /\ tx \in Seq(Frames)
        /\ sent \in Seq(0..Iters)
    BY Queues DEF XskInv, TypeOK, Control, TurnRound
  <1>3. /\ mpc = "process" /\ SERVER
        /\ UNCHANGED <<SERVER, net, hw, nic, arrived, sent, fq, rx, cq, content>>
        /\ UNCHANGED <<lock, mpc, rcvd, tpc, id, starved, umem_frame_addr, dropped>>
    BY DEF Process, kernelVars, senderVars, TurnRound
  <1>4. tx' = Append(tx, h) /\ outstanding_tx' = outstanding_tx + 1
    BY DEF TurnRound
  <1> HIDE DEF h
  <1>5. tx' \in Seq(Frames) /\ tx' \in Seq(Addr) /\ Len(tx') = Len(tx) + 1
    BY <1>1, <1>2, <1>4, AppendProperties, FrameQueue
  <1>6. TypeOK'
    <2>1. outstanding_tx' \in Nat
      BY <1>2, <1>4 DEF TypeOK
    <2> QED
      BY <1>1, <1>2, <1>3, <1>5, <2>1 DEF TypeOK
  <1>7. Control'
    BY <1>2, <1>3, <1>5 DEF Control
  <1>8. ASSUME NEW f \in Frames PROVE SumOf(f)' = SumOf(f)
    <2>1. /\ Count(Tail(OpenRx), {f}) + Count(Append(tx, h), {f}) = Count(OpenRx, {f}) + Count(tx, {f})
          /\ Count(OpenRx, {f}) \in Nat /\ Count(tx, {f}) \in Nat
          /\ Count(Tail(OpenRx), {f}) \in Nat /\ Count(Append(tx, h), {f}) \in Nat
      BY <1>1, <1>2, MoveHead, Zenon
    <2>2. /\ Count(fq, {f}) \in Nat /\ Count(hw, {f}) \in Nat
          /\ Count(umem_frame_addr, {f}) \in Nat /\ Count(nic, {f}) \in Nat /\ Count(cq, {f}) \in Nat
      BY FrameCounts, Zenon
    <2>3. /\ Count(OpenRx', {f}) = Count(Tail(OpenRx), {f}) /\ Count(fq', {f}) = Count(fq, {f})
          /\ Count(hw', {f}) = Count(hw, {f}) /\ Count(tx', {f}) = Count(Append(tx, h), {f})
          /\ Count(nic', {f}) = Count(nic, {f}) /\ Count(cq', {f}) = Count(cq, {f})
          /\ Count(umem_frame_addr', {f}) = Count(umem_frame_addr, {f})
      BY <1>1, <1>3, <1>4
    <2>4. /\ Count(OpenRx', {f}) + Count(tx', {f}) = Count(OpenRx, {f}) + Count(tx, {f})
          /\ Count(OpenRx', {f}) \in Nat /\ Count(tx', {f}) \in Nat
          /\ Count(OpenRx, {f}) \in Nat /\ Count(tx, {f}) \in Nat
      BY <2>1, <2>3
    <2>5. /\ Count(fq', {f}) = Count(fq, {f}) /\ Count(hw', {f}) = Count(hw, {f})
          /\ Count(nic', {f}) = Count(nic, {f}) /\ Count(cq', {f}) = Count(cq, {f})
          /\ Count(umem_frame_addr', {f}) = Count(umem_frame_addr, {f})
      BY <2>3
    <2> QED
      BY <2>2, <2>4, <2>5 DEF SumOf
  <1>9. FramesConserved'
    BY <1>3, <1>6, <1>7, <1>8, SumsKept
  <1>10. OutstandingExact'
    <2>1. outstanding_tx = Len(tx) + Len(nic) + Len(cq)
      BY <1>2 DEF XskInv, OutstandingExact
    <2>2. Len(tx) \in Nat /\ Len(nic) \in Nat /\ Len(cq) \in Nat
      BY <1>2, LenProperties
    <2>3. /\ Len(nic') = Len(nic) /\ Len(cq') = Len(cq) /\ Len(tx') = Len(tx) + 1
          /\ outstanding_tx' = outstanding_tx + 1
      BY <1>3, <1>4, <1>5
    <2>4. outstanding_tx' = Len(tx') + Len(nic') + Len(cq')
      BY <2>1, <2>2, <2>3
    <2> QED
      BY <2>4 DEF OutstandingExact
  <1>11. ServerOut'
    <2> DEFINE q == nic \o tx
               u == Contents(content, q)
    <2>1. nic \o Append(tx, h) = Append(q, h) /\ q \in Seq(Frames)
      <3>1. nic \in Seq(Frames) /\ tx \in Seq(Frames) /\ h \in Frames
        BY <1>1, <1>2
      <3> QED
        BY <3>1, PushLog, Zenon
    <2>2. Contents(content, Append(q, h)) = Append(u, content[h]) /\ u \in Seq(0..Iters)
      BY <1>1, <1>2, <2>1, ContentsAppend, ContentsType
    <2>3. content[h] \in 0..Iters
      BY <1>1, <1>2
    <2>4. OutLog' = sent \o Contents(content, nic \o Append(tx, h)) /\ OutLog = sent \o u
      BY <1>3, <1>4 DEF OutLog
    <2> HIDE DEF q, u
    <2>5. sent \o Append(u, content[h]) = Append(sent \o u, content[h])
      <3>1. sent \in Seq(0..Iters) /\ u \in Seq(0..Iters)
        BY <1>2, <2>2
      <3> DEFINE x == content[h]
      <3>2. x \in 0..Iters
        BY <2>3
      <3> HIDE DEF x
      <3>3. sent \o Append(u, x) = Append(sent \o u, x)
        BY <3>1, <3>2
      <3> QED
        BY <3>3 DEF x
    <2>6. OutLog' = Append(OutLog, content[h])
      BY <2>1, <2>2, <2>4, <2>5
    <2> QED
      BY <1>1, <1>3, <2>6 DEF XskInv, ServerOut
  <1>12. ClientOut'
    BY <1>3 DEF ClientOut
  <1> QED
    BY <1>1, <1>6, <1>7, <1>9, <1>10, <1>11, <1>12 DEF XskInv

(* The server finds the transmit ring full and keeps the frame: it was in  *)
(* the receive ring alone and is nowhere now.                              *)
LEMMA StepKeepFrame == ASSUME XskInv, Process, KeepFrame PROVE XskInv'
  <1> DEFINE h == rx[done + 1]
  <1>1. /\ OpenRx' = Tail(OpenRx) /\ OpenRx \in Seq(Frames) /\ OpenRx # <<>>
        /\ h = Head(OpenRx) /\ h \in Frames
        /\ done' \in 0..rcvd' /\ handled' \in Seq(0..Iters) /\ global_exit' \in BOOLEAN /\ InOrder'
    BY Processed
  <1>2. TypeOK /\ Control /\ OpenRx \in Seq(Addr)
    BY Queues DEF XskInv
  <1>3. /\ mpc = "process" /\ dropped' = dropped \cup {h} /\ SERVER
        /\ UNCHANGED <<SERVER, net, hw, nic, arrived, sent, fq, rx, cq, content>>
        /\ UNCHANGED <<lock, mpc, rcvd, tpc, id, starved, umem_frame_addr, tx, outstanding_tx>>
    BY DEF Process, kernelVars, senderVars, KeepFrame
  <1> HIDE DEF h
  <1>4. TypeOK'
    BY <1>1, <1>2, <1>3 DEF TypeOK
  <1>5. Control'
    BY <1>2, <1>3 DEF Control
  <1>6. ASSUME NEW f \in Frames PROVE SumOf(f)' = IF f \in dropped' THEN 0 ELSE 1
    <2>1. /\ h # f => Count(Tail(OpenRx), {f}) = Count(OpenRx, {f})
          /\ h = f => Count(OpenRx, {f}) = Count(Tail(OpenRx), {f}) + 1
          /\ Count(Tail(OpenRx), {f}) \in Nat
      BY <1>1, <1>2, MoveHead, Zenon
    <2>2. /\ Count(fq, {f}) \in Nat /\ Count(hw, {f}) \in Nat /\ Count(OpenRx, {f}) \in Nat
          /\ Count(umem_frame_addr, {f}) \in Nat /\ Count(nic, {f}) \in Nat /\ Count(cq, {f}) \in Nat
          /\ Count(tx, {f}) \in Nat
          /\ SumOf(f) = IF f \in dropped THEN 0 ELSE 1
      BY FrameCounts, Zenon
    <2>3. /\ Count(OpenRx', {f}) = Count(Tail(OpenRx), {f}) /\ Count(fq', {f}) = Count(fq, {f})
          /\ Count(hw', {f}) = Count(hw, {f}) /\ Count(tx', {f}) = Count(tx, {f})
          /\ Count(nic', {f}) = Count(nic, {f}) /\ Count(cq', {f}) = Count(cq, {f})
          /\ Count(umem_frame_addr', {f}) = Count(umem_frame_addr, {f})
      BY <1>1, <1>3
    <2>4. CASE h # f
      <3>1. SumOf(f)' = SumOf(f)
        BY <2>1, <2>3, <2>4 DEF SumOf
      <3>2. f \in dropped' <=> f \in dropped
        BY <1>3, <2>4
      <3> QED
        BY <2>2, <3>1, <3>2
    <2>5. CASE h = f
      <3>1. f \in dropped'
        BY <1>3, <2>5
      <3>2. SumOf(f) <= 1
        BY <2>2
      <3>3. Count(OpenRx, {f}) = Count(Tail(OpenRx), {f}) + 1
        BY <2>1, <2>5
      <3>4. SumOf(f)' = SumOf(f) - 1 /\ SumOf(f)' \in Nat
        BY <2>1, <2>2, <2>3, <3>3 DEF SumOf
      <3> QED
        BY <2>2, <3>1, <3>2, <3>4
    <2> QED
      BY <2>4, <2>5
  <1>7. FramesConserved'
    BY <1>4, <1>5, <1>6, PlacesSumNext DEF FramesConserved
  <1>8. OutstandingExact'
    BY <1>3 DEF XskInv, OutstandingExact
  <1>9. ServerOut' /\ ClientOut'
    BY <1>3 DEF ServerOut, ClientOut
  <1> QED
    BY <1>1, <1>4, <1>5, <1>7, <1>8, <1>9 DEF XskInv

(* The client frees the frame. *)
LEMMA StepFreeFrame == ASSUME XskInv, Process, FreeFrame PROVE XskInv'
  <1> DEFINE h == rx[done + 1]
  <1>1. /\ OpenRx' = Tail(OpenRx) /\ OpenRx \in Seq(Frames) /\ OpenRx # <<>>
        /\ h = Head(OpenRx) /\ h \in Frames
        /\ done' \in 0..rcvd' /\ handled' \in Seq(0..Iters) /\ global_exit' \in BOOLEAN /\ InOrder'
    BY Processed
  <1>2. /\ TypeOK /\ Control /\ OpenRx \in Seq(Addr) /\ umem_frame_addr \in Seq(Addr)
        /\ umem_frame_addr \in Seq(Frames)
    BY Queues DEF XskInv, TypeOK
  <1>3. /\ mpc = "process" /\ umem_frame_addr' = Append(umem_frame_addr, h) /\ ~SERVER
        /\ UNCHANGED <<SERVER, net, hw, nic, arrived, sent, fq, rx, cq, content>>
        /\ UNCHANGED <<lock, mpc, rcvd, tpc, id, starved, tx, outstanding_tx, dropped>>
    BY DEF Process, kernelVars, senderVars, FreeFrame
  <1> HIDE DEF h
  <1>4. umem_frame_addr' \in Seq(Frames)
    BY <1>1, <1>2, <1>3, AppendProperties
  <1>5. TypeOK'
    BY <1>1, <1>2, <1>3, <1>4 DEF TypeOK
  <1>6. Control'
    BY <1>2, <1>3 DEF Control
  <1>7. ASSUME NEW f \in Frames PROVE SumOf(f)' = SumOf(f)
    <2>1. /\ Count(Tail(OpenRx), {f}) + Count(Append(umem_frame_addr, h), {f})
               = Count(OpenRx, {f}) + Count(umem_frame_addr, {f})
          /\ Count(OpenRx, {f}) \in Nat /\ Count(umem_frame_addr, {f}) \in Nat
          /\ Count(Tail(OpenRx), {f}) \in Nat /\ Count(Append(umem_frame_addr, h), {f}) \in Nat
      BY <1>1, <1>2, MoveHead, Zenon
    <2>2. /\ Count(fq, {f}) \in Nat /\ Count(hw, {f}) \in Nat
          /\ Count(tx, {f}) \in Nat /\ Count(nic, {f}) \in Nat /\ Count(cq, {f}) \in Nat
      BY FrameCounts, Zenon
    <2>3. /\ Count(OpenRx', {f}) = Count(Tail(OpenRx), {f}) /\ Count(fq', {f}) = Count(fq, {f})
          /\ Count(hw', {f}) = Count(hw, {f}) /\ Count(tx', {f}) = Count(tx, {f})
          /\ Count(nic', {f}) = Count(nic, {f}) /\ Count(cq', {f}) = Count(cq, {f})
          /\ Count(umem_frame_addr', {f}) = Count(Append(umem_frame_addr, h), {f})
      BY <1>1, <1>3
    <2>4. /\ Count(OpenRx', {f}) + Count(umem_frame_addr', {f}) = Count(OpenRx, {f}) + Count(umem_frame_addr, {f})
          /\ Count(OpenRx', {f}) \in Nat /\ Count(umem_frame_addr', {f}) \in Nat
          /\ Count(OpenRx, {f}) \in Nat /\ Count(umem_frame_addr, {f}) \in Nat
      BY <2>1, <2>3
    <2>5. /\ Count(fq', {f}) = Count(fq, {f}) /\ Count(hw', {f}) = Count(hw, {f})
          /\ Count(nic', {f}) = Count(nic, {f}) /\ Count(cq', {f}) = Count(cq, {f})
          /\ Count(tx', {f}) = Count(tx, {f})
      BY <2>3
    <2> QED
      BY <2>2, <2>4, <2>5 DEF SumOf
  <1>8. FramesConserved'
    BY <1>3, <1>5, <1>6, <1>7, SumsKept
  <1>9. OutstandingExact'
    BY <1>3 DEF XskInv, OutstandingExact
  <1>10. ServerOut'
    BY <1>3 DEF ServerOut
  <1>11. ClientOut'
    <2>1. OutLog' = OutLog
      BY <1>3 DEF OutLog
    <2> QED
      BY <1>3, <2>1 DEF XskInv, ClientOut
  <1> QED
    BY <1>1, <1>5, <1>6, <1>8, <1>9, <1>10, <1>11 DEF XskInv

(* process_packet. *)
LEMMA StepProcess == XskInv /\ Process => XskInv'
  <1>1. Process => TurnRound \/ KeepFrame \/ FreeFrame
    BY DEF Process, TurnRound, KeepFrame, FreeFrame
  <1> QED
    BY <1>1, StepTurnRound, StepKeepFrame, StepFreeFrame

(* The sender is cancelled and the socket deleted. *)
LEMMA StepCleanup == XskInv /\ xsk_cleanup => XskInv'
  <1> SUFFICES ASSUME XskInv, xsk_cleanup PROVE XskInv'
    OBVIOUS
  <1>1. /\ mpc = "peek" /\ mpc' = "exit" /\ tpc' = "end"
        /\ UNCHANGED <<SERVER, net, hw, nic, arrived, sent, fq, rx, tx, cq, umem_frame_addr>>
        /\ UNCHANGED <<outstanding_tx, content, lock, rcvd, done, handled, dropped, global_exit, id, starved>>
    BY DEF xsk_cleanup, kernelVars
  <1>2. TypeOK'
    BY <1>1 DEF XskInv, TypeOK
  <1>3. Control'
    BY <1>1 DEF XskInv, Control
  <1>4. OpenRx' = OpenRx /\ OutLog' = OutLog
    BY <1>1 DEF OpenRx, OutLog
  <1>5. \A f \in Frames : SumOf(f)' = SumOf(f)
    BY <1>1, <1>4 DEF SumOf
  <1>6. FramesConserved'
    BY <1>1, <1>2, <1>3, <1>5, SumsKept
  <1>7. OutstandingExact'
    BY <1>1 DEF XskInv, OutstandingExact
  <1>8. InOrder'
    BY <1>1, <1>4, InKept
  <1>9. ServerOut' /\ ClientOut'
    BY <1>1, <1>4 DEF XskInv, ServerOut, ClientOut
  <1> QED
    BY <1>2, <1>3, <1>6, <1>7, <1>8, <1>9 DEF XskInv

(* The signal handler only raises global_exit. *)
LEMMA StepInterrupt == XskInv /\ interrupt_handler => XskInv'
  <1> SUFFICES ASSUME XskInv, interrupt_handler PROVE XskInv'
    OBVIOUS
  <1>1. /\ global_exit' = TRUE
        /\ UNCHANGED <<SERVER, net, hw, nic, arrived, sent, fq, rx, tx, cq, umem_frame_addr>>
        /\ UNCHANGED <<outstanding_tx, content, lock, mpc, rcvd, done, handled, dropped, tpc, id, starved>>
    BY DEF interrupt_handler, kernelVars, senderVars
  <1>2. TypeOK'
    BY <1>1 DEF XskInv, TypeOK
  <1>3. Control'
    BY <1>1 DEF XskInv, Control
  <1>4. OpenRx' = OpenRx
    BY <1>1 DEF OpenRx
  <1>5. \A f \in Frames : SumOf(f)' = SumOf(f)
    BY <1>1, <1>4 DEF SumOf
  <1>6. FramesConserved'
    BY <1>1, <1>2, <1>3, <1>5, SumsKept
  <1>7. OutstandingExact'
    BY <1>1 DEF XskInv, OutstandingExact
  <1>8. InOrder'
    BY <1>1, <1>4, InKept
  <1>9. ServerOut' /\ ClientOut'
    BY <1>1, OutKept
  <1> QED
    BY <1>2, <1>3, <1>6, <1>7, <1>8, <1>9 DEF XskInv

-----------------------------------------------------------------------------
(* Steps of the sender thread. *)

(* The sender gives up. *)
LEMMA StepSenderStops == XskInv /\ (SendNoSlot \/ SenderGivesUp) => XskInv'
  <1> SUFFICES ASSUME XskInv, SendNoSlot \/ SenderGivesUp PROVE XskInv'
    OBVIOUS
  <1>1. /\ tpc' = "end"
        /\ UNCHANGED <<SERVER, net, hw, nic, arrived, sent, fq, rx, tx, cq, umem_frame_addr, mpc>>
        /\ UNCHANGED <<outstanding_tx, content, lock, rcvd, done, handled, dropped, global_exit, id, starved>>
    BY DEF SendNoSlot, SenderGivesUp, kernelVars, mainVars
  <1>2. TypeOK'
    BY <1>1 DEF XskInv, TypeOK
  <1>3. Control'
    BY <1>1 DEF XskInv, Control
  <1>4. OpenRx' = OpenRx /\ OutLog' = OutLog
    BY <1>1 DEF OpenRx, OutLog
  <1>5. \A f \in Frames : SumOf(f)' = SumOf(f)
    BY <1>1, <1>4 DEF SumOf
  <1>6. FramesConserved'
    BY <1>1, <1>2, <1>3, <1>5, SumsKept
  <1>7. OutstandingExact'
    BY <1>1 DEF XskInv, OutstandingExact
  <1>8. InOrder'
    BY <1>1, <1>4, InKept
  <1>9. ServerOut' /\ ClientOut'
    BY <1>1, <1>4 DEF XskInv, ServerOut, ClientOut
  <1> QED
    BY <1>2, <1>3, <1>6, <1>7, <1>8, <1>9 DEF XskInv

(* Completions are collected, and the next id begins. *)
LEMMA StepSendComplete == XskInv /\ SendComplete => XskInv'
  <1> SUFFICES ASSUME XskInv, SendComplete PROVE XskInv'
    OBVIOUS
  <1>1. /\ TypeOK /\ Control /\ id \in 1..(Iters + 1) /\ id <= Iters /\ ~SERVER
        /\ sent \in Seq(0..Iters)
    BY DEF XskInv, TypeOK, Control, SendComplete
  <1>2. /\ lock' = "free" /\ id' = id + 1 /\ tpc' = (IF id < Iters THEN "send" ELSE "end")
        /\ UNCHANGED <<SERVER, net, hw, nic, arrived, sent, fq, rx, tx, content, mpc, rcvd, done>>
        /\ UNCHANGED <<handled, dropped, global_exit, starved>>
    BY DEF SendComplete, kernelVars, mainVars
  <1>3. /\ umem_frame_addr' \in Seq(Frames) /\ cq' \in Seq(Frames) /\ outstanding_tx' \in Nat
        /\ ~starved => outstanding_tx' = Len(tx) + Len(nic) + Len(cq')
        /\ \A f \in Frames : Count(cq', {f}) + Count(umem_frame_addr', {f})
                               = Count(cq, {f}) + Count(umem_frame_addr, {f})
    BY Completed DEF SendComplete
  <1>4. id' \in 1..(Iters + 1) /\ (tpc' # "end" => id' <= Iters)
    BY <1>1, <1>2, Sizes
  <1>5. TypeOK'
    <2>1. tpc' \in {"send", "complete", "end"} /\ lock' \in {"free", "main", "sender"}
      BY <1>2
    <2> QED
      BY <1>1, <1>2, <1>3, <1>4, <2>1 DEF TypeOK
  <1>6. Control'
    BY <1>1, <1>2, <1>4 DEF Control
  <1>7. OpenRx' = OpenRx /\ OutLog' = OutLog
    BY <1>2 DEF OpenRx, OutLog
  <1>8. ASSUME NEW f \in Frames PROVE SumOf(f)' = SumOf(f)
    <2>1. Count(cq', {f}) + Count(umem_frame_addr', {f}) = Count(cq, {f}) + Count(umem_frame_addr, {f})
      BY <1>3
    <2>2. /\ Count(fq, {f}) \in Nat /\ Count(hw, {f}) \in Nat /\ Count(OpenRx, {f}) \in Nat
          /\ Count(tx, {f}) \in Nat /\ Count(nic, {f}) \in Nat /\ Count(cq, {f}) \in Nat
          /\ Count(umem_frame_addr, {f}) \in Nat
      BY FrameCounts, Zenon
    <2>3. Count(cq', {f}) \in Nat /\ Count(umem_frame_addr', {f}) \in Nat
      BY <1>3, CountType, Zenon
    <2>4. /\ Count(OpenRx', {f}) = Count(OpenRx, {f}) /\ Count(fq', {f}) = Count(fq, {f})
          /\ Count(hw', {f}) = Count(hw, {f}) /\ Count(tx', {f}) = Count(tx, {f})
          /\ Count(nic', {f}) = Count(nic, {f})
      BY <1>2, <1>7
    <2> QED
      BY <2>1, <2>2, <2>3, <2>4 DEF SumOf
  <1>9. FramesConserved'
    BY <1>2, <1>5, <1>6, <1>8, SumsKept
  <1>10. OutstandingExact'
    BY <1>2, <1>3 DEF OutstandingExact
  <1>11. InOrder'
    BY <1>2, <1>7, InKept
  <1>12. ServerOut'
    BY <1>1, <1>2 DEF ServerOut
  <1>13. ClientOut'
    <2> SUFFICES ASSUME ~starved
                 PROVE  /\ \A m, n \in 1..Len(OutLog) : m < n => OutLog[m] < OutLog[n]
                        /\ \A n \in 1..Len(OutLog) : OutLog[n] <= id' /\ OutLog[n] < id'
      BY <1>2, <1>7 DEF ClientOut
    <2>1. /\ \A m, n \in 1..Len(OutLog) : m < n => OutLog[m] < OutLog[n]
          /\ \A n \in 1..Len(OutLog) : OutLog[n] <= id
      BY <1>1 DEF XskInv, ClientOut
    <2>2. \A n \in 1..Len(OutLog) : OutLog[n] \in 0..Iters
      <3>1. tx \in Seq(Frames) /\ nic \o tx \in Seq(Frames) /\ content \in [Frames -> 0..Iters]
        BY <1>1, ConcatProperties DEF Control, TypeOK
      <3>2. OutLog \in Seq(0..Iters)
        BY <1>1, <3>1, ContentsType, ConcatProperties DEF OutLog
      <3> QED
        BY <3>2, ElementOfSeq
    <2> QED
      BY <1>1, <1>2, <2>1, <2>2, Sizes
  <1> QED
    BY <1>5, <1>6, <1>9, <1>10, <1>11, <1>12, <1>13 DEF XskInv

(* A packet is written into a free frame and submitted; with no frame left *)
(* memory is spoiled, and only the frames are still accounted for.         *)
LEMMA StepSendSubmit == XskInv /\ SendSubmit => XskInv'
  <1> SUFFICES ASSUME XskInv, SendSubmit PROVE XskInv'
    OBVIOUS
  <1> DEFINE r == AllocN(umem_frame_addr, 1)
             t == AfterAllocN(umem_frame_addr, 1)
             h == r[1]
  <1>1. /\ TypeOK /\ Control /\ umem_frame_addr \in Seq(Frames) /\ tx \in Seq(Addr) /\ nic \in Seq(Frames)
        /\ OpenRx \in Seq(Frames) /\ content \in [Frames -> 0..Iters] /\ sent \in Seq(0..Iters)
        /\ id \in 1..Iters /\ id \in 0..Iters /\ ~SERVER /\ cq \in Seq(Frames) /\ starved \in BOOLEAN
    <2>1. TypeOK /\ Control /\ tpc = "send"
      BY DEF XskInv, SendSubmit
    <2>2. id \in 1..(Iters + 1) /\ id <= Iters /\ ~SERVER
      BY <2>1 DEF TypeOK, Control
    <2>3. id \in 1..Iters /\ id \in 0..Iters
      BY <2>2, Sizes
    <2> QED
      BY <2>1, <2>2, <2>3, Queues DEF TypeOK
  <1>2. /\ tx' = Append(tx, h) /\ starved' = (starved \/ h \notin Frames)
        /\ content' = (IF h \in Frames THEN [content EXCEPT ![h] = id] ELSE [content EXCEPT ![0] = 0])
        /\ umem_frame_addr' = t /\ outstanding_tx' = outstanding_tx + 1 /\ lock' = "sender"
        /\ tpc = "send" /\ tpc' = "complete"
        /\ UNCHANGED <<SERVER, net, hw, nic, arrived, sent, fq, rx, cq, id>>
        /\ UNCHANGED <<mpc, rcvd, done, handled, dropped, global_exit>>
    BY DEF SendSubmit, kernelVars, mainVars
  <1>3. /\ r \in Seq(Addr) /\ Len(r) = 1 /\ t \in Seq(Frames)
        /\ \A f \in Frames : Count(r, {f}) + Count(t, {f}) = Count(umem_frame_addr, {f})
    BY <1>1, Alloc
  <1> HIDE DEF r, t
  <1>4. h \in Addr /\ tx' = tx \o r
    <2>1. r[1] \in Addr /\ Append(tx, r[1]) = tx \o r
      BY <1>1, <1>3, AppendOne
    <2> QED
      BY <1>2, <2>1
  <1> HIDE DEF h
  <1>5. tx' \in Seq(Addr) /\ Len(tx') = Len(tx) + 1 /\ Len(tx) \in Nat
    <2>1. tx \in Seq(Addr) /\ h \in Addr /\ tx' = Append(tx, h)
      BY <1>1, <1>2, <1>4
    <2> QED
      BY <2>1, AppendProperties, LenProperties
  <1>6. h \in Frames /\ ~starved => tx' \in Seq(Frames)
    BY <1>1, <1>2, AppendProperties DEF Control
  <1>7. TypeOK'
    <2>1. content' \in [Frames -> 0..Iters]
      BY <1>1, <1>2, Sizes
    <2>2. outstanding_tx' \in Nat
      BY <1>1, <1>2 DEF TypeOK
    <2>3. tpc' \in {"send", "complete", "end"} /\ lock' \in {"free", "main", "sender"} /\ starved' \in BOOLEAN
      BY <1>1, <1>2
    <2> QED
      BY <1>1, <1>2, <1>3, <1>5, <2>1, <2>2, <2>3 DEF TypeOK
  <1>8. Control'
    <2>1. ~starved' => tx' \in Seq(Frames)
      BY <1>2, <1>6
    <2> QED
      BY <1>1, <1>2, <2>1, Sizes DEF Control
  <1>9. OpenRx' = OpenRx
    BY <1>2 DEF OpenRx
  <1>10. ASSUME NEW f \in Frames
         PROVE  /\ Count(tx', {f}) = Count(tx, {f}) + Count(r, {f}) /\ Count(tx', {f}) \in Nat
                /\ Count(r, {f}) + Count(t, {f}) = Count(umem_frame_addr, {f})
                /\ Count(r, {f}) \in Nat /\ Count(t, {f}) \in Nat
    <2>1. Count(tx \o r, {f}) = Count(tx, {f}) + Count(r, {f})
      BY <1>1, <1>3, CountConcat
    <2>2. Count(r, {f}) \in Nat /\ Count(t, {f}) \in Nat /\ Count(tx', {f}) \in Nat
      BY <1>3, <1>5, CountType, Zenon
    <2> QED
      BY <1>3, <1>4, <2>1, <2>2
  <1>11. ASSUME NEW f \in Frames PROVE SumOf(f)' = SumOf(f)
    <2>1. /\ Count(tx', {f}) + Count(umem_frame_addr', {f}) = Count(tx, {f}) + Count(umem_frame_addr, {f})
          /\ Count(umem_frame_addr', {f}) \in Nat /\ Count(tx', {f}) \in Nat
      <3>1. Count(umem_frame_addr', {f}) = Count(t, {f})
        BY <1>2
      <3>2. Count(tx, {f}) \in Nat
        BY FrameCounts, Zenon
      <3> QED
        BY <1>10, <3>1, <3>2
    <2>2. /\ Count(fq, {f}) \in Nat /\ Count(hw, {f}) \in Nat /\ Count(OpenRx, {f}) \in Nat
          /\ Count(tx, {f}) \in Nat /\ Count(nic, {f}) \in Nat /\ Count(cq, {f}) \in Nat
          /\ Count(umem_frame_addr, {f}) \in Nat
      BY FrameCounts, Zenon
    <2>3. /\ Count(OpenRx', {f}) = Count(OpenRx, {f}) /\ Count(fq', {f}) = Count(fq, {f})
          /\ Count(hw', {f}) = Count(hw, {f}) /\ Count(cq', {f}) = Count(cq, {f})
          /\ Count(nic', {f}) = Count(nic, {f})
      BY <1>2, <1>9
    <2> QED
      BY <2>1, <2>2, <2>3 DEF SumOf
  <1>12. FramesConserved'
    BY <1>2, <1>7, <1>8, <1>11, SumsKept
  <1>13. OutstandingExact'
    <2> SUFFICES ASSUME ~starved PROVE outstanding_tx' = Len(tx') + Len(nic') + Len(cq')
      BY <1>2 DEF OutstandingExact
    <2>1. outstanding_tx = Len(tx) + Len(nic) + Len(cq)
      BY DEF XskInv, OutstandingExact
    <2>2. Len(nic) \in Nat /\ Len(cq) \in Nat /\ Len(tx) \in Nat
      BY <1>1, LenProperties
    <2>3. /\ Len(nic') = Len(nic) /\ Len(cq') = Len(cq) /\ Len(tx') = Len(tx) + 1
          /\ outstanding_tx' = outstanding_tx + 1
      BY <1>2, <1>5
    <2> QED
      BY <2>1, <2>2, <2>3
  <1>14. CASE starved'
    <2>1. InOrder' /\ ServerOut' /\ ClientOut'
      BY <1>1, <1>2, <1>14 DEF InOrder, ServerOut, ClientOut
    <2> QED
      BY <1>7, <1>8, <1>12, <1>13, <2>1 DEF XskInv
  <1>15. CASE ~starved'
    <2>1. h \in Frames /\ ~starved /\ tx \in Seq(Frames) /\ tx' \in Seq(Frames)
      BY <1>1, <1>2, <1>6, <1>15 DEF Control
    <2>2. Count(OpenRx, {h}) = 0 /\ Count(nic, {h}) = 0 /\ Count(tx, {h}) = 0
      <3>1. Count(r, {h}) # 0
        <4>1. r[1] = h /\ 1 \in 1..Len(r)
          BY <1>3 DEF h
        <4>2. Count(r, {h}) = 0 <=> \A n \in 1..Len(r) : r[n] \notin {h}
          BY <1>3, CountZero, Zenon
        <4> QED
          BY <4>1, <4>2
      <3>3. /\ Count(r, {h}) + Count(t, {h}) = Count(umem_frame_addr, {h})
            /\ Count(r, {h}) \in Nat /\ Count(t, {h}) \in Nat
        BY <1>10, <2>1, Zenon
      <3>2. Count(umem_frame_addr, {h}) # 0
        BY <3>1, <3>3
      <3> QED
        BY <2>1, <3>2, OnlyPlace
    <2>3. content' = [content EXCEPT ![h] = id] /\ content' \in [Frames -> 0..Iters] /\ content'[h] = id
      BY <1>1, <1>2, <2>1
    <2>4. InOrder'
      <3>1. Contents(content', OpenRx) = Contents(content, OpenRx)
        BY <1>1, <2>1, <2>2, <2>3, ContentsWrite
      <3> QED
        BY <1>2, <1>9, <2>1, <3>1 DEF XskInv, InOrder
    <2>5. ServerOut'
      BY <1>1, <1>2 DEF ServerOut
    <2> DEFINE q == nic \o tx
               u == Contents(content, q)
    <2>6. q \in Seq(Frames) /\ nic \o Append(tx, h) = Append(q, h) /\ Count(q, {h}) = 0
      <3>1. nic \in Seq(Frames) /\ tx \in Seq(Frames) /\ h \in Frames
        BY <1>1, <2>1
      <3>2. q \in Seq(Frames) /\ nic \o Append(tx, h) = Append(q, h)
        BY <3>1
      <3>3. Count(nic \o tx, {h}) = Count(nic, {h}) + Count(tx, {h})
        BY <3>1, CountConcat
      <3> QED
        BY <2>2, <3>2, <3>3
    <2>7. u \in Seq(0..Iters) /\ Contents(content', q) = u
      <3>1. q \in Seq(Frames) /\ Count(q, {h}) = 0 /\ content \in [Frames -> 0..Iters] /\ id \in 0..Iters
        BY <1>1, <2>6
      <3> HIDE DEF q
      <3>2. Contents([content EXCEPT ![h] = id], q) = u
        BY <2>1, <3>1, ContentsWrite
      <3>3. u \in Seq(0..Iters)
        BY <3>1, ContentsType
      <3> QED
        BY <2>3, <3>2, <3>3
    <2>8. Contents(content', Append(q, h)) = Append(u, id)
      BY <2>1, <2>3, <2>6, <2>7, ContentsAppend
    <2>9. OutLog' = sent \o Contents(content', nic \o Append(tx, h)) /\ OutLog = sent \o u
      BY <1>2 DEF OutLog
    <2> HIDE DEF q, u
    <2>10. OutLog' = Append(OutLog, id) /\ OutLog \in Seq(0..Iters)
      <3>1. sent \o Append(u, id) = Append(sent \o u, id) /\ sent \o u \in Seq(0..Iters)
        <4>1. sent \in Seq(0..Iters) /\ u \in Seq(0..Iters) /\ id \in 0..Iters
          BY <1>1, <2>7
        <4> QED
          BY <4>1
      <3> QED
        BY <2>6, <2>8, <2>9, <3>1
    <2>11. /\ Len(OutLog') = Len(OutLog) + 1 /\ OutLog'[Len(OutLog) + 1] = id /\ Len(OutLog) \in Nat
           /\ \A n \in 1..Len(OutLog) : OutLog'[n] = OutLog[n]
      BY <1>1, <2>10, AppendProperties, LenProperties
    <2>12. /\ \A m, n \in 1..Len(OutLog) : m < n => OutLog[m] < OutLog[n]
           /\ \A n \in 1..Len(OutLog) : OutLog[n] < id /\ OutLog[n] <= id
      BY <1>1, <1>2, <2>1 DEF XskInv, ClientOut
    <2>13. ClientOut'
      <3>1. \A n \in 1..Len(OutLog') : n = Len(OutLog) + 1 \/ n \in 1..Len(OutLog)
        BY <2>11
      <3>2. \A n \in 1..Len(OutLog') : OutLog'[n] <= id
        <4> TAKE n \in 1..Len(OutLog')
        <4>1. CASE n = Len(OutLog) + 1
          BY <1>1, <2>11, <4>1
        <4>2. CASE n \in 1..Len(OutLog)
          BY <2>11, <2>12, <4>2
        <4> QED
          BY <3>1, <4>1, <4>2
      <3>3. ASSUME NEW m \in 1..Len(OutLog'), NEW n \in 1..Len(OutLog'), m < n
            PROVE  OutLog'[m] < OutLog'[n]
        <4>1. m \in 1..Len(OutLog)
          BY <2>11, <3>3
        <4>2. CASE n = Len(OutLog) + 1
          BY <2>11, <2>12, <4>1, <4>2
        <4>3. CASE n \in 1..Len(OutLog)
          BY <2>11, <2>12, <3>3, <4>1, <4>3
        <4> QED
          BY <3>1, <4>2, <4>3
      <3> QED
        BY <1>2, <3>2, <3>3 DEF ClientOut
    <2> QED
      BY <1>7, <1>8, <1>12, <1>13, <2>4, <2>5, <2>13 DEF XskInv
  <1> QED
    BY <1>14, <1>15

-----------------------------------------------------------------------------
(* The invariant holds. *)

(* xsk_configure_socket hands every frame to the fill ring or the stack. *)
LEMMA InitInv == Init => XskInv
  <1> SUFFICES ASSUME Init PROVE XskInv
    OBVIOUS
  <1> DEFINE all == [k \in 1..NUM_FRAMES |-> k - 1]
             r == AllocN(all, RING_SIZE)
             t == AfterAllocN(all, RING_SIZE)
  <1>1. all \in Seq(Frames) /\ Len(all) = NUM_FRAMES
    <2>1. all \in [1..NUM_FRAMES -> Frames] /\ NUM_FRAMES \in Nat
      BY Sizes DEF Frames
    <2> QED
      BY <2>1
  <1>2. \A f \in Frames : Count(all, {f}) = 1
    <2> TAKE f \in Frames
    <2>1. f + 1 \in 1..Len(all) /\ all[f + 1] \in {f}
      BY <1>1, Sizes DEF Frames
    <2>2. \A n \in 1..Len(all) : all[n] \in {f} => n = f + 1
      BY <1>1, Sizes DEF Frames
    <2> HIDE DEF all
    <2> QED
      BY <1>1, <2>1, <2>2, CountOnce
  <1>3. fq = r /\ umem_frame_addr = t
    BY DEF Init
  <1> HIDE DEF all
  <1>4. /\ r \in Seq(Addr) /\ t \in Seq(Frames)
        /\ \A f \in Frames : Count(r, {f}) + Count(t, {f}) = Count(all, {f})
    BY <1>1, Sizes, Alloc
  <1> HIDE DEF r, t
  <1>5. /\ hw = <<>> /\ rx = <<>> /\ tx = <<>> /\ nic = <<>> /\ cq = <<>>
        /\ arrived = <<>> /\ handled = <<>> /\ sent = <<>>
        /\ outstanding_tx = 0 /\ lock = "free" /\ mpc = "peek" /\ rcvd = 0 /\ done = 0 /\ id = 1
        /\ global_exit = FALSE /\ dropped = {} /\ starved = FALSE
        /\ tpc = (IF SERVER THEN "end" ELSE "send")
        /\ SERVER \in BOOLEAN
    BY BuildsAssumption DEF Init
  <1>6. net \subseteq 1..Iters /\ net \subseteq 0..Iters /\ content \in [Frames -> 0..Iters]
    BY Sizes DEF Init
  <1>7. <<>> \in Seq(Frames) /\ <<>> \in Seq(Addr) /\ <<>> \in Seq(0..Iters) /\ <<>> \in Seq(1..Iters)
    BY EmptySeq, Zenon
  <1>8. TypeOK
    <2>1. /\ rcvd \in 0..RX_BATCH_SIZE /\ done \in 0..rcvd /\ id \in 1..(Iters + 1)
          /\ outstanding_tx \in Nat
      BY <1>5, Sizes
    <2> QED
      BY <1>3, <1>4, <1>5, <1>6, <1>7, <2>1 DEF TypeOK
  <1>9. Control
    <2>1. id <= Iters /\ rcvd <= Len(rx)
      BY <1>5, Sizes
    <2> QED
      BY <1>5, <1>6, <1>7, <2>1 DEF Control
  <1>10. OpenRx = <<>>
    BY <1>5 DEF OpenRx
  <1>11. FramesConserved
    <2> SUFFICES ASSUME NEW f \in Frames PROVE Places(f) = 1
      BY <1>5 DEF FramesConserved
    <2>1. Places(f) = SumOf(f)
      BY <1>8, <1>9, PlacesSum
    <2>2. Count(<<>>, {f}) = 0
      BY CountEmpty, Zenon
    <2>3. /\ Count(hw, {f}) = 0 /\ Count(OpenRx, {f}) = 0 /\ Count(tx, {f}) = 0
          /\ Count(nic, {f}) = 0 /\ Count(cq, {f}) = 0
      BY <1>5, <1>10, <2>2
    <2>4. Count(fq, {f}) + Count(umem_frame_addr, {f}) = 1
      BY <1>2, <1>3, <1>4
    <2>5. Count(fq, {f}) \in Nat /\ Count(umem_frame_addr, {f}) \in Nat
      BY <1>3, <1>4, CountType, Zenon
    <2> QED
      BY <2>1, <2>3, <2>4, <2>5 DEF SumOf
  <1>12. OutstandingExact
    BY <1>5 DEF OutstandingExact
  <1>13. Contents(content, <<>>) = <<>>
    BY DEF Contents
  <1>14. InOrder
    BY <1>5, <1>10, <1>13 DEF InOrder
  <1>15. OutLog = <<>>
    BY <1>5, <1>13 DEF OutLog
  <1>16. ServerOut /\ ClientOut
    BY <1>5, <1>15 DEF ServerOut, ClientOut
  <1> QED
    BY <1>8, <1>9, <1>11, <1>12, <1>14, <1>16 DEF XskInv

(* A stuttering step changes nothing. *)
LEMMA StepStutter == XskInv /\ UNCHANGED vars => XskInv'
  <1> SUFFICES ASSUME XskInv, UNCHANGED vars PROVE XskInv'
    OBVIOUS
  <1>1. /\ UNCHANGED <<SERVER, net, hw, nic, arrived, sent, fq, rx, tx, cq, umem_frame_addr, global_exit>>
        /\ UNCHANGED <<outstanding_tx, content, lock, mpc, rcvd, done, handled, dropped, tpc, id, starved>>
    BY DEF vars, kernelVars, mainVars, senderVars
  <1>2. TypeOK'
    BY <1>1 DEF XskInv, TypeOK
  <1>3. Control'
    BY <1>1 DEF XskInv, Control
  <1>4. OpenRx' = OpenRx
    BY <1>1 DEF OpenRx
  <1>5. \A f \in Frames : SumOf(f)' = SumOf(f)
    BY <1>1, <1>4 DEF SumOf
  <1>6. FramesConserved'
    BY <1>1, <1>2, <1>3, <1>5, SumsKept
  <1>7. OutstandingExact'
    BY <1>1 DEF XskInv, OutstandingExact
  <1>8. InOrder'
    BY <1>1, <1>4, InKept
  <1>9. ServerOut' /\ ClientOut'
    BY <1>1, OutKept
  <1> QED
    BY <1>2, <1>3, <1>6, <1>7, <1>8, <1>9 DEF XskInv

(* The inductive invariant of the socket, of its two threads and of the    *)
(* kernel's side of the rings.                                             *)
THEOREM XskInvariant == Spec => []XskInv
  <1>1. XskInv /\ [Next]_vars => XskInv'
    BY StepKernelFill, StepKernelReceive, StepKernelTransmit, StepKernelComplete, StepPeek,
       StepRestock, StepProcessRejects, StepProcess, StepRelease, StepCleanup, StepInterrupt,
       StepSenderStops, StepSendSubmit, StepSendComplete, StepStutter
    DEF Next, Kernel, Main, Sender
  <1> QED
    BY InitInv, <1>1, PTL DEF Spec

-----------------------------------------------------------------------------
(* What the invariant implies. *)

(* The variables of the socket keep their types; what is free, in the      *)
(* driver or in the receive and completion rings is a frame of the UMEM.   *)
THEOREM XskTypes == Spec => []TypeOK
  <1>1. XskInv => TypeOK
    BY DEF XskInv
  <1> QED
    BY XskInvariant, <1>1, PTL

(* No frame of the UMEM is ever in two places, and none disappears but     *)
(* those of sends the server could not queue.                              *)
THEOREM XskFramesConserved == Spec => []FramesConserved
  <1>1. XskInv => FramesConserved
    BY DEF XskInv
  <1> QED
    BY XskInvariant, <1>1, PTL

(* outstanding_tx counts the frames on the transmit side, so complete_tx   *)
(* collects whenever there is something to collect.                        *)
THEOREM XskOutstandingExact == Spec => []OutstandingExact
  <1>1. XskInv => OutstandingExact
    BY DEF XskInv
  <1> QED
    BY XskInvariant, <1>1, PTL

(* Packets are processed in the order in which they arrived, each once and *)
(* with the content it arrived with.                                       *)
THEOREM XskHandledInOrder == Spec => []HandledInOrder
  <1>1. XskInv => HandledInOrder
    <2> SUFFICES ASSUME XskInv, ~starved PROVE IsPrefix(handled, arrived)
      BY DEF HandledInOrder
    <2> DEFINE u == Contents(content, OpenRx)
    <2>1. arrived = handled \o u /\ handled \in Seq(0..Iters) /\ arrived \in Seq(0..Iters)
      BY DEF XskInv, InOrder, TypeOK
    <2>2. u \in Seq(0..Iters)
      BY Queues, ContentsType DEF XskInv, TypeOK
    <2> HIDE DEF u
    <2>3. /\ Len(arrived) = Len(handled) + Len(u) /\ Len(handled) \in Nat /\ Len(u) \in Nat
          /\ \A n \in 1..Len(handled) : arrived[n] = handled[n]
      BY <2>1, <2>2, ShiftLog
    <2>4. Len(handled) <= Len(arrived)
      BY <2>3
    <2>5. SubSeq(handled, 1, Len(handled)) = SubSeq(arrived, 1, Len(handled))
      BY <2>1, <2>3, <2>4, SamePrefix
    <2> QED
      BY <2>4, <2>5 DEF IsPrefix
  <1> QED
    BY XskInvariant, <1>1, PTL

(* What leaves the node is what was submitted, in that order: the pongs of *)
(* the server are the pings it handled, the pings of the client increase.  *)
THEOREM XskSentInOrder == Spec => []SentInOrder
  <1>1. XskInv => SentInOrder
    <2> SUFFICES ASSUME XskInv PROVE SentInOrder
      OBVIOUS
    <2> DEFINE u == Contents(content, nic \o tx)
    <2>1. /\ sent \in Seq(0..Iters) /\ handled \in Seq(0..Iters) /\ nic \in Seq(Frames)
          /\ content \in [Frames -> 0..Iters] /\ OutLog = sent \o u
      BY DEF XskInv, TypeOK, OutLog
    <2>2. ~starved => u \in Seq(0..Iters)
      <3> SUFFICES ASSUME ~starved PROVE u \in Seq(0..Iters)
        OBVIOUS
      <3>1. tx \in Seq(Frames) /\ nic \o tx \in Seq(Frames)
        BY <2>1, ConcatProperties DEF XskInv, Control
      <3> QED
        BY <2>1, <3>1, ContentsType
    <2> HIDE DEF u
    <2>3. ~starved => /\ Len(OutLog) = Len(sent) + Len(u) /\ Len(sent) \in Nat /\ Len(u) \in Nat
                      /\ \A n \in 1..Len(sent) : OutLog[n] = sent[n]
      BY <2>1, <2>2, ShiftLog
    <2>4. ASSUME SERVER, dropped = {} PROVE IsPrefix(sent, handled)
      <3>1. ~starved /\ OutLog = handled
        BY <2>4 DEF XskInv, Control, ServerOut
      <3>2. Len(sent) <= Len(handled) /\ \A n \in 1..Len(sent) : sent[n] = handled[n]
        BY <2>3, <3>1
      <3>3. SubSeq(sent, 1, Len(sent)) = SubSeq(handled, 1, Len(sent))
        BY <2>1, <3>2, SamePrefix
      <3> QED
        BY <3>2, <3>3 DEF IsPrefix
    <2>5. ASSUME ~SERVER, ~starved, NEW m \in DOMAIN sent, NEW n \in DOMAIN sent, m < n
          PROVE  sent[m] < sent[n]
      <3>1. DOMAIN sent = 1..Len(sent)
        BY <2>1, LenProperties
      <3>2. /\ m \in 1..Len(OutLog) /\ n \in 1..Len(OutLog)
            /\ OutLog[m] = sent[m] /\ OutLog[n] = sent[n]
        BY <2>3, <2>5, <3>1
      <3>3. OutLog[m] < OutLog[n]
        BY <2>5, <3>2 DEF XskInv, ClientOut
      <3> QED
        BY <3>2, <3>3
    <2> QED
      BY <2>4, <2>5 DEF SentInOrder
  <1> QED
    BY XskInvariant, <1>1, PTL
=============================================================================
