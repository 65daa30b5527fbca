-------------------------- MODULE UdPingpongProofs --------------------------
(***************************************************************************)
(* Theorems about the UD pingpong for every size of the queues and every   *)
(* number of packets: of the server alone (UdServer), of the client alone  *)
(* (UdClient), and of the two with the network between them (UdPingpong).  *)
(*                                                                         *)
(* The argument for either program counts.  A buffer is in one of the      *)
(* queues, and every step moves it from the head of one to the end of      *)
(* another; so the counts of each buffer over the queues add up to one.    *)
(* Therefore a ping or pong is received into a buffer that nobody is going *)
(* to read, and what the completions that are not handled yet stand for is *)
(* still in their buffers: it is the rest of what was received, in order   *)
(* (HoldsRest).  The send buffer of the client has at most one send in the *)
(* queues, and while it has, bit 0 of pending_send is set.                 *)
(*                                                                         *)
(* For the two together it remains to be shown that each gives the other   *)
(* the environment that its module assumes (EachAlone); then all that was  *)
(* proved of each alone holds of the whole.                                *)
(***************************************************************************)
EXTENDS UdPingpong, CountingProofs

RecvWrids == QUEUE_SIZE..(2 * QUEUE_SIZE - 1)

(* The receive completions of W stand for the packets of the log after the *)
(* first base ones, in order, and the packets are still in their buffers.  *)
HoldsRest(W, payloads, log, base) ==
    /\ Len(log) = base + Count(W, RecvWrids)
    /\ \A n \in 1..Len(W) :
          W[n] \in RecvWrids =>
              payloads[W[n] - QUEUE_SIZE] = log[base + Count(SubSeq(W, 1, n), RecvWrids)]

(* No packet is in the log twice. *)
NoRepeats(log) == \A m, n \in 1..Len(log) : log[m] = log[n] => m = n

-----------------------------------------------------------------------------
(* The invariant of the server. *)

(* Completions that are not handled yet. *)
SrvW == Server!Completions

SrvControl ==
    /\ srv_pc = "poll" => srv_wc = <<>>
    /\ srv_pc \in {"parse", "update"} => srv_wc # <<>>
    /\ srv_pc = "update" => Head(srv_wc) \in RecvWrids

(* Each buffer is in one place. *)
SrvOwner ==
    \A i \in QueueIdx :
        Count(srv_rq, {i}) + Count(SrvW, {QUEUE_SIZE + i}) + Count(srv_sq, {i}) + Count(SrvW, {i}) = 1

(* A bit of pending_send is set only while its buffer is on the send side. *)
SrvPending ==
    srv_pc \in {"poll", "parse", "update"} =>
        \A i \in QueueIdx : srv_pending_send[i] => Count(srv_sq, {i}) + Count(SrvW, {i}) > 0

(* What was received is what was echoed, what is posted for sending and    *)
(* what the receive completions stand for.                                 *)
SrvOrder ==
    /\ \A n \in 1..Len(srv_echoed) : srv_echoed[n] = srv_received[n]
    /\ \A n \in 1..Len(srv_sq) :
          srv_recv_payloads[srv_sq[n]] = srv_received[Len(srv_echoed) + n]
    /\ HoldsRest(SrvW, srv_recv_payloads, srv_received, Len(srv_echoed) + Len(srv_sq))

SrvInv ==
    /\ Server!TypeOK
    /\ SrvControl
    /\ SrvOwner
    /\ SrvPending
    /\ SrvOrder
    /\ NoRepeats(srv_received)

-----------------------------------------------------------------------------
(* The invariant of the client. *)

(* Completions that are not handled yet. *)
OpenWc == IF cpc = "update" THEN Tail(wc) ELSE wc
CliW == OpenWc \o cq

CliControl ==
    /\ cpc = "poll" => wc = <<>>
    /\ cpc \in {"parse", "update"} => wc # <<>>
    /\ cpc = "update" => Head(wc) \in RecvWrids

CliType ==
    /\ TypeOK
    /\ \A n \in 1..Len(CliW) : CliW[n] \in RecvWrids \cup {0}

(* Each receive buffer is in one place, and none of them is lost. *)
CliOwner ==
    /\ \A i \in QueueIdx : Count(rq, {i}) + Count(CliW, {QUEUE_SIZE + i}) = 1
    /\ Len(rq) + Count(CliW, RecvWrids) = QUEUE_SIZE
    /\ Len(CliW) = Count(CliW, RecvWrids) + Count(CliW, {0})

(* At most one send is in the queues, and then the bit is set and the      *)
(* thread does not touch the send buffer.                                  *)
CliSend ==
    /\ sq + Count(CliW, {0}) \in 0..1
    /\ sq + Count(CliW, {0}) = 1 => pending_send /\ tpc \in {"wait", "end"} /\ id > 1
    /\ tpc = "send" => pending_send
    /\ tpc \in {"wait", "end"} => send_payload = id - 1
    /\ tpc \in {"post", "send"} => send_payload = id
    /\ id = Iters + 1 => tpc = "end"

(* What the send buffer holds is newer than what was sent from it. *)
CliPings ==
    /\ PingsInOrder
    /\ \A n \in 1..Len(pinged) : pinged[n] <= send_payload
    /\ (sq = 1 \/ tpc \in {"post", "send"}) =>
          \A n \in 1..Len(pinged) : pinged[n] < send_payload

CliOrder ==
    /\ Len(persisted) <= Len(received)
    /\ \A n \in 1..Len(persisted) : persisted[n] = received[n]
    /\ cpc \in {"poll", "parse", "update"} =>
          HoldsRest(CliW, recv_payloads, received, Len(persisted))

(* Only pongs of pings that were sent arrive. *)
CliEnv == NoRepeats(received) /\ ToSet(received) \subseteq ToSet(pinged)

CliInv ==
    /\ CliType
    /\ CliControl
    /\ CliOwner
    /\ CliSend
    /\ CliPings
    /\ CliOrder
    /\ CliEnv

-----------------------------------------------------------------------------
(* The invariant of the two: pings arrive only when they were sent. *)
UdInv == CliInv /\ SrvInv /\ ToSet(srv_received) \subseteq ToSet(pinged)
-----------------------------------------------------------------------------
(* The ids of work requests: what the definitions amount to. *)
LEMMA Wrids ==
    /\ QUEUE_SIZE \in Nat \ {0}
    /\ WrIds = 0..(2 * QUEUE_SIZE - 1) /\ QueueIdx = 0..(QUEUE_SIZE - 1)
    /\ RecvWrids \subseteq WrIds /\ QueueIdx \subseteq WrIds
    /\ \A w \in WrIds : w \in RecvWrids <=> w >= QUEUE_SIZE
    /\ \A w \in RecvWrids : w - QUEUE_SIZE \in QueueIdx
    /\ \A w \in WrIds \ RecvWrids : w \in QueueIdx
    /\ \A i \in QueueIdx : i \notin RecvWrids /\ QUEUE_SIZE + i \in RecvWrids
  BY QueueAssumption DEF WrIds, QueueIdx, RecvWrids

(* A packet is received into a buffer that no completion stands for. *)
LEMMA HoldsReceive ==
    ASSUME NEW W \in Seq(WrIds), NEW P \in [QueueIdx -> 0..Iters], NEW L \in Seq(0..Iters),
           NEW base \in Nat, HoldsRest(W, P, L, base), NEW i \in QueueIdx, NEW p \in 0..Iters,
           \A n \in 1..Len(W) : W[n] # QUEUE_SIZE + i
    PROVE  HoldsRest(Append(W, QUEUE_SIZE + i), [P EXCEPT ![i] = p], Append(L, p), base)
  <1> DEFINE V == Append(W, QUEUE_SIZE + i)
             Q == [P EXCEPT ![i] = p]
             M == Append(L, p)
  <1>1. QUEUE_SIZE + i \in WrIds /\ QUEUE_SIZE + i \in RecvWrids
    BY Wrids
  <1>2. V \in Seq(WrIds) /\ Len(V) = Len(W) + 1 /\ Len(W) \in Nat
        /\ Len(M) = Len(L) + 1 /\ Len(L) \in Nat
    BY <1>1, AppendProperties, LenProperties
  <1>3. Count(V, RecvWrids) = Count(W, RecvWrids) + 1
    <2>1. Count(V, RecvWrids) = Count(W, RecvWrids) + Hit(QUEUE_SIZE + i, RecvWrids)
      BY <1>1, CountAppend, Zenon
    <2> QED
      BY <1>1, <2>1 DEF Hit
  <1>4. Count(W, RecvWrids) \in Nat /\ Len(L) = base + Count(W, RecvWrids)
    BY CountType DEF HoldsRest
  <1>5. ASSUME NEW n \in 1..Len(V), V[n] \in RecvWrids
        PROVE  Q[V[n] - QUEUE_SIZE] = M[base + Count(SubSeq(V, 1, n), RecvWrids)]
    <2>1. CASE n = Len(V)
      <3>1. V[n] = QUEUE_SIZE + i /\ V[n] - QUEUE_SIZE = i
        BY <1>1, <1>2, <2>1, Wrids
      <3>2. SubSeq(V, 1, n) = V
        BY <1>2, <2>1, SubSeqFull
      <3>3. base + Count(SubSeq(V, 1, n), RecvWrids) = Len(L) + 1
        <4>1. Count(SubSeq(V, 1, n), RecvWrids) = Count(V, RecvWrids)
          BY <3>2, Zenon
        <4> QED
          BY <1>3, <1>4, <4>1
      <3>4. M[Len(L) + 1] = p /\ Q[i] = p
        BY AppendProperties
      <3> QED
        BY <3>1, <3>3, <3>4
    <2>2. CASE n # Len(V)
      <3>1. n \in 1..Len(W) /\ V[n] = W[n] /\ SubSeq(V, 1, n) = SubSeq(W, 1, n)
        BY <1>1, <1>2, <2>2
      <3>2. W[n] \in RecvWrids /\ W[n] # QUEUE_SIZE + i /\ W[n] - QUEUE_SIZE \in QueueIdx
        BY <1>5, <3>1, Wrids
      <3>3. W[n] - QUEUE_SIZE # i
        <4>1. \A w \in RecvWrids : w # QUEUE_SIZE + i => w - QUEUE_SIZE # i
          BY QueueAssumption DEF RecvWrids, QueueIdx
        <4> QED
          BY <3>2, <4>1, Zenon
      <3>4. Q[W[n] - QUEUE_SIZE] = P[W[n] - QUEUE_SIZE]
        BY <3>2, <3>3
      <3>5. /\ Count(SubSeq(W, 1, n), RecvWrids) \in 0..Count(W, RecvWrids)
            /\ Count(SubSeq(W, 1, n), RecvWrids) > 0
        BY <1>2, <3>1, <3>2, CountPrefix
      <3>6. base + Count(SubSeq(W, 1, n), RecvWrids) \in 1..Len(L)
        BY <1>4, <3>5
      <3>7. M[base + Count(SubSeq(W, 1, n), RecvWrids)] = L[base + Count(SubSeq(W, 1, n), RecvWrids)]
        BY <3>6, AppendProperties
      <3> QED
        BY <3>1, <3>2, <3>4, <3>7 DEF HoldsRest
    <2> QED
      BY <2>1, <2>2
  <1> HIDE DEF V, Q, M
  <1>6. HoldsRest(V, Q, M, base)
    BY <1>2, <1>3, <1>4, <1>5 DEF HoldsRest
  <1> QED
    BY <1>6 DEF V, Q, M

(* A send completion does not matter. *)
LEMMA HoldsSend ==
    ASSUME NEW W \in Seq(WrIds), NEW P, NEW L, NEW base,
           HoldsRest(W, P, L, base), NEW i \in QueueIdx
    PROVE  HoldsRest(Append(W, i), P, L, base)
  <1> DEFINE V == Append(W, i)
  <1>1. i \in WrIds /\ i \notin RecvWrids
    BY Wrids
  <1>2. Len(V) = Len(W) + 1 /\ Len(W) \in Nat /\ V[Len(W) + 1] = i
    BY <1>1, AppendProperties, LenProperties
  <1>3. Count(V, RecvWrids) = Count(W, RecvWrids)
    <2>1. Count(V, RecvWrids) = Count(W, RecvWrids) + Hit(i, RecvWrids)
      BY <1>1, CountAppend, Zenon
    <2> QED
      BY <1>1, <2>1, CountType DEF Hit
  <1>4. ASSUME NEW n \in 1..Len(V), V[n] \in RecvWrids
        PROVE  n \in 1..Len(W) /\ V[n] = W[n] /\ SubSeq(V, 1, n) = SubSeq(W, 1, n)
    BY <1>1, <1>2, <1>4
  <1> HIDE DEF V
  <1>5. HoldsRest(V, P, L, base)
    BY <1>3, <1>4 DEF HoldsRest
  <1> QED
    BY <1>5 DEF V

(* A send completion is handled. *)
LEMMA HoldsTailSend ==
    ASSUME NEW W \in Seq(WrIds), NEW P, NEW L, NEW base,
           HoldsRest(W, P, L, base), W # <<>>, Head(W) \notin RecvWrids
    PROVE  HoldsRest(Tail(W), P, L, base)
  <1> DEFINE V == Tail(W)
  <1>1. V \in Seq(WrIds) /\ Len(V) = Len(W) - 1 /\ Len(W) \in Nat
    BY HeadTailProperties, LenProperties
  <1>2. Hit(Head(W), RecvWrids) = 0
    BY DEF Hit
  <1>3. Count(V, RecvWrids) = Count(W, RecvWrids)
    <2>1. Count(W, RecvWrids) = Count(V, RecvWrids) + Hit(Head(W), RecvWrids)
      BY CountTail, Zenon
    <2>2. Count(V, RecvWrids) \in Nat
      BY <1>1, CountType, Zenon
    <2> QED
      BY <1>2, <2>1, <2>2
  <1>4. ASSUME NEW n \in 1..Len(V)
        PROVE  /\ n + 1 \in 1..Len(W) /\ V[n] = W[n + 1]
               /\ Count(SubSeq(W, 1, n + 1), RecvWrids) = Count(SubSeq(V, 1, n), RecvWrids)
    <2>1. n + 1 \in 1..Len(W) /\ V[n] = W[n + 1]
      BY <1>1, HeadTailProperties
    <2>2. Count(SubSeq(W, 1, n + 1), RecvWrids) = Count(SubSeq(V, 1, n), RecvWrids) + Hit(Head(W), RecvWrids)
      BY CountTailPrefix, Zenon
    <2>3. Count(SubSeq(V, 1, n), RecvWrids) \in Nat
      <3>1. n \in 0..Len(V) /\ Count(V, RecvWrids) \in Nat
        BY <1>1, <1>3, CountType
      <3>2. Count(SubSeq(V, 1, n), RecvWrids) \in 0..Count(V, RecvWrids)
        BY <1>1, <3>1, CountPrefix, Zenon
      <3> QED
        BY <3>1, <3>2
    <2> QED
      BY <1>2, <2>1, <2>2, <2>3
  <1> HIDE DEF V
  <1>5. HoldsRest(V, P, L, base)
    BY <1>3, <1>4 DEF HoldsRest
  <1> QED
    BY <1>5 DEF V

(* A receive completion is handled: its packet is the next one. *)
LEMMA HoldsTailRecv ==
    ASSUME NEW W \in Seq(WrIds), NEW P, NEW L, NEW base \in Nat,
           HoldsRest(W, P, L, base), W # <<>>, Head(W) \in RecvWrids
    PROVE  /\ HoldsRest(Tail(W), P, L, base + 1)
           /\ base + 1 <= Len(L)
           /\ P[Head(W) - QUEUE_SIZE] = L[base + 1]
  <1> DEFINE V == Tail(W)
  <1>1. V \in Seq(WrIds) /\ Len(V) = Len(W) - 1 /\ Len(W) \in Nat
    BY HeadTailProperties, LenProperties
  <1>2. Hit(Head(W), RecvWrids) = 1
    BY DEF Hit
  <1>3. Count(W, RecvWrids) = Count(V, RecvWrids) + 1 /\ Count(V, RecvWrids) \in Nat
    <2>1. Count(W, RecvWrids) = Count(V, RecvWrids) + Hit(Head(W), RecvWrids)
      BY CountTail, Zenon
    <2>2. Count(V, RecvWrids) \in Nat
      BY <1>1, CountType, Zenon
    <2> QED
      BY <1>2, <2>1, <2>2
  <1>4. ASSUME NEW n \in 1..Len(V)
        PROVE  /\ n + 1 \in 1..Len(W) /\ V[n] = W[n + 1]
               /\ Count(SubSeq(W, 1, n + 1), RecvWrids) = Count(SubSeq(V, 1, n), RecvWrids) + 1
               /\ Count(SubSeq(V, 1, n), RecvWrids) \in Nat
    <2>1. n + 1 \in 1..Len(W) /\ V[n] = W[n + 1]
      BY <1>1, HeadTailProperties
    <2>2. Count(SubSeq(W, 1, n + 1), RecvWrids) = Count(SubSeq(V, 1, n), RecvWrids) + Hit(Head(W), RecvWrids)
      BY CountTailPrefix, Zenon
    <2>3. Count(SubSeq(V, 1, n), RecvWrids) \in Nat
      <3>1. n \in 0..Len(V) /\ Count(V, RecvWrids) \in Nat
        BY <1>1, <1>3, CountType
      <3>2. Count(SubSeq(V, 1, n), RecvWrids) \in 0..Count(V, RecvWrids)
        BY <1>1, <3>1, CountPrefix, Zenon
      <3> QED
        BY <3>1, <3>2
    <2> QED
      BY <1>2, <2>1, <2>2, <2>3
  <1>5. Len(W) >= 1 /\ W[1] = Head(W) /\ Count(SubSeq(W, 1, 1), RecvWrids) = 1
    <2>1. Len(W) >= 1 /\ W[1] = Head(W)
      BY <1>1
    <2> DEFINE U == SubSeq(W, 1, 1)
    <2>2. U \in Seq(WrIds) /\ Len(U) = 1 /\ U[1] = Head(W)
      BY <1>1, <2>1
    <2>3. \A n \in 1..Len(U) : U[n] \in RecvWrids
      BY <2>2
    <2> HIDE DEF U
    <2>4. Count(U, RecvWrids) = Len(U)
      BY <2>2, <2>3, CountAll, Zenon
    <2> QED
      BY <2>1, <2>2, <2>4 DEF U
  <1> HIDE DEF V
  <1>6. HoldsRest(V, P, L, base + 1)
    <2>1. Len(L) = base + 1 + Count(V, RecvWrids)
      BY <1>3 DEF HoldsRest
    <2>2. ASSUME NEW n \in 1..Len(V), V[n] \in RecvWrids
          PROVE  P[V[n] - QUEUE_SIZE] = L[base + 1 + Count(SubSeq(V, 1, n), RecvWrids)]
      <3>1. base + Count(SubSeq(W, 1, n + 1), RecvWrids) = base + 1 + Count(SubSeq(V, 1, n), RecvWrids)
        BY <1>4
      <3>2. W[n + 1] = V[n] /\ n + 1 \in 1..Len(W)
        BY <1>4
      <3>3. P[W[n + 1] - QUEUE_SIZE] = L[base + Count(SubSeq(W, 1, n + 1), RecvWrids)]
        BY <2>2, <3>2 DEF HoldsRest
      <3> QED
        BY <3>1, <3>2, <3>3
    <2> QED
      BY <2>1, <2>2 DEF HoldsRest
  <1>7. P[Head(W) - QUEUE_SIZE] = L[base + 1]
    BY <1>1, <1>5 DEF HoldsRest
  <1> QED
    BY <1>3, <1>6, <1>7 DEF V, HoldsRest
-----------------------------------------------------------------------------
(* Counting buffers. *)

(* What an index or a completion adds to the count of buffer i. *)
LEMMA Hits ==
    ASSUME NEW h \in QueueIdx, NEW i \in QueueIdx
    PROVE  /\ Hit(h, {i}) \in 0..1 /\ (Hit(h, {i}) = 1 <=> h = i)
           /\ Hit(QUEUE_SIZE + h, {QUEUE_SIZE + i}) = Hit(h, {i})
           /\ Hit(QUEUE_SIZE + h, {i}) = 0
           /\ Hit(h, {QUEUE_SIZE + i}) = 0
  BY QueueAssumption DEF Hit, QueueIdx

(* A queue of indices is a queue of work request ids. *)
LEMMA QueueCounts ==
    ASSUME NEW q \in Seq(WrIds), NEW i \in QueueIdx
    PROVE  /\ Count(q, {i}) \in Nat /\ Count(q, {QUEUE_SIZE + i}) \in Nat
           /\ Count(q, RecvWrids) \in Nat /\ Len(q) \in Nat
           /\ Count(q, {i}) = 0 => \A n \in 1..Len(q) : q[n] # i
           /\ Count(q, {QUEUE_SIZE + i}) = 0 => \A n \in 1..Len(q) : q[n] # QUEUE_SIZE + i
           /\ q # <<>> /\ Head(q) = i => Count(q, {i}) > 0
           /\ q # <<>> /\ Head(q) = QUEUE_SIZE + i => Count(q, {QUEUE_SIZE + i}) > 0
  <1>1. \A S : Count(q, S) \in Nat
    BY CountType, Zenon
  <1>2. \A S : Count(q, S) = 0 <=> \A n \in 1..Len(q) : q[n] \notin S
    BY CountZero, Zenon
  <1>3. Len(q) \in Nat /\ (q # <<>> => 1 \in 1..Len(q) /\ q[1] = Head(q))
    BY LenProperties, EmptySeq
  <1> QED
    BY <1>1, <1>2, <1>3

(* A queue of indices that gets one more or loses its head. *)
LEMMA QueueSteps ==
    ASSUME NEW q \in Seq(WrIds), NEW x \in WrIds, NEW S
    PROVE  /\ Append(q, x) \in Seq(WrIds) /\ Append(q, x) # <<>>
           /\ Len(Append(q, x)) = Len(q) + 1
           /\ Count(Append(q, x), S) = Count(q, S) + Hit(x, S)
           /\ Hit(x, S) \in 0..1
           /\ q # <<>> =>
                 /\ Head(q) \in WrIds /\ Tail(q) \in Seq(WrIds) /\ Len(Tail(q)) = Len(q) - 1
                 /\ Count(q, S) = Count(Tail(q), S) + Hit(Head(q), S)
                 /\ Hit(Head(q), S) \in 0..1
  <1>1. Append(q, x) \in Seq(WrIds) /\ Append(q, x) # <<>> /\ Len(Append(q, x)) = Len(q) + 1
    BY AppendProperties
  <1>2. Count(Append(q, x), S) = Count(q, S) + Hit(x, S)
    BY CountAppend, Zenon
  <1>3. ASSUME q # <<>>
        PROVE  Head(q) \in WrIds /\ Tail(q) \in Seq(WrIds) /\ Len(Tail(q)) = Len(q) - 1
    BY <1>3, HeadTailProperties
  <1>4. ASSUME q # <<>>
        PROVE  Count(q, S) = Count(Tail(q), S) + Hit(Head(q), S)
    BY <1>4, CountTail, Zenon
  <1>5. \A y : Hit(y, S) \in 0..1
    BY DEF Hit
  <1> QED
    BY <1>1, <1>2, <1>3, <1>4, <1>5

(* Completions: those that were polled and the completion queue. *)
LEMMA Polled ==
    ASSUME NEW w \in Seq(WrIds), NEW c \in Seq(WrIds), NEW x \in WrIds
    PROVE  /\ w \o c \in Seq(WrIds)
           /\ w \o Append(c, x) = Append(w \o c, x)
           /\ w # <<>> => w \o c # <<>> /\ Head(w \o c) = Head(w) /\ Tail(w \o c) = Tail(w) \o c
           /\ Len(w \o c) = Len(w) + Len(c)
           /\ w = <<>> => w \o c = c
           /\ \A n \in 0..Len(c) :
                 /\ SubSeq(c, 1, n) \in Seq(WrIds) /\ SubSeq(c, n + 1, Len(c)) \in Seq(WrIds)
                 /\ SubSeq(c, 1, n) \o SubSeq(c, n + 1, Len(c)) = c
                 /\ n > 0 => SubSeq(c, 1, n) # <<>>
  <1>1. w \o c \in Seq(WrIds) /\ Len(w \o c) = Len(w) + Len(c)
    BY ConcatProperties
  <1>2. w \o Append(c, x) = Append(w \o c, x)
    OBVIOUS
  <1>3. ASSUME w # <<>>
        PROVE  w \o c # <<>> /\ Head(w \o c) = Head(w) /\ Tail(w \o c) = Tail(w) \o c
    BY <1>3
  <1>4. w = <<>> => w \o c = c
    BY ConcatEmptySeq
  <1>5. ASSUME NEW n \in 0..Len(c)
        PROVE  /\ SubSeq(c, 1, n) \in Seq(WrIds) /\ SubSeq(c, n + 1, Len(c)) \in Seq(WrIds)
               /\ SubSeq(c, 1, n) \o SubSeq(c, n + 1, Len(c)) = c
               /\ n > 0 => SubSeq(c, 1, n) # <<>>
    <2>1. Len(c) \in Nat
      BY LenProperties
    <2>2. /\ SubSeq(c, 1, n) \in Seq(WrIds) /\ SubSeq(c, n + 1, Len(c)) \in Seq(WrIds)
          /\ Len(SubSeq(c, 1, n)) = n
      BY CountSplit, Zenon
    <2>3. SubSeq(c, 1, n) \o SubSeq(c, n + 1, Len(c)) = SubSeq(c, 1, Len(c))
      <3>1. n \in 1 - 1..Len(c) /\ 1 \in 1..Len(c) + 1 /\ Len(c) \in n..Len(c)
        BY <2>1
      <3> QED
        BY <3>1, ConcatAdjacentSubSeq
    <2>4. SubSeq(c, 1, Len(c)) = c
      BY SubSeqFull, Zenon
    <2>5. n > 0 => SubSeq(c, 1, n) # <<>>
      BY <2>2, EmptySeq
    <2> QED
      BY <2>2, <2>3, <2>4, <2>5, Zenon
  <1> QED
    BY <1>1, <1>2, <1>3, <1>4, <1>5
-----------------------------------------------------------------------------
(* The server. *)

(* The definitions that the server and the client share are the same. *)
LEMMA SrvNames ==
    /\ Server!QueueIdx = QueueIdx /\ Server!WrIds = WrIds
    /\ Server!PINGPONG_SEND_WRID = 0 /\ Server!PINGPONG_RECV_WRID = QUEUE_SIZE
    /\ \A w : Server!IsRecv(w) <=> w >= QUEUE_SIZE
    /\ \A w : Server!RecvIdx(w) = w - QUEUE_SIZE
    /\ \A s, S : Server!Count(s, S) = Count(s, S)
    /\ \A s : Server!ToSet(s) = ToSet(s)
  <1>1. Server!QueueIdx = QueueIdx /\ Server!WrIds = WrIds
    BY DEF Server!QueueIdx, QueueIdx, Server!WrIds, WrIds
  <1>2. Server!PINGPONG_SEND_WRID = 0 /\ Server!PINGPONG_RECV_WRID = QUEUE_SIZE
    BY DEF Server!PINGPONG_SEND_WRID, Server!PINGPONG_RECV_WRID
  <1>3. \A w : (Server!IsRecv(w) <=> w >= QUEUE_SIZE) /\ Server!RecvIdx(w) = w - QUEUE_SIZE
    BY <1>2 DEF Server!IsRecv, Server!RecvIdx
  <1>4. \A s, S : Server!Count(s, S) = Count(s, S)
    <2>1. \A S : Server!Cardinality(S) = Cardinality(S)
      BY Zenon DEF Server!Cardinality, Cardinality
    <2> QED
      BY <2>1 DEF Server!Count, Server!Positions, Count, Positions
  <1>5. \A s : Server!ToSet(s) = ToSet(s)
    BY DEF Server!ToSet, ToSet
  <1> QED
    BY <1>1, <1>2, <1>3, <1>4, <1>5

(* The types of the server's variables, in the names of this module. *)
SrvType ==
    /\ srv_rq \in Seq(QueueIdx)
    /\ srv_sq \in Seq(QueueIdx)
    /\ srv_cq \in Seq(WrIds)
    /\ srv_recv_payloads \in [QueueIdx -> 0..Iters]
    /\ srv_pending_send \in [QueueIdx -> BOOLEAN]
    /\ srv_pc \in {"poll", "parse", "update", "done", "closed"}
    /\ srv_wc \in Seq(WrIds)
    /\ srv_recv_idx \in 0..Iters
    /\ srv_global_exit \in BOOLEAN
    /\ srv_received \in Seq(1..Iters)
    /\ srv_echoed \in Seq(0..Iters)

(* They are the same. *)
LEMMA SrvTypes ==
    /\ Server!TypeOK <=> SrvType
    /\ Server!TypeOK' <=> SrvType'
  BY SrvNames DEF Server!TypeOK, SrvType

(* Where buffer i is. *)
Places(R, W, S, i) == Count(R, {i}) + Count(W, {QUEUE_SIZE + i}) + Count(S, {i}) + Count(W, {i})

(* A queue of indices may be read as a queue of work request ids. *)
LEMMA IndexQueue ==
    ASSUME NEW q \in Seq(QueueIdx)
    PROVE  /\ q \in Seq(WrIds) /\ Len(q) \in Nat
           /\ \A i \in QueueIdx : Append(q, i) \in Seq(QueueIdx)
           /\ \A n \in 1..Len(q) : q[n] \in QueueIdx
           /\ q # <<>> => Head(q) \in QueueIdx /\ Tail(q) \in Seq(QueueIdx) /\ Len(q) > 0
  <1>1. Len(q) \in Nat /\ \A n \in 1..Len(q) : q[n] \in QueueIdx
    BY LenProperties
  <1>2. \A n \in 1..Len(q) : q[n] \in WrIds
    BY <1>1, Wrids
  <1>3. q \in Seq(WrIds)
    BY <1>2
  <1> QED
    BY <1>1, <1>3

(* The four moves of a buffer leave it in as many places as it was: from   *)
(* a posted receive to a receive completion, ...                           *)
LEMMA PlacesReceive ==
    ASSUME NEW R \in Seq(QueueIdx), NEW W \in Seq(WrIds), NEW S, R # <<>>, NEW i \in QueueIdx,
           Count(S, {i}) \in Nat
    PROVE  Places(Tail(R), Append(W, QUEUE_SIZE + Head(R)), S, i) = Places(R, W, S, i)
  <1> DEFINE h == Head(R)
             x == QUEUE_SIZE + h
  <1>1. R \in Seq(WrIds) /\ h \in QueueIdx /\ h \in WrIds /\ x \in WrIds
    BY IndexQueue, Wrids
  <1>2. Tail(R) \in Seq(WrIds)
    BY <1>1
  <1> HIDE DEF h, x
  <1>3. Count(R, {i}) = Count(Tail(R), {i}) + Hit(h, {i})
    BY <1>1, QueueSteps, Zenon DEF h
  <1>4. Count(Append(W, x), {QUEUE_SIZE + i}) = Count(W, {QUEUE_SIZE + i}) + Hit(x, {QUEUE_SIZE + i})
    BY <1>1, QueueSteps, Zenon
  <1>5. Count(Append(W, x), {i}) = Count(W, {i}) + Hit(x, {i})
    BY <1>1, QueueSteps, Zenon
  <1>6. Hit(h, {i}) \in 0..1 /\ Hit(x, {QUEUE_SIZE + i}) = Hit(h, {i}) /\ Hit(x, {i}) = 0
    BY <1>1, Hits DEF x
  <1>7. /\ Count(R, {i}) \in Nat /\ Count(Tail(R), {i}) \in Nat
        /\ Count(W, {QUEUE_SIZE + i}) \in Nat /\ Count(W, {i}) \in Nat
    BY <1>1, <1>2, CountType, Zenon
  <1> QED
    BY <1>3, <1>4, <1>5, <1>6, <1>7 DEF Places, h, x

(* ... from a posted send to a send completion, ... *)
LEMMA PlacesTransmit ==
    ASSUME NEW R, NEW W \in Seq(WrIds), NEW S \in Seq(QueueIdx), S # <<>>, NEW i \in QueueIdx,
           Count(R, {i}) \in Nat
    PROVE  /\ Places(R, Append(W, Head(S)), Tail(S), i) = Places(R, W, S, i)
           /\ Count(Tail(S), {i}) + Count(Append(W, Head(S)), {i}) = Count(S, {i}) + Count(W, {i})
  <1> DEFINE h == Head(S)
  <1>1. S \in Seq(WrIds) /\ h \in QueueIdx /\ h \in WrIds
    BY IndexQueue, Wrids
  <1>2. Tail(S) \in Seq(WrIds)
    BY <1>1
  <1> HIDE DEF h
  <1>3. Count(S, {i}) = Count(Tail(S), {i}) + Hit(h, {i})
    BY <1>1, QueueSteps, Zenon DEF h
  <1>4. Count(Append(W, h), {QUEUE_SIZE + i}) = Count(W, {QUEUE_SIZE + i}) + Hit(h, {QUEUE_SIZE + i})
    BY <1>1, QueueSteps, Zenon
  <1>5. Count(Append(W, h), {i}) = Count(W, {i}) + Hit(h, {i})
    BY <1>1, QueueSteps, Zenon
  <1>6. Hit(h, {i}) \in 0..1 /\ Hit(h, {QUEUE_SIZE + i}) = 0
    BY <1>1, Hits
  <1>7. /\ Count(S, {i}) \in Nat /\ Count(Tail(S), {i}) \in Nat
        /\ Count(W, {QUEUE_SIZE + i}) \in Nat /\ Count(W, {i}) \in Nat
    BY <1>1, <1>2, CountType, Zenon
  <1> QED
    BY <1>3, <1>4, <1>5, <1>6, <1>7, SMTT(30) DEF Places, h

(* ... from a send completion to a posted receive, ... *)
LEMMA PlacesParseSend ==
    ASSUME NEW R \in Seq(QueueIdx), NEW W \in Seq(WrIds), NEW S, W # <<>>, Head(W) \in QueueIdx,
           NEW i \in QueueIdx, Count(S, {i}) \in Nat
    PROVE  /\ Places(Append(R, Head(W)), Tail(W), S, i) = Places(R, W, S, i)
           /\ i # Head(W) => Count(Tail(W), {i}) = Count(W, {i})
  <1> DEFINE h == Head(W)
  <1>1. R \in Seq(WrIds) /\ h \in QueueIdx /\ h \in WrIds /\ Tail(W) \in Seq(WrIds)
    BY IndexQueue, Wrids
  <1> HIDE DEF h
  <1>3. Count(Append(R, h), {i}) = Count(R, {i}) + Hit(h, {i})
    BY <1>1, QueueSteps, ZenonT(40) DEF h
  <1>4. Count(W, {QUEUE_SIZE + i}) = Count(Tail(W), {QUEUE_SIZE + i}) + Hit(h, {QUEUE_SIZE + i})
    BY <1>1, QueueSteps, Zenon DEF h
  <1>5. Count(W, {i}) = Count(Tail(W), {i}) + Hit(h, {i})
    BY <1>1, QueueSteps, Zenon DEF h
  <1>6. Hit(h, {i}) \in 0..1 /\ (Hit(h, {i}) = 1 <=> h = i) /\ Hit(h, {QUEUE_SIZE + i}) = 0
    BY <1>1, Hits
  <1>7. /\ Count(R, {i}) \in Nat /\ Count(Tail(W), {i}) \in Nat /\ Count(Tail(W), {QUEUE_SIZE + i}) \in Nat
        /\ Count(W, {QUEUE_SIZE + i}) \in Nat /\ Count(W, {i}) \in Nat
    BY <1>1, CountType, Zenon
  <1> QED
    BY <1>3, <1>4, <1>5, <1>6, <1>7, SMTT(30) DEF Places, h

(* ... and from a receive completion to a posted send. *)
LEMMA PlacesParseRecv ==
    ASSUME NEW R, NEW W \in Seq(WrIds), NEW S \in Seq(QueueIdx), W # <<>>, Head(W) \in RecvWrids,
           NEW i \in QueueIdx, Count(R, {i}) \in Nat
    PROVE  /\ Places(R, Tail(W), Append(S, Head(W) - QUEUE_SIZE), i) = Places(R, W, S, i)
           /\ Count(Tail(W), {i}) = Count(W, {i})
           /\ Count(Append(S, Head(W) - QUEUE_SIZE), {i}) >= Count(S, {i})
           /\ i = Head(W) - QUEUE_SIZE => Count(Append(S, Head(W) - QUEUE_SIZE), {i}) > 0
  <1> DEFINE h == Head(W) - QUEUE_SIZE
             x == Head(W)
  <1>1. S \in Seq(WrIds) /\ h \in QueueIdx /\ h \in WrIds /\ x \in WrIds /\ Tail(W) \in Seq(WrIds)
        /\ x = QUEUE_SIZE + h
    BY IndexQueue, Wrids DEF RecvWrids
  <1> HIDE DEF h, x
  <1>3. Count(Append(S, h), {i}) = Count(S, {i}) + Hit(h, {i})
    BY <1>1, CountAppend, ZenonT(40)
  <1>4. Count(W, {QUEUE_SIZE + i}) = Count(Tail(W), {QUEUE_SIZE + i}) + Hit(x, {QUEUE_SIZE + i})
    BY <1>1, QueueSteps, Zenon DEF x
  <1>5. Count(W, {i}) = Count(Tail(W), {i}) + Hit(x, {i})
    BY <1>1, QueueSteps, Zenon DEF x
  <1>6. Hit(h, {i}) \in 0..1 /\ (Hit(h, {i}) = 1 <=> h = i) /\ Hit(x, {QUEUE_SIZE + i}) = Hit(h, {i}) /\ Hit(x, {i}) = 0
    BY <1>1, Hits
  <1>7. /\ Count(S, {i}) \in Nat /\ Count(Tail(W), {i}) \in Nat /\ Count(Tail(W), {QUEUE_SIZE + i}) \in Nat
        /\ Count(W, {QUEUE_SIZE + i}) \in Nat /\ Count(W, {i}) \in Nat
    BY <1>1, CountType, Zenon
  <1>8. /\ Places(R, Tail(W), Append(S, h), i) = Places(R, W, S, i)
        /\ Count(Tail(W), {i}) = Count(W, {i})
        /\ Count(Append(S, h), {i}) >= Count(S, {i})
        /\ i = h => Count(Append(S, h), {i}) > 0
    BY <1>3, <1>4, <1>5, <1>6, <1>7, SMTT(30) DEF Places
  <1> QED
    BY <1>8 DEF h

(* What each step of the server does to the queues and the completions. *)

(* A step that moves no buffer. *)
SrvQuiet ==
    /\ SrvW' = SrvW
    /\ UNCHANGED <<srv_rq, srv_sq, srv_recv_payloads, srv_received, srv_echoed>>

(* The completions that are not handled yet are a queue. *)
LEMMA SrvOpen ==
    ASSUME SrvInv
    PROVE  /\ SrvW \in Seq(WrIds)
           /\ srv_pc = "update" => SrvW = Tail(srv_wc) \o srv_cq /\ Tail(srv_wc) \in Seq(WrIds)
           /\ srv_pc # "update" => SrvW = srv_wc \o srv_cq
           /\ srv_pc = "parse" => /\ SrvW # <<>> /\ Head(SrvW) = Head(srv_wc)
                                  /\ Tail(SrvW) = Tail(srv_wc) \o srv_cq
                                  /\ Head(srv_wc) \in WrIds /\ Tail(srv_wc) \in Seq(WrIds)
           /\ srv_pc = "poll" => SrvW = srv_cq
  <1>1. srv_wc \in Seq(WrIds) /\ srv_cq \in Seq(WrIds) /\ 0 \in WrIds
    BY SrvTypes, Wrids DEF SrvInv, SrvType
  <1>2. /\ srv_pc = "update" => SrvW = Tail(srv_wc) \o srv_cq
        /\ srv_pc # "update" => SrvW = srv_wc \o srv_cq
    BY DEF SrvW, Server!Completions, Server!OpenWc
  <1>3. srv_pc \in {"parse", "update"} => srv_wc # <<>> /\ Head(srv_wc) \in WrIds /\ Tail(srv_wc) \in Seq(WrIds)
    BY <1>1, HeadTailProperties DEF SrvInv, SrvControl
  <1>4. SrvW \in Seq(WrIds)
    BY <1>1, <1>2, <1>3, ConcatProperties
  <1>5. srv_pc = "parse" => SrvW # <<>> /\ Head(SrvW) = Head(srv_wc) /\ Tail(SrvW) = Tail(srv_wc) \o srv_cq
    BY <1>1, <1>2, <1>3, Polled
  <1>6. srv_pc = "poll" => SrvW = srv_cq
    BY <1>1, <1>2, ConcatEmptySeq DEF SrvInv, SrvControl
  <1> QED
    BY <1>2, <1>3, <1>4, <1>5, <1>6

(* A ping arrives. *)
LEMMA SrvReceiveEffect ==
    ASSUME SrvInv, NEW p, Server!HcaReceive(p)
    PROVE  /\ srv_rq # <<>> /\ Head(srv_rq) \in QueueIdx
           /\ srv_rq' = Tail(srv_rq)
           /\ SrvW' = Append(SrvW, QUEUE_SIZE + Head(srv_rq))
           /\ srv_cq' = Append(srv_cq, QUEUE_SIZE + Head(srv_rq))
           /\ srv_recv_payloads' = [srv_recv_payloads EXCEPT ![Head(srv_rq)] = p]
           /\ srv_received' = Append(srv_received, p)
           /\ UNCHANGED <<srv_sq, srv_pending_send, srv_pc, srv_wc, srv_recv_idx, srv_global_exit, srv_echoed>>
  <1> DEFINE x == QUEUE_SIZE + Head(srv_rq)
  <1>1. /\ srv_rq # <<>>
        /\ srv_rq' = Tail(srv_rq)
        /\ srv_cq' = Append(srv_cq, x)
        /\ srv_recv_payloads' = [srv_recv_payloads EXCEPT ![Head(srv_rq)] = p]
        /\ srv_received' = Append(srv_received, p)
        /\ UNCHANGED <<srv_sq, srv_pending_send, srv_pc, srv_wc, srv_recv_idx, srv_global_exit, srv_echoed>>
    BY SrvNames DEF Server!HcaReceive
  <1>2. srv_rq \in Seq(QueueIdx) /\ srv_cq \in Seq(WrIds) /\ srv_wc \in Seq(WrIds)
    BY SrvTypes DEF SrvInv, SrvType
  <1>3. Head(srv_rq) \in QueueIdx /\ x \in WrIds
    BY <1>1, <1>2, IndexQueue, Wrids
  <1> HIDE DEF x
  <1>4. SrvW' = (IF srv_pc' = "update" THEN Tail(srv_wc') ELSE srv_wc') \o srv_cq'
    BY DEF SrvW, Server!Completions, Server!OpenWc
  <1>5. CASE srv_pc = "update"
    <2>1. Tail(srv_wc) \in Seq(WrIds) /\ SrvW = Tail(srv_wc) \o srv_cq
      BY <1>5, SrvOpen
    <2>2. SrvW' = Tail(srv_wc) \o Append(srv_cq, x)
      BY <1>1, <1>4, <1>5
    <2>3. SrvW' = Append(SrvW, x)
      BY <1>2, <1>3, <2>1, <2>2, Polled
    <2> QED
      BY <1>1, <1>3, <2>3 DEF x
  <1>6. CASE srv_pc # "update"
    <2>1. SrvW = srv_wc \o srv_cq
      BY <1>6, SrvOpen
    <2>2. SrvW' = srv_wc \o Append(srv_cq, x)
      BY <1>1, <1>4, <1>6
    <2>3. SrvW' = Append(SrvW, x)
      BY <1>2, <1>3, <2>1, <2>2, Polled
    <2> QED
      BY <1>1, <1>3, <2>3 DEF x
  <1> QED
    BY <1>5, <1>6

(* The adapter sends a buffer back. *)
LEMMA SrvTransmitEffect ==
    ASSUME SrvInv, Server!HcaTransmit
    PROVE  /\ srv_sq # <<>> /\ Head(srv_sq) \in QueueIdx
           /\ srv_sq' = Tail(srv_sq)
           /\ SrvW' = Append(SrvW, Head(srv_sq))
           /\ srv_cq' = Append(srv_cq, Head(srv_sq))
           /\ srv_echoed' = Append(srv_echoed, srv_recv_payloads[Head(srv_sq)])
           /\ UNCHANGED <<srv_rq, srv_recv_payloads, srv_pending_send, srv_pc, srv_wc, srv_recv_idx,
                          srv_global_exit, srv_received>>
  <1> DEFINE x == Head(srv_sq)
  <1>1. /\ srv_sq # <<>>
        /\ srv_sq' = Tail(srv_sq)
        /\ srv_cq' = Append(srv_cq, 0 + x)
        /\ srv_echoed' = Append(srv_echoed, srv_recv_payloads[x])
        /\ UNCHANGED <<srv_rq, srv_recv_payloads, srv_pending_send, srv_pc, srv_wc, srv_recv_idx,
                       srv_global_exit, srv_received>>
    BY SrvNames DEF Server!HcaTransmit
  <1>2. srv_sq \in Seq(QueueIdx) /\ srv_cq \in Seq(WrIds) /\ srv_wc \in Seq(WrIds)
    BY SrvTypes DEF SrvInv, SrvType
  <1>3. x \in QueueIdx /\ x \in WrIds /\ 0 + x = x
    BY <1>1, <1>2, IndexQueue, Wrids, SMTT(30)
  <1> HIDE DEF x
  <1>4. SrvW' = (IF srv_pc' = "update" THEN Tail(srv_wc') ELSE srv_wc') \o srv_cq'
    BY DEF SrvW, Server!Completions, Server!OpenWc
  <1>5. CASE srv_pc = "update"
    <2>1. Tail(srv_wc) \in Seq(WrIds) /\ SrvW = Tail(srv_wc) \o srv_cq
      BY <1>5, SrvOpen
    <2>2. SrvW' = Tail(srv_wc) \o Append(srv_cq, x)
      BY <1>1, <1>3, <1>4, <1>5
    <2>3. SrvW' = Append(SrvW, x)
      BY <1>2, <1>3, <2>1, <2>2, Polled
    <2> QED
      BY <1>1, <1>3, <2>3 DEF x
  <1>6. CASE srv_pc # "update"
    <2>1. SrvW = srv_wc \o srv_cq
      BY <1>6, SrvOpen
    <2>2. SrvW' = srv_wc \o Append(srv_cq, x)
      BY <1>1, <1>3, <1>4, <1>6
    <2>3. SrvW' = Append(SrvW, x)
      BY <1>2, <1>3, <2>1, <2>2, Polled
    <2> QED
      BY <1>1, <1>3, <2>3 DEF x
  <1> QED
    BY <1>5, <1>6

(* The thread handles a send completion. *)
LEMMA SrvParseSendEffect ==
    ASSUME SrvInv, Server!ParseSend
    PROVE  /\ srv_pc = "parse" /\ SrvW # <<>> /\ Head(SrvW) \in QueueIdx
           /\ srv_rq' = Append(srv_rq, Head(SrvW))
           /\ SrvW' = Tail(SrvW)
           /\ srv_pending_send' = [srv_pending_send EXCEPT ![Head(SrvW)] = FALSE]
           /\ srv_wc' = Tail(srv_wc) /\ srv_wc' \in Seq(WrIds)
           /\ srv_pc' \in {"poll", "parse", "done"}
           /\ srv_pc' = "parse" => srv_wc' # <<>>
           /\ srv_pc' = "poll" => srv_wc' = <<>>
           /\ UNCHANGED <<srv_sq, srv_cq, srv_recv_payloads, srv_recv_idx, srv_global_exit,
                          srv_received, srv_echoed>>
  <1>1. /\ srv_pc = "parse" /\ ~(Head(srv_wc) >= QUEUE_SIZE)
        /\ srv_pending_send' = [srv_pending_send EXCEPT ![Head(srv_wc) - 0] = FALSE]
        /\ srv_rq' = Append(srv_rq, Head(srv_wc) - 0)
        /\ srv_wc' = Tail(srv_wc)
        /\ srv_pc' = Server!AfterWc(Tail(srv_wc), srv_recv_idx)
        /\ UNCHANGED <<srv_sq, srv_cq, srv_recv_payloads, srv_recv_idx, srv_global_exit,
                       srv_received, srv_echoed>>
    BY SrvNames DEF Server!ParseSend, Server!pp_post_recv
  <1>2. Head(srv_wc) \in WrIds /\ Head(SrvW) = Head(srv_wc) /\ SrvW # <<>>
        /\ Tail(SrvW) = Tail(srv_wc) \o srv_cq /\ Tail(srv_wc) \in Seq(WrIds)
    BY <1>1, SrvOpen
  <1>3. Head(srv_wc) - 0 = Head(SrvW) /\ Head(SrvW) \in QueueIdx
    BY <1>1, <1>2, Wrids
  <1>4. /\ srv_pc' \in {"poll", "parse", "done"}
        /\ srv_pc' = "parse" => srv_wc' # <<>>
        /\ srv_pc' = "poll" => srv_wc' = <<>>
    BY <1>1 DEF Server!AfterWc
  <1>5. SrvW' = (IF srv_pc' = "update" THEN Tail(srv_wc') ELSE srv_wc') \o srv_cq'
    BY DEF SrvW, Server!Completions, Server!OpenWc
  <1>6. SrvW' = Tail(SrvW)
    BY <1>1, <1>2, <1>4, <1>5
  <1> QED
    BY <1>1, <1>2, <1>3, <1>4, <1>6

(* The thread handles a receive completion. *)
LEMMA SrvParseRecvEffect ==
    ASSUME SrvInv, Server!ParseRecv
    PROVE  /\ srv_pc = "parse" /\ SrvW # <<>> /\ Head(SrvW) \in RecvWrids
           /\ Head(SrvW) = Head(srv_wc)
           /\ Head(SrvW) - QUEUE_SIZE \in QueueIdx
           /\ srv_sq' = Append(srv_sq, Head(SrvW) - QUEUE_SIZE)
           /\ SrvW' = Tail(SrvW)
           /\ srv_pending_send' = [srv_pending_send EXCEPT ![Head(SrvW) - QUEUE_SIZE] = TRUE]
           /\ srv_pc' = "update"
           /\ UNCHANGED <<srv_rq, srv_cq, srv_recv_payloads, srv_wc, srv_recv_idx, srv_global_exit,
                          srv_received, srv_echoed>>
  <1>1. /\ srv_pc = "parse" /\ Head(srv_wc) >= QUEUE_SIZE
        /\ srv_pending_send' = [srv_pending_send EXCEPT ![Head(srv_wc) - QUEUE_SIZE] = TRUE]
        /\ srv_sq' = Append(srv_sq, Head(srv_wc) - QUEUE_SIZE)
        /\ srv_pc' = "update"
        /\ UNCHANGED <<srv_rq, srv_cq, srv_recv_payloads, srv_wc, srv_recv_idx, srv_global_exit,
                       srv_received, srv_echoed>>
    BY SrvNames DEF Server!ParseRecv, Server!pp_post_send
  <1>2. Head(srv_wc) \in WrIds /\ Head(SrvW) = Head(srv_wc) /\ SrvW # <<>>
        /\ Tail(SrvW) = Tail(srv_wc) \o srv_cq
    BY <1>1, SrvOpen
  <1>3. Head(SrvW) \in RecvWrids /\ Head(SrvW) - QUEUE_SIZE \in QueueIdx
    BY <1>1, <1>2, Wrids
  <1>5. SrvW' = (IF srv_pc' = "update" THEN Tail(srv_wc') ELSE srv_wc') \o srv_cq'
    BY DEF SrvW, Server!Completions, Server!OpenWc
  <1>6. SrvW' = Tail(SrvW)
    BY <1>1, <1>2, <1>5
  <1> QED
    BY <1>1, <1>2, <1>3, <1>6

(* The steps that move no buffer. *)
SrvQuietStep ==
    \/ Server!PollCq \/ Server!PollFails \/ Server!ParseFails \/ Server!UpdateRecvIdx
    \/ Server!pp_close_context \/ Server!sigint_handler \/ UNCHANGED srvVars

(* What they do. *)
LEMMA SrvQuietEffect ==
    ASSUME SrvInv, SrvQuietStep
    PROVE  /\ SrvQuiet /\ SrvType' /\ SrvControl'
           /\ srv_pc' \in {"poll", "parse", "update"} =>
                 srv_pc \in {"poll", "parse", "update"} /\ UNCHANGED srv_pending_send
  <1>1. SrvType /\ SrvControl
    BY SrvTypes DEF SrvInv
  <1>2. SrvW' = (IF srv_pc' = "update" THEN Tail(srv_wc') ELSE srv_wc') \o srv_cq'
    BY DEF SrvW, Server!Completions, Server!OpenWc
  <1>3. CASE Server!PollCq
    <2>1. /\ srv_pc = "poll" /\ srv_wc = <<>>
          /\ srv_pc' \in {"done", "parse"} /\ (srv_pc' = "parse" => ~srv_global_exit)
          /\ UNCHANGED <<srv_rq, srv_sq, srv_recv_payloads, srv_pending_send, srv_recv_idx,
                         srv_global_exit, srv_received, srv_echoed>>
      BY <1>1, <1>3 DEF Server!PollCq, SrvControl
    <2>2. PICK n \in 0..2 : /\ n <= Len(srv_cq)
                            /\ n > 0 \/ srv_global_exit
                            /\ srv_wc' = SubSeq(srv_cq, 1, n)
                            /\ srv_cq' = SubSeq(srv_cq, n + 1, Len(srv_cq))
      BY <1>3 DEF Server!PollCq
    <2>3. srv_cq \in Seq(WrIds) /\ Len(srv_cq) \in Nat /\ n \in 0..Len(srv_cq)
      BY <1>1, <2>2, LenProperties DEF SrvType
    <2>4. /\ SubSeq(srv_cq, 1, n) \in Seq(WrIds) /\ SubSeq(srv_cq, n + 1, Len(srv_cq)) \in Seq(WrIds)
          /\ SubSeq(srv_cq, 1, n) \o SubSeq(srv_cq, n + 1, Len(srv_cq)) = srv_cq
          /\ n > 0 => SubSeq(srv_cq, 1, n) # <<>>
      <3>1. 0 \in WrIds
        BY Wrids
      <3> QED
        BY <2>3, <3>1, Polled, Zenon
    <2>5. SrvW' = SrvW
      BY <1>2, <2>1, <2>2, <2>4, SrvOpen
    <2>6. SrvType'
      BY <1>1, <2>1, <2>2, <2>4 DEF SrvType
    <2>7. SrvControl'
      BY <2>1, <2>2, <2>4 DEF SrvControl
    <2> QED
      BY <2>1, <2>5, <2>6, <2>7 DEF SrvQuiet
  <1>4. CASE Server!PollFails \/ Server!pp_close_context
    BY <1>1, <1>2, <1>4, SrvOpen
    DEF Server!PollFails, Server!pp_close_context, Server!hcaVars, SrvQuiet, SrvType, SrvControl
  <1>5. CASE Server!ParseFails
    <2>1. /\ srv_pc = "parse" /\ srv_pc' = "done"
          /\ UNCHANGED <<srv_rq, srv_sq, srv_cq, srv_recv_payloads, srv_wc, srv_recv_idx,
                         srv_global_exit, srv_received, srv_echoed>>
      BY <1>5 DEF Server!ParseFails, Server!hcaVars
    <2>2. srv_pending_send' \in [QueueIdx -> BOOLEAN]
      <3>1. \/ srv_pending_send' = srv_pending_send
            \/ srv_pending_send' = [srv_pending_send EXCEPT
                    ![Head(srv_wc) % QUEUE_SIZE] = Server!IsRecv(Head(srv_wc))]
        BY <1>5 DEF Server!ParseFails
      <3>2. Server!IsRecv(Head(srv_wc)) \in BOOLEAN
        BY DEF Server!IsRecv
      <3> QED
        BY <1>1, <3>1, <3>2 DEF SrvType
    <2> QED
      BY <1>1, <1>2, <2>1, <2>2, SrvOpen DEF SrvQuiet, SrvType, SrvControl
  <1>6. CASE Server!UpdateRecvIdx
    <2>1. /\ srv_pc = "update" /\ srv_wc' = Tail(srv_wc)
          /\ srv_pc' = Server!AfterWc(Tail(srv_wc), srv_recv_idx')
          /\ UNCHANGED <<srv_rq, srv_sq, srv_cq, srv_recv_payloads, srv_pending_send,
                         srv_global_exit, srv_received, srv_echoed>>
      BY <1>6 DEF Server!UpdateRecvIdx, Server!hcaVars
    <2>2. srv_recv_idx' \in 0..Iters
      <3>1. srv_recv_payloads[Head(srv_wc) - QUEUE_SIZE] \in 0..Iters
        BY <1>1, <2>1, Wrids DEF SrvType, SrvControl
      <3> QED
        BY <1>1, <1>6, <3>1, SrvNames DEF Server!UpdateRecvIdx, SrvType
    <2>3. /\ srv_pc' \in {"poll", "parse", "done"}
          /\ srv_pc' = "parse" => srv_wc' # <<>>
          /\ srv_pc' = "poll" => srv_wc' = <<>>
      BY <2>1 DEF Server!AfterWc
    <2>4. SrvW' = SrvW
      BY <1>2, <2>1, <2>3, SrvOpen
    <2>5. SrvType'
      BY <1>1, <2>1, <2>2, <2>3, SrvOpen DEF SrvType
    <2>6. SrvControl'
      BY <2>3 DEF SrvControl
    <2> QED
      BY <2>1, <2>4, <2>5, <2>6 DEF SrvQuiet
  <1>7. CASE Server!sigint_handler
    BY <1>1, <1>2, <1>7, SrvOpen
    DEF Server!sigint_handler, Server!hcaVars, SrvQuiet, SrvType, SrvControl
  <1>8. CASE UNCHANGED srvVars
    BY <1>1, <1>2, <1>8, SrvOpen DEF srvVars, SrvQuiet, SrvType, SrvControl
  <1> QED
    BY <1>3, <1>4, <1>5, <1>6, <1>7, <1>8 DEF SrvQuietStep

(* What the invariant says of the counts. *)
LEMMA SrvCounts ==
    ASSUME SrvInv, NEW i \in QueueIdx
    PROVE  /\ Places(srv_rq, SrvW, srv_sq, i) = 1
           /\ Count(srv_rq, {i}) \in Nat /\ Count(srv_sq, {i}) \in Nat
           /\ Count(SrvW, {i}) \in Nat /\ Count(SrvW, {QUEUE_SIZE + i}) \in Nat
  <1>1. srv_rq \in Seq(WrIds) /\ srv_sq \in Seq(WrIds) /\ SrvW \in Seq(WrIds)
    BY SrvTypes, SrvOpen, IndexQueue DEF SrvInv, SrvType
  <1>2. \A q \in Seq(WrIds) : \A S : Count(q, S) \in Nat
    BY CountType, Zenon
  <1> QED
    BY <1>1, <1>2 DEF SrvInv, SrvOwner, Places

(* The logs of the server, and how far the echoes have come. *)
LEMMA SrvLogs ==
    ASSUME SrvInv
    PROVE  /\ Len(srv_echoed) \in Nat /\ Len(srv_sq) \in Nat /\ Len(srv_received) \in Nat
           /\ Len(srv_echoed) + Len(srv_sq) <= Len(srv_received)
           /\ srv_received \in Seq(0..Iters)
  <1>1. SrvType
    BY SrvTypes DEF SrvInv
  <1>2. Len(srv_echoed) \in Nat /\ Len(srv_sq) \in Nat /\ Len(srv_received) \in Nat
    BY <1>1, LenProperties DEF SrvType
  <1>3. Count(SrvW, RecvWrids) \in Nat
    BY SrvOpen, CountType, Zenon
  <1>4. Len(srv_received) = Len(srv_echoed) + Len(srv_sq) + Count(SrvW, RecvWrids)
    BY DEF SrvInv, SrvOrder, HoldsRest
  <1>6. srv_received \in Seq(0..Iters)
    <2>1. \A x \in 1..Iters : x \in 0..Iters
      BY ItersAssumption
    <2> QED
      BY <1>1, <2>1, SeqWiden, Zenon DEF SrvType
  <1> QED
    BY <1>2, <1>3, <1>4, <1>6

(* A new packet at the end of a log without repetitions. *)
LEMMA NoRepeatsAppend ==
    ASSUME NEW T, NEW L \in Seq(T), NEW p \in T, NoRepeats(L), p \notin ToSet(L)
    PROVE  NoRepeats(Append(L, p))
  <1>1. Len(L) \in Nat /\ \A n \in 1..Len(L) : L[n] # p
    BY LenProperties DEF ToSet
  <1>2. /\ Len(Append(L, p)) = Len(L) + 1
        /\ \A n \in 1..Len(L) : Append(L, p)[n] = L[n]
        /\ Append(L, p)[Len(L) + 1] = p
    BY AppendProperties
  <1> QED
    BY <1>1, <1>2 DEF NoRepeats

(* What is in a log when a packet is added. *)
LEMMA ToSetAppend ==
    ASSUME NEW T, NEW L \in Seq(T), NEW p \in T
    PROVE  ToSet(Append(L, p)) \subseteq ToSet(L) \cup {p}
  <1>1. Len(L) \in Nat /\ DOMAIN L = 1..Len(L)
    BY LenProperties
  <1>2. /\ DOMAIN Append(L, p) = 1..(Len(L) + 1)
        /\ \A n \in 1..Len(L) : Append(L, p)[n] = L[n]
        /\ Append(L, p)[Len(L) + 1] = p
    BY AppendProperties, LenProperties
  <1>3. ASSUME NEW n \in DOMAIN Append(L, p)
        PROVE  Append(L, p)[n] = p \/ (n \in DOMAIN L /\ Append(L, p)[n] = L[n])
    BY <1>1, <1>2
  <1> QED
    BY <1>3, Zenon DEF ToSet

(* A ping that is new arrives at the server. *)
LEMMA SrvReceiveStep ==
    ASSUME SrvInv, NEW p \in 1..Iters, p \notin ToSet(srv_received), Server!HcaReceive(p)
    PROVE  SrvInv'
  <1> DEFINE h == Head(srv_rq)
             x == QUEUE_SIZE + h
  <1>1. /\ srv_rq # <<>> /\ h \in QueueIdx
        /\ srv_rq' = Tail(srv_rq)
        /\ SrvW' = Append(SrvW, x)
        /\ srv_cq' = Append(srv_cq, x)
        /\ srv_recv_payloads' = [srv_recv_payloads EXCEPT ![h] = p]
        /\ srv_received' = Append(srv_received, p)
        /\ UNCHANGED <<srv_sq, srv_pending_send, srv_pc, srv_wc, srv_recv_idx, srv_global_exit, srv_echoed>>
    BY SrvReceiveEffect
  <1>2. SrvType /\ SrvW \in Seq(WrIds) /\ x \in WrIds /\ p \in 0..Iters
    <2>1. x \in WrIds
      BY <1>1, Wrids
    <2>2. p \in 0..Iters
      BY ItersAssumption
    <2> QED
      BY <2>1, <2>2, SrvTypes, SrvOpen DEF SrvInv
  <1>3. srv_rq \in Seq(QueueIdx) /\ srv_sq \in Seq(QueueIdx) /\ srv_rq \in Seq(WrIds)
    BY <1>2, IndexQueue DEF SrvType
  <1>4. Count(srv_sq, {h}) = 0 /\ Count(SrvW, {x}) = 0
    <2>1. Count(srv_rq, {h}) > 0
      BY <1>1, <1>3, QueueCounts
    <2>2. Places(srv_rq, SrvW, srv_sq, h) = 1
      BY <1>1, SrvCounts
    <2>3. /\ Count(srv_rq, {h}) \in Nat /\ Count(srv_sq, {h}) \in Nat
          /\ Count(SrvW, {h}) \in Nat /\ Count(SrvW, {QUEUE_SIZE + h}) \in Nat
      BY <1>1, SrvCounts
    <2> QED
      BY <2>1, <2>2, <2>3 DEF Places
  <1>5. /\ \A n \in 1..Len(srv_sq) : srv_sq[n] # h
        /\ \A n \in 1..Len(SrvW) : SrvW[n] # x
    <2>1. srv_sq \in Seq(WrIds)
      BY <1>3, IndexQueue
    <2> QED
      BY <1>1, <1>2, <1>4, <2>1, QueueCounts
  <1>6. SrvType'
    BY <1>1, <1>2, <1>3, IndexQueue, SMTT(30) DEF SrvType
  <1>7. SrvControl'
    BY <1>1 DEF SrvInv, SrvControl
  <1>8. SrvOwner'
    <2>1. ASSUME NEW i \in QueueIdx
          PROVE  Places(srv_rq', SrvW', srv_sq', i) = 1
      <3>1. Places(Tail(srv_rq), Append(SrvW, x), srv_sq, i) = Places(srv_rq, SrvW, srv_sq, i)
        BY <1>1, <1>2, <1>3, SrvCounts, PlacesReceive, Zenon
      <3> QED
        BY <1>1, <3>1, SrvCounts
    <2> QED
      BY <2>1 DEF SrvOwner, Places
  <1>9. SrvPending'
    <2>1. ASSUME NEW i \in QueueIdx
          PROVE  Count(SrvW', {i}) = Count(SrvW, {i})
      <3>1. Count(Append(SrvW, x), {i}) = Count(SrvW, {i}) + Hit(x, {i})
        BY <1>2, CountAppend, ZenonT(40)
      <3>2. Hit(x, {i}) = 0
        BY <1>1, Hits
      <3> QED
        <4>1. Count(SrvW, {i}) \in Nat
          BY SrvCounts
        <4> QED
          BY <1>1, <3>1, <3>2, <4>1
    <2> QED
      BY <1>1, <2>1 DEF SrvInv, SrvPending
  <1>10. SrvOrder'
    <2>1. \A n \in 1..Len(srv_received) : srv_received'[n] = srv_received[n]
      BY <1>1, SrvLogs
    <2>2. \A n \in 1..Len(srv_echoed) : srv_echoed'[n] = srv_received'[n]
      BY <1>1, <2>1, SrvLogs DEF SrvInv, SrvOrder
    <2>3. ASSUME NEW n \in 1..Len(srv_sq)
          PROVE  srv_recv_payloads'[srv_sq[n]] = srv_received'[Len(srv_echoed) + n]
      <3>1. srv_sq[n] \in QueueIdx /\ srv_sq[n] # h
        BY <1>3, <1>5, IndexQueue
      <3>2. srv_recv_payloads'[srv_sq[n]] = srv_recv_payloads[srv_sq[n]]
        BY <1>1, <1>2, <3>1 DEF SrvType
      <3>3. Len(srv_echoed) + n \in 1..Len(srv_received)
        BY SrvLogs
      <3> QED
        BY <2>1, <3>2, <3>3 DEF SrvInv, SrvOrder
    <2>4. HoldsRest(SrvW', srv_recv_payloads', srv_received', Len(srv_echoed) + Len(srv_sq))
      <3>1. HoldsRest(SrvW, srv_recv_payloads, srv_received, Len(srv_echoed) + Len(srv_sq))
        BY DEF SrvInv, SrvOrder
      <3>2. srv_recv_payloads \in [QueueIdx -> 0..Iters] /\ srv_received \in Seq(0..Iters)
            /\ Len(srv_echoed) + Len(srv_sq) \in Nat
        BY <1>2, SrvLogs DEF SrvType
      <3>3. HoldsRest(Append(SrvW, QUEUE_SIZE + h), [srv_recv_payloads EXCEPT ![h] = p],
                      Append(srv_received, p), Len(srv_echoed) + Len(srv_sq))
        BY <1>1, <1>2, <1>5, <3>1, <3>2, HoldsReceive, Zenon
      <3> QED
        BY <1>1, <3>3
    <2> QED
      BY <1>1, <2>2, <2>3, <2>4 DEF SrvOrder
  <1>11. NoRepeats(srv_received)'
    <2>1. NoRepeats(Append(srv_received, p))
      BY <1>2, NoRepeatsAppend DEF SrvInv, SrvType
    <2> QED
      BY <1>1, <2>1
  <1> QED
    BY <1>6, <1>7, <1>8, <1>9, <1>10, <1>11, SrvTypes DEF SrvInv

(* The adapter of the server transmits. *)
LEMMA SrvTransmitStep ==
    ASSUME SrvInv, Server!HcaTransmit
    PROVE  SrvInv'
  <1> DEFINE h == Head(srv_sq)
  <1>1. /\ srv_sq # <<>> /\ h \in QueueIdx
        /\ srv_sq' = Tail(srv_sq)
        /\ SrvW' = Append(SrvW, h)
        /\ srv_cq' = Append(srv_cq, h)
        /\ srv_echoed' = Append(srv_echoed, srv_recv_payloads[h])
        /\ UNCHANGED <<srv_rq, srv_recv_payloads, srv_pending_send, srv_pc, srv_wc, srv_recv_idx,
                       srv_global_exit, srv_received>>
    BY SrvTransmitEffect
  <1>2. SrvType /\ SrvW \in Seq(WrIds) /\ h \in WrIds
    BY <1>1, SrvTypes, SrvOpen, Wrids DEF SrvInv
  <1>3. srv_sq \in Seq(QueueIdx) /\ srv_recv_payloads[h] \in 0..Iters
    BY <1>1, <1>2 DEF SrvType
  <1>4. /\ Len(srv_sq) > 0 /\ Len(Tail(srv_sq)) = Len(srv_sq) - 1 /\ srv_sq[1] = h
        /\ \A n \in 1..Len(Tail(srv_sq)) : Tail(srv_sq)[n] = srv_sq[n + 1]
    BY <1>1, <1>3, SrvLogs
  <1>5. /\ Len(srv_echoed') = Len(srv_echoed) + 1
        /\ \A n \in 1..Len(srv_echoed) : srv_echoed'[n] = srv_echoed[n]
        /\ srv_echoed'[Len(srv_echoed) + 1] = srv_recv_payloads[h]
    BY <1>1, <1>2, <1>3 DEF SrvType
  <1>6. SrvType'
    BY <1>1, <1>2, <1>3, IndexQueue, SMTT(30) DEF SrvType
  <1>7. SrvControl'
    BY <1>1 DEF SrvInv, SrvControl
  <1>8. ASSUME NEW i \in QueueIdx
        PROVE  /\ Places(srv_rq', SrvW', srv_sq', i) = 1
               /\ Count(srv_sq', {i}) + Count(SrvW', {i}) = Count(srv_sq, {i}) + Count(SrvW, {i})
    <2>1. /\ Places(srv_rq, Append(SrvW, h), Tail(srv_sq), i) = Places(srv_rq, SrvW, srv_sq, i)
          /\ Count(Tail(srv_sq), {i}) + Count(Append(SrvW, h), {i}) = Count(srv_sq, {i}) + Count(SrvW, {i})
      <3>1. Count(srv_rq, {i}) \in Nat
        BY SrvCounts
      <3> QED
        BY <1>1, <1>2, <1>3, <3>1, PlacesTransmit, Zenon
    <2> QED
      BY <1>1, <2>1, SrvCounts
  <1>9. SrvOwner'
    BY <1>8 DEF SrvOwner, Places
  <1>10. SrvPending'
    BY <1>1, <1>8 DEF SrvInv, SrvPending
  <1>11. SrvOrder'
    <2>1. \A n \in 1..Len(srv_sq) : srv_recv_payloads[srv_sq[n]] = srv_received[Len(srv_echoed) + n]
      BY DEF SrvInv, SrvOrder
    <2>2. \A n \in 1..Len(srv_echoed') : srv_echoed'[n] = srv_received[n]
      <3>1. Len(srv_echoed) \in Nat
        BY SrvLogs
      <3>2. \A n \in 1..Len(srv_echoed) : srv_echoed'[n] = srv_received[n]
        BY <1>5 DEF SrvInv, SrvOrder
      <3>3. srv_echoed'[Len(srv_echoed) + 1] = srv_received[Len(srv_echoed) + 1]
        <4>1. 1 \in 1..Len(srv_sq)
          BY <1>4, SrvLogs
        <4> QED
          BY <1>4, <1>5, <2>1, <4>1
      <3> QED
        BY <1>5, <3>1, <3>2, <3>3
    <2>3. \A n \in 1..Len(srv_sq') : srv_recv_payloads[srv_sq'[n]] = srv_received[Len(srv_echoed') + n]
      <3> SUFFICES ASSUME NEW n \in 1..Len(srv_sq')
                   PROVE  srv_recv_payloads[srv_sq'[n]] = srv_received[Len(srv_echoed') + n]
        OBVIOUS
      <3>1. srv_sq'[n] = srv_sq[n + 1] /\ n + 1 \in 1..Len(srv_sq)
        BY <1>1, <1>4, SrvLogs
      <3>2. Len(srv_echoed') + n = Len(srv_echoed) + (n + 1)
        BY <1>5, SrvLogs
      <3> QED
        BY <2>1, <3>1, <3>2
    <2>4. HoldsRest(SrvW', srv_recv_payloads, srv_received, Len(srv_echoed') + Len(srv_sq'))
      <3>1. HoldsRest(SrvW, srv_recv_payloads, srv_received, Len(srv_echoed) + Len(srv_sq))
        BY DEF SrvInv, SrvOrder
      <3>2. HoldsRest(Append(SrvW, h), srv_recv_payloads, srv_received, Len(srv_echoed) + Len(srv_sq))
        BY <1>1, <1>2, <3>1, HoldsSend, Zenon
      <3>3. Len(srv_echoed') + Len(srv_sq') = Len(srv_echoed) + Len(srv_sq)
        BY <1>1, <1>4, <1>5, SrvLogs
      <3> QED
        BY <1>1, <3>2, <3>3
    <2> QED
      BY <1>1, <2>2, <2>3, <2>4 DEF SrvOrder
  <1>12. NoRepeats(srv_received)'
    BY <1>1 DEF SrvInv
  <1> QED
    BY <1>6, <1>7, <1>9, <1>10, <1>11, <1>12, SrvTypes DEF SrvInv

(* The thread of the server handles a send completion. *)
LEMMA SrvParseSendStep ==
    ASSUME SrvInv, Server!ParseSend
    PROVE  SrvInv'
  <1> DEFINE h == Head(SrvW)
  <1>1. /\ srv_pc = "parse" /\ SrvW # <<>> /\ h \in QueueIdx
        /\ srv_rq' = Append(srv_rq, h)
        /\ SrvW' = Tail(SrvW)
        /\ srv_pending_send' = [srv_pending_send EXCEPT ![h] = FALSE]
        /\ srv_wc' = Tail(srv_wc) /\ srv_wc' \in Seq(WrIds)
        /\ srv_pc' \in {"poll", "parse", "done"}
        /\ srv_pc' = "parse" => srv_wc' # <<>>
        /\ srv_pc' = "poll" => srv_wc' = <<>>
        /\ UNCHANGED <<srv_sq, srv_cq, srv_recv_payloads, srv_recv_idx, srv_global_exit,
                       srv_received, srv_echoed>>
    BY SrvParseSendEffect
  <1>2. SrvType /\ SrvW \in Seq(WrIds)
    BY SrvTypes, SrvOpen DEF SrvInv
  <1>3. srv_rq \in Seq(QueueIdx) /\ srv_pending_send \in [QueueIdx -> BOOLEAN]
    BY <1>2 DEF SrvType
  <1>4. SrvType'
    BY <1>1, <1>2, <1>3, IndexQueue DEF SrvType
  <1>5. SrvControl'
    BY <1>1 DEF SrvControl
  <1>6. ASSUME NEW i \in QueueIdx
        PROVE  /\ Places(srv_rq', SrvW', srv_sq', i) = 1
               /\ i # h => Count(SrvW', {i}) = Count(SrvW, {i})
    <2>1. /\ Places(Append(srv_rq, h), Tail(SrvW), srv_sq, i) = Places(srv_rq, SrvW, srv_sq, i)
          /\ i # h => Count(Tail(SrvW), {i}) = Count(SrvW, {i})
      BY <1>1, <1>2, <1>3, SrvCounts, PlacesParseSend, Zenon
    <2> QED
      BY <1>1, <2>1, SrvCounts
  <1>7. SrvOwner'
    BY <1>6 DEF SrvOwner, Places
  <1>8. SrvPending'
    <2> SUFFICES ASSUME NEW i \in QueueIdx, srv_pending_send'[i]
                 PROVE  Count(srv_sq', {i}) + Count(SrvW', {i}) > 0
      BY DEF SrvPending
    <2>1. i # h
      BY <1>1, <1>3
    <2>2. srv_pending_send[i]
      BY <1>1, <1>3, <2>1
    <2> QED
      BY <1>1, <1>6, <2>1, <2>2 DEF SrvInv, SrvPending
  <1>9. SrvOrder'
    <2>1. HoldsRest(SrvW, srv_recv_payloads, srv_received, Len(srv_echoed) + Len(srv_sq))
      BY DEF SrvInv, SrvOrder
    <2>2. h \notin RecvWrids
      BY <1>1, Wrids
    <2>3. HoldsRest(Tail(SrvW), srv_recv_payloads, srv_received, Len(srv_echoed) + Len(srv_sq))
      BY <1>1, <1>2, <2>1, <2>2, HoldsTailSend, Zenon
    <2> QED
      BY <1>1, <2>3 DEF SrvInv, SrvOrder
  <1>10. NoRepeats(srv_received)'
    BY <1>1 DEF SrvInv
  <1> QED
    BY <1>4, <1>5, <1>7, <1>8, <1>9, <1>10, SrvTypes DEF SrvInv

(* The thread of the server handles a receive completion. *)
LEMMA SrvParseRecvStep ==
    ASSUME SrvInv, Server!ParseRecv
    PROVE  SrvInv'
  <1> DEFINE h == Head(SrvW) - QUEUE_SIZE
             base == Len(srv_echoed) + Len(srv_sq)
  <1>1. /\ srv_pc = "parse" /\ SrvW # <<>> /\ Head(SrvW) \in RecvWrids
        /\ Head(SrvW) = Head(srv_wc)
        /\ h \in QueueIdx
        /\ srv_sq' = Append(srv_sq, h)
        /\ SrvW' = Tail(SrvW)
        /\ srv_pending_send' = [srv_pending_send EXCEPT ![h] = TRUE]
        /\ srv_pc' = "update"
        /\ UNCHANGED <<srv_rq, srv_cq, srv_recv_payloads, srv_wc, srv_recv_idx, srv_global_exit,
                       srv_received, srv_echoed>>
    BY SrvParseRecvEffect
  <1>2. SrvType /\ SrvW \in Seq(WrIds)
    BY SrvTypes, SrvOpen DEF SrvInv
  <1>3. srv_sq \in Seq(QueueIdx) /\ srv_pending_send \in [QueueIdx -> BOOLEAN]
    BY <1>2 DEF SrvType
  <1>4. SrvType'
    BY <1>1, <1>2, <1>3, IndexQueue DEF SrvType
  <1>5. SrvControl'
    BY <1>1 DEF SrvInv, SrvControl
  <1>6. ASSUME NEW i \in QueueIdx
        PROVE  /\ Places(srv_rq', SrvW', srv_sq', i) = 1
               /\ Count(SrvW', {i}) = Count(SrvW, {i})
               /\ Count(srv_sq', {i}) \in Nat
               /\ Count(srv_sq', {i}) >= Count(srv_sq, {i})
               /\ i = h => Count(srv_sq', {i}) > 0
    <2>1. /\ Places(srv_rq, Tail(SrvW), Append(srv_sq, h), i) = Places(srv_rq, SrvW, srv_sq, i)
          /\ Count(Tail(SrvW), {i}) = Count(SrvW, {i})
          /\ Count(Append(srv_sq, h), {i}) >= Count(srv_sq, {i})
          /\ i = h => Count(Append(srv_sq, h), {i}) > 0
      BY <1>1, <1>2, <1>3, SrvCounts, PlacesParseRecv, Zenon
    <2>2. Append(srv_sq, h) \in Seq(QueueIdx)
      BY <1>1, <1>3, IndexQueue
    <2>3. Count(Append(srv_sq, h), {i}) \in Nat
      BY <2>2, CountType, Zenon
    <2> QED
      BY <1>1, <2>1, <2>3, SrvCounts
  <1>7. SrvOwner'
    BY <1>6 DEF SrvOwner, Places
  <1>8. SrvPending'
    <2> SUFFICES ASSUME NEW i \in QueueIdx, srv_pending_send'[i]
                 PROVE  Count(srv_sq', {i}) + Count(SrvW', {i}) > 0
      BY DEF SrvPending
    <2>1. CASE i = h
      <3>1. Count(SrvW, {i}) \in Nat
        BY SrvCounts
      <3> QED
        BY <1>6, <2>1, <3>1
    <2>2. CASE i # h
      <3>1. srv_pending_send[i]
        BY <1>1, <1>3, <2>2
      <3>2. Count(srv_sq, {i}) + Count(SrvW, {i}) > 0
        BY <1>1, <3>1 DEF SrvInv, SrvPending
      <3>3. Count(srv_sq, {i}) \in Nat /\ Count(SrvW, {i}) \in Nat
        BY SrvCounts
      <3> QED
        BY <1>6, <3>2, <3>3
    <2> QED
      BY <2>1, <2>2
  <1>9. SrvOrder'
    <2>1. HoldsRest(SrvW, srv_recv_payloads, srv_received, base)
      BY DEF SrvInv, SrvOrder
    <2>2. base \in Nat
      BY SrvLogs
    <2>3. /\ HoldsRest(Tail(SrvW), srv_recv_payloads, srv_received, base + 1)
          /\ srv_recv_payloads[h] = srv_received[base + 1]
      <3> HIDE DEF base
      <3> QED
        BY <1>1, <1>2, <2>1, <2>2, HoldsTailRecv, Zenon
    <2>4. /\ Len(srv_sq') = Len(srv_sq) + 1 /\ srv_sq'[Len(srv_sq) + 1] = h
          /\ \A n \in 1..Len(srv_sq) : srv_sq'[n] = srv_sq[n]
      BY <1>1, <1>3, SrvLogs
    <2>5. \A n \in 1..Len(srv_sq') : srv_recv_payloads[srv_sq'[n]] = srv_received[Len(srv_echoed) + n]
      <3> SUFFICES ASSUME NEW n \in 1..Len(srv_sq')
                   PROVE  srv_recv_payloads[srv_sq'[n]] = srv_received[Len(srv_echoed) + n]
        OBVIOUS
      <3>1. CASE n = Len(srv_sq) + 1
        <4>1. Len(srv_echoed) + n = base + 1
          BY <3>1, SrvLogs
        <4> QED
          BY <2>3, <2>4, <3>1, <4>1
      <3>2. CASE n \in 1..Len(srv_sq)
        BY <2>4, <3>2 DEF SrvInv, SrvOrder
      <3> QED
        BY <2>4, <3>1, <3>2, SrvLogs
    <2>6. HoldsRest(SrvW', srv_recv_payloads, srv_received, Len(srv_echoed) + Len(srv_sq'))
      <3>1. Len(srv_echoed) + Len(srv_sq') = base + 1
        BY <2>4, SrvLogs
      <3> QED
        BY <1>1, <2>3, <3>1
    <2> QED
      BY <1>1, <2>5, <2>6 DEF SrvInv, SrvOrder
  <1>10. NoRepeats(srv_received)'
    BY <1>1 DEF SrvInv
  <1> QED
    BY <1>4, <1>5, <1>7, <1>8, <1>9, <1>10, SrvTypes DEF SrvInv

(* The steps that move no buffer. *)
LEMMA SrvQuietInv ==
    ASSUME SrvInv, SrvQuietStep
    PROVE  SrvInv'
  <1>1. /\ SrvW' = SrvW
        /\ UNCHANGED <<srv_rq, srv_sq, srv_recv_payloads, srv_received, srv_echoed>>
        /\ SrvType' /\ SrvControl'
        /\ srv_pc' \in {"poll", "parse", "update"} =>
              srv_pc \in {"poll", "parse", "update"} /\ UNCHANGED srv_pending_send
    BY SrvQuietEffect DEF SrvQuiet
  <1>2. SrvOwner' /\ SrvPending' /\ NoRepeats(srv_received)'
    BY <1>1 DEF SrvInv, SrvOwner, SrvPending
  <1>3. SrvOrder'
    BY <1>1 DEF SrvInv, SrvOrder
  <1> QED
    BY <1>1, <1>2, <1>3, SrvTypes DEF SrvInv

(* The server by itself. *)
LEMMA SrvServerStep ==
    ASSUME SrvInv, Server!ServerStep
    PROVE  SrvInv'
  BY SrvTransmitStep, SrvParseSendStep, SrvParseRecvStep, SrvQuietInv
  DEF Server!ServerStep, Server!Main, Server!Progress, SrvQuietStep
-----------------------------------------------------------------------------
(* The client. *)

(* The completions that are not handled yet are a queue. *)
LEMMA CliOpen ==
    ASSUME CliInv
    PROVE  /\ CliW \in Seq(WrIds)
           /\ cpc = "update" => CliW = Tail(wc) \o cq /\ Tail(wc) \in Seq(WrIds)
           /\ cpc # "update" => CliW = wc \o cq
           /\ cpc = "parse" => /\ CliW # <<>> /\ Head(CliW) = Head(wc)
                               /\ Tail(CliW) = Tail(wc) \o cq
                               /\ Head(wc) \in WrIds /\ Tail(wc) \in Seq(WrIds)
           /\ cpc = "poll" => CliW = cq
           /\ Len(cq) <= Len(CliW)
  <1>1. wc \in Seq(WrIds) /\ cq \in Seq(WrIds) /\ 0 \in WrIds
    BY Wrids DEF CliInv, CliType, TypeOK
  <1>2. /\ cpc = "update" => CliW = Tail(wc) \o cq
        /\ cpc # "update" => CliW = wc \o cq
    BY DEF CliW, OpenWc
  <1>3. cpc \in {"parse", "update"} => wc # <<>> /\ Head(wc) \in WrIds /\ Tail(wc) \in Seq(WrIds)
    BY <1>1, HeadTailProperties DEF CliInv, CliControl
  <1>4. CliW \in Seq(WrIds)
    BY <1>1, <1>2, <1>3, ConcatProperties
  <1>5. cpc = "parse" => CliW # <<>> /\ Head(CliW) = Head(wc) /\ Tail(CliW) = Tail(wc) \o cq
    BY <1>1, <1>2, <1>3, Polled
  <1>6. cpc = "poll" => CliW = cq
    BY <1>1, <1>2, ConcatEmptySeq DEF CliInv, CliControl
  <1>7. Len(cq) <= Len(CliW)
    <2>1. \A w \in Seq(WrIds) : Len(w \o cq) = Len(w) + Len(cq) /\ Len(w) \in Nat /\ Len(cq) \in Nat
      BY <1>1, ConcatProperties, LenProperties
    <2> QED
      BY <1>1, <1>2, <1>3, <2>1
  <1> QED
    BY <1>2, <1>3, <1>4, <1>5, <1>6, <1>7

(* A completion is appended, whatever main is doing. *)
LEMMA CliCompletes ==
    ASSUME CliInv, NEW x \in WrIds, cq' = Append(cq, x), UNCHANGED <<cpc, wc>>
    PROVE  CliW' = Append(CliW, x)
  <1>1. wc \in Seq(WrIds) /\ cq \in Seq(WrIds)
    BY DEF CliInv, CliType, TypeOK
  <1>2. CliW' = (IF cpc = "update" THEN Tail(wc) ELSE wc) \o Append(cq, x)
    BY DEF CliW, OpenWc
  <1>3. CASE cpc = "update"
    <2>1. Tail(wc) \in Seq(WrIds) /\ CliW = Tail(wc) \o cq
      BY <1>3, CliOpen
    <2> QED
      BY <1>1, <1>2, <1>3, <2>1, Polled, SMTT(30)
  <1>4. CASE cpc # "update"
    <2>1. CliW = wc \o cq
      BY <1>4, CliOpen
    <2> QED
      BY <1>1, <1>2, <1>4, <2>1, Polled
  <1> QED
    BY <1>3, <1>4

(* The counts of the client are natural numbers. *)
CliNumbers ==
    /\ rq \in Seq(WrIds) /\ Len(rq) \in Nat /\ Len(CliW) \in Nat
    /\ Count(CliW, RecvWrids) \in Nat /\ Count(CliW, {0}) \in Nat
    /\ \A i \in QueueIdx : Count(rq, {i}) \in Nat /\ Count(CliW, {QUEUE_SIZE + i}) \in Nat
    /\ Len(persisted) \in Nat /\ Len(received) \in Nat /\ Len(pinged) \in Nat
    /\ received \in Seq(0..Iters) /\ 0 \in QueueIdx

(* So says the invariant. *)
LEMMA CliCounts ==
    ASSUME CliInv
    PROVE  CliNumbers
  <1>1. /\ rq \in Seq(QueueIdx) /\ CliW \in Seq(WrIds) /\ persisted \in Seq(1..Iters)
        /\ received \in Seq(1..Iters) /\ pinged \in Seq(1..Iters)
    BY CliOpen DEF CliInv, CliType, TypeOK
  <1>2. rq \in Seq(WrIds)
    BY <1>1, IndexQueue
  <1>3. \A q \in Seq(WrIds) : \A S : Count(q, S) \in Nat
    BY CountType, Zenon
  <1>4. \A x \in 1..Iters : x \in 0..Iters
    BY ItersAssumption
  <1>5. received \in Seq(0..Iters)
    BY <1>1, <1>4, SeqWiden, Zenon
  <1>6. 0 \in QueueIdx
    BY QueueAssumption DEF QueueIdx
  <1>7. Len(rq) \in Nat /\ Len(CliW) \in Nat /\ Len(persisted) \in Nat /\ Len(received) \in Nat /\ Len(pinged) \in Nat
    BY <1>1, LenProperties
  <1> QED
    BY <1>1, <1>2, <1>3, <1>5, <1>6, <1>7 DEF CliNumbers

(* The adapter of the client transmits the send buffer. *)
LEMMA CliTransmitStep ==
    ASSUME CliInv, HcaTransmit
    PROVE  CliInv'
  <1>0. CliNumbers
    BY CliCounts
  <1>1. /\ sq = 1 /\ sq' = 0 /\ send_payload \in 0..Iters
        /\ pinged' = Append(pinged, send_payload)
        /\ cq' = Append(cq, 0)
        /\ UNCHANGED <<rq, recv_payloads, received, tpc, id, send_payload, cpc, wc, recv_idx,
                       persisted, pending_send, global_exit>>
    BY DEF HcaTransmit, PINGPONG_SEND_WRID, threadVars, mainVars, CliInv, CliType, TypeOK
  <1>2. CliW \in Seq(WrIds) /\ 0 \in WrIds /\ 0 \in QueueIdx
    BY <1>0, CliOpen, Wrids DEF CliNumbers
  <1>3. CliW' = Append(CliW, 0)
    BY <1>1, <1>2, CliCompletes
  <1>4. /\ Count(CliW', {0}) = Count(CliW, {0}) + 1
        /\ Count(CliW', RecvWrids) = Count(CliW, RecvWrids)
        /\ \A i \in QueueIdx : Count(CliW', {QUEUE_SIZE + i}) = Count(CliW, {QUEUE_SIZE + i})
        /\ Len(CliW') = Len(CliW) + 1
    <2>1. /\ Count(Append(CliW, 0), {0}) = Count(CliW, {0}) + Hit(0, {0})
          /\ Count(Append(CliW, 0), RecvWrids) = Count(CliW, RecvWrids) + Hit(0, RecvWrids)
          /\ \A i \in QueueIdx : Count(Append(CliW, 0), {QUEUE_SIZE + i})
                                     = Count(CliW, {QUEUE_SIZE + i}) + Hit(0, {QUEUE_SIZE + i})
      BY <1>2, CountAppend, Zenon
    <2>2. Hit(0, {0}) = 1 /\ Hit(0, RecvWrids) = 0 /\ \A i \in QueueIdx : Hit(0, {QUEUE_SIZE + i}) = 0
      BY <1>2, Wrids, Hits DEF Hit
    <2>3. Len(Append(CliW, 0)) = Len(CliW) + 1
      BY <1>2, AppendProperties
    <2>4. Count(CliW', {0}) = Count(CliW, {0}) + 1 /\ Len(CliW') = Len(CliW) + 1
      BY <1>3, <2>1, <2>2, <2>3
    <2>5. Count(CliW', RecvWrids) = Count(CliW, RecvWrids)
      BY <1>0, <1>3, <2>1, <2>2 DEF CliNumbers
    <2>6. ASSUME NEW i \in QueueIdx
          PROVE  Count(CliW', {QUEUE_SIZE + i}) = Count(CliW, {QUEUE_SIZE + i})
      <3>1. Count(CliW', {QUEUE_SIZE + i}) = Count(CliW, {QUEUE_SIZE + i}) + 0
        BY <1>3, <2>1, <2>2, Zenon
      <3>2. Count(CliW, {QUEUE_SIZE + i}) \in Nat
        BY <1>0, Zenon DEF CliNumbers
      <3> QED
        BY <3>1, <3>2
    <2> QED
      BY <2>4, <2>5, <2>6
  <1>5. Count(CliW, {0}) = 0 /\ pending_send /\ tpc \in {"wait", "end"} /\ id > 1
        /\ send_payload = id - 1
    BY <1>1, <1>0 DEF CliInv, CliSend, CliNumbers
  <1>6. id \in 1..(Iters + 1) /\ send_payload \in 1..Iters
    BY <1>1, <1>5, ItersAssumption DEF CliInv, CliType, TypeOK
  <1>7. pinged \in Seq(1..Iters) /\ pinged' \in Seq(1..Iters)
    BY <1>1, <1>6 DEF CliInv, CliType, TypeOK
  <1>8. /\ Len(pinged') = Len(pinged) + 1
        /\ \A n \in 1..Len(pinged) : pinged'[n] = pinged[n]
        /\ pinged'[Len(pinged) + 1] = send_payload
        /\ DOMAIN pinged = 1..Len(pinged) /\ DOMAIN pinged' = 1..Len(pinged')
    BY <1>1, <1>6, <1>7, AppendProperties, LenProperties
  <1>9. CliType'
    <2>1. TypeOK'
      BY <1>1, <1>2, <1>7 DEF CliInv, CliType, TypeOK
    <2>2. \A n \in 1..Len(CliW') : CliW'[n] \in RecvWrids \cup {0}
      BY <1>2, <1>3, <1>0 DEF CliInv, CliType, CliNumbers
    <2> QED
      BY <2>1, <2>2 DEF CliType
  <1>10. CliControl'
    BY <1>1 DEF CliInv, CliControl
  <1>11. CliOwner'
    <2>1. \A i \in QueueIdx : Count(rq', {i}) + Count(CliW', {QUEUE_SIZE + i}) = 1
      BY <1>1, <1>4 DEF CliInv, CliOwner
    <2>2. Len(rq') + Count(CliW', RecvWrids) = QUEUE_SIZE
      BY <1>1, <1>4 DEF CliInv, CliOwner
    <2>3. Len(CliW') = Count(CliW', RecvWrids) + Count(CliW', {0})
      BY <1>0, <1>4 DEF CliInv, CliOwner, CliNumbers
    <2> QED
      BY <2>1, <2>2, <2>3 DEF CliOwner
  <1>12. CliSend'
    BY <1>1, <1>4, <1>5 DEF CliInv, CliSend
  <1>13. CliPings'
    <2>1. /\ \A n \in 1..Len(pinged) : pinged[n] < send_payload
          /\ \A m, n \in 1..Len(pinged) : m < n => pinged[m] < pinged[n]
      BY <1>1, <1>8 DEF CliInv, CliPings, PingsInOrder
    <2>2. \A m, n \in 1..Len(pinged') : m < n => pinged'[m] < pinged'[n]
      BY <1>6, <1>8, <2>1, <1>0, SMTT(30) DEF CliNumbers
    <2>3. \A n \in 1..Len(pinged') : pinged'[n] <= send_payload
      <3>1. \A n \in 1..Len(pinged) : pinged[n] \in 1..Iters
        BY <1>7, ElementOfSeq
      <3> QED
        BY <1>6, <1>8, <2>1, <3>1, <1>0 DEF CliNumbers
    <2> QED
      BY <1>1, <1>5, <1>8, <2>2, <2>3 DEF CliPings, PingsInOrder
  <1>14. CliOrder'
    <2>1. cpc \in {"poll", "parse", "update"} =>
             HoldsRest(Append(CliW, 0), recv_payloads, received, Len(persisted))
      BY <1>2, HoldsSend DEF CliInv, CliOrder
    <2> QED
      BY <1>1, <1>3, <2>1 DEF CliInv, CliOrder
  <1>15. CliEnv'
    <2>1. ToSet(pinged) \subseteq ToSet(pinged')
      BY <1>8, <1>0 DEF ToSet, CliNumbers
    <2> QED
      BY <1>1, <2>1 DEF CliInv, CliEnv
  <1> QED
    BY <1>9, <1>10, <1>11, <1>12, <1>13, <1>14, <1>15 DEF CliInv

(* A pong of a ping that was sent arrives for the first time. *)
LEMMA CliReceiveStep ==
    ASSUME CliInv, NEW p \in ToSet(pinged), p \notin ToSet(received), HcaReceive(p)
    PROVE  CliInv'
  <1> DEFINE h == Head(rq)
             x == QUEUE_SIZE + h
  <1>0. CliNumbers
    BY CliCounts
  <1>1. /\ rq # <<>> /\ rq' = Tail(rq)
        /\ recv_payloads' = [recv_payloads EXCEPT ![h] = p]
        /\ received' = Append(received, p)
        /\ cq' = Append(cq, x)
        /\ UNCHANGED <<sq, pinged, tpc, id, send_payload, cpc, wc, recv_idx, persisted,
                       pending_send, global_exit>>
    BY DEF HcaReceive, PINGPONG_RECV_WRID, threadVars, mainVars
  <1>2. TypeOK /\ CliW \in Seq(WrIds)
    BY CliOpen DEF CliInv, CliType
  <1>3. rq \in Seq(QueueIdx) /\ h \in QueueIdx /\ h \in WrIds /\ Tail(rq) \in Seq(QueueIdx)
    BY <1>1, <1>2, IndexQueue, Wrids DEF TypeOK
  <1>4. x \in WrIds /\ x \in RecvWrids
    BY <1>3, Wrids
  <1>5. p \in 1..Iters /\ p \in 0..Iters
    <2>1. \A n \in DOMAIN pinged : pinged[n] \in 1..Iters
      BY <1>2, LenProperties, ElementOfSeq DEF TypeOK
    <2> QED
      BY <2>1, ItersAssumption DEF ToSet
  <1> HIDE DEF h, x
  <1>6. CliW' = Append(CliW, x)
    BY <1>1, <1>4, CliCompletes
  <1>7. /\ Count(CliW', {0}) = Count(CliW, {0})
        /\ Count(CliW', RecvWrids) = Count(CliW, RecvWrids) + 1
        /\ Len(CliW') = Len(CliW) + 1
        /\ Len(rq') = Len(rq) - 1
    <2>1. /\ Count(Append(CliW, x), {0}) = Count(CliW, {0}) + Hit(x, {0})
          /\ Count(Append(CliW, x), RecvWrids) = Count(CliW, RecvWrids) + Hit(x, RecvWrids)
      BY <1>2, <1>4, CountAppend, Zenon
    <2>2. Hit(x, {0}) = 0 /\ Hit(x, RecvWrids) = 1
      BY <1>4, QueueAssumption DEF Hit, RecvWrids
    <2>3. Len(Append(CliW, x)) = Len(CliW) + 1 /\ Len(Tail(rq)) = Len(rq) - 1
      BY <1>1, <1>2, <1>3, <1>4, AppendProperties, HeadTailProperties
    <2> QED
      BY <1>0, <1>1, <1>6, <2>1, <2>2, <2>3 DEF CliNumbers
  <1>8. ASSUME NEW i \in QueueIdx
        PROVE  Count(rq', {i}) + Count(CliW', {QUEUE_SIZE + i}) = 1
    <2>1. Count(Append(CliW, x), {QUEUE_SIZE + i}) = Count(CliW, {QUEUE_SIZE + i}) + Hit(x, {QUEUE_SIZE + i})
      BY <1>2, <1>4, CountAppend, Zenon
    <2>2. Count(rq, {i}) = Count(Tail(rq), {i}) + Hit(h, {i})
      BY <1>1, <1>3, CountTail, Zenon DEF h
    <2>3. Hit(h, {i}) \in 0..1 /\ Hit(x, {QUEUE_SIZE + i}) = Hit(h, {i})
      BY <1>3, Hits DEF x
    <2>4. Count(CliW, {QUEUE_SIZE + i}) \in Nat /\ Count(rq, {i}) \in Nat
      BY <1>0, Zenon DEF CliNumbers
    <2>5. Count(Tail(rq), {i}) \in Nat
      BY <1>3, CountType, Zenon
    <2>6. Count(rq, {i}) + Count(CliW, {QUEUE_SIZE + i}) = 1
      BY Zenon DEF CliInv, CliOwner
    <2> QED
      BY <1>1, <1>6, <2>1, <2>2, <2>3, <2>4, <2>5, <2>6
  <1>9. \A n \in 1..Len(CliW) : CliW[n] # x
    <2>1. Count(rq, {h}) > 0
      BY <1>0, <1>1, <1>3, QueueCounts DEF CliNumbers, h
    <2>2. Count(rq, {h}) + Count(CliW, {x}) = 1
      BY <1>3, Zenon DEF CliInv, CliOwner, x
    <2>3. Count(rq, {h}) \in Nat /\ Count(CliW, {x}) \in Nat
      BY <1>0, <1>3, Zenon DEF CliNumbers, x
    <2>4. Count(CliW, {x}) = 0
      BY <2>1, <2>2, <2>3
    <2> QED
      BY <1>2, <1>3, <2>4, QueueCounts DEF x
  <1>10. CliType'
    <2>1. TypeOK'
      BY <1>1, <1>2, <1>3, <1>4, <1>5 DEF TypeOK
    <2>2. \A n \in 1..Len(CliW') : CliW'[n] \in RecvWrids \cup {0}
      BY <1>0, <1>2, <1>4, <1>6 DEF CliInv, CliType, CliNumbers
    <2> QED
      BY <2>1, <2>2 DEF CliType
  <1>11. CliControl'
    BY <1>1 DEF CliInv, CliControl
  <1>12. CliOwner'
    <2>1. Len(rq') + Count(CliW', RecvWrids) = QUEUE_SIZE
      BY <1>0, <1>7 DEF CliInv, CliOwner, CliNumbers
    <2>2. Len(CliW') = Count(CliW', RecvWrids) + Count(CliW', {0})
      BY <1>0, <1>7 DEF CliInv, CliOwner, CliNumbers
    <2> QED
      BY <1>8, <2>1, <2>2 DEF CliOwner
  <1>13. CliSend'
    BY <1>1, <1>7 DEF CliInv, CliSend
  <1>14. CliPings'
    BY <1>1 DEF CliInv, CliPings, PingsInOrder
  <1>15. CliOrder'
    <2>1. /\ Len(received') = Len(received) + 1
          /\ \A n \in 1..Len(received) : received'[n] = received[n]
      BY <1>0, <1>1, <1>5 DEF CliNumbers
    <2>2. cpc \in {"poll", "parse", "update"} =>
             HoldsRest(Append(CliW, x), [recv_payloads EXCEPT ![h] = p], Append(received, p), Len(persisted))
      <3>1. recv_payloads \in [QueueIdx -> 0..Iters] /\ received \in Seq(0..Iters) /\ Len(persisted) \in Nat
        BY <1>0, <1>2 DEF TypeOK, CliNumbers
      <3> SUFFICES ASSUME HoldsRest(CliW, recv_payloads, received, Len(persisted))
                   PROVE  HoldsRest(Append(CliW, x), [recv_payloads EXCEPT ![h] = p],
                                    Append(received, p), Len(persisted))
        BY DEF CliInv, CliOrder
      <3> QED
        BY <1>2, <1>3, <1>5, <1>9, <3>1, HoldsReceive, Zenon DEF x
    <2>3. Len(persisted) <= Len(received') /\ \A n \in 1..Len(persisted) : persisted[n] = received'[n]
      BY <1>0, <2>1 DEF CliInv, CliOrder, CliNumbers
    <2> QED
      BY <1>1, <1>6, <2>2, <2>3 DEF CliOrder
  <1>16. CliEnv'
    <2>1. NoRepeats(Append(received, p))
      BY <1>2, <1>5, NoRepeatsAppend DEF CliInv, CliEnv, TypeOK
    <2>2. ToSet(Append(received, p)) \subseteq ToSet(received) \cup {p}
      <3>1. received \in Seq(1..Iters)
        BY <1>2 DEF TypeOK
      <3>2. p \in 1..Iters
        BY <1>5
      <3> QED
        BY <3>1, <3>2, ToSetAppend, ZenonT(40)
    <2> QED
      BY <1>1, <2>1, <2>2 DEF CliInv, CliEnv
  <1> QED
    BY <1>10, <1>11, <1>12, <1>13, <1>14, <1>15, <1>16 DEF CliInv

(* The steps of the sender thread. *)
LEMMA CliSenderStep ==
    ASSUME CliInv, SenderGivesUp \/ Sender
    PROVE  CliInv'
  <1>0. CliNumbers
    BY CliCounts
  <1>1. UNCHANGED <<rq, cq, recv_payloads, pinged, received, cpc, wc, recv_idx, persisted, global_exit>>
    BY DEF Sender, SenderGivesUp, SenderWait, SenderMark, SenderPost, hcaVars, mainVars
  <1>2. CliW' = CliW
    BY <1>1 DEF CliW, OpenWc
  <1>3. CliControl' /\ CliOwner' /\ CliOrder' /\ CliEnv'
    BY <1>1, <1>2 DEF CliInv, CliControl, CliOwner, CliOrder, CliEnv
  <1>4. TypeOK /\ id \in 1..(Iters + 1) /\ sq \in 0..1 /\ DOMAIN pinged = 1..Len(pinged)
        /\ \A n \in 1..Len(pinged) : pinged[n] \in 1..Iters
    BY LenProperties, ElementOfSeq DEF CliInv, CliType, TypeOK
  <1>g. CASE SenderGivesUp
    <2>1. tpc = "wait" /\ tpc' = "end" /\ UNCHANGED <<sq, id, send_payload, pending_send>>
      BY <1>g DEF SenderGivesUp, hcaVars
    <2>2. TypeOK'
      BY <1>1, <1>4, <2>1 DEF TypeOK
    <2>3. CliSend'
      BY <1>2, <2>1 DEF CliInv, CliSend
    <2>4. CliPings'
      BY <1>1, <2>1 DEF CliInv, CliPings, PingsInOrder
    <2> QED
      BY <1>2, <1>3, <2>2, <2>3, <2>4 DEF CliInv, CliType
  <1>5. CASE SenderWait
    <2>1. /\ tpc = "wait" /\ ~pending_send /\ send_payload' = id /\ tpc' = "post"
          /\ UNCHANGED <<sq, id, pending_send>>
      BY <1>5 DEF SenderWait, hcaVars
    <2>2. sq + Count(CliW, {0}) = 0 /\ id <= Iters /\ send_payload = id - 1
      BY <1>4, <2>1, ItersAssumption DEF CliInv, CliSend
    <2>3. TypeOK'
      BY <1>1, <1>4, <2>1, <2>2, ItersAssumption DEF TypeOK
    <2>4. CliSend'
      BY <1>2, <1>4, <2>1, <2>2, ItersAssumption DEF CliSend
    <2>5. CliPings'
      <3>1. \A n \in 1..Len(pinged) : pinged[n] <= send_payload
        BY DEF CliInv, CliPings
      <3>2. \A n \in 1..Len(pinged) : pinged[n] < id /\ pinged[n] <= id
        BY <1>4, <2>2, <3>1
      <3> QED
        BY <1>1, <2>1, <3>2 DEF CliInv, CliPings, PingsInOrder
    <2> QED
      BY <1>2, <1>3, <2>3, <2>4, <2>5 DEF CliInv, CliType
  <1>6. CASE SenderMark
    <2>1. /\ tpc = "post" /\ pending_send' = TRUE /\ tpc' = "send"
          /\ UNCHANGED <<sq, id, send_payload>>
      BY <1>6 DEF SenderMark, hcaVars
    <2>2. sq + Count(CliW, {0}) = 0
      BY <1>0, <1>4, <2>1 DEF CliInv, CliSend, CliNumbers
    <2>3. TypeOK'
      BY <1>1, <1>4, <2>1 DEF TypeOK
    <2>4. CliSend'
      BY <1>2, <2>1, <2>2 DEF CliInv, CliSend
    <2>5. CliPings'
      BY <1>1, <2>1 DEF CliInv, CliPings, PingsInOrder
    <2> QED
      BY <1>2, <1>3, <2>3, <2>4, <2>5 DEF CliInv, CliType
  <1>7. CASE SenderPost
    <2>1. /\ tpc = "send" /\ sq' \in {sq, sq + 1} /\ id' = id + 1
          /\ tpc' = IF id + 1 <= Iters THEN "wait" ELSE "end"
          /\ UNCHANGED <<send_payload, pending_send>>
      BY <1>7 DEF SenderPost
    <2>2. sq + Count(CliW, {0}) = 0 /\ pending_send /\ send_payload = id /\ id # Iters + 1
      BY <1>0, <1>4, <2>1 DEF CliInv, CliSend, CliNumbers
    <2>3. sq = 0 /\ Count(CliW, {0}) = 0
      BY <1>0, <1>4, <2>2 DEF CliNumbers
    <2>4. TypeOK'
      BY <1>1, <1>4, <2>1, <2>2, <2>3, ItersAssumption DEF TypeOK
    <2>5. CliSend'
      <3>1. id' > 1 /\ send_payload' = id' - 1
        BY <1>4, <2>1, <2>2
      <3>2. tpc' \in {"wait", "end"} /\ (tpc' = "end" <=> id' = Iters + 1)
        BY <1>4, <2>1, <2>2, ItersAssumption
      <3>3. sq' + Count(CliW', {0}) \in 0..1
        <4>1. sq' = 0 \/ sq' = 1
          BY <2>1, <2>3
        <4>2. Count(CliW', {0}) = 0
          BY <1>2, <2>3
        <4>3. sq' + 0 \in 0..1
          BY <4>1
        <4> QED
          BY <4>2, <4>3, Zenon
      <3> QED
        BY <2>1, <2>2, <3>1, <3>2, <3>3 DEF CliSend
    <2>6. CliPings'
      BY <1>1, <2>1, <2>2 DEF CliInv, CliPings, PingsInOrder
    <2> QED
      BY <1>2, <1>3, <2>4, <2>5, <2>6 DEF CliInv, CliType
  <1> QED
    BY <1>g, <1>5, <1>6, <1>7 DEF Sender

(* main handles a send completion. *)
LEMMA CliParseSendStep ==
    ASSUME CliInv, ParseSend
    PROVE  CliInv'
  <1>0. CliNumbers
    BY CliCounts
  <1>1. /\ cpc = "parse" /\ ~(Head(wc) >= QUEUE_SIZE)
        /\ pending_send' = FALSE /\ wc' = Tail(wc)
        /\ cpc' = AfterWc(Tail(wc), recv_idx)
        /\ UNCHANGED <<rq, sq, cq, recv_payloads, pinged, received, tpc, id, send_payload,
                       recv_idx, persisted, global_exit>>
    BY DEF ParseSend, IsRecv, PINGPONG_RECV_WRID, hcaVars, threadVars
  <1>2. /\ CliW # <<>> /\ CliW \in Seq(WrIds) /\ Head(CliW) = Head(wc)
        /\ Tail(CliW) = Tail(wc) \o cq /\ Tail(wc) \in Seq(WrIds)
    BY <1>1, CliOpen
  <1>3. cpc' \in {"poll", "parse", "done"} /\ (cpc' = "parse" => wc' # <<>>) /\ (cpc' = "poll" => wc' = <<>>)
    BY <1>1 DEF AfterWc
  <1>4. CliW' = Tail(CliW)
    BY <1>1, <1>2, <1>3 DEF CliW, OpenWc
  <1>5. /\ Tail(CliW) \in Seq(WrIds) /\ Len(Tail(CliW)) = Len(CliW) - 1
        /\ \A n \in 1..Len(Tail(CliW)) : n + 1 \in 1..Len(CliW) /\ Tail(CliW)[n] = CliW[n + 1]
        /\ 1 \in 1..Len(CliW) /\ CliW[1] = Head(CliW)
    BY <1>0, <1>2 DEF CliNumbers
  <1>6. Head(CliW) = 0 /\ Head(CliW) \notin RecvWrids
    <2>1. Head(CliW) \in RecvWrids \cup {0}
      BY <1>5 DEF CliInv, CliType
    <2>2. \A w \in RecvWrids : w >= QUEUE_SIZE
      BY Wrids
    <2> QED
      BY <1>1, <1>2, <2>1, <2>2
  <1>7. /\ Count(CliW', {0}) = Count(CliW, {0}) - 1
        /\ Count(CliW', RecvWrids) = Count(CliW, RecvWrids)
    <2>1. /\ Count(CliW, {0}) = Count(Tail(CliW), {0}) + Hit(Head(CliW), {0})
          /\ Count(CliW, RecvWrids) = Count(Tail(CliW), RecvWrids) + Hit(Head(CliW), RecvWrids)
      BY <1>2, CountTail, Zenon
    <2>2. Hit(Head(CliW), {0}) = 1 /\ Hit(Head(CliW), RecvWrids) = 0
      BY <1>6 DEF Hit
    <2>3. Count(Tail(CliW), {0}) \in Nat /\ Count(Tail(CliW), RecvWrids) \in Nat
      BY <1>5, CountType, Zenon
    <2> QED
      BY <1>4, <2>1, <2>2, <2>3
  <1>8. ASSUME NEW i \in QueueIdx
        PROVE  Count(rq', {i}) + Count(CliW', {QUEUE_SIZE + i}) = 1
    <2>1. Count(CliW, {QUEUE_SIZE + i}) = Count(Tail(CliW), {QUEUE_SIZE + i}) + Hit(0, {QUEUE_SIZE + i})
      BY <1>2, <1>6, CountTail, Zenon
    <2>2. Hit(0, {QUEUE_SIZE + i}) = 0
      BY <1>0, Hits DEF CliNumbers
    <2>3. Count(Tail(CliW), {QUEUE_SIZE + i}) \in Nat
      BY <1>5, CountType, Zenon
    <2>4. Count(rq, {i}) + Count(CliW, {QUEUE_SIZE + i}) = 1
      BY Zenon DEF CliInv, CliOwner
    <2> QED
      BY <1>1, <1>4, <2>1, <2>2, <2>3, <2>4
  <1>9. sq + Count(CliW, {0}) = 1 /\ sq' + Count(CliW', {0}) = 0
    <2>1. Count(CliW', {0}) \in Nat
      BY <1>4, <1>5, CountType, Zenon
    <2>2. sq \in 0..1 /\ sq + Count(CliW, {0}) \in 0..1
      BY DEF CliInv, CliType, TypeOK, CliSend
    <2> QED
      BY <1>0, <1>1, <1>7, <2>1, <2>2 DEF CliNumbers
  <1>10. CliType'
    <2>1. TypeOK'
      BY <1>1, <1>2, <1>3 DEF CliInv, CliType, TypeOK
    <2>2. \A n \in 1..Len(CliW') : CliW'[n] \in RecvWrids \cup {0}
      BY <1>4, <1>5 DEF CliInv, CliType
    <2> QED
      BY <2>1, <2>2 DEF CliType
  <1>11. CliControl'
    BY <1>3 DEF CliControl
  <1>12. CliOwner'
    <2>1. Len(rq') + Count(CliW', RecvWrids) = QUEUE_SIZE
      BY <1>1, <1>7 DEF CliInv, CliOwner
    <2>2. Len(CliW') = Count(CliW', RecvWrids) + Count(CliW', {0})
      BY <1>0, <1>4, <1>5, <1>7 DEF CliInv, CliOwner, CliNumbers
    <2> QED
      BY <1>8, <2>1, <2>2 DEF CliOwner
  <1>13. CliSend'
    BY <1>1, <1>9 DEF CliInv, CliSend
  <1>14. CliPings'
    BY <1>1 DEF CliInv, CliPings, PingsInOrder
  <1>15. CliOrder'
    <2>1. HoldsRest(CliW, recv_payloads, received, Len(persisted))
      BY <1>1 DEF CliInv, CliOrder
    <2>2. HoldsRest(Tail(CliW), recv_payloads, received, Len(persisted))
      BY <1>2, <1>6, <2>1, HoldsTailSend, Zenon
    <2> QED
      BY <1>1, <1>4, <2>2 DEF CliInv, CliOrder
  <1>16. CliEnv'
    BY <1>1 DEF CliInv, CliEnv
  <1> QED
    BY <1>10, <1>11, <1>12, <1>13, <1>14, <1>15, <1>16 DEF CliInv

(* The pong at the head of the completions is the next to be persisted. *)
LEMMA CliNextPong ==
    ASSUME CliInv, cpc = "parse", IsRecv(Head(wc))
    PROVE  /\ CliW # <<>> /\ Head(CliW) = Head(wc) /\ Head(CliW) \in RecvWrids
           /\ Head(CliW) - QUEUE_SIZE \in QueueIdx
           /\ RecvIdx(Head(wc)) = Head(CliW) - QUEUE_SIZE
           /\ HoldsRest(Tail(CliW), recv_payloads, received, Len(persisted) + 1)
           /\ Len(persisted) + 1 <= Len(received)
           /\ recv_payloads[RecvIdx(Head(wc))] = received[Len(persisted) + 1]
           /\ received[Len(persisted) + 1] \in 1..Iters
  <1>0. CliNumbers
    BY CliCounts
  <1>1. CliW # <<>> /\ CliW \in Seq(WrIds) /\ Head(CliW) = Head(wc) /\ Head(wc) \in WrIds
    BY CliOpen
  <1>2. Head(CliW) \in RecvWrids /\ Head(CliW) - QUEUE_SIZE \in QueueIdx
        /\ RecvIdx(Head(wc)) = Head(CliW) - QUEUE_SIZE
    BY <1>1, Wrids DEF IsRecv, RecvIdx, PINGPONG_RECV_WRID
  <1>3. HoldsRest(CliW, recv_payloads, received, Len(persisted)) /\ Len(persisted) \in Nat
    BY <1>0 DEF CliInv, CliOrder, CliNumbers
  <1>4. /\ HoldsRest(Tail(CliW), recv_payloads, received, Len(persisted) + 1)
        /\ Len(persisted) + 1 <= Len(received)
        /\ recv_payloads[Head(CliW) - QUEUE_SIZE] = received[Len(persisted) + 1]
    BY <1>1, <1>2, <1>3, HoldsTailRecv, Zenon
  <1>5. received[Len(persisted) + 1] \in 1..Iters
    <2>1. received \in Seq(1..Iters) /\ Len(persisted) + 1 \in 1..Len(received)
      BY <1>0, <1>4 DEF CliInv, CliType, TypeOK, CliNumbers
    <2> QED
      BY <2>1, ElementOfSeq
  <1> QED
    BY <1>1, <1>2, <1>4, <1>5

(* The log of persisted pongs grows by the next one that was received. *)
LEMMA CliPersists ==
    ASSUME CliInv, Len(persisted) + 1 <= Len(received),
           received[Len(persisted) + 1] \in 1..Iters,
           persisted' = Append(persisted, received[Len(persisted) + 1]), UNCHANGED received
    PROVE  /\ persisted' \in Seq(1..Iters) /\ Len(persisted') = Len(persisted) + 1
           /\ Len(persisted') <= Len(received')
           /\ \A n \in 1..Len(persisted') : persisted'[n] = received'[n]
  <1>0. CliNumbers
    BY CliCounts
  <1>1. persisted \in Seq(1..Iters)
    BY DEF CliInv, CliType, TypeOK
  <1>2. /\ persisted' \in Seq(1..Iters) /\ Len(persisted') = Len(persisted) + 1
        /\ \A n \in 1..Len(persisted) : persisted'[n] = persisted[n]
        /\ persisted'[Len(persisted) + 1] = received[Len(persisted) + 1]
    BY <1>1, AppendProperties
  <1>3. \A n \in 1..Len(persisted) : persisted[n] = received[n]
    BY DEF CliInv, CliOrder
  <1> QED
    BY <1>0, <1>2, <1>3 DEF CliNumbers

(* main persists a pong and posts its buffer again. *)
LEMMA CliParseRecvStep ==
    ASSUME CliInv, ParseRecv
    PROVE  CliInv'
  <1> DEFINE h == Head(CliW) - QUEUE_SIZE
             x == Head(CliW)
  <1>0. CliNumbers
    BY CliCounts
  <1>1. /\ cpc = "parse" /\ IsRecv(Head(wc))
        /\ persisted' = Append(persisted, recv_payloads[RecvIdx(Head(wc))])
        /\ rq' = Append(rq, RecvIdx(Head(wc)))
        /\ cpc' = "update"
        /\ UNCHANGED <<sq, cq, recv_payloads, pinged, received, tpc, id, send_payload,
                       wc, recv_idx, pending_send, global_exit>>
    BY DEF ParseRecv, threadVars
  <1>2. /\ CliW # <<>> /\ x = Head(wc) /\ x \in RecvWrids /\ h \in QueueIdx
        /\ RecvIdx(Head(wc)) = h
        /\ HoldsRest(Tail(CliW), recv_payloads, received, Len(persisted) + 1)
        /\ Len(persisted) + 1 <= Len(received)
        /\ recv_payloads[RecvIdx(Head(wc))] = received[Len(persisted) + 1]
        /\ received[Len(persisted) + 1] \in 1..Iters
    BY <1>1, CliNextPong
  <1>3. CliW \in Seq(WrIds) /\ Tail(CliW) = Tail(wc) \o cq /\ Tail(wc) \in Seq(WrIds)
    BY <1>1, CliOpen
  <1>4. CliW' = Tail(CliW)
    BY <1>1, <1>3 DEF CliW, OpenWc
  <1>5. /\ Tail(CliW) \in Seq(WrIds) /\ Len(Tail(CliW)) = Len(CliW) - 1
        /\ \A n \in 1..Len(Tail(CliW)) : n + 1 \in 1..Len(CliW) /\ Tail(CliW)[n] = CliW[n + 1]
    BY <1>0, <1>2, <1>3 DEF CliNumbers
  <1>6. x = QUEUE_SIZE + h
    BY <1>2, QueueAssumption DEF RecvWrids
  <1>7. rq \in Seq(QueueIdx) /\ rq' = Append(rq, h) /\ rq' \in Seq(QueueIdx) /\ Len(rq') = Len(rq) + 1
    BY <1>1, <1>2, IndexQueue, AppendProperties DEF CliInv, CliType, TypeOK
  <1>8. /\ persisted' \in Seq(1..Iters) /\ Len(persisted') = Len(persisted) + 1
        /\ Len(persisted') <= Len(received')
        /\ \A n \in 1..Len(persisted') : persisted'[n] = received'[n]
    <2>1. persisted' = Append(persisted, received[Len(persisted) + 1])
      BY <1>1, <1>2
    <2> QED
      BY <1>1, <1>2, <2>1, CliPersists
  <1> HIDE DEF h, x
  <1>9. /\ Count(CliW', {0}) = Count(CliW, {0})
        /\ Count(CliW', RecvWrids) = Count(CliW, RecvWrids) - 1
    <2>1. /\ Count(CliW, {0}) = Count(Tail(CliW), {0}) + Hit(x, {0})
          /\ Count(CliW, RecvWrids) = Count(Tail(CliW), RecvWrids) + Hit(x, RecvWrids)
      BY <1>2, <1>3, CountTail, Zenon DEF x
    <2>2. Hit(x, {0}) = 0 /\ Hit(x, RecvWrids) = 1
      BY <1>2, QueueAssumption DEF Hit, RecvWrids
    <2>3. Count(Tail(CliW), {0}) \in Nat /\ Count(Tail(CliW), RecvWrids) \in Nat
      BY <1>5, CountType, Zenon
    <2> QED
      BY <1>4, <2>1, <2>2, <2>3
  <1>10. ASSUME NEW i \in QueueIdx
         PROVE  Count(rq', {i}) + Count(CliW', {QUEUE_SIZE + i}) = 1
    <2>1. Count(CliW, {QUEUE_SIZE + i}) = Count(Tail(CliW), {QUEUE_SIZE + i}) + Hit(x, {QUEUE_SIZE + i})
      BY <1>2, <1>3, CountTail, Zenon DEF x
    <2>2. Count(Append(rq, h), {i}) = Count(rq, {i}) + Hit(h, {i})
      BY <1>2, <1>7, CountAppend, Zenon
    <2>3. Hit(h, {i}) \in 0..1 /\ Hit(x, {QUEUE_SIZE + i}) = Hit(h, {i})
      <3>1. Hit(h, {i}) \in 0..1 /\ Hit(QUEUE_SIZE + h, {QUEUE_SIZE + i}) = Hit(h, {i})
        BY <1>2, Hits
      <3> QED
        BY <1>6, <3>1
    <2>4. Count(Tail(CliW), {QUEUE_SIZE + i}) \in Nat
      BY <1>5, CountType, Zenon
    <2>5. Count(rq, {i}) + Count(CliW, {QUEUE_SIZE + i}) = 1
      BY Zenon DEF CliInv, CliOwner
    <2>6. Count(rq, {i}) \in Nat
      BY <1>7, CountType, Zenon
    <2> QED
      BY <1>4, <1>7, <2>1, <2>2, <2>3, <2>4, <2>5, <2>6
  <1>11. CliType'
    <2>1. TypeOK'
      BY <1>1, <1>7, <1>8 DEF CliInv, CliType, TypeOK
    <2>2. \A n \in 1..Len(CliW') : CliW'[n] \in RecvWrids \cup {0}
      BY <1>4, <1>5 DEF CliInv, CliType
    <2> QED
      BY <2>1, <2>2 DEF CliType
  <1>12. CliControl'
    BY <1>1, <1>2 DEF CliInv, CliControl
  <1>13. CliOwner'
    <2>1. Len(rq') + Count(CliW', RecvWrids) = QUEUE_SIZE
      BY <1>0, <1>7, <1>9 DEF CliInv, CliOwner, CliNumbers
    <2>2. Len(CliW') = Count(CliW', RecvWrids) + Count(CliW', {0})
      BY <1>0, <1>4, <1>5, <1>9 DEF CliInv, CliOwner, CliNumbers
    <2> QED
      BY <1>10, <2>1, <2>2 DEF CliOwner
  <1>14. CliSend'
    BY <1>1, <1>9 DEF CliInv, CliSend
  <1>15. CliPings'
    BY <1>1 DEF CliInv, CliPings, PingsInOrder
  <1>16. CliOrder'
    BY <1>1, <1>2, <1>4, <1>8 DEF CliOrder
  <1>17. CliEnv'
    BY <1>1 DEF CliInv, CliEnv
  <1> QED
    BY <1>11, <1>12, <1>13, <1>14, <1>15, <1>16, <1>17 DEF CliInv

(* main stops at a completion, having persisted its pong or not. *)
LEMMA CliParseFailsStep ==
    ASSUME CliInv, ParseFails
    PROVE  CliInv'
  <1>1. /\ cpc = "parse" /\ cpc' = "done"
        /\ UNCHANGED <<rq, sq, cq, recv_payloads, pinged, received, tpc, id, send_payload,
                       wc, recv_idx, pending_send, global_exit>>
    BY DEF ParseFails, hcaVars, threadVars
  <1>2. \/ persisted' = persisted
        \/ IsRecv(Head(wc)) /\ persisted' = Append(persisted, recv_payloads[RecvIdx(Head(wc))])
    BY DEF ParseFails
  <1>3. /\ persisted' \in Seq(1..Iters)
        /\ Len(persisted') <= Len(received')
        /\ \A n \in 1..Len(persisted') : persisted'[n] = received'[n]
    <2>1. CASE persisted' = persisted
      BY <1>1, <2>1 DEF CliInv, CliOrder, CliType, TypeOK
    <2>2. CASE IsRecv(Head(wc)) /\ persisted' = Append(persisted, recv_payloads[RecvIdx(Head(wc))])
      <3>1. /\ Len(persisted) + 1 <= Len(received)
            /\ received[Len(persisted) + 1] \in 1..Iters
            /\ persisted' = Append(persisted, received[Len(persisted) + 1])
        BY <1>1, <2>2, CliNextPong
      <3> QED
        BY <1>1, <3>1, CliPersists
    <2> QED
      BY <1>2, <2>1, <2>2
  <1>4. CliW' = CliW
    BY <1>1 DEF CliW, OpenWc
  <1>5. CliType'
    BY <1>1, <1>3, <1>4 DEF CliInv, CliType, TypeOK
  <1>6. CliControl'
    BY <1>1 DEF CliControl
  <1>7. CliOwner' /\ CliSend' /\ CliEnv'
    BY <1>1, <1>4 DEF CliInv, CliOwner, CliSend, CliEnv
  <1>8. CliPings'
    BY <1>1 DEF CliInv, CliPings, PingsInOrder
  <1>9. CliOrder'
    BY <1>1, <1>3 DEF CliOrder
  <1> QED
    BY <1>5, <1>6, <1>7, <1>8, <1>9 DEF CliInv

(* The steps of the client that move no buffer. *)
CliQuietStep ==
    \/ PollCq \/ PollFails \/ UpdateRecvIdx \/ pp_close_context \/ sigint_handler \/ UNCHANGED vars

(* What they do. *)
LEMMA CliQuietEffect ==
    ASSUME CliInv, CliQuietStep
    PROVE  /\ CliW' = CliW
           /\ UNCHANGED <<rq, sq, recv_payloads, pinged, received, tpc, id, send_payload,
                          persisted, pending_send>>
           /\ TypeOK' /\ CliControl'
           /\ cpc' \in {"poll", "parse", "update"} => cpc \in {"poll", "parse", "update"}
  <1>1. TypeOK /\ CliControl
    BY DEF CliInv, CliType
  <1>2. CliW' = (IF cpc' = "update" THEN Tail(wc') ELSE wc') \o cq'
    BY DEF CliW, OpenWc
  <1>3. CASE PollCq
    <2>1. /\ cpc = "poll" /\ wc = <<>>
          /\ cpc' \in {"done", "parse"} /\ (cpc' = "parse" => ~global_exit)
          /\ UNCHANGED <<rq, sq, recv_payloads, pinged, received, tpc, id, send_payload,
                         recv_idx, persisted, pending_send, global_exit>>
      BY <1>1, <1>3 DEF PollCq, CliControl, threadVars
    <2>2. PICK n \in 0..2 : /\ n <= Len(cq)
                            /\ n > 0 \/ global_exit
                            /\ wc' = SubSeq(cq, 1, n)
                            /\ cq' = SubSeq(cq, n + 1, Len(cq))
      BY <1>3 DEF PollCq
    <2>3. cq \in Seq(WrIds) /\ Len(cq) \in Nat /\ n \in 0..Len(cq)
      BY <1>1, <2>2, LenProperties DEF TypeOK
    <2>4. /\ SubSeq(cq, 1, n) \in Seq(WrIds) /\ SubSeq(cq, n + 1, Len(cq)) \in Seq(WrIds)
          /\ SubSeq(cq, 1, n) \o SubSeq(cq, n + 1, Len(cq)) = cq
          /\ n > 0 => SubSeq(cq, 1, n) # <<>>
      <3>1. 0 \in WrIds
        BY Wrids
      <3> QED
        BY <2>3, <3>1, Polled, Zenon
    <2>5. CliW' = CliW
      BY <1>2, <2>1, <2>2, <2>4, CliOpen
    <2>6. TypeOK'
      BY <1>1, <2>1, <2>2, <2>4 DEF TypeOK
    <2>7. CliControl'
      BY <2>1, <2>2, <2>4 DEF CliControl
    <2> QED
      BY <2>1, <2>5, <2>6, <2>7
  <1>4. CASE PollFails \/ pp_close_context
    BY <1>1, <1>2, <1>4, CliOpen DEF PollFails, pp_close_context, hcaVars, threadVars, TypeOK, CliControl
  <1>6. CASE UpdateRecvIdx
    <2>1. /\ cpc = "update" /\ wc' = Tail(wc)
          /\ cpc' = AfterWc(Tail(wc), recv_idx')
          /\ UNCHANGED <<rq, sq, cq, recv_payloads, pinged, received, tpc, id, send_payload,
                         persisted, pending_send, global_exit>>
      BY <1>6 DEF UpdateRecvIdx, hcaVars, threadVars
    <2>2. recv_idx' \in 0..Iters
      <3>1. recv_payloads[Head(wc) - QUEUE_SIZE] \in 0..Iters
        BY <1>1, <2>1, Wrids DEF TypeOK, CliControl
      <3> QED
        BY <1>1, <1>6, <3>1 DEF UpdateRecvIdx, TypeOK, RecvIdx, PINGPONG_RECV_WRID
    <2>3. /\ cpc' \in {"poll", "parse", "done"}
          /\ cpc' = "parse" => wc' # <<>>
          /\ cpc' = "poll" => wc' = <<>>
      BY <2>1 DEF AfterWc
    <2>4. CliW' = CliW
      BY <1>2, <2>1, <2>3, CliOpen
    <2>5. TypeOK'
      BY <1>1, <2>1, <2>2, <2>3, CliOpen DEF TypeOK
    <2>6. CliControl'
      BY <2>3 DEF CliControl
    <2> QED
      BY <2>1, <2>4, <2>5, <2>6
  <1>7. CASE sigint_handler
    BY <1>1, <1>2, <1>7, CliOpen DEF sigint_handler, hcaVars, threadVars, mainVars, TypeOK, CliControl
  <1>8. CASE UNCHANGED vars
    BY <1>1, <1>2, <1>8, CliOpen DEF vars, hcaVars, threadVars, mainVars, TypeOK, CliControl
  <1> QED
    BY <1>3, <1>4, <1>6, <1>7, <1>8 DEF CliQuietStep

(* They keep the invariant. *)
LEMMA CliQuietInv ==
    ASSUME CliInv, CliQuietStep
    PROVE  CliInv'
  <1>1. /\ CliW' = CliW
        /\ UNCHANGED <<rq, sq, recv_payloads, pinged, received, tpc, id, send_payload,
                       persisted, pending_send>>
        /\ TypeOK' /\ CliControl'
        /\ cpc' \in {"poll", "parse", "update"} => cpc \in {"poll", "parse", "update"}
    BY CliQuietEffect
  <1>2. CliType'
    BY <1>1 DEF CliInv, CliType
  <1>3. CliOwner' /\ CliSend' /\ CliEnv'
    BY <1>1 DEF CliInv, CliOwner, CliSend, CliEnv
  <1>4. CliPings'
    BY <1>1 DEF CliInv, CliPings, PingsInOrder
  <1>5. CliOrder'
    BY <1>1 DEF CliInv, CliOrder
  <1> QED
    BY <1>1, <1>2, <1>3, <1>4, <1>5 DEF CliInv

(* The client by itself. *)
LEMMA CliClientStep ==
    ASSUME CliInv, ClientStep
    PROVE  CliInv'
  BY CliTransmitStep, CliSenderStep, CliParseSendStep, CliParseRecvStep, CliParseFailsStep, CliQuietInv
  DEF ClientStep, Main, Progress, CliQuietStep
-----------------------------------------------------------------------------
(* The initial states: every buffer is posted for receiving. *)

(* All that the two programs need to know of it. *)
LEMMA FirstPosts ==
    ASSUME NEW q, q = [n \in 1..QUEUE_SIZE |-> n - 1]
    PROVE  /\ q \in Seq(QueueIdx) /\ Len(q) = QUEUE_SIZE
           /\ \A i \in QueueIdx : Count(q, {i}) = 1
  <1>1. q \in Seq(QueueIdx) /\ Len(q) = QUEUE_SIZE
    <2>1. q \in [1..QUEUE_SIZE -> QueueIdx] /\ QUEUE_SIZE \in Nat
      BY QueueAssumption DEF QueueIdx
    <2> QED
      BY <2>1
  <1>2. ASSUME NEW i \in QueueIdx
        PROVE  Count(q, {i}) = 1
    <2> DEFINE m == i + 1
    <2>1. m \in 1..Len(q) /\ q[m] \in {i} /\ \A n \in 1..Len(q) : q[n] \in {i} => n = m
      BY <1>1, QueueAssumption DEF QueueIdx
    <2> HIDE DEF m
    <2> QED
      BY <1>1, <2>1, CountOnce, Zenon
  <1> QED
    BY <1>1, <1>2

(* Nothing is completed yet. *)
LEMMA FirstHolds ==
    ASSUME NEW P
    PROVE  HoldsRest(<<>>, P, <<>>, 0) /\ <<>> \o <<>> = <<>> /\ NoRepeats(<<>>)
  <1>1. Count(<<>>, RecvWrids) = 0
    BY CountEmpty
  <1> QED
    BY <1>1 DEF HoldsRest, NoRepeats

(* The server starts in its invariant. *)
LEMMA SrvInit == Server!Init => SrvInv
  <1> SUFFICES ASSUME Server!Init PROVE SrvInv
    OBVIOUS
  <1>1. /\ srv_rq = [n \in 1..QUEUE_SIZE |-> n - 1]
        /\ srv_sq = <<>> /\ srv_cq = <<>> /\ srv_wc = <<>> /\ srv_received = <<>> /\ srv_echoed = <<>>
        /\ srv_recv_payloads = [i \in QueueIdx |-> 0]
        /\ srv_pending_send = [i \in QueueIdx |-> FALSE]
        /\ srv_pc = "poll" /\ srv_recv_idx = 0 /\ srv_global_exit = FALSE
    BY SrvNames DEF Server!Init
  <1>2. SrvW = <<>>
    BY <1>1, FirstHolds DEF SrvW, Server!Completions, Server!OpenWc
  <1>3. SrvType
    <2>1. srv_rq \in Seq(QueueIdx)
      BY <1>1, FirstPosts
    <2>2. 0 \in 0..Iters
      BY ItersAssumption
    <2>3. srv_recv_payloads \in [QueueIdx -> 0..Iters] /\ srv_pending_send \in [QueueIdx -> BOOLEAN]
      BY <1>1, <2>2, Zenon
    <2>4. \A T : <<>> \in Seq(T)
      BY EmptySeq, Zenon
    <2>5. /\ srv_sq \in Seq(QueueIdx) /\ srv_cq \in Seq(WrIds) /\ srv_wc \in Seq(WrIds)
          /\ srv_received \in Seq(1..Iters) /\ srv_echoed \in Seq(0..Iters)
      BY <1>1, <2>4, Zenon
    <2> QED
      BY <1>1, <2>1, <2>2, <2>3, <2>5, Zenon DEF SrvType
  <1>4. SrvControl /\ SrvPending /\ NoRepeats(srv_received)
    BY <1>1, FirstHolds DEF SrvControl, SrvPending
  <1>5. SrvOwner
    <2>1. \A i \in QueueIdx : Count(srv_rq, {i}) = 1
      BY <1>1, FirstPosts
    <2>2. \A S : Count(<<>>, S) = 0
      BY CountEmpty, Zenon
    <2>3. ASSUME NEW i \in QueueIdx
          PROVE  Count(SrvW, {QUEUE_SIZE + i}) = 0 /\ Count(srv_sq, {i}) = 0 /\ Count(SrvW, {i}) = 0
      BY <1>1, <1>2, <2>2, Zenon
    <2>4. ASSUME NEW i \in QueueIdx
          PROVE  Count(srv_rq, {i}) + Count(SrvW, {QUEUE_SIZE + i}) + Count(srv_sq, {i}) + Count(SrvW, {i}) = 1
      <3>1. /\ Count(srv_rq, {i}) = 1 /\ Count(SrvW, {QUEUE_SIZE + i}) = 0
            /\ Count(srv_sq, {i}) = 0 /\ Count(SrvW, {i}) = 0
        BY <2>1, <2>3, Zenon
      <3> QED
        BY <3>1
    <2> QED
      BY <2>4 DEF SrvOwner
  <1>6. SrvOrder
    <2>1. Len(srv_echoed) = 0 /\ Len(srv_sq) = 0 /\ Len(srv_echoed) + Len(srv_sq) = 0
      BY <1>1
    <2>2. HoldsRest(SrvW, srv_recv_payloads, srv_received, Len(srv_echoed) + Len(srv_sq))
      BY <1>1, <1>2, <2>1, FirstHolds
    <2> QED
      BY <2>1, <2>2 DEF SrvOrder
  <1> QED
    BY <1>3, <1>4, <1>5, <1>6, SrvTypes DEF SrvInv

(* The client starts in its invariant. *)
LEMMA CliInit == Init => CliInv
  <1> SUFFICES ASSUME Init PROVE CliInv
    OBVIOUS
  <1>1. /\ rq = [n \in 1..QUEUE_SIZE |-> n - 1] /\ sq = 0
        /\ cq = <<>> /\ wc = <<>> /\ pinged = <<>> /\ received = <<>> /\ persisted = <<>>
        /\ recv_payloads = [i \in QueueIdx |-> 0] /\ send_payload = 0 /\ pending_send = FALSE
        /\ tpc = "wait" /\ id = 1 /\ cpc = "poll" /\ recv_idx = 0 /\ global_exit = FALSE
    BY DEF Init
  <1>2. CliW = <<>>
    BY <1>1, FirstHolds DEF CliW, OpenWc
  <1>3. CliType
    <2>1. rq \in Seq(QueueIdx)
      BY <1>1, FirstPosts
    <2>2. 0 \in 0..Iters /\ 1 \in 1..(Iters + 1)
      BY ItersAssumption
    <2>3. TypeOK
      <3>1. recv_payloads \in [QueueIdx -> 0..Iters]
        BY <1>1, <2>2, Zenon
      <3>2. \A T : <<>> \in Seq(T)
        BY EmptySeq, Zenon
      <3>3. /\ cq \in Seq(WrIds) /\ wc \in Seq(WrIds) /\ pinged \in Seq(1..Iters)
            /\ received \in Seq(1..Iters) /\ persisted \in Seq(1..Iters)
        BY <1>1, <3>2, Zenon
      <3>4. sq \in 0..1
        BY <1>1
      <3> QED
        BY <1>1, <2>1, <2>2, <3>1, <3>3, <3>4, Zenon DEF TypeOK
    <2> QED
      BY <1>2, <2>3 DEF CliType
  <1>4. CliControl /\ CliPings /\ CliEnv
    BY <1>1, FirstHolds DEF CliControl, CliPings, PingsInOrder, CliEnv, ToSet
  <1>5. CliOwner /\ CliSend
    <2>1. Len(rq) = QUEUE_SIZE /\ \A i \in QueueIdx : Count(rq, {i}) = 1
      BY <1>1, FirstPosts
    <2>2. Count(CliW, RecvWrids) = 0 /\ Count(CliW, {0}) = 0 /\ Len(CliW) = 0
          /\ \A i \in QueueIdx : Count(CliW, {QUEUE_SIZE + i}) = 0
      BY <1>2, CountEmpty
    <2> QED
      BY <1>1, <2>1, <2>2, QueueAssumption, ItersAssumption DEF CliOwner, CliSend
  <1>6. CliOrder
    BY <1>1, <1>2, FirstHolds DEF CliOrder
  <1> QED
    BY <1>3, <1>4, <1>5, <1>6 DEF CliInv

-----------------------------------------------------------------------------
(* The server alone: UdServer, in which any ping of the experiment may     *)
(* arrive at any time, but none twice.                                     *)

(* The invariant of the server is inductive. *)
LEMMA SrvNext == SrvInv /\ [Server!Next]_(Server!vars) => SrvInv'
  <1> SUFFICES ASSUME SrvInv, [Server!Next]_(Server!vars) PROVE SrvInv'
    OBVIOUS
  <1>1. CASE Server!ServerStep
    BY <1>1, SrvServerStep
  <1>2. CASE \E p \in (1..Iters) \ Server!ToSet(srv_received) : Server!HcaReceive(p)
    BY <1>2, SrvNames, SrvReceiveStep
  <1>3. CASE UNCHANGED Server!vars
    BY <1>3, SrvQuietInv DEF Server!vars, Server!hcaVars, SrvQuietStep, srvVars
  <1> QED
    BY <1>1, <1>2, <1>3 DEF Server!Next

(* What the invariant says, in the words of the model. *)
LEMMA SrvSafe == SrvInv => Server!TypeOK /\ OneOwner /\ NoSelfWait /\ EchoInOrder
  <1> SUFFICES ASSUME SrvInv PROVE Server!TypeOK /\ OneOwner /\ NoSelfWait /\ EchoInOrder
    OBVIOUS
  <1>1. Server!TypeOK /\ SrvType
    BY SrvTypes DEF SrvInv
  <1>2. OneOwner
    <2> SUFFICES ASSUME NEW i \in QueueIdx PROVE Server!Owners(i) = 1
      BY SrvNames DEF OneOwner, Server!OneOwner
    <2>1. Server!Owners(i) = Count(srv_rq, {i}) + Count(SrvW, {QUEUE_SIZE + i})
                             + Count(srv_sq, {i}) + Count(SrvW, {0 + i})
      BY SrvNames, Zenon DEF Server!Owners, SrvW
    <2>2. 0 + i = i
      BY DEF QueueIdx
    <2> QED
      BY <2>1, <2>2 DEF SrvInv, SrvOwner
  <1>3. NoSelfWait
    <2> SUFFICES ASSUME srv_pc = "parse", Head(srv_wc) >= QUEUE_SIZE,
                        srv_pending_send[Head(srv_wc) - QUEUE_SIZE]
                 PROVE  FALSE
      BY SrvNames DEF NoSelfWait, Server!NoSelfWait
    <2> DEFINE i == Head(srv_wc) - QUEUE_SIZE
    <2>1. SrvW # <<>> /\ Head(SrvW) = Head(srv_wc) /\ Head(srv_wc) \in WrIds /\ SrvW \in Seq(WrIds)
      BY SrvOpen
    <2>2. i \in QueueIdx /\ Head(SrvW) = QUEUE_SIZE + i
      BY <2>1, Wrids
    <2> HIDE DEF i
    <2>3. Count(SrvW, {QUEUE_SIZE + i}) > 0
      BY <2>1, <2>2, QueueCounts
    <2>4. Count(srv_sq, {i}) + Count(SrvW, {i}) > 0
      BY <2>2 DEF SrvInv, SrvPending, i
    <2>5. /\ Places(srv_rq, SrvW, srv_sq, i) = 1
          /\ Count(srv_rq, {i}) \in Nat /\ Count(srv_sq, {i}) \in Nat
          /\ Count(SrvW, {i}) \in Nat /\ Count(SrvW, {QUEUE_SIZE + i}) \in Nat
      BY <2>2, SrvCounts
    <2> QED
      BY <2>3, <2>4, <2>5 DEF Places
  <1>4. EchoInOrder
    <2>1. Len(srv_echoed) <= Len(srv_received)
      BY SrvLogs
    <2>2. SubSeq(srv_echoed, 1, Len(srv_echoed)) = SubSeq(srv_received, 1, Len(srv_echoed))
      BY <1>1, <2>1, SamePrefix DEF SrvType, SrvInv, SrvOrder
    <2> QED
      BY <2>1, <2>2 DEF EchoInOrder, Server!EchoInOrder, Server!IsPrefix
  <1> QED
    BY <1>1, <1>2, <1>3, <1>4

(* The server alone is safe: whatever pings arrive and whatever fails, no  *)
(* buffer is with the adapter twice or nowhere, the wait of                *)
(* parse_single_wc is never entered, and the echo is faithful.             *)
THEOREM ServerAlone == Server!Spec => [](Server!TypeOK /\ OneOwner /\ NoSelfWait /\ EchoInOrder)
  <1>1. Server!Spec => []SrvInv
    BY SrvInit, SrvNext, PTL DEF Server!Spec
  <1> QED
    BY <1>1, SrvSafe, PTL

-----------------------------------------------------------------------------
(* The client alone: UdClient, in which the pong of any ping that was sent *)
(* may come back, but none twice.                                          *)

(* The invariant of the client is inductive. *)
LEMMA CliNext == CliInv /\ [Next]_vars => CliInv'
  <1> SUFFICES ASSUME CliInv, [Next]_vars PROVE CliInv'
    OBVIOUS
  <1>1. CASE ClientStep
    BY <1>1, CliClientStep
  <1>2. CASE \E p \in ToSet(pinged) \ ToSet(received) : HcaReceive(p)
    BY <1>2, CliReceiveStep
  <1>3. CASE UNCHANGED vars
    BY <1>3, CliQuietInv DEF CliQuietStep
  <1> QED
    BY <1>1, <1>2, <1>3 DEF Next

(* What the invariant says, in the words of the model. *)
LEMMA CliSafe == CliInv => TypeOK /\ PingsInOrder /\ PersistInOrder /\ CqNeed
  <1> SUFFICES ASSUME CliInv PROVE TypeOK /\ PingsInOrder /\ PersistInOrder /\ CqNeed
    OBVIOUS
  <1>0. CliNumbers
    BY CliCounts
  <1>1. TypeOK /\ PingsInOrder
    BY DEF CliInv, CliType, CliPings
  <1>2. PersistInOrder
    <2>1. Len(persisted) <= Len(received) /\ \A n \in 1..Len(persisted) : persisted[n] = received[n]
      BY DEF CliInv, CliOrder
    <2>2. SubSeq(persisted, 1, Len(persisted)) = SubSeq(received, 1, Len(persisted))
      BY <1>1, <2>1, SamePrefix DEF TypeOK
    <2> QED
      BY <2>1, <2>2 DEF PersistInOrder, IsPrefix
  <1>3. CqNeed
    <2>1. Len(cq) <= Len(CliW) /\ Len(cq) \in Nat
      BY <1>1, CliOpen, LenProperties DEF TypeOK
    <2>2. Count(CliW, RecvWrids) <= QUEUE_SIZE /\ Count(CliW, {0}) <= 1
      <3>1. Len(rq) + Count(CliW, RecvWrids) = QUEUE_SIZE /\ sq + Count(CliW, {0}) \in 0..1
        BY DEF CliInv, CliOwner, CliSend
      <3>2. Len(rq) \in Nat /\ Count(CliW, RecvWrids) \in Nat /\ Count(CliW, {0}) \in Nat /\ sq \in 0..1
        BY <1>0, <1>1 DEF CliNumbers, TypeOK
      <3> QED
        BY <3>1, <3>2, QueueAssumption
    <2>3. Len(CliW) = Count(CliW, RecvWrids) + Count(CliW, {0})
      BY DEF CliInv, CliOwner
    <2> QED
      BY <1>0, <2>1, <2>2, <2>3, QueueAssumption DEF CqNeed, CliNumbers
  <1> QED
    BY <1>1, <1>2, <1>3

(* The client alone is safe: whatever is lost or reordered, and however    *)
(* the two threads and the adapter interleave, no ping is sent twice or    *)
(* from a buffer that was rewritten, what is persisted is what arrived,    *)
(* and the completion queue never needs more than QUEUE_SIZE + 1 entries.  *)
THEOREM ClientAlone == Spec => [](TypeOK /\ PingsInOrder /\ PersistInOrder /\ CqNeed)
  <1>1. Spec => []CliInv
    BY CliInit, CliNext, PTL DEF Spec
  <1> QED
    BY <1>1, CliSafe, PTL

-----------------------------------------------------------------------------
(* The two together. *)

(* A datagram that is in flight is one the receiver has not seen, when its *)
(* sender repeats nothing.                                                 *)
LEMMA InFlightNew ==
    ASSUME NEW T, NEW out \in Seq(T), NEW U, NEW in \in Seq(U), NoRepeats(out),
           NEW p \in InFlight(out, in)
    PROVE  p \in ToSet(out) /\ p \notin ToSet(in)
  <1>1. p \in ToSet(out) /\ Count(out, {p}) > Count(in, {p})
    BY DEF InFlight
  <1>2. Count(out, {p}) \in {0, 1}
    BY CountAtMostOnce, Zenon DEF NoRepeats
  <1>3. Count(in, {p}) \in Nat
    BY CountType, Zenon
  <1>4. Count(in, {p}) = 0
    BY <1>1, <1>2, <1>3
  <1>5. \A n \in 1..Len(in) : in[n] # p
    <2>1. \A n \in 1..Len(in) : in[n] \notin {p}
      BY <1>4, CountZero, Zenon
    <2> QED
      BY <2>1
  <1>6. DOMAIN in = 1..Len(in)
    BY LenProperties
  <1> QED
    BY <1>1, <1>5, <1>6 DEF ToSet

(* A ping that arrives at the server was sent by the client and is new. *)
LEMMA PingIsNew ==
    ASSUME UdInv, NEW p \in InFlight(pinged, srv_received)
    PROVE  p \in ToSet(pinged) /\ p \notin ToSet(srv_received) /\ p \in 1..Iters
  <1>1. pinged \in Seq(1..Iters) /\ DOMAIN pinged = 1..Len(pinged) /\ Len(pinged) \in Nat
        /\ \A n \in 1..Len(pinged) : pinged[n] \in 1..Iters
    BY LenProperties, ElementOfSeq DEF UdInv, CliInv, CliType, TypeOK
  <1>2. srv_received \in Seq(1..Iters)
    BY SrvTypes DEF UdInv, SrvInv, SrvType
  <1>3. NoRepeats(pinged)
    <2>1. \A m, n \in 1..Len(pinged) : m < n => pinged[m] < pinged[n]
      BY <1>1 DEF UdInv, CliInv, CliPings, PingsInOrder
    <2> SUFFICES ASSUME NEW m \in 1..Len(pinged), NEW n \in 1..Len(pinged), pinged[m] = pinged[n], m # n
                 PROVE  FALSE
      BY DEF NoRepeats
    <2>2. m < n \/ n < m
      BY <1>1
    <2>3. pinged[m] \in 1..Iters /\ pinged[n] \in 1..Iters
      BY <1>1
    <2>4. pinged[m] < pinged[n] \/ pinged[n] < pinged[m]
      BY <2>1, <2>2
    <2> QED
      BY <2>3, <2>4, ItersAssumption
  <1>4. p \in ToSet(pinged) /\ p \notin ToSet(srv_received)
    BY <1>1, <1>2, <1>3, InFlightNew, Zenon
  <1> QED
    BY <1>1, <1>4 DEF ToSet

(* A pong that arrives at the client is of a ping it sent, and is new. *)
LEMMA PongIsNew ==
    ASSUME UdInv, NEW p \in InFlight(srv_echoed, received)
    PROVE  p \in ToSet(pinged) /\ p \notin ToSet(received)
  <1>1. srv_echoed \in Seq(0..Iters) /\ srv_received \in Seq(1..Iters) /\ received \in Seq(1..Iters)
    BY SrvTypes DEF UdInv, SrvInv, SrvType, CliInv, CliType, TypeOK
  <1>2. /\ DOMAIN srv_echoed = 1..Len(srv_echoed) /\ DOMAIN srv_received = 1..Len(srv_received)
        /\ Len(srv_echoed) \in Nat /\ Len(srv_received) \in Nat
        /\ Len(srv_echoed) <= Len(srv_received)
        /\ \A n \in 1..Len(srv_echoed) : srv_echoed[n] = srv_received[n]
    BY <1>1, LenProperties, SrvLogs DEF UdInv, SrvInv, SrvOrder
  <1>3. \A n \in 1..Len(srv_echoed) : n \in 1..Len(srv_received)
    BY <1>2
  <1>4. NoRepeats(srv_echoed)
    BY <1>2, <1>3 DEF UdInv, SrvInv, NoRepeats
  <1>5. p \in ToSet(srv_echoed) /\ p \notin ToSet(received)
    BY <1>1, <1>4, InFlightNew, Zenon
  <1>6. p \in ToSet(srv_received)
    BY <1>2, <1>3, <1>5 DEF ToSet
  <1> QED
    BY <1>5, <1>6 DEF UdInv

(* What was sent remains sent. *)
LEMMA PingedGrows ==
    ASSUME CliInv, ClientStep
    PROVE  ToSet(pinged) \subseteq ToSet(pinged')
  <1>1. pinged' = pinged \/ (pinged' = Append(pinged, send_payload) /\ HcaTransmit)
    BY DEF ClientStep, HcaTransmit, SenderGivesUp, Sender, SenderWait, SenderMark, SenderPost, Main, Progress,
           PollCq, PollFails, ParseSend, ParseRecv, ParseFails, UpdateRecvIdx, pp_close_context,
           sigint_handler, hcaVars
  <1>2. CASE pinged' = pinged
    BY <1>2
  <1>3. CASE pinged' = Append(pinged, send_payload)
    <2>1. pinged \in Seq(0..Iters) /\ send_payload \in 0..Iters
      <3>1. \A x \in 1..Iters : x \in 0..Iters
        BY ItersAssumption
      <3>2. pinged \in Seq(1..Iters) /\ send_payload \in 0..Iters
        BY DEF CliInv, CliType, TypeOK
      <3> QED
        BY <3>1, <3>2, SeqWiden, Zenon
    <2>2. /\ DOMAIN pinged = 1..Len(pinged) /\ Len(pinged) \in Nat
          /\ DOMAIN pinged' = 1..(Len(pinged) + 1)
          /\ \A n \in 1..Len(pinged) : pinged'[n] = pinged[n]
      BY <1>3, <2>1, AppendProperties, LenProperties
    <2>3. \A n \in DOMAIN pinged : n \in DOMAIN pinged' /\ pinged'[n] = pinged[n]
      BY <2>2
    <2> QED
      BY <2>3 DEF ToSet
  <1> QED
    BY <1>1, <1>2, <1>3

(* Every step of the two keeps the invariant and is, for each of them, a   *)
(* step of its own module or none.                                         *)
LEMMA UdStep ==
    UdInv /\ [UdNext]_udVars => UdInv' /\ [Next]_vars /\ [Server!Next]_(Server!vars)
  <1> SUFFICES ASSUME UdInv, [UdNext]_udVars
               PROVE  UdInv' /\ [Next]_vars /\ [Server!Next]_(Server!vars)
    OBVIOUS
  <1>0. CliInv /\ SrvInv /\ ToSet(srv_received) \subseteq ToSet(pinged)
    BY DEF UdInv
  <1>1. ASSUME UNCHANGED srvVars
        PROVE  SrvInv' /\ UNCHANGED Server!vars /\ srv_received' = srv_received
    BY <1>0, <1>1, SrvQuietInv DEF SrvQuietStep, srvVars, Server!vars, Server!hcaVars
  <1>2. ASSUME UNCHANGED vars
        PROVE  CliInv' /\ pinged' = pinged
    BY <1>0, <1>2, CliQuietInv DEF CliQuietStep, vars, hcaVars
  <1>3. CASE ClientStep /\ UNCHANGED srvVars
    BY <1>0, <1>1, <1>3, CliClientStep, PingedGrows DEF UdInv, Next
  <1>4. CASE Server!ServerStep /\ UNCHANGED vars
    <2>1. srv_received' = srv_received
      BY <1>4 DEF Server!ServerStep, Server!HcaTransmit, Server!Main, Server!Progress, Server!PollCq,
                  Server!PollFails, Server!ParseSend, Server!ParseRecv, Server!ParseFails,
                  Server!UpdateRecvIdx, Server!pp_close_context, Server!sigint_handler
    <2> QED
      BY <1>0, <1>2, <1>4, <2>1, SrvServerStep DEF UdInv, Server!Next
  <1>5. CASE PingArrives
    <2>1. PICK p \in InFlight(pinged, srv_received) : Server!HcaReceive(p)
      BY <1>5 DEF PingArrives
    <2>2. p \in ToSet(pinged) /\ p \notin ToSet(srv_received) /\ p \in 1..Iters
      BY PingIsNew
    <2>3. SrvInv'
      BY <1>0, <2>1, <2>2, SrvReceiveStep
    <2>4. CliInv' /\ pinged' = pinged /\ UNCHANGED vars
      BY <1>2, <1>5 DEF PingArrives
    <2>5. Server!Next
      BY <2>1, <2>2, SrvNames DEF Server!Next
    <2>6. ToSet(srv_received') \subseteq ToSet(pinged')
      <3>1. srv_received' = Append(srv_received, p) /\ srv_received \in Seq(1..Iters)
        BY <1>0, <2>1, SrvTypes DEF Server!HcaReceive, SrvInv, SrvType
      <3>2. ToSet(Append(srv_received, p)) \subseteq ToSet(srv_received) \cup {p}
        BY <2>2, <3>1, ToSetAppend
      <3> QED
        BY <1>0, <2>2, <2>4, <3>1, <3>2
    <2> QED
      BY <2>3, <2>4, <2>5, <2>6 DEF UdInv
  <1>6. CASE PongArrives
    <2>1. PICK p \in InFlight(srv_echoed, received) : HcaReceive(p)
      BY <1>6 DEF PongArrives
    <2>2. p \in ToSet(pinged) /\ p \notin ToSet(received)
      BY PongIsNew
    <2>3. CliInv' /\ pinged' = pinged
      BY <1>0, <2>1, <2>2, CliReceiveStep DEF HcaReceive
    <2>4. SrvInv' /\ srv_received' = srv_received /\ UNCHANGED Server!vars
      BY <1>1, <1>6 DEF PongArrives
    <2>5. Next
      BY <2>1, <2>2 DEF Next
    <2> QED
      BY <1>0, <2>3, <2>4, <2>5 DEF UdInv
  <1>7. CASE UNCHANGED udVars
    BY <1>0, <1>1, <1>2, <1>7 DEF udVars, UdInv
  <1> QED
    BY <1>3, <1>4, <1>5, <1>6, <1>7 DEF UdNext

(* The two start in the invariant. *)
LEMMA UdInits == UdInit => UdInv /\ Init /\ Server!Init
  <1> SUFFICES ASSUME UdInit PROVE UdInv
    BY DEF UdInit
  <1>1. CliInv /\ SrvInv
    BY CliInit, SrvInit DEF UdInit
  <1>2. ToSet(srv_received) = {}
    BY DEF UdInit, Server!Init, ToSet
  <1> QED
    BY <1>1, <1>2 DEF UdInv

(* Together, each of the two is in the environment that its own module     *)
(* assumes: the client sends no id twice from its one buffer, and the      *)
(* server sends back no buffer that was overwritten or is still empty.     *)
THEOREM UdImplementsEachAlone == UdSpec => EachAlone
  <1>1. UdSpec => []UdInv
    BY UdInits, UdStep, PTL DEF UdSpec
  <1> QED
    BY <1>1, UdInits, UdStep, PTL DEF UdSpec, EachAlone, Spec, Server!Spec

(* The variables of both programs keep their types. *)
THEOREM UdTypes == UdSpec => []UdTypeOK
  BY UdImplementsEachAlone, ServerAlone, ClientAlone, PTL DEF EachAlone, UdTypeOK

(* Each buffer of the server is in exactly one queue at a time. *)
THEOREM UdOneOwner == UdSpec => []OneOwner
  BY UdImplementsEachAlone, ServerAlone, PTL DEF EachAlone

(* The server never waits for a bit that only it can clear. *)
THEOREM UdNoSelfWait == UdSpec => []NoSelfWait
  BY UdImplementsEachAlone, ServerAlone, PTL DEF EachAlone

(* The server echoes what it received, in that order. *)
THEOREM UdEchoInOrder == UdSpec => []EchoInOrder
  BY UdImplementsEachAlone, ServerAlone, PTL DEF EachAlone

(* The pings leave the client in order, none twice. *)
THEOREM UdPingsInOrder == UdSpec => []PingsInOrder
  BY UdImplementsEachAlone, ClientAlone, PTL DEF EachAlone

(* The client persists what arrived, in that order. *)
THEOREM UdPersistInOrder == UdSpec => []PersistInOrder
  BY UdImplementsEachAlone, ClientAlone, PTL DEF EachAlone

(* The completion queue of the client needs at most one entry more than    *)
(* there are receive buffers.                                              *)
THEOREM UdCqNeed == UdSpec => []CqNeed
  BY UdImplementsEachAlone, ClientAlone, PTL DEF EachAlone
=============================================================================
