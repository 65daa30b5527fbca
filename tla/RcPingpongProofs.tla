-------------------------- MODULE RcPingpongProofs --------------------------
(***************************************************************************)
(* Theorems about the RC pingpong (RcPingpong) for every number of packets *)
(* and every depth of the receive and send queues.                         *)
(*                                                                         *)
(* The credits of an end are exact because a delivery turns a posted       *)
(* receive into a completion and only the loop takes one away; the send    *)
(* queue never overflows because a send is counted in one of four places   *)
(* until its completion is polled; a buffer that is sent or persisted has  *)
(* been written before.                                                    *)
(***************************************************************************)
EXTENDS RcPingpong, CountingProofs

Wc == {"send", "recv", "error"}

-----------------------------------------------------------------------------
(* The inductive invariant. *)

Credits ==
    \A n \in Node : /\ available_recv[n] = rq[n] + RecvWaiting(n)
                    /\ Running(n) => available_recv[n] >= 2

Sends == \A n \in Node : SendsOpen(n) <= SendDepth

Buffers ==
    /\ \A n \in Node : sq[n] > 0 => send_buf[n] # 0
    /\ \A n \in Node : RecvWaiting(n) > 0 => recv_buf[n] # 0
    /\ tpc = "post" => send_buf["client"] # 0

Loops ==
    /\ \A n \in Node : pc[n] = "poll" => recv_count[n] < Iters
    /\ \A n \in Node : pc[n] = "next" => recv_count[n] <= Iters
    /\ tpc # "end" => id <= Iters

RcInv == TypeOK /\ Credits /\ Sends /\ Buffers /\ Loops

-----------------------------------------------------------------------------
(* The queues. *)

(* The two ends and the sizes. *)
LEMMA Sizes ==
    /\ "client" \in Node /\ "server" \in Node
    /\ \A n \in Node : Peer(n) \in Node /\ Peer(n) # n
    /\ RECEIVE_DEPTH \in Nat /\ RECEIVE_DEPTH >= 2 /\ SendDepth \in Nat \ {0} /\ Iters \in Nat \ {0}
  BY DepthAssumption, SendDepthAssumption, ItersAssumption DEF Node, Peer

(* The completions of a queue, by kind, are natural numbers. *)
LEMMA KindsType ==
    ASSUME NEW q \in Seq(Wc)
    PROVE  Count(q, {"recv"}) \in Nat /\ Count(q, {"send", "error"}) \in Nat
  BY CountType, Zenon

(* A completion arrives. *)
LEMMA KindsAppend ==
    ASSUME NEW q \in Seq(Wc), NEW x \in Wc
    PROVE  /\ Append(q, x) \in Seq(Wc)
           /\ Count(Append(q, x), {"recv"}) = Count(q, {"recv"}) + (IF x = "recv" THEN 1 ELSE 0)
           /\ Count(Append(q, x), {"send", "error"})
                = Count(q, {"send", "error"}) + (IF x = "recv" THEN 0 ELSE 1)
  <1>1. Append(q, x) \in Seq(Wc)
    BY AppendProperties
  <1>2. Count(Append(q, x), {"recv"}) = Count(q, {"recv"}) + Hit(x, {"recv"})
    BY CountAppend, Zenon
  <1>3. Count(Append(q, x), {"send", "error"}) = Count(q, {"send", "error"}) + Hit(x, {"send", "error"})
    BY CountAppend, Zenon
  <1>4. /\ Hit(x, {"recv"}) = IF x = "recv" THEN 1 ELSE 0
        /\ Hit(x, {"send", "error"}) = IF x = "recv" THEN 0 ELSE 1
    BY DEF Hit, Wc
  <1> QED
    BY <1>1, <1>2, <1>3, <1>4

(* The oldest completion is polled. *)
LEMMA KindsTail ==
    ASSUME NEW q \in Seq(Wc), q # <<>>
    PROVE  /\ Tail(q) \in Seq(Wc) /\ Head(q) \in Wc
           /\ Count(q, {"recv"}) = Count(Tail(q), {"recv"}) + (IF Head(q) = "recv" THEN 1 ELSE 0)
           /\ Count(q, {"send", "error"})
                = Count(Tail(q), {"send", "error"}) + (IF Head(q) = "recv" THEN 0 ELSE 1)
  <1>1. Tail(q) \in Seq(Wc) /\ Head(q) \in Wc
    BY HeadTailProperties
  <1>2. Count(q, {"recv"}) = Count(Tail(q), {"recv"}) + Hit(Head(q), {"recv"})
    BY CountTail, Zenon
  <1>3. Count(q, {"send", "error"}) = Count(Tail(q), {"send", "error"}) + Hit(Head(q), {"send", "error"})
    BY CountTail, Zenon
  <1>4. /\ Hit(Head(q), {"recv"}) = IF Head(q) = "recv" THEN 1 ELSE 0
        /\ Hit(Head(q), {"send", "error"}) = IF Head(q) = "recv" THEN 0 ELSE 1
    BY <1>1 DEF Hit, Wc
  <1> QED
    BY <1>1, <1>2, <1>3, <1>4

(* Completions that were sends, and messages on the wire, per end. *)
SendsDone(n) == Count(cq[n], {"send", "error"})
OnLink(n) == Len(link[n])

(* What the invariant says of one end. *)
LEMMA NodeFacts ==
    ASSUME RcInv, NEW n \in Node
    PROVE  /\ cq[n] \in Seq(Wc) /\ RecvWaiting(n) \in Nat /\ SendsDone(n) \in Nat
           /\ link[n] \in Seq(1..Iters) /\ OnLink(n) \in Nat
           /\ rq[n] \in Nat /\ sq[n] \in Nat /\ unacked[n] \in Nat /\ available_recv[n] \in Nat
           /\ recv_count[n] \in Nat
           /\ available_recv[n] = rq[n] + RecvWaiting(n) /\ (Running(n) => available_recv[n] >= 2)
           /\ available_recv[n] <= RECEIVE_DEPTH
           /\ sq[n] + OnLink(n) + unacked[n] + SendsDone(n) <= SendDepth
  <1>1. cq[n] \in Seq(Wc) /\ link[n] \in Seq(1..Iters)
    BY DEF RcInv, TypeOK, Wc
  <1>2. /\ rq[n] \in Nat /\ sq[n] \in Nat /\ unacked[n] \in Nat /\ available_recv[n] \in Nat
        /\ recv_count[n] \in Nat /\ available_recv[n] <= RECEIVE_DEPTH
    BY Sizes DEF RcInv, TypeOK
  <1>3. OnLink(n) \in Nat
    BY <1>1, LenProperties DEF OnLink
  <1>4. RecvWaiting(n) \in Nat /\ SendsDone(n) \in Nat
    BY <1>1, KindsType DEF RecvWaiting, SendsDone
  <1> QED
    BY <1>1, <1>2, <1>3, <1>4 DEF RcInv, Credits, Sends, SendsOpen, SendsDone, OnLink

(* The places of a send bound each of them. *)
LEMMA SendPlaces ==
    ASSUME \A n \in Node :
              /\ sq'[n] \in Nat /\ OnLink(n)' \in Nat /\ unacked'[n] \in Nat /\ SendsDone(n)' \in Nat
              /\ sq'[n] + OnLink(n)' + unacked'[n] + SendsDone(n)' <= SendDepth
    PROVE  Sends' /\ \A n \in Node : sq'[n] \in 0..SendDepth /\ unacked'[n] \in 0..SendDepth
  <1>1. Sends'
    BY DEF Sends, SendsOpen, SendsDone, OnLink
  <1>2. ASSUME NEW n \in Node PROVE sq'[n] \in 0..SendDepth /\ unacked'[n] \in 0..SendDepth
    <2>1. /\ sq'[n] \in Nat /\ OnLink(n)' \in Nat /\ unacked'[n] \in Nat /\ SendsDone(n)' \in Nat
          /\ sq'[n] + OnLink(n)' + unacked'[n] + SendsDone(n)' <= SendDepth
      BY Zenon
    <2>2. \A a, b, c, d \in Nat : a + b + c + d <= SendDepth => a \in 0..SendDepth /\ c \in 0..SendDepth
      BY Sizes
    <2> QED
      BY <2>1, <2>2, Zenon
  <1> QED
    BY <1>1, <1>2

-----------------------------------------------------------------------------
(* Steps of the connection. *)

(* A posted send is on the wire, with what its buffer holds. *)
LEMMA StepHcaTransmit == ASSUME NEW n \in Node, RcInv, HcaTransmit(n) PROVE RcInv'
  <1>1. /\ sq[n] > 0 /\ sq' = [sq EXCEPT ![n] = @ - 1]
        /\ link' = [link EXCEPT ![n] = Append(@, send_buf[n])]
        /\ sent' = (IF n = "server" THEN Append(sent, send_buf[n]) ELSE sent)
        /\ UNCHANGED <<rq, unacked, cq, recv_buf, send_buf, available_recv, recv_count, pc>>
        /\ UNCHANGED <<persisted, tpc, id, posted>>
    BY DEF HcaTransmit, mainVars, threadVars
  <1>2. TypeOK /\ send_buf[n] \in 1..Iters
    <2>1. TypeOK /\ send_buf[n] \in 0..Iters /\ send_buf[n] # 0
      BY <1>1 DEF RcInv, TypeOK, Buffers
    <2> QED
      BY <2>1, Sizes
  <1>3. /\ Append(link[n], send_buf[n]) \in Seq(1..Iters)
        /\ Len(Append(link[n], send_buf[n])) = Len(link[n]) + 1
    BY <1>2, NodeFacts, AppendProperties
  <1>4. \A m \in Node : RecvWaiting(m)' = RecvWaiting(m) /\ SendsDone(m)' = SendsDone(m)
    BY <1>1 DEF RecvWaiting, SendsDone
  <1>5. ASSUME NEW m \in Node
        PROVE  /\ sq'[m] \in Nat /\ OnLink(m)' \in Nat /\ unacked'[m] \in Nat /\ SendsDone(m)' \in Nat
               /\ sq'[m] + OnLink(m)' + unacked'[m] + SendsDone(m)' <= SendDepth
    <2>1. /\ sq[m] \in Nat /\ OnLink(m) \in Nat /\ unacked[m] \in Nat /\ SendsDone(m) \in Nat
          /\ sq[m] + OnLink(m) + unacked[m] + SendsDone(m) <= SendDepth
      BY NodeFacts
    <2>2. CASE m = n
      <3>1. /\ sq[m] > 0 /\ sq'[m] = sq[m] - 1 /\ OnLink(m)' = OnLink(m) + 1
            /\ unacked'[m] = unacked[m] /\ SendsDone(m)' = SendsDone(m)
        BY <1>1, <1>2, <1>3, <1>4, <2>2 DEF TypeOK, OnLink
      <3> QED
        BY <2>1, <3>1, Sizes
    <2>3. CASE m # n
      BY <1>1, <1>2, <1>4, <2>1, <2>3 DEF TypeOK, OnLink
    <2> QED
      BY <2>2, <2>3
  <1>6. Sends' /\ \A m \in Node : sq'[m] \in 0..SendDepth /\ unacked'[m] \in 0..SendDepth
    BY <1>5, SendPlaces
  <1>7. TypeOK'
    <2>1. sq' \in [Node -> 0..SendDepth]
      BY <1>1, <1>2, <1>6 DEF TypeOK
    <2>2. link' \in [Node -> Seq(1..Iters)]
      BY <1>1, <1>2, <1>3 DEF TypeOK
    <2>3. sent' \in Seq(1..Iters)
      BY <1>1, <1>2, AppendProperties DEF TypeOK
    <2> QED
      BY <1>1, <1>2, <2>1, <2>2, <2>3 DEF TypeOK
  <1>8. Credits'
    BY <1>1, <1>4 DEF RcInv, Credits, Running
  <1>9. Buffers'
    <2>1. \A m \in Node : sq'[m] > 0 => sq[m] > 0
      BY <1>1, <1>2, NodeFacts DEF TypeOK
    <2> QED
      BY <1>1, <1>4, <2>1 DEF RcInv, Buffers
  <1>10. Loops'
    BY <1>1 DEF RcInv, Loops
  <1> QED
    BY <1>6, <1>7, <1>8, <1>9, <1>10 DEF RcInv

(* A message reaches a posted receive of the other end. *)
LEMMA StepHcaDeliver == ASSUME NEW n \in Node, RcInv, HcaDeliver(n) PROVE RcInv'
  <1> DEFINE p == Peer(n)
  <1>1. /\ link[n] # <<>> /\ rq[p] > 0 /\ link' = [link EXCEPT ![n] = Tail(@)]
        /\ rq' = [rq EXCEPT ![p] = @ - 1] /\ recv_buf' = [recv_buf EXCEPT ![p] = Head(link[n])]
        /\ cq' = [cq EXCEPT ![p] = Append(@, "recv")] /\ unacked' = [unacked EXCEPT ![n] = @ + 1]
        /\ UNCHANGED <<sq, send_buf, available_recv, recv_count, pc, persisted, tpc, id, posted, sent>>
    BY DEF HcaDeliver, mainVars, threadVars
  <1>2. TypeOK /\ p \in Node /\ p # n
    BY Sizes DEF RcInv
  <1> HIDE DEF p
  <1>3. Head(link[n]) \in 1..Iters /\ Tail(link[n]) \in Seq(1..Iters) /\ Len(Tail(link[n])) = Len(link[n]) - 1
    BY <1>1, NodeFacts, HeadTailProperties
  <1>4. /\ Append(cq[p], "recv") \in Seq(Wc) /\ Count(Append(cq[p], "recv"), {"recv"}) = RecvWaiting(p) + 1
        /\ Count(Append(cq[p], "recv"), {"send", "error"}) = SendsDone(p) + 0
    <2>1. cq[p] \in Seq(Wc) /\ "recv" \in Wc
      BY <1>2, NodeFacts DEF Wc
    <2> QED
      BY <2>1, KindsAppend DEF RecvWaiting, SendsDone
  <1>5. /\ \A m \in Node : RecvWaiting(m)' = IF m = p THEN RecvWaiting(m) + 1 ELSE RecvWaiting(m)
        /\ \A m \in Node : SendsDone(m)' = SendsDone(m)
    <2>1. SendsDone(p) \in Nat
      BY <1>2, NodeFacts
    <2>2. RecvWaiting(p)' = RecvWaiting(p) + 1 /\ SendsDone(p)' = SendsDone(p)
      BY <1>1, <1>2, <1>4, <2>1 DEF RecvWaiting, SendsDone, TypeOK
    <2>3. \A m \in Node : m # p => RecvWaiting(m)' = RecvWaiting(m) /\ SendsDone(m)' = SendsDone(m)
      BY <1>1, <1>2 DEF RecvWaiting, SendsDone, TypeOK
    <2> QED
      BY <2>2, <2>3
  <1>6. ASSUME NEW m \in Node
        PROVE  /\ sq'[m] \in Nat /\ OnLink(m)' \in Nat /\ unacked'[m] \in Nat /\ SendsDone(m)' \in Nat
               /\ sq'[m] + OnLink(m)' + unacked'[m] + SendsDone(m)' <= SendDepth
    <2>1. /\ sq[m] \in Nat /\ OnLink(m) \in Nat /\ unacked[m] \in Nat /\ SendsDone(m) \in Nat
          /\ sq[m] + OnLink(m) + unacked[m] + SendsDone(m) <= SendDepth
      BY NodeFacts
    <2>2. CASE m = n
      <3>1. sq'[m] = sq[m] /\ unacked'[m] = unacked[m] + 1 /\ SendsDone(m)' = SendsDone(m)
        BY <1>1, <1>2, <1>5, <2>2 DEF TypeOK
      <3>2. OnLink(m)' = OnLink(m) - 1 /\ OnLink(m) > 0
        BY <1>1, <1>2, <1>3, <2>1, <2>2, NodeFacts, EmptySeq DEF TypeOK, OnLink
      <3> QED
        BY <2>1, <3>1, <3>2, Sizes
    <2>3. CASE m # n
      BY <1>1, <1>2, <1>5, <2>1, <2>3 DEF TypeOK, OnLink
    <2> QED
      BY <2>2, <2>3
  <1>7. Sends' /\ \A m \in Node : sq'[m] \in 0..SendDepth /\ unacked'[m] \in 0..SendDepth
    BY <1>6, SendPlaces
  <1>8. TypeOK'
    <2>1. unacked' \in [Node -> 0..SendDepth]
      BY <1>1, <1>2, <1>7 DEF TypeOK
    <2>2. link' \in [Node -> Seq(1..Iters)]
      BY <1>1, <1>2, <1>3 DEF TypeOK
    <2>3. rq' \in [Node -> 0..RECEIVE_DEPTH]
      <3>1. rq \in [Node -> 0..RECEIVE_DEPTH] /\ rq[p] \in 0..RECEIVE_DEPTH
        BY <1>2 DEF TypeOK
      <3>2. rq[p] - 1 \in 0..RECEIVE_DEPTH
        BY <1>1, <3>1, Sizes
      <3> QED
        BY <1>1, <3>1, <3>2
    <2>4. cq' \in [Node -> Seq({"send", "recv", "error"})]
      BY <1>1, <1>2, <1>4 DEF TypeOK, Wc
    <2>5. recv_buf' \in [Node -> 0..Iters]
      <3>1. Head(link[n]) \in 0..Iters
        BY <1>3, Sizes
      <3> QED
        BY <1>1, <1>2, <3>1 DEF TypeOK
    <2> QED
      BY <1>1, <1>2, <2>1, <2>2, <2>3, <2>4, <2>5 DEF TypeOK
  <1>9. Credits'
    <2> SUFFICES ASSUME NEW m \in Node
                 PROVE  /\ available_recv'[m] = rq'[m] + RecvWaiting(m)'
                        /\ Running(m)' => available_recv'[m] >= 2
      BY DEF Credits
    <2>1. /\ rq[m] \in Nat /\ RecvWaiting(m) \in Nat /\ available_recv[m] = rq[m] + RecvWaiting(m)
          /\ Running(m) => available_recv[m] >= 2
          /\ Running(m)' <=> Running(m)
      BY <1>1, NodeFacts DEF Running
    <2>2. CASE m = p
      <3>1. rq'[m] = rq[m] - 1 /\ RecvWaiting(m)' = RecvWaiting(m) + 1 /\ available_recv'[m] = available_recv[m]
        BY <1>1, <1>2, <1>5, <2>2 DEF TypeOK
      <3> QED
        BY <2>1, <3>1
    <2>3. CASE m # p
      BY <1>1, <1>2, <1>5, <2>1, <2>3 DEF TypeOK
    <2> QED
      BY <2>2, <2>3
  <1>10. Buffers'
    <2>1. \A m \in Node : RecvWaiting(m)' > 0 => recv_buf'[m] # 0
      <3> TAKE m \in Node
      <3>1. CASE m = p
        BY <1>1, <1>2, <1>3, <3>1, Sizes DEF TypeOK
      <3>2. CASE m # p
        BY <1>1, <1>2, <1>5, <3>2 DEF TypeOK, RcInv, Buffers
      <3> QED
        BY <3>1, <3>2
    <2> QED
      BY <1>1, <2>1 DEF RcInv, Buffers
  <1>11. Loops'
    BY <1>1 DEF RcInv, Loops
  <1> QED
    BY <1>7, <1>8, <1>9, <1>10, <1>11 DEF RcInv

(* A send is reported, as done or as failed: what the two have in common. *)
LEMMA Reported ==
    ASSUME NEW n \in Node, RcInv, NEW x \in {"send", "error"},
           cq' = [cq EXCEPT ![n] = Append(@, x)],
           UNCHANGED <<rq, sq, recv_buf, send_buf, available_recv, recv_count, pc>>,
           UNCHANGED <<persisted, tpc, id, posted, sent>>,
           link' \in [Node -> Seq(1..Iters)], unacked' \in [Node -> Nat],
           OnLink(n)' + unacked'[n] = OnLink(n) + unacked[n] - 1,
           \A m \in Node : m # n => link'[m] = link[m] /\ unacked'[m] = unacked[m]
    PROVE  RcInv'
  <1>1. TypeOK
    BY DEF RcInv
  <1>2. /\ Append(cq[n], x) \in Seq(Wc) /\ Count(Append(cq[n], x), {"recv"}) = RecvWaiting(n) + 0
        /\ Count(Append(cq[n], x), {"send", "error"}) = SendsDone(n) + 1
    <2>1. cq[n] \in Seq(Wc) /\ x \in Wc /\ x # "recv"
      BY NodeFacts DEF Wc
    <2> QED
      BY <2>1, KindsAppend DEF RecvWaiting, SendsDone
  <1>3. /\ \A m \in Node : RecvWaiting(m)' = RecvWaiting(m)
        /\ \A m \in Node : SendsDone(m)' = IF m = n THEN SendsDone(m) + 1 ELSE SendsDone(m)
    <2>1. RecvWaiting(n) \in Nat
      BY NodeFacts
    <2>2. RecvWaiting(n)' = RecvWaiting(n) /\ SendsDone(n)' = SendsDone(n) + 1
      BY <1>1, <1>2, <2>1 DEF RecvWaiting, SendsDone, TypeOK
    <2>3. \A m \in Node : m # n => RecvWaiting(m)' = RecvWaiting(m) /\ SendsDone(m)' = SendsDone(m)
      BY <1>1 DEF RecvWaiting, SendsDone, TypeOK
    <2> QED
      BY <2>2, <2>3
  <1>4. ASSUME NEW m \in Node
        PROVE  /\ sq'[m] \in Nat /\ OnLink(m)' \in Nat /\ unacked'[m] \in Nat /\ SendsDone(m)' \in Nat
               /\ sq'[m] + OnLink(m)' + unacked'[m] + SendsDone(m)' <= SendDepth
    <2>1. /\ sq[m] \in Nat /\ OnLink(m) \in Nat /\ unacked[m] \in Nat /\ SendsDone(m) \in Nat
          /\ sq[m] + OnLink(m) + unacked[m] + SendsDone(m) <= SendDepth
      BY NodeFacts
    <2>2. link'[m] \in Seq(1..Iters) /\ OnLink(m)' \in Nat /\ unacked'[m] \in Nat
      BY LenProperties DEF OnLink
    <2>3. CASE m = n
      <3>1. SendsDone(m)' = SendsDone(m) + 1 /\ sq'[m] = sq[m]
        BY <1>3, <2>3
      <3>2. OnLink(m)' + unacked'[m] = OnLink(m) + unacked[m] - 1
        BY <2>3
      <3> QED
        <4>1. \A a, b, c, d, e, g \in Nat : e + g = b + c - 1 /\ a + b + c + d <= SendDepth
                                              => d + 1 \in Nat /\ a + e + g + (d + 1) <= SendDepth
          BY Sizes
        <4>2. SendsDone(m) + 1 \in Nat /\ sq[m] + OnLink(m)' + unacked'[m] + (SendsDone(m) + 1) <= SendDepth
          BY <2>1, <2>2, <3>2, <4>1, Zenon
        <4> QED
          BY <2>1, <2>2, <3>1, <4>2, Zenon
    <2>4. CASE m # n
      BY <1>3, <2>1, <2>4 DEF OnLink
    <2> QED
      BY <2>3, <2>4
  <1>5. Sends' /\ \A m \in Node : sq'[m] \in 0..SendDepth /\ unacked'[m] \in 0..SendDepth
    BY <1>4, SendPlaces
  <1>6. TypeOK'
    <2>1. unacked' \in [Node -> 0..SendDepth]
      BY <1>5
    <2>2. cq' \in [Node -> Seq({"send", "recv", "error"})]
      BY <1>1, <1>2 DEF TypeOK, Wc
    <2> QED
      BY <1>1, <2>1, <2>2 DEF TypeOK
  <1>7. Credits'
    BY <1>3 DEF RcInv, Credits, Running
  <1>8. Buffers'
    BY <1>3 DEF RcInv, Buffers
  <1>9. Loops'
    BY DEF RcInv, Loops
  <1> QED
    BY <1>5, <1>6, <1>7, <1>8, <1>9 DEF RcInv

(* A delivered send is reported. *)
LEMMA StepHcaAck == ASSUME NEW n \in Node, RcInv, HcaAck(n) PROVE RcInv'
  <1>1. /\ unacked[n] > 0 /\ unacked' = [unacked EXCEPT ![n] = @ - 1]
        /\ cq' = [cq EXCEPT ![n] = Append(@, "send")]
        /\ UNCHANGED <<rq, sq, recv_buf, send_buf, available_recv, recv_count, pc>>
        /\ UNCHANGED <<persisted, tpc, id, posted, sent>> /\ UNCHANGED link
    BY DEF HcaAck, mainVars, threadVars
  <1>2. unacked \in [Node -> 0..SendDepth] /\ link \in [Node -> Seq(1..Iters)] /\ SendDepth \in Nat
    BY Sizes DEF RcInv, TypeOK
  <1>3. unacked' \in [Node -> Nat] /\ unacked'[n] = unacked[n] - 1 /\ link' \in [Node -> Seq(1..Iters)]
    BY <1>1, <1>2
  <1>4. OnLink(n)' + unacked'[n] = OnLink(n) + unacked[n] - 1
    <2>1. OnLink(n)' = OnLink(n) /\ OnLink(n) \in Nat /\ unacked[n] \in Nat
      BY <1>1, NodeFacts DEF OnLink
    <2> QED
      BY <1>3, <2>1
  <1>5. \A m \in Node : m # n => link'[m] = link[m] /\ unacked'[m] = unacked[m]
    BY <1>1, <1>2
  <1> QED
    BY <1>1, <1>3, <1>4, <1>5, Reported

(* The other end is gone: the send fails. *)
LEMMA StepHcaRetryExceeded == ASSUME NEW n \in Node, RcInv, HcaRetryExceeded(n) PROVE RcInv'
  <1>1. /\ link[n] # <<>> /\ link' = [link EXCEPT ![n] = Tail(@)]
        /\ cq' = [cq EXCEPT ![n] = Append(@, "error")]
        /\ UNCHANGED <<rq, sq, recv_buf, send_buf, available_recv, recv_count, pc>>
        /\ UNCHANGED <<persisted, tpc, id, posted, sent>> /\ UNCHANGED unacked
    BY DEF HcaRetryExceeded, mainVars, threadVars
  <1>2. unacked \in [Node -> 0..SendDepth] /\ link \in [Node -> Seq(1..Iters)] /\ SendDepth \in Nat
    BY Sizes DEF RcInv, TypeOK
  <1>3. link[n] \in Seq(1..Iters) /\ Tail(link[n]) \in Seq(1..Iters) /\ Len(Tail(link[n])) = Len(link[n]) - 1
    BY <1>1, NodeFacts, HeadTailProperties
  <1>4. unacked' \in [Node -> Nat] /\ link' \in [Node -> Seq(1..Iters)]
    BY <1>1, <1>2, <1>3
  <1>5. OnLink(n)' + unacked'[n] = OnLink(n) + unacked[n] - 1
    <2>1. OnLink(n)' = OnLink(n) - 1 /\ OnLink(n) \in Nat /\ unacked[n] \in Nat
      BY <1>1, <1>2, <1>3, NodeFacts DEF OnLink
    <2> QED
      BY <1>1, <2>1
  <1>6. \A m \in Node : m # n => link'[m] = link[m] /\ unacked'[m] = unacked[m]
    BY <1>1, <1>2
  <1> QED
    BY <1>1, <1>4, <1>5, <1>6, Reported

-----------------------------------------------------------------------------
(* Steps of main. *)

Pcs == {"poll", "next", "close", "closed", "failed"}

(* A completion is counted: the loop goes on or has counted enough. *)
LEMMA LoopCounts ==
    ASSUME NEW n \in Node, RcInv, Running(n), Counted(n), pc' = [pc EXCEPT ![n] = AfterWc(n)],
           UNCHANGED <<tpc, id>>
    PROVE  Loops' /\ recv_count' \in [Node -> 0..(Iters + 1)] /\ pc' \in [Node -> Pcs]
  <1>1. /\ recv_count \in [Node -> 0..(Iters + 1)] /\ pc \in [Node -> Pcs]
        /\ pc[n] = "poll" => recv_count[n] < Iters
        /\ pc[n] = "next" => recv_count[n] <= Iters
        /\ pc[n] \in {"poll", "next"}
        /\ recv_count' = [recv_count EXCEPT ![n] = @ + 1]
    BY DEF RcInv, TypeOK, Loops, Running, Counted, Pcs
  <1> DEFINE k == recv_count[n]
             x == AfterWc(n)
  <1>2. k \in 0..Iters
    BY <1>1, Sizes
  <1>3. /\ k + 1 \in 0..(Iters + 1) /\ x \in Pcs
        /\ x = "poll" => k + 1 < Iters
        /\ x = "next" => k + 1 <= Iters
    BY <1>1, <1>2, Sizes DEF AfterWc, LoopTest, Pcs
  <1> HIDE DEF k, x
  <1>4. recv_count' = [recv_count EXCEPT ![n] = k + 1] /\ pc' = [pc EXCEPT ![n] = x]
    BY <1>1 DEF k, x
  <1>5. recv_count' \in [Node -> 0..(Iters + 1)] /\ pc' \in [Node -> Pcs]
    BY <1>1, <1>3, <1>4
  <1>6. \A m \in Node : /\ pc'[m] = "poll" => recv_count'[m] < Iters
                        /\ pc'[m] = "next" => recv_count'[m] <= Iters
    BY <1>1, <1>3, <1>4 DEF RcInv, Loops
  <1> QED
    BY <1>5, <1>6 DEF RcInv, Loops

(* The completion of a send is polled. *)
LEMMA StepParseSend == ASSUME NEW n \in Node, RcInv, ParseSend(n) PROVE RcInv'
  <1>1. /\ cq[n] # <<>> /\ Head(cq[n]) = "send" /\ cq' = [cq EXCEPT ![n] = Tail(@)]
        /\ UNCHANGED <<rq, sq, link, unacked, recv_buf, send_buf, available_recv>>
        /\ UNCHANGED <<persisted, tpc, id, posted, sent>>
    BY DEF ParseSend, threadVars
  <1>2. Loops' /\ recv_count' \in [Node -> 0..(Iters + 1)] /\ pc' \in [Node -> Pcs]
    BY <1>1, LoopCounts DEF ParseSend
  <1>3. TypeOK
    BY DEF RcInv
  <1>4. /\ Tail(cq[n]) \in Seq(Wc) /\ RecvWaiting(n) = Count(Tail(cq[n]), {"recv"}) + 0
        /\ SendsDone(n) = Count(Tail(cq[n]), {"send", "error"}) + 1
        /\ Count(Tail(cq[n]), {"recv"}) \in Nat /\ Count(Tail(cq[n]), {"send", "error"}) \in Nat
    <2>1. cq[n] \in Seq(Wc)
      BY NodeFacts
    <2> QED
      BY <1>1, <2>1, KindsTail, KindsType DEF RecvWaiting, SendsDone
  <1>5. /\ \A m \in Node : RecvWaiting(m)' = RecvWaiting(m)
        /\ \A m \in Node : m # n => SendsDone(m)' = SendsDone(m)
        /\ SendsDone(n)' + 1 = SendsDone(n) /\ SendsDone(n)' \in Nat
    <2>1. RecvWaiting(n)' = RecvWaiting(n) /\ SendsDone(n)' + 1 = SendsDone(n) /\ SendsDone(n)' \in Nat
      BY <1>1, <1>3, <1>4 DEF RecvWaiting, SendsDone, TypeOK
    <2>2. \A m \in Node : m # n => RecvWaiting(m)' = RecvWaiting(m) /\ SendsDone(m)' = SendsDone(m)
      BY <1>1, <1>3 DEF RecvWaiting, SendsDone, TypeOK
    <2> QED
      BY <2>1, <2>2
  <1>6. ASSUME NEW m \in Node
        PROVE  /\ sq'[m] \in Nat /\ OnLink(m)' \in Nat /\ unacked'[m] \in Nat /\ SendsDone(m)' \in Nat
               /\ sq'[m] + OnLink(m)' + unacked'[m] + SendsDone(m)' <= SendDepth
    <2>1. /\ sq[m] \in Nat /\ OnLink(m) \in Nat /\ unacked[m] \in Nat /\ SendsDone(m) \in Nat
          /\ sq[m] + OnLink(m) + unacked[m] + SendsDone(m) <= SendDepth
      BY NodeFacts
    <2>2. sq'[m] = sq[m] /\ OnLink(m)' = OnLink(m) /\ unacked'[m] = unacked[m]
      BY <1>1 DEF OnLink
    <2>3. SendsDone(m)' \in Nat /\ SendsDone(m)' <= SendsDone(m)
      BY <1>5, <2>1
    <2> QED
      BY <2>1, <2>2, <2>3, Sizes
  <1>7. Sends'
    BY <1>6, SendPlaces
  <1>8. TypeOK'
    <2>1. cq' \in [Node -> Seq({"send", "recv", "error"})]
      BY <1>1, <1>3, <1>4 DEF TypeOK, Wc
    <2> QED
      BY <1>1, <1>2, <1>3, <2>1 DEF TypeOK, Pcs
  <1>9. Credits'
    BY <1>1, <1>5 DEF RcInv, Credits, ParseSend, Running
  <1>10. Buffers'
    BY <1>1, <1>5 DEF RcInv, Buffers
  <1> QED
    BY <1>2, <1>7, <1>8, <1>9, <1>10 DEF RcInv

(* ibv_post_send: the send queue has room, or the post is ignored. *)
LEMMA Posts ==
    ASSUME NEW n \in Node, RcInv, pp_post_send(n), send_buf'[n] \in 1..Iters
    PROVE  /\ sq' \in [Node -> Nat] /\ \A m \in Node : m # n => sq'[m] = sq[m]
           /\ sq'[n] + OnLink(n) + unacked[n] + SendsDone(n) <= SendDepth
           /\ posted' \in Seq(1..Iters)
  <1>1. sq \in [Node -> Nat] /\ posted \in Seq(1..Iters)
    <2>1. sq \in [Node -> 0..SendDepth] /\ posted \in Seq(1..Iters)
      BY DEF RcInv, TypeOK
    <2>2. \A k \in 0..SendDepth : k \in Nat
      BY Sizes
    <2> QED
      BY <2>1, <2>2
  <1>2. /\ sq[n] \in Nat /\ OnLink(n) \in Nat /\ unacked[n] \in Nat /\ SendsDone(n) \in Nat
        /\ sq[n] + OnLink(n) + unacked[n] + SendsDone(n) <= SendDepth
    BY NodeFacts
  <1>3. CASE sq[n] + OnLink(n) + unacked[n] + SendsDone(n) < SendDepth /\ sq' = [sq EXCEPT ![n] = @ + 1]
             /\ posted' = (IF n = "server" THEN Append(posted, send_buf'[n]) ELSE posted)
    <2>1. sq' \in [Node -> Nat] /\ sq'[n] = sq[n] + 1 /\ \A m \in Node : m # n => sq'[m] = sq[m]
      BY <1>1, <1>3
    <2>2. posted' \in Seq(1..Iters)
      BY <1>1, <1>3, AppendProperties
    <2>3. sq'[n] + OnLink(n) + unacked[n] + SendsDone(n) <= SendDepth
      <3>1. \A a, b, c, d \in Nat : a + b + c + d < SendDepth => (a + 1) + b + c + d <= SendDepth
        BY Sizes
      <3> QED
        BY <1>2, <1>3, <2>1, <3>1, Zenon
    <2> QED
      BY <2>1, <2>2, <2>3
  <1>4. CASE UNCHANGED <<sq, posted>>
    BY <1>1, <1>2, <1>4
  <1> QED
    BY <1>3, <1>4 DEF pp_post_send, SendsOpen, OnLink, SendsDone

(* The receives that are posted again are those that were used up. *)
LEMMA Replenished ==
    ASSUME NEW n \in Node, RcInv, Running(n), Replenish(n), RecvWaiting(n) > 0
    PROVE  /\ rq' \in [Node -> 0..RECEIVE_DEPTH] /\ available_recv' \in [Node -> 0..RECEIVE_DEPTH]
           /\ \A m \in Node : m # n => rq'[m] = rq[m] /\ available_recv'[m] = available_recv[m]
           /\ available_recv'[n] = rq'[n] + (RecvWaiting(n) - 1) /\ available_recv'[n] >= 2
  <1> DEFINE a == available_recv[n]
             w == RecvWaiting(n)
             r == rq[n]
             left == a - 1
             more == IF left <= 1 THEN RECEIVE_DEPTH - left ELSE 0
  <1>1. a \in Nat /\ w \in Nat /\ r \in Nat /\ a = r + w /\ a >= 2 /\ a <= RECEIVE_DEPTH
    BY NodeFacts
  <1>2. rq \in [Node -> 0..RECEIVE_DEPTH] /\ available_recv \in [Node -> 0..RECEIVE_DEPTH] /\ w > 0
    BY DEF RcInv, TypeOK
  <1>3. rq' = [rq EXCEPT ![n] = r + more] /\ available_recv' = [available_recv EXCEPT ![n] = left + more]
    BY DEF Replenish
  <1> HIDE DEF a, w, r
  <1>4. /\ r + more \in 0..RECEIVE_DEPTH /\ left + more \in 0..RECEIVE_DEPTH
        /\ left + more = (r + more) + (w - 1) /\ left + more >= 2
    BY <1>1, <1>2, Sizes
  <1> HIDE DEF left, more
  <1> QED
    BY <1>2, <1>3, <1>4 DEF w

(* Some are missing, and yet none is counted that is not there. *)
LEMMA ReplenishedShort ==
    ASSUME NEW n \in Node, RcInv, ReplenishFails(n), RecvWaiting(n) > 0
    PROVE  /\ rq' \in [Node -> 0..RECEIVE_DEPTH] /\ available_recv' \in [Node -> 0..RECEIVE_DEPTH]
           /\ \A m \in Node : m # n => rq'[m] = rq[m] /\ available_recv'[m] = available_recv[m]
           /\ available_recv'[n] = rq'[n] + (RecvWaiting(n) - 1)
  <1> DEFINE a == available_recv[n]
             w == RecvWaiting(n)
             r == rq[n]
             left == a - 1
  <1>1. a \in Nat /\ w \in Nat /\ r \in Nat /\ a = r + w /\ a <= RECEIVE_DEPTH
    BY NodeFacts
  <1>2. rq \in [Node -> 0..RECEIVE_DEPTH] /\ available_recv \in [Node -> 0..RECEIVE_DEPTH] /\ w > 0
    BY DEF RcInv, TypeOK
  <1>3. PICK more \in 0..(RECEIVE_DEPTH - left - 1) :
            rq' = [rq EXCEPT ![n] = r + more] /\ available_recv' = [available_recv EXCEPT ![n] = left + more]
    BY DEF ReplenishFails
  <1> HIDE DEF a, w, r
  <1>4. /\ r + more \in 0..RECEIVE_DEPTH /\ left + more \in 0..RECEIVE_DEPTH
        /\ left + more = (r + more) + (w - 1)
    BY <1>1, <1>2, Sizes
  <1> HIDE DEF left
  <1> QED
    BY <1>2, <1>3, <1>4 DEF w

(* What handling a receive does to the send side and to the logs. *)
Answers(n) ==
    /\ sq' \in [Node -> Nat] /\ \A m \in Node : m # n => sq'[m] = sq[m]
    /\ sq'[n] + OnLink(n) + unacked[n] + SendsDone(n) <= SendDepth
    /\ posted' \in Seq(1..Iters) /\ persisted' \in Seq(1..Iters)
    /\ send_buf' \in [Node -> 0..Iters] /\ send_buf'["client"] = send_buf["client"]
    /\ \A m \in Node : sq'[m] > 0 => send_buf'[m] # 0

(* What handling a receive leaves of the control and of the credits. *)
RecvLeaves(n) ==
    /\ Loops' /\ recv_count' \in [Node -> 0..(Iters + 1)] /\ pc' \in [Node -> Pcs]
    /\ \A m \in Node : m # n => pc'[m] = pc[m]
    /\ rq' \in [Node -> 0..RECEIVE_DEPTH] /\ available_recv' \in [Node -> 0..RECEIVE_DEPTH]
    /\ \A m \in Node : m # n => rq'[m] = rq[m] /\ available_recv'[m] = available_recv[m]
    /\ available_recv'[n] = rq'[n] + (RecvWaiting(n) - 1)
    /\ Running(n)' => available_recv'[n] >= 2

(* There is a receive to handle. *)
LEMMA RecvThere == ASSUME NEW n \in Node, RcInv, HandleRecv(n) PROVE RecvWaiting(n) > 0
  <1>1. cq[n] # <<>> /\ Head(cq[n]) = "recv" /\ cq[n] \in Seq(Wc)
    BY NodeFacts DEF HandleRecv
  <1>2. /\ RecvWaiting(n) = Count(Tail(cq[n]), {"recv"}) + 1 /\ Count(Tail(cq[n]), {"recv"}) \in Nat
    BY <1>1, KindsTail, KindsType DEF RecvWaiting
  <1> QED
    BY <1>2

(* A receive is handled. *)
LEMMA StepHandleRecv == ASSUME NEW n \in Node, RcInv, HandleRecv(n), RecvLeaves(n) PROVE RcInv'
  <1>1. /\ cq[n] # <<>> /\ Head(cq[n]) = "recv" /\ cq' = [cq EXCEPT ![n] = Tail(@)]
        /\ UNCHANGED <<link, unacked, recv_buf, tpc, id, sent>>
    BY DEF HandleRecv, threadVars
  <1>2. Loops' /\ recv_count' \in [Node -> 0..(Iters + 1)] /\ pc' \in [Node -> Pcs]
    BY DEF RecvLeaves
  <1>3. TypeOK
    BY DEF RcInv
  <1>4. /\ Tail(cq[n]) \in Seq(Wc) /\ RecvWaiting(n) = Count(Tail(cq[n]), {"recv"}) + 1
        /\ SendsDone(n) = Count(Tail(cq[n]), {"send", "error"}) + 0
        /\ Count(Tail(cq[n]), {"recv"}) \in Nat /\ Count(Tail(cq[n]), {"send", "error"}) \in Nat
    <2>1. cq[n] \in Seq(Wc)
      BY NodeFacts
    <2> QED
      BY <1>1, <2>1, KindsTail, KindsType DEF RecvWaiting, SendsDone
  <1>5. /\ \A m \in Node : SendsDone(m)' = SendsDone(m)
        /\ \A m \in Node : m # n => RecvWaiting(m)' = RecvWaiting(m)
        /\ RecvWaiting(n)' = RecvWaiting(n) - 1 /\ RecvWaiting(n) > 0 /\ RecvWaiting(n) \in Nat
    <2>1. /\ SendsDone(n)' = SendsDone(n) /\ RecvWaiting(n)' = RecvWaiting(n) - 1
          /\ RecvWaiting(n) > 0 /\ RecvWaiting(n) \in Nat
      <3>1. cq'[n] = Tail(cq[n])
        BY <1>1, <1>3 DEF TypeOK
      <3>2. /\ RecvWaiting(n)' = Count(Tail(cq[n]), {"recv"})
            /\ SendsDone(n)' = Count(Tail(cq[n]), {"send", "error"})
        BY <3>1 DEF RecvWaiting, SendsDone
      <3> QED
        BY <1>4, <3>2
    <2>2. \A m \in Node : m # n => RecvWaiting(m)' = RecvWaiting(m) /\ SendsDone(m)' = SendsDone(m)
      BY <1>1, <1>3 DEF RecvWaiting, SendsDone, TypeOK
    <2> QED
      BY <2>1, <2>2
  <1>6. recv_buf[n] \in 1..Iters
    <2>1. recv_buf[n] \in 0..Iters /\ recv_buf[n] # 0
      BY <1>3, <1>5 DEF TypeOK, RcInv, Buffers
    <2> QED
      BY <2>1, Sizes
  <1>7. Answers(n)
    <2>1. CASE /\ n = "server" /\ send_buf' = [send_buf EXCEPT ![n] = recv_buf[n]]
               /\ pp_post_send(n) /\ UNCHANGED persisted
      <3>1. send_buf \in [Node -> 0..Iters] /\ recv_buf[n] \in 0..Iters /\ recv_buf[n] # 0 /\ persisted \in Seq(1..Iters)
        <4>1. recv_buf[n] \in 0..Iters /\ recv_buf[n] # 0
          BY <1>6, Sizes
        <4>2. send_buf \in [Node -> 0..Iters] /\ persisted \in Seq(1..Iters)
          BY <1>3 DEF TypeOK
        <4> QED
          BY <4>1, <4>2
      <3>2. /\ send_buf' \in [Node -> 0..Iters] /\ send_buf'[n] \in 1..Iters /\ send_buf'[n] # 0
            /\ \A m \in Node : m # n => send_buf'[m] = send_buf[m]
            /\ send_buf'["client"] = send_buf["client"]
        BY <1>6, <2>1, <3>1, Sizes
      <3>3. /\ sq' \in [Node -> Nat] /\ \A m \in Node : m # n => sq'[m] = sq[m]
            /\ sq'[n] + OnLink(n) + unacked[n] + SendsDone(n) <= SendDepth
            /\ posted' \in Seq(1..Iters)
        BY <2>1, <3>2, Posts
      <3>4. \A m \in Node : sq'[m] > 0 => send_buf'[m] # 0
        BY <3>2, <3>3 DEF RcInv, Buffers
      <3> QED
        BY <2>1, <3>1, <3>2, <3>3, <3>4 DEF Answers
    <2>2. CASE /\ n = "client" /\ persisted' = Append(persisted, recv_buf[n])
               /\ UNCHANGED <<send_buf, sq, posted>>
      <3>1. persisted' \in Seq(1..Iters)
        BY <1>3, <1>6, <2>2, AppendProperties DEF TypeOK
      <3>2. sq \in [Node -> Nat]
        <4>1. \A k \in 0..SendDepth : k \in Nat
          BY Sizes
        <4> QED
          BY <1>3, <4>1 DEF TypeOK
      <3>3. sq[n] + OnLink(n) + unacked[n] + SendsDone(n) <= SendDepth
        BY NodeFacts
      <3> QED
        BY <1>3, <2>2, <3>1, <3>2, <3>3 DEF TypeOK, RcInv, Buffers, Answers
    <2> QED
      BY <2>1, <2>2 DEF HandleRecv
  <1>8. /\ rq' \in [Node -> 0..RECEIVE_DEPTH] /\ available_recv' \in [Node -> 0..RECEIVE_DEPTH]
        /\ \A m \in Node : m # n => rq'[m] = rq[m] /\ available_recv'[m] = available_recv[m]
        /\ available_recv'[n] = rq'[n] + (RecvWaiting(n) - 1)
        /\ Running(n)' => available_recv'[n] >= 2
        /\ \A m \in Node : m # n => (Running(m)' <=> Running(m))
    BY DEF RecvLeaves, Running
  <1>9. ASSUME NEW m \in Node
        PROVE  /\ sq'[m] \in Nat /\ OnLink(m)' \in Nat /\ unacked'[m] \in Nat /\ SendsDone(m)' \in Nat
               /\ sq'[m] + OnLink(m)' + unacked'[m] + SendsDone(m)' <= SendDepth
    <2>1. /\ sq[m] \in Nat /\ OnLink(m) \in Nat /\ unacked[m] \in Nat /\ SendsDone(m) \in Nat
          /\ sq[m] + OnLink(m) + unacked[m] + SendsDone(m) <= SendDepth
      BY NodeFacts
    <2>2. OnLink(m)' = OnLink(m) /\ unacked'[m] = unacked[m] /\ SendsDone(m)' = SendsDone(m) /\ sq'[m] \in Nat
      BY <1>1, <1>5, <1>7 DEF OnLink, Answers
    <2>3. sq'[m] + OnLink(m) + unacked[m] + SendsDone(m) <= SendDepth
      BY <1>7, <2>1 DEF Answers
    <2> QED
      BY <2>1, <2>2, <2>3
  <1>10. Sends' /\ \A m \in Node : sq'[m] \in 0..SendDepth /\ unacked'[m] \in 0..SendDepth
    BY <1>9, SendPlaces
  <1>11. TypeOK'
    <2>1. cq' \in [Node -> Seq({"send", "recv", "error"})]
      BY <1>1, <1>3, <1>4 DEF TypeOK, Wc
    <2>2. sq' \in [Node -> 0..SendDepth]
      BY <1>7, <1>10 DEF Answers
    <2> QED
      BY <1>1, <1>2, <1>3, <1>7, <1>8, <2>1, <2>2 DEF TypeOK, Pcs, Answers
  <1>12. Credits'
    BY <1>5, <1>8 DEF RcInv, Credits
  <1>13. Buffers'
    <2>1. \A m \in Node : RecvWaiting(m)' > 0 => recv_buf'[m] # 0
      <3>1. recv_buf[n] # 0
        BY <1>6, Sizes
      <3> QED
        BY <1>1, <1>5, <3>1 DEF RcInv, Buffers
    <2> QED
      BY <1>1, <1>7, <2>1 DEF RcInv, Buffers, Answers
  <1> QED
    BY <1>2, <1>10, <1>11, <1>12, <1>13 DEF RcInv

(* The receives are there or posted again, and the loop goes on. *)
LEMMA StepParseRecv == ASSUME NEW n \in Node, RcInv, ParseRecv(n) PROVE RcInv'
  <1>1. Running(n) /\ HandleRecv(n) /\ RecvWaiting(n) > 0 /\ UNCHANGED <<tpc, id>>
    BY RecvThere DEF ParseRecv, HandleRecv, threadVars
  <1>2. Loops' /\ recv_count' \in [Node -> 0..(Iters + 1)] /\ pc' \in [Node -> Pcs]
    BY <1>1, LoopCounts DEF ParseRecv
  <1>3. \A m \in Node : m # n => pc'[m] = pc[m]
    BY DEF ParseRecv, RcInv, TypeOK
  <1>4. /\ rq' \in [Node -> 0..RECEIVE_DEPTH] /\ available_recv' \in [Node -> 0..RECEIVE_DEPTH]
        /\ \A m \in Node : m # n => rq'[m] = rq[m] /\ available_recv'[m] = available_recv[m]
        /\ available_recv'[n] = rq'[n] + (RecvWaiting(n) - 1) /\ available_recv'[n] >= 2
    BY <1>1, Replenished DEF ParseRecv
  <1>5. RecvLeaves(n)
    BY <1>2, <1>3, <1>4 DEF RecvLeaves
  <1> QED
    BY <1>1, <1>5, StepHandleRecv

(* Not enough of them can be posted, and the loop ends. *)
LEMMA StepParseRecvFails == ASSUME NEW n \in Node, RcInv, ParseRecvFails(n) PROVE RcInv'
  <1>1. /\ HandleRecv(n) /\ RecvWaiting(n) > 0 /\ UNCHANGED <<tpc, id, recv_count>>
        /\ pc' = [pc EXCEPT ![n] = "failed"]
    BY RecvThere DEF ParseRecvFails, HandleRecv, threadVars
  <1>2. pc \in [Node -> Pcs] /\ recv_count \in [Node -> 0..(Iters + 1)]
    BY DEF RcInv, TypeOK, Pcs
  <1>3. pc' \in [Node -> Pcs] /\ pc'[n] = "failed" /\ \A m \in Node : m # n => pc'[m] = pc[m]
    BY <1>1, <1>2 DEF Pcs
  <1>4. Loops' /\ ~Running(n)'
    BY <1>1, <1>3 DEF RcInv, Loops, Running
  <1>5. /\ rq' \in [Node -> 0..RECEIVE_DEPTH] /\ available_recv' \in [Node -> 0..RECEIVE_DEPTH]
        /\ \A m \in Node : m # n => rq'[m] = rq[m] /\ available_recv'[m] = available_recv[m]
        /\ available_recv'[n] = rq'[n] + (RecvWaiting(n) - 1)
    BY <1>1, ReplenishedShort DEF ParseRecvFails
  <1>6. RecvLeaves(n)
    BY <1>1, <1>2, <1>3, <1>4, <1>5 DEF RecvLeaves
  <1> QED
    BY <1>1, <1>6, StepHandleRecv

(* Nothing but the program counter of one end changes. *)
LEMMA OnlyControl ==
    ASSUME NEW n \in Node, RcInv, NEW x \in Pcs, pc' = [pc EXCEPT ![n] = x],
           x = "poll" => recv_count[n] < Iters, x # "next", x = "poll" => Running(n),
           UNCHANGED <<hcaVars, available_recv, recv_count, persisted, threadVars, posted, sent>>
    PROVE  RcInv'
  <1>1. /\ UNCHANGED <<rq, sq, link, unacked, cq, recv_buf, send_buf, available_recv, recv_count>>
        /\ UNCHANGED <<persisted, tpc, id, posted, sent>>
    BY DEF hcaVars, threadVars
  <1>2. TypeOK /\ pc \in [Node -> Pcs] /\ pc' \in [Node -> Pcs]
    BY DEF RcInv, TypeOK, Pcs
  <1>3. TypeOK'
    BY <1>1, <1>2 DEF TypeOK, Pcs
  <1>4. \A m \in Node : RecvWaiting(m)' = RecvWaiting(m) /\ SendsOpen(m)' = SendsOpen(m)
    BY <1>1 DEF RecvWaiting, SendsOpen
  <1>5. Credits' /\ Sends' /\ Buffers'
    BY <1>1, <1>2, <1>4 DEF RcInv, Credits, Sends, Buffers, Running
  <1>6. Loops'
    <2>1. \A m \in Node : /\ pc'[m] = "poll" => recv_count'[m] < Iters
                          /\ pc'[m] = "next" => recv_count'[m] <= Iters
      BY <1>1, <1>2 DEF RcInv, Loops
    <2> QED
      BY <1>1, <2>1 DEF RcInv, Loops
  <1> QED
    BY <1>3, <1>5, <1>6 DEF RcInv

(* The loop ends, with an error or not, or polls again. *)
LEMMA StepControl ==
    ASSUME NEW n \in Node, RcInv, ParseFails(n) \/ PollFails(n) \/ NextPollEmpty(n) \/ pp_close_context(n)
    PROVE  RcInv'
  <1>1. CASE ParseFails(n)
    BY <1>1, OnlyControl DEF ParseFails, Pcs
  <1>2. CASE PollFails(n)
    BY <1>2, OnlyControl DEF PollFails, Pcs
  <1>3. CASE NextPollEmpty(n)
    <2> DEFINE x == LoopTest(recv_count[n])
    <2>1. x \in Pcs /\ (x = "poll" => recv_count[n] < Iters) /\ x # "next"
      BY DEF LoopTest, Pcs
    <2> HIDE DEF x
    <2>2. pc' = [pc EXCEPT ![n] = x]
      BY <1>3 DEF NextPollEmpty, x
    <2>3. UNCHANGED <<hcaVars, available_recv, recv_count, persisted, threadVars, posted, sent>>
      BY <1>3 DEF NextPollEmpty
    <2> QED
      BY <1>3, <2>1, <2>2, <2>3, OnlyControl DEF NextPollEmpty, Running
  <1>4. CASE pp_close_context(n)
    BY <1>4, OnlyControl DEF pp_close_context, Pcs
  <1> QED
    BY <1>1, <1>2, <1>3, <1>4

-----------------------------------------------------------------------------
(* Steps of the sender thread. *)

(* The thread sends nothing. *)
LEMMA StepSenderGivesUp == RcInv /\ SenderGivesUp => RcInv'
  <1> SUFFICES ASSUME RcInv, SenderGivesUp PROVE RcInv'
    OBVIOUS
  <1>1. /\ UNCHANGED <<rq, sq, link, unacked, cq, recv_buf, send_buf, available_recv, recv_count, pc>>
        /\ UNCHANGED <<persisted, id, posted, sent>> /\ tpc' = "end"
    BY DEF SenderGivesUp, hcaVars, mainVars
  <1>2. TypeOK'
    BY <1>1 DEF RcInv, TypeOK
  <1>3. \A m \in Node : RecvWaiting(m)' = RecvWaiting(m) /\ SendsOpen(m)' = SendsOpen(m)
    BY <1>1 DEF RecvWaiting, SendsOpen
  <1>4. Credits' /\ Sends' /\ Buffers' /\ Loops'
    BY <1>1, <1>3 DEF RcInv, Credits, Sends, Buffers, Loops, Running
  <1> QED
    BY <1>2, <1>4 DEF RcInv

(* The id of the next ping is written into the send buffer. *)
LEMMA StepSenderWrite == RcInv /\ SenderWrite => RcInv'
  <1> SUFFICES ASSUME RcInv, SenderWrite PROVE RcInv'
    OBVIOUS
  <1>1. /\ send_buf' = [send_buf EXCEPT !["client"] = id] /\ tpc' = "post" /\ tpc = "write"
        /\ UNCHANGED <<rq, sq, link, unacked, cq, recv_buf, available_recv, recv_count, pc>>
        /\ UNCHANGED <<persisted, id, posted, sent>>
    BY DEF SenderWrite, mainVars
  <1>2. TypeOK /\ id \in 0..Iters /\ id # 0 /\ id <= Iters
    <2>1. TypeOK /\ id \in 1..(Iters + 1) /\ id <= Iters
      BY <1>1 DEF RcInv, TypeOK, Loops
    <2> QED
      BY <2>1, Sizes
  <1>3. /\ send_buf' \in [Node -> 0..Iters] /\ send_buf'["client"] # 0
        /\ \A m \in Node : m # "client" => send_buf'[m] = send_buf[m]
    BY <1>1, <1>2, Sizes DEF TypeOK
  <1>4. TypeOK'
    BY <1>1, <1>2, <1>3 DEF TypeOK
  <1>5. \A m \in Node : RecvWaiting(m)' = RecvWaiting(m) /\ SendsOpen(m)' = SendsOpen(m)
    BY <1>1 DEF RecvWaiting, SendsOpen
  <1>6. Credits' /\ Sends' /\ Buffers'
    BY <1>1, <1>3, <1>5 DEF RcInv, Credits, Sends, Buffers, Running
  <1>7. Loops'
    BY <1>1, <1>2 DEF RcInv, Loops
  <1> QED
    BY <1>4, <1>6, <1>7 DEF RcInv

(* The ping is posted, or the failure is ignored. *)
LEMMA StepSenderPost == RcInv /\ SenderPost => RcInv'
  <1> SUFFICES ASSUME RcInv, SenderPost PROVE RcInv'
    OBVIOUS
  <1> DEFINE n == "client"
  <1>1. /\ tpc = "post" /\ id' = id + 1 /\ tpc' = (IF id < Iters THEN "write" ELSE "end") /\ pp_post_send(n)
        /\ UNCHANGED <<rq, link, unacked, cq, recv_buf, send_buf, available_recv, recv_count, pc>>
        /\ UNCHANGED <<persisted, sent>>
    BY DEF SenderPost, mainVars
  <1>2. TypeOK /\ n \in Node /\ id \in 1..(Iters + 1) /\ id <= Iters /\ send_buf[n] \in 0..Iters /\ send_buf[n] # 0
    BY <1>1, Sizes DEF RcInv, TypeOK, Loops, Buffers
  <1> HIDE DEF n
  <1>3. send_buf'[n] \in 1..Iters
    BY <1>1, <1>2, Sizes
  <1>4. /\ sq' \in [Node -> Nat] /\ \A m \in Node : m # n => sq'[m] = sq[m]
        /\ sq'[n] + OnLink(n) + unacked[n] + SendsDone(n) <= SendDepth
        /\ posted' \in Seq(1..Iters)
    BY <1>1, <1>2, <1>3, Posts
  <1>5. ASSUME NEW m \in Node
        PROVE  /\ sq'[m] \in Nat /\ OnLink(m)' \in Nat /\ unacked'[m] \in Nat /\ SendsDone(m)' \in Nat
               /\ sq'[m] + OnLink(m)' + unacked'[m] + SendsDone(m)' <= SendDepth
    <2>1. /\ sq[m] \in Nat /\ OnLink(m) \in Nat /\ unacked[m] \in Nat /\ SendsDone(m) \in Nat
          /\ sq[m] + OnLink(m) + unacked[m] + SendsDone(m) <= SendDepth
      BY NodeFacts
    <2>2. OnLink(m)' = OnLink(m) /\ unacked'[m] = unacked[m] /\ SendsDone(m)' = SendsDone(m) /\ sq'[m] \in Nat
      BY <1>1, <1>4 DEF OnLink, SendsDone
    <2>3. sq'[m] + OnLink(m) + unacked[m] + SendsDone(m) <= SendDepth
      BY <1>4, <2>1
    <2> QED
      BY <2>1, <2>2, <2>3
  <1>6. Sends' /\ \A m \in Node : sq'[m] \in 0..SendDepth /\ unacked'[m] \in 0..SendDepth
    BY <1>5, SendPlaces
  <1>7. id' \in 1..(Iters + 1) /\ (tpc' # "end" => id' <= Iters) /\ tpc' \in {"write", "post", "end"}
        /\ tpc' # "post"
    BY <1>1, <1>2, Sizes
  <1>8. TypeOK'
    <2>1. sq' \in [Node -> 0..SendDepth]
      BY <1>4, <1>6
    <2> QED
      BY <1>1, <1>2, <1>4, <1>7, <2>1 DEF TypeOK
  <1>9. \A m \in Node : RecvWaiting(m)' = RecvWaiting(m)
    BY <1>1 DEF RecvWaiting
  <1>10. Credits'
    BY <1>1, <1>9 DEF RcInv, Credits, Running
  <1>11. Buffers'
    BY <1>1, <1>2, <1>4, <1>7, <1>9 DEF RcInv, Buffers
  <1>12. Loops'
    BY <1>1, <1>7 DEF RcInv, Loops
  <1> QED
    BY <1>6, <1>8, <1>10, <1>11, <1>12 DEF RcInv

-----------------------------------------------------------------------------
(* The invariant holds. *)

(* The receives are posted before the loop starts. *)
LEMMA InitInv == Init => RcInv
  <1> SUFFICES ASSUME Init PROVE RcInv
    OBVIOUS
  <1>1. <<>> \in Seq(1..Iters) /\ <<>> \in Seq({"send", "recv", "error"})
    BY EmptySeq, Zenon
  <1>2. /\ RECEIVE_DEPTH \in 0..RECEIVE_DEPTH /\ 0 \in 0..SendDepth /\ 0 \in 0..Iters /\ 0 \in 0..(Iters + 1)
        /\ 1 \in 1..(Iters + 1) /\ 1 <= Iters /\ 0 < Iters
    BY Sizes
  <1>3. TypeOK
    BY <1>1, <1>2 DEF Init, TypeOK
  <1>4. \A n \in Node : RecvWaiting(n) = 0 /\ Count(cq[n], {"send", "error"}) = 0
    BY CountEmpty DEF Init, RecvWaiting
  <1>5. Credits
    BY <1>4, Sizes DEF Init, Credits
  <1>6. Sends
    <2> SUFFICES ASSUME NEW n \in Node PROVE SendsOpen(n) <= SendDepth
      BY DEF Sends
    <2>1. sq[n] = 0 /\ Len(link[n]) = 0 /\ unacked[n] = 0
      BY DEF Init
    <2> QED
      BY <1>4, <2>1, Sizes DEF SendsOpen
  <1>7. Buffers
    BY <1>4 DEF Init, Buffers
  <1>8. Loops
    BY <1>2 DEF Init, Loops
  <1> QED
    BY <1>3, <1>5, <1>6, <1>7, <1>8 DEF RcInv

(* A stuttering step changes nothing. *)
LEMMA StepStutter == RcInv /\ UNCHANGED vars => RcInv'
  <1> SUFFICES ASSUME RcInv, UNCHANGED vars PROVE RcInv'
    OBVIOUS
  <1>1. /\ UNCHANGED <<rq, sq, link, unacked, cq, recv_buf, send_buf, available_recv, recv_count, pc>>
        /\ UNCHANGED <<persisted, tpc, id, posted, sent>>
    BY DEF vars, hcaVars, mainVars, threadVars
  <1>2. TypeOK'
    BY <1>1 DEF RcInv, TypeOK
  <1>3. \A m \in Node : RecvWaiting(m)' = RecvWaiting(m) /\ SendsOpen(m)' = SendsOpen(m)
    BY <1>1 DEF RecvWaiting, SendsOpen
  <1>4. Credits' /\ Sends' /\ Buffers' /\ Loops'
    BY <1>1, <1>3 DEF RcInv, Credits, Sends, Buffers, Loops, Running
  <1> QED
    BY <1>2, <1>4 DEF RcInv

(* The inductive invariant of the two ends and their connection. *)
THEOREM RcInvariant == Spec => []RcInv
  <1>1. RcInv /\ [Next]_vars => RcInv'
    <2> SUFFICES ASSUME RcInv, [Next]_vars PROVE RcInv'
      OBVIOUS
    <2>1. CASE Sender \/ SenderGivesUp
      BY <2>1, StepSenderWrite, StepSenderPost, StepSenderGivesUp DEF Sender
    <2>2. ASSUME NEW n \in Node, Hca(n) PROVE RcInv'
      BY <2>2, StepHcaTransmit, StepHcaDeliver, StepHcaAck, StepHcaRetryExceeded DEF Hca
    <2>3. ASSUME NEW n \in Node, Main(n) PROVE RcInv'
      BY <2>3, StepParseSend, StepParseRecv, StepParseRecvFails, StepControl DEF Main, Progress
    <2>4. CASE UNCHANGED vars
      BY <2>4, StepStutter
    <2> QED
      BY <2>1, <2>2, <2>3, <2>4 DEF Next
  <1> QED
    BY InitInv, <1>1, PTL DEF Spec

(* The variables of the RC pingpong keep their types; in particular the    *)
(* send queue never overflows, the loop counts at most one completion too  *)
(* many and no buffer is sent or persisted before it is written.           *)
THEOREM RcTypes == Spec => []TypeOK
  <1>1. RcInv => TypeOK
    BY DEF RcInv
  <1> QED
    BY RcInvariant, <1>1, PTL

(* Each end believes in exactly the receives it has, and never has fewer   *)
(* than two posted or on their way back.                                   *)
THEOREM RcCreditsExact == Spec => []CreditsExact
  <1>1. RcInv => CreditsExact
    BY DEF RcInv, Credits, CreditsExact
  <1> QED
    BY RcInvariant, <1>1, PTL
=============================================================================
