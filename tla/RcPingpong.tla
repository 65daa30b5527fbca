----------------------------- MODULE RcPingpong -----------------------------
(***************************************************************************)
(* The RC pingpong (rdma/rc_pingpong.c), both builds together: the client  *)
(* and the server are the two ends of one reliable connection.  Each end   *)
(* has one send buffer, one receive buffer that all its posted receives    *)
(* share, a completion queue, and a loop that handles completions one or   *)
(* two at a time until it has counted Iters of them, those of sends        *)
(* included.  The sender thread of the client posts a ping after the other *)
(* and does not wait for the completion of the one before.                 *)
(*                                                                         *)
(* The connection (external: the verbs library and the two adapters)       *)
(* delivers in order and exactly once; a message waits until its receiver  *)
(* has a receive posted (rnr_retry 7 is for ever), and fails when the      *)
(* other end is gone.  A send holds its place in the send queue until its  *)
(* completion has been polled.                                             *)
(***************************************************************************)
EXTENDS Integers, Sequences, SequencesExt, Counting

CONSTANTS RECEIVE_DEPTH,  \* receives posted at a time
          SendDepth,      \* max_send_wr
          Iters           \* packets of the experiment

ASSUME DepthAssumption == RECEIVE_DEPTH \in Nat /\ RECEIVE_DEPTH > 1
ASSUME SendDepthAssumption == SendDepth \in Nat \ {0}
ASSUME ItersAssumption == Iters \in Nat \ {0}

VARIABLES
    rq,              \* node -> posted receives
    sq,              \* node -> posted sends the adapter has not transmitted
    link,            \* node -> ids it transmitted and the other end has not got
    unacked,         \* node -> sends delivered and not reported yet
    cq,              \* node -> completions, oldest first
    recv_buf,        \* node -> id of the packet in its receive buffer
    send_buf,        \* node -> id of the packet in its send buffer
    available_recv,  \* node -> receives it believes to be posted
    recv_count,      \* node -> completions counted
    pc,              \* node -> next step of main
    tpc,             \* next step of the sender thread
    id,              \* loop variable of the sender thread
    persisted,       \* ids handed to the persistence agent, in order
    posted,          \* history: ids in the order the server posted them
    sent             \* history: ids in the order the server's adapter sent them

hcaVars == <<rq, sq, link, unacked, cq, recv_buf, send_buf>>
mainVars == <<available_recv, recv_count, pc, persisted>>
threadVars == <<tpc, id>>
vars == <<hcaVars, mainVars, threadVars, posted, sent>>

Node == {"client", "server"}
Peer(n) == IF n = "client" THEN "server" ELSE "client"

Alive(n) == pc[n] \notin {"closed", "failed"}
Running(n) == pc[n] \in {"poll", "next"}

(* Sends in the send queue, those whose completion is not polled included. *)
SendsOpen(n) ==
    sq[n] + Len(link[n]) + unacked[n] + Count(cq[n], {"send", "error"})

Init ==
    /\ rq = [n \in Node |-> RECEIVE_DEPTH]
    /\ sq = [n \in Node |-> 0]
    /\ link = [n \in Node |-> <<>>]
    /\ unacked = [n \in Node |-> 0]
    /\ cq = [n \in Node |-> <<>>]
    /\ recv_buf = [n \in Node |-> 0]
    /\ send_buf = [n \in Node |-> 0]
    /\ available_recv = [n \in Node |-> RECEIVE_DEPTH]
    /\ recv_count = [n \in Node |-> 0]
    /\ pc = [n \in Node |-> "poll"]
    /\ tpc = "write"
    /\ id = 1
    /\ persisted = <<>>
    /\ posted = <<>>
    /\ sent = <<>>

-----------------------------------------------------------------------------
(* The connection. *)

(* The payload is read from the send buffer when it is transmitted. *)
HcaTransmit(n) ==
    /\ Alive(n)
    /\ sq[n] > 0
    /\ sq' = [sq EXCEPT ![n] = @ - 1]
    /\ link' = [link EXCEPT ![n] = Append(@, send_buf[n])]
    /\ sent' = IF n = "server" THEN Append(sent, send_buf[n]) ELSE sent
    /\ UNCHANGED <<rq, unacked, cq, recv_buf, send_buf, mainVars, threadVars, posted>>

HcaDeliver(n) ==
    /\ link[n] # <<>>
    /\ Alive(Peer(n))
    /\ rq[Peer(n)] > 0
    /\ link' = [link EXCEPT ![n] = Tail(@)]
    /\ rq' = [rq EXCEPT ![Peer(n)] = @ - 1]
    /\ recv_buf' = [recv_buf EXCEPT ![Peer(n)] = Head(link[n])]
    /\ cq' = [cq EXCEPT ![Peer(n)] = Append(@, "recv")]
    /\ unacked' = [unacked EXCEPT ![n] = @ + 1]
    /\ UNCHANGED <<sq, send_buf, mainVars, threadVars, posted, sent>>

HcaAck(n) ==
    /\ Alive(n)
    /\ unacked[n] > 0
    /\ unacked' = [unacked EXCEPT ![n] = @ - 1]
    /\ cq' = [cq EXCEPT ![n] = Append(@, "send")]
    /\ UNCHANGED <<rq, sq, link, recv_buf, send_buf, mainVars, threadVars, posted, sent>>

(* The other end is gone: the retries run out. *)
HcaRetryExceeded(n) ==
    /\ Alive(n)
    /\ ~Alive(Peer(n))
    /\ link[n] # <<>>
    /\ link' = [link EXCEPT ![n] = Tail(@)]
    /\ cq' = [cq EXCEPT ![n] = Append(@, "error")]
    /\ UNCHANGED <<rq, sq, unacked, recv_buf, send_buf, mainVars, threadVars, posted, sent>>

Hca(n) == HcaTransmit(n) \/ HcaDeliver(n) \/ HcaAck(n) \/ HcaRetryExceeded(n)

-----------------------------------------------------------------------------
(* main.  ibv_start_poll waits for a completion ("poll"); after it is      *)
(* handled ibv_next_poll looks for a second one ("next").                  *)

LoopTest(count) == IF count < Iters THEN "poll" ELSE "close"

AfterWc(n) == IF pc[n] = "poll" THEN "next" ELSE LoopTest(recv_count[n] + 1)

(* Every completion counts, whatever it is of. *)
Counted(n) == recv_count' = [recv_count EXCEPT ![n] = @ + 1]

(* Mutant: only receives are counted. *)
ParseSendNotCounted(n) ==
    /\ Running(n)
    /\ cq[n] # <<>>
    /\ Head(cq[n]) = "send"
    /\ cq' = [cq EXCEPT ![n] = Tail(@)]
    /\ pc' = [pc EXCEPT ![n] = IF @ = "poll" THEN "next" ELSE LoopTest(recv_count[n])]
    /\ UNCHANGED <<rq, sq, link, unacked, recv_buf, send_buf, available_recv,
                   recv_count, persisted, threadVars, posted, sent>>

ParseSend(n) ==
    /\ Running(n)
    /\ cq[n] # <<>>
    /\ Head(cq[n]) = "send"
    /\ cq' = [cq EXCEPT ![n] = Tail(@)]
    /\ Counted(n)
    /\ pc' = [pc EXCEPT ![n] = AfterWc(n)]
    /\ UNCHANGED <<rq, sq, link, unacked, recv_buf, send_buf, available_recv,
                   persisted, threadVars, posted, sent>>

(* pp_post_send: posted when the send queue has room. *)
pp_post_send(n) ==
    IF SendsOpen(n) < SendDepth
    THEN /\ sq' = [sq EXCEPT ![n] = @ + 1]
         /\ posted' = IF n = "server" THEN Append(posted, send_buf'[n]) ELSE posted
    ELSE UNCHANGED <<sq, posted>>

(* Mutant: one receive too many is posted. *)
ReplenishOneMore(n) ==
    LET left == available_recv[n] - 1
        more == IF left <= 1 THEN RECEIVE_DEPTH - left + 1 ELSE 0
    IN /\ available_recv' = [available_recv EXCEPT ![n] = left + more]
       /\ rq' = [rq EXCEPT ![n] = @ + more]

(* Mutant: RECEIVE_DEPTH receives are posted, those that are left ignored. *)
ReplenishAll(n) ==
    LET left == available_recv[n] - 1
    IN /\ available_recv' = [available_recv EXCEPT ![n] = IF left <= 1 THEN RECEIVE_DEPTH ELSE left]
       /\ rq' = [rq EXCEPT ![n] = IF left <= 1 THEN @ + RECEIVE_DEPTH ELSE @]

(* The receives are posted again when one of them is left. *)
Replenish(n) ==
    LET left == available_recv[n] - 1
        more == IF left <= 1 THEN RECEIVE_DEPTH - left ELSE 0
    IN /\ available_recv' = [available_recv EXCEPT ![n] = left + more]
       /\ rq' = [rq EXCEPT ![n] = @ + more]

(* Some of them cannot be posted. *)
ReplenishFails(n) ==
    LET left == available_recv[n] - 1 IN
    /\ left <= 1
    /\ \E more \in 0..(RECEIVE_DEPTH - left - 1) :
          /\ available_recv' = [available_recv EXCEPT ![n] = left + more]
          /\ rq' = [rq EXCEPT ![n] = @ + more]

(* The server copies the payload into its send buffer and posts it; a post *)
(* that fails is ignored.  The client persists what its receive buffer     *)
(* holds by now.                                                           *)
HandleRecv(n) ==
    /\ Running(n)
    /\ cq[n] # <<>>
    /\ Head(cq[n]) = "recv"
    /\ \/ /\ n = "server"
          /\ send_buf' = [send_buf EXCEPT ![n] = recv_buf[n]]
          /\ pp_post_send(n)
          /\ UNCHANGED persisted
       \/ /\ n = "client"
          /\ persisted' = Append(persisted, recv_buf[n])
          /\ UNCHANGED <<send_buf, sq, posted>>
    /\ cq' = [cq EXCEPT ![n] = Tail(@)]
    /\ UNCHANGED <<link, unacked, recv_buf, threadVars, sent>>

ParseRecv(n) ==
    /\ HandleRecv(n)
    /\ Replenish(n)
    /\ Counted(n)
    /\ pc' = [pc EXCEPT ![n] = AfterWc(n)]

(* Without RECEIVE_DEPTH receives main returns. *)
ParseRecvFails(n) ==
    /\ HandleRecv(n)
    /\ ReplenishFails(n)
    /\ pc' = [pc EXCEPT ![n] = "failed"]
    /\ UNCHANGED recv_count

(* A completion with an error status: main returns. *)
ParseFails(n) ==
    /\ Running(n)
    /\ cq[n] # <<>>
    /\ Head(cq[n]) = "error"
    /\ pc' = [pc EXCEPT ![n] = "failed"]
    /\ UNCHANGED <<hcaVars, available_recv, recv_count, persisted, threadVars, posted, sent>>

(* ibv_start_poll or ibv_next_poll fails: main returns. *)
PollFails(n) ==
    /\ Running(n)
    /\ pc' = [pc EXCEPT ![n] = "failed"]
    /\ UNCHANGED <<hcaVars, available_recv, recv_count, persisted, threadVars, posted, sent>>

(* ibv_next_poll finds nothing (ENOENT). *)
NextPollEmpty(n) ==
    /\ pc[n] = "next"
    /\ cq[n] = <<>>
    /\ pc' = [pc EXCEPT ![n] = LoopTest(recv_count[n])]
    /\ UNCHANGED <<hcaVars, available_recv, recv_count, persisted, threadVars, posted, sent>>

pp_close_context(n) ==
    /\ pc[n] = "close"
    /\ pc' = [pc EXCEPT ![n] = "closed"]
    /\ UNCHANGED <<hcaVars, available_recv, recv_count, persisted, threadVars, posted, sent>>

(* What main does when no call of its own fails. *)
Progress(n) == \/ ParseSend(n) \/ ParseRecv(n) \/ ParseFails(n)
               \/ NextPollEmpty(n) \/ pp_close_context(n)

Main(n) == Progress(n) \/ ParseRecvFails(n) \/ PollFails(n)

-----------------------------------------------------------------------------
(* The client's sender thread: thread_send_packets calling                 *)
(* pp_send_single_packet.                                                  *)

(* The affinity of the thread cannot be read or set: no ping is sent. *)
SenderGivesUp ==
    /\ tpc = "write"
    /\ id = 1
    /\ Alive("client")
    /\ tpc' = "end"
    /\ UNCHANGED <<hcaVars, mainVars, id, posted, sent>>

SenderWrite ==
    /\ tpc = "write"
    /\ Alive("client")
    /\ send_buf' = [send_buf EXCEPT !["client"] = id]
    /\ tpc' = "post"
    /\ UNCHANGED <<rq, sq, link, unacked, cq, recv_buf, mainVars, id, posted, sent>>

(* A post that fails returns 1, which is not taken for an error. *)
SenderPost ==
    /\ tpc = "post"
    /\ Alive("client")
    /\ UNCHANGED send_buf
    /\ pp_post_send("client")
    /\ id' = id + 1
    /\ tpc' = IF id < Iters THEN "write" ELSE "end"
    /\ UNCHANGED <<rq, link, unacked, cq, recv_buf, mainVars, sent>>

Sender == SenderWrite \/ SenderPost

Next == Sender \/ SenderGivesUp \/ \E n \in Node : Hca(n) \/ Main(n)

(* The adapters make progress and both programs and the thread run. *)
Fairness ==
    /\ WF_vars(Sender)
    /\ \A n \in Node : /\ WF_vars(Progress(n))
                       /\ WF_vars(HcaTransmit(n)) /\ WF_vars(HcaDeliver(n))
                       /\ WF_vars(HcaAck(n)) /\ WF_vars(HcaRetryExceeded(n))

Spec == Init /\ [][Next]_vars
FairSpec == Spec /\ Fairness

-----------------------------------------------------------------------------
(* Properties. *)

(* The types of the variables. *)
TypeOK ==
    /\ rq \in [Node -> 0..RECEIVE_DEPTH]
    /\ sq \in [Node -> 0..SendDepth]
    /\ link \in [Node -> Seq(1..Iters)]
    /\ unacked \in [Node -> 0..SendDepth]
    /\ cq \in [Node -> Seq({"send", "recv", "error"})]
    /\ recv_buf \in [Node -> 0..Iters]
    /\ send_buf \in [Node -> 0..Iters]
    /\ available_recv \in [Node -> 0..RECEIVE_DEPTH]
    /\ recv_count \in [Node -> 0..(Iters + 1)]
    /\ pc \in [Node -> {"poll", "next", "close", "closed", "failed"}]
    /\ tpc \in {"write", "post", "end"}
    /\ id \in 1..(Iters + 1)
    /\ persisted \in Seq(1..Iters)
    /\ posted \in Seq(1..Iters) /\ sent \in Seq(1..Iters)

RecvWaiting(n) == Count(cq[n], {"recv"})

(* available_recv is what the adapter has: the receives that are posted    *)
(* and those that have completed and are not handled yet.  So the loop     *)
(* never believes in receives it does not have, and while it runs two of   *)
(* them are left or on their way back.                                     *)
CreditsExact ==
    \A n \in Node : Running(n) =>
        /\ available_recv[n] = rq[n] + RecvWaiting(n)
        /\ available_recv[n] >= 2

(* The two ends stop together: whatever was skipped on the way, once one   *)
(* of them has counted enough completions the other one has as many coming.*)
EndTogether ==
    (\E n \in Node : pc[n] = "closed") ~> (\A n \in Node : ~Running(n))

(* The comment of rc_pingpong.c:393: the server may use its one buffer for *)
(* every pong.  Then what the adapter sends is what the server posted.     *)
SendBufferSafe == IsPrefix(sent, posted)
=============================================================================
