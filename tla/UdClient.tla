------------------------------ MODULE UdClient ------------------------------
(***************************************************************************)
(* The client of the UD pingpong (rdma/ud_pingpong.c, !SERVER build).  The *)
(* sender thread (thread_send_packets) writes one ping after the other     *)
(* into the single send buffer and posts it; main polls the completion     *)
(* queue, persists each pong and posts its buffer again at once.  The two  *)
(* threads share bit 0 of pending_send and the queue pair.  The adapter    *)
(* (external) works through its queues in order, beside both threads.      *)
(***************************************************************************)
EXTENDS UdQueues

VARIABLES
    rq,             \* posted receives: queue indices, oldest first
    sq,             \* number of posted sends
    cq,             \* completion queue: work request ids, oldest first
    recv_payloads,  \* queue index -> id of the packet in its buffer
    send_payload,   \* id of the packet in the send buffer
    pending_send,   \* bit 0: the send has not been seen complete
    tpc,            \* next step of the sender thread
    id,             \* loop variable of the sender thread
    cpc,            \* next step of main
    wc,             \* work completions polled and not yet handled
    recv_idx,       \* what main takes for the highest id received
    global_exit,    \* set by the SIGINT handler
    pinged,         \* history: ids in the order the adapter sent them
    received,       \* history: ids in the order the adapter received them
    persisted       \* ids handed to the persistence agent, in order

hcaVars == <<rq, sq, cq, recv_payloads, pinged, received>>
threadVars == <<tpc, id, send_payload>>
mainVars == <<cpc, wc, recv_idx, persisted>>
vars == <<hcaVars, threadVars, mainVars, pending_send, global_exit>>

Init ==
    /\ rq = [n \in 1..QUEUE_SIZE |-> n - 1]
    /\ sq = 0
    /\ cq = <<>>
    /\ recv_payloads = [i \in QueueIdx |-> 0]
    /\ send_payload = 0
    /\ pending_send = FALSE
    /\ tpc = "wait"
    /\ id = 1
    /\ cpc = "poll"
    /\ wc = <<>>
    /\ recv_idx = 0
    /\ global_exit = FALSE
    /\ pinged = <<>>
    /\ received = <<>>
    /\ persisted = <<>>

-----------------------------------------------------------------------------
(* The adapter and the server beyond it. *)

(* The payload is read from the send buffer when it is transmitted. *)
HcaTransmit ==
    /\ cpc # "closed"
    /\ sq > 0
    /\ sq' = sq - 1
    /\ pinged' = Append(pinged, send_payload)
    /\ cq' = Append(cq, PINGPONG_SEND_WRID)
    /\ UNCHANGED <<rq, recv_payloads, received, threadVars, mainVars,
                   pending_send, global_exit>>

(* Pong p arrives; with no receive posted it would be lost. *)
HcaReceive(p) ==
    /\ cpc # "closed"
    /\ rq # <<>>
    /\ recv_payloads' = [recv_payloads EXCEPT ![Head(rq)] = p]
    /\ received' = Append(received, p)
    /\ cq' = Append(cq, PINGPONG_RECV_WRID + Head(rq))
    /\ rq' = Tail(rq)
    /\ UNCHANGED <<sq, pinged, threadVars, mainVars, pending_send, global_exit>>

-----------------------------------------------------------------------------
(* The sender thread: thread_send_packets calling pp_send_single_packet.   *)
(* It runs on after main has left the loop, until the process is gone.     *)

(* The affinity of the thread cannot be read or set: no ping is sent. *)
SenderGivesUp ==
    /\ tpc = "wait"
    /\ id = 1
    /\ cpc # "closed"
    /\ tpc' = "end"
    /\ UNCHANGED <<hcaVars, id, send_payload, mainVars, pending_send, global_exit>>

SenderWait ==
    /\ tpc = "wait"
    /\ cpc # "closed"
    /\ ~pending_send
    /\ send_payload' = id
    /\ tpc' = "post"
    /\ UNCHANGED <<hcaVars, id, mainVars, pending_send, global_exit>>

(* Mutant: the buffer is not marked as being sent. *)
SenderMarkForgotten ==
    /\ tpc = "post"
    /\ cpc # "closed"
    /\ tpc' = "send"
    /\ UNCHANGED <<hcaVars, id, send_payload, mainVars, pending_send, global_exit>>

(* pp_post_send marks the buffer before it posts it; a failure of          *)
(* ibv_post_send is positive, which the loop does not take for an error.   *)
SenderMark ==
    /\ tpc = "post"
    /\ cpc # "closed"
    /\ pending_send' = TRUE
    /\ tpc' = "send"
    /\ UNCHANGED <<hcaVars, id, send_payload, mainVars, global_exit>>

SenderPost ==
    /\ tpc = "send"
    /\ cpc # "closed"
    /\ sq' \in {sq, sq + 1}
    /\ id' = id + 1
    /\ tpc' = IF id + 1 <= Iters THEN "wait" ELSE "end"
    /\ UNCHANGED <<rq, cq, recv_payloads, pinged, received, send_payload,
                   mainVars, pending_send, global_exit>>

(* Mutant: the buffer is posted first and marked afterwards. *)
SenderMarksLate ==
    \/ SenderWait
    \/ /\ tpc = "post"
       /\ cpc # "closed"
       /\ sq' \in {sq, sq + 1}
       /\ tpc' = "send"
       /\ UNCHANGED <<rq, cq, recv_payloads, pinged, received, id, send_payload,
                      mainVars, pending_send, global_exit>>
    \/ /\ tpc = "send"
       /\ cpc # "closed"
       /\ pending_send' = TRUE
       /\ id' = id + 1
       /\ tpc' = IF id + 1 <= Iters THEN "wait" ELSE "end"
       /\ UNCHANGED <<hcaVars, send_payload, mainVars, global_exit>>

Sender == SenderWait \/ SenderMark \/ SenderPost

-----------------------------------------------------------------------------
(* main: the polling loop. *)

PollCq ==
    /\ cpc = "poll"
    /\ \E n \in 0..2 :
          /\ n <= Len(cq)
          /\ n > 0 \/ global_exit
          /\ wc' = SubSeq(cq, 1, n)
          /\ cq' = SubSeq(cq, n + 1, Len(cq))
    /\ cpc' = IF global_exit THEN "done" ELSE "parse"
    /\ UNCHANGED <<rq, sq, recv_payloads, pinged, received, threadVars,
                   recv_idx, persisted, pending_send, global_exit>>

PollFails ==
    /\ cpc = "poll"
    /\ cpc' = "closed"
    /\ UNCHANGED <<hcaVars, threadVars, wc, recv_idx, persisted, pending_send, global_exit>>

(* Mutant: only the first completion of a poll is handled. *)
AfterWcDropsRest(rest, top) ==
    IF top < Iters /\ ~global_exit THEN "poll" ELSE "done"

AfterWc(rest, top) ==
    IF rest # <<>> THEN "parse"
    ELSE IF top < Iters /\ ~global_exit THEN "poll" ELSE "done"

(* Mutant: a receive is posted for a completed send, as on the server. *)
ParseSendReposts ==
    /\ cpc = "parse"
    /\ ~IsRecv(Head(wc))
    /\ pending_send' = FALSE
    /\ rq' = Append(rq, Head(wc))
    /\ wc' = Tail(wc)
    /\ cpc' = AfterWc(Tail(wc), recv_idx)
    /\ UNCHANGED <<sq, cq, recv_payloads, pinged, received, threadVars,
                   recv_idx, persisted, global_exit>>

ParseSend ==
    /\ cpc = "parse"
    /\ ~IsRecv(Head(wc))
    /\ pending_send' = FALSE
    /\ wc' = Tail(wc)
    /\ cpc' = AfterWc(Tail(wc), recv_idx)
    /\ UNCHANGED <<hcaVars, threadVars, recv_idx, persisted, global_exit>>

(* The pong is stamped and persisted, and its buffer is posted again. *)
ParseRecv ==
    /\ cpc = "parse"
    /\ IsRecv(Head(wc))
    /\ persisted' = Append(persisted, recv_payloads[RecvIdx(Head(wc))])
    /\ rq' = Append(rq, RecvIdx(Head(wc)))
    /\ cpc' = "update"
    /\ UNCHANGED <<sq, cq, recv_payloads, pinged, received, threadVars,
                   wc, recv_idx, pending_send, global_exit>>

(* An error status, or a pong that is persisted but whose buffer cannot be *)
(* posted again: main stops.                                               *)
ParseFails ==
    /\ cpc = "parse"
    /\ persisted' \in {persisted} \cup
          {Append(persisted, recv_payloads[RecvIdx(w)]) : w \in {v \in {Head(wc)} : IsRecv(v)}}
    /\ cpc' = "done"
    /\ UNCHANGED <<hcaVars, threadVars, wc, recv_idx, pending_send, global_exit>>

(* main reads the id again from the buffer it has just posted. *)
UpdateRecvIdx ==
    /\ cpc = "update"
    /\ LET top == recv_payloads[RecvIdx(Head(wc))] IN
          /\ recv_idx' = IF top > recv_idx THEN top ELSE recv_idx
          /\ cpc' = AfterWc(Tail(wc), recv_idx')
    /\ wc' = Tail(wc)
    /\ UNCHANGED <<hcaVars, threadVars, persisted, pending_send, global_exit>>

(* The agent is closed and the queue pair destroyed; the thread dies with  *)
(* the process.                                                            *)
pp_close_context ==
    /\ cpc = "done"
    /\ cpc' = "closed"
    /\ UNCHANGED <<hcaVars, threadVars, wc, recv_idx, persisted, pending_send, global_exit>>

sigint_handler ==
    /\ ~global_exit
    /\ cpc # "closed"
    /\ global_exit' = TRUE
    /\ UNCHANGED <<hcaVars, threadVars, mainVars, pending_send>>

(* What main does when no call fails. *)
Progress == PollCq \/ ParseSend \/ ParseRecv \/ UpdateRecvIdx \/ pp_close_context

Main == Progress \/ PollFails \/ ParseFails

(* What the client does by itself. *)
ClientStep == HcaTransmit \/ SenderGivesUp \/ Sender \/ Main \/ sigint_handler

(* The pong of any ping that was sent may come back, but none twice; one   *)
(* that never does was lost.                                               *)
Next == ClientStep \/ \E p \in ToSet(pinged) \ ToSet(received) : HcaReceive(p)

(* Both threads are scheduled and the adapter transmits what is posted;    *)
(* nothing makes a pong arrive, and nothing makes a call fail.             *)
Fairness == WF_vars(HcaTransmit) /\ WF_vars(Sender) /\ WF_vars(Progress)

Spec == Init /\ [][Next]_vars
FairSpec == Spec /\ Fairness

-----------------------------------------------------------------------------
(* Properties. *)

(* The types of the variables. *)
TypeOK ==
    /\ rq \in Seq(QueueIdx)
    /\ sq \in 0..1
    /\ cq \in Seq(WrIds)
    /\ recv_payloads \in [QueueIdx -> 0..Iters]
    /\ send_payload \in 0..Iters
    /\ pending_send \in BOOLEAN
    /\ tpc \in {"wait", "post", "send", "end"}
    /\ id \in 1..(Iters + 1)
    /\ cpc \in {"poll", "parse", "update", "done", "closed"}
    /\ wc \in Seq(WrIds)
    /\ recv_idx \in 0..Iters
    /\ global_exit \in BOOLEAN
    /\ pinged \in Seq(1..Iters)
    /\ received \in Seq(1..Iters)
    /\ persisted \in Seq(1..Iters)

(* The one send buffer is never rewritten while the adapter may still read *)
(* it: the pings leave in order and none is sent twice.                    *)
PingsInOrder ==
    \A m, n \in DOMAIN pinged : m < n => pinged[m] < pinged[n]

(* What is persisted is what arrived, in that order, although every buffer *)
(* is given back to the adapter as soon as its pong has been persisted.    *)
PersistInOrder == IsPrefix(persisted, received)

(* What the completion queue must hold: one completion for every receive   *)
(* buffer and one for the send buffer.  main creates it with QUEUE_SIZE    *)
(* entries (ud_pingpong.c:139).                                            *)
CqNeed == Len(cq) <= QUEUE_SIZE + 1

(* A post failed: fewer pings were queued than the loop has gone through.  *)
PostFailed == Len(pinged) + sq < id - 1

(* The sender thread gets to its end, unless main stops or a post fails    *)
(* (which leaves its bit of pending_send set, ud_pingpong.c:323): it waits *)
(* for a bit that main clears when it sees the completion, which must not  *)
(* be before the bit is set.                                               *)
SenderEnds == <>(tpc = "end" \/ PostFailed \/ cpc \in {"done", "closed"})

(* Every pong that arrived is persisted, unless main stops: again and      *)
(* again it has caught up.                                                 *)
EveryPongPersisted == []<>(Len(persisted) = Len(received) \/ cpc \in {"done", "closed"})

(* The comment of ud_pingpong.c:350: the client reads a pong once, before  *)
(* its buffer is posted again, so overwriting it is not a problem.  Then   *)
(* main can only take packet Iters for received when it was persisted.     *)
LastPongPersisted ==
    recv_idx >= Iters => \E n \in DOMAIN persisted : persisted[n] = Iters
=============================================================================
