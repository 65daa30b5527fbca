------------------------------ MODULE UdServer ------------------------------
(***************************************************************************)
(* The server of the UD pingpong (rdma/ud_pingpong.c, SERVER build).  One  *)
(* thread polls the completion queue; a ping that arrives in the buffer of *)
(* a queue index is stamped in place and sent back from the same buffer,   *)
(* and the buffer is posted again for receiving when that send has         *)
(* completed.  The adapter (external: the verbs library and the device)    *)
(* works through its receive and send queues in order, beside the thread,  *)
(* and reports in one completion queue.  An adapter that takes the payload *)
(* of a send at transmission time is modelled; one that sends inline reads *)
(* it earlier, when fewer things can have happened to the buffer.          *)
(***************************************************************************)
EXTENDS UdQueues

VARIABLES
    rq,             \* posted receives: queue indices, oldest first
    sq,             \* posted sends: queue indices, oldest first
    cq,             \* completion queue: work request ids, oldest first
    recv_payloads,  \* queue index -> id of the packet in its buffer
    pending_send,   \* queue index -> its send has not been seen complete
    spc,            \* next step of main
    wc,             \* work completions polled and not yet handled
    recv_idx,       \* highest id received
    global_exit,    \* set by the SIGINT handler
    received,       \* history: ids in the order the adapter received them
    echoed          \* history: ids in the order the adapter sent them back

hcaVars == <<rq, sq, cq, recv_payloads>>
vars == <<hcaVars, pending_send, spc, wc, recv_idx, global_exit,
          received, echoed>>

(* main has connected and has posted a receive for every index. *)
Init ==
    /\ rq = [n \in 1..QUEUE_SIZE |-> n - 1]
    /\ sq = <<>>
    /\ cq = <<>>
    /\ recv_payloads = [i \in QueueIdx |-> 0]
    /\ pending_send = [i \in QueueIdx |-> FALSE]
    /\ spc = "poll"
    /\ wc = <<>>
    /\ recv_idx = 0
    /\ global_exit = FALSE
    /\ received = <<>>
    /\ echoed = <<>>

-----------------------------------------------------------------------------
(* The adapter, until pp_close_context destroys the queue pair. *)

(* Ping p arrives; with no receive posted it would be lost. *)
HcaReceive(p) ==
    /\ spc # "closed"
    /\ rq # <<>>
    /\ recv_payloads' = [recv_payloads EXCEPT ![Head(rq)] = p]
    /\ received' = Append(received, p)
    /\ cq' = Append(cq, PINGPONG_RECV_WRID + Head(rq))
    /\ rq' = Tail(rq)
    /\ UNCHANGED <<sq, pending_send, spc, wc, recv_idx, global_exit, echoed>>

HcaTransmit ==
    /\ spc # "closed"
    /\ sq # <<>>
    /\ echoed' = Append(echoed, recv_payloads[Head(sq)])
    /\ cq' = Append(cq, PINGPONG_SEND_WRID + Head(sq))
    /\ sq' = Tail(sq)
    /\ UNCHANGED <<rq, recv_payloads, pending_send, spc, wc, recv_idx,
                   global_exit, received>>

-----------------------------------------------------------------------------
(* The polling thread. *)

pp_post_recv(i) == rq' = Append(rq, i)

pp_post_send(i) ==
    /\ pending_send' = [pending_send EXCEPT ![i] = TRUE]
    /\ sq' = Append(sq, i)

(* Up to two completions are taken at a time; on an interruption the loop  *)
(* ends without them.                                                      *)
PollCq ==
    /\ spc = "poll"
    /\ \E n \in 0..2 :
          /\ n <= Len(cq)
          /\ n > 0 \/ global_exit
          /\ wc' = SubSeq(cq, 1, n)
          /\ cq' = SubSeq(cq, n + 1, Len(cq))
    /\ spc' = IF global_exit THEN "done" ELSE "parse"
    /\ UNCHANGED <<rq, sq, recv_payloads, pending_send, recv_idx,
                   global_exit, received, echoed>>

(* ibv_poll_cq fails: main returns at once. *)
PollFails ==
    /\ spc = "poll"
    /\ spc' = "closed"
    /\ UNCHANGED <<hcaVars, pending_send, wc, recv_idx, global_exit,
                   received, echoed>>

(* Mutant: only the first completion of a poll is handled. *)
AfterWcDropsRest(rest, id) ==
    IF id < Iters /\ ~global_exit THEN "poll" ELSE "done"

(* The end of the for loop over wc, and the test of the while loop. *)
AfterWc(rest, id) ==
    IF rest # <<>> THEN "parse"
    ELSE IF id < Iters /\ ~global_exit THEN "poll" ELSE "done"

(* Mutant: the bit of a completed send stays set. *)
ParseSendKeepsBit ==
    /\ spc = "parse"
    /\ ~IsRecv(Head(wc))
    /\ pp_post_recv(Head(wc) - PINGPONG_SEND_WRID)
    /\ wc' = Tail(wc)
    /\ spc' = AfterWc(Tail(wc), recv_idx)
    /\ UNCHANGED <<sq, cq, recv_payloads, pending_send, recv_idx,
                   global_exit, received, echoed>>

(* parse_single_wc, a send has completed: its buffer may receive again. *)
ParseSend ==
    /\ spc = "parse"
    /\ ~IsRecv(Head(wc))
    /\ pending_send' = [pending_send EXCEPT ![Head(wc) - PINGPONG_SEND_WRID] = FALSE]
    /\ pp_post_recv(Head(wc) - PINGPONG_SEND_WRID)
    /\ wc' = Tail(wc)
    /\ spc' = AfterWc(Tail(wc), recv_idx)
    /\ UNCHANGED <<sq, cq, recv_payloads, recv_idx, global_exit, received, echoed>>

(* Mutant: the buffer is posted for receiving before its send completes. *)
ParseRecvReposts ==
    /\ spc = "parse"
    /\ IsRecv(Head(wc))
    /\ ~pending_send[RecvIdx(Head(wc))]
    /\ pp_post_send(RecvIdx(Head(wc)))
    /\ pp_post_recv(RecvIdx(Head(wc)))
    /\ spc' = "update"
    /\ UNCHANGED <<cq, recv_payloads, wc, recv_idx, global_exit, received, echoed>>

(* parse_single_wc, a ping has arrived: wait for the buffer, stamp, send. *)
ParseRecv ==
    /\ spc = "parse"
    /\ IsRecv(Head(wc))
    /\ ~pending_send[RecvIdx(Head(wc))]
    /\ pp_post_send(RecvIdx(Head(wc)))
    /\ spc' = "update"
    /\ UNCHANGED <<rq, cq, recv_payloads, wc, recv_idx, global_exit, received, echoed>>

(* A completion with an error status, or a post that fails (the bit of the *)
(* index is then already cleared or set): main stops.                      *)
ParseFails ==
    /\ spc = "parse"
    /\ pending_send' \in {pending_send,
                          [pending_send EXCEPT ![Head(wc) % QUEUE_SIZE] = IsRecv(Head(wc))]}
    /\ spc' = "done"
    /\ UNCHANGED <<hcaVars, wc, recv_idx, global_exit, received, echoed>>

(* Mutant: the latest id replaces the highest. *)
UpdateRecvIdxNoMax ==
    /\ spc = "update"
    /\ recv_idx' = recv_payloads[RecvIdx(Head(wc))]
    /\ spc' = AfterWc(Tail(wc), recv_idx')
    /\ wc' = Tail(wc)
    /\ UNCHANGED <<hcaVars, pending_send, global_exit, received, echoed>>

(* main reads the id again from the buffer. *)
UpdateRecvIdx ==
    /\ spc = "update"
    /\ LET id == recv_payloads[RecvIdx(Head(wc))] IN
          /\ recv_idx' = IF id > recv_idx THEN id ELSE recv_idx
          /\ spc' = AfterWc(Tail(wc), recv_idx')
    /\ wc' = Tail(wc)
    /\ UNCHANGED <<hcaVars, pending_send, global_exit, received, echoed>>

pp_close_context ==
    /\ spc = "done"
    /\ spc' = "closed"
    /\ UNCHANGED <<hcaVars, pending_send, wc, recv_idx, global_exit,
                   received, echoed>>

sigint_handler ==
    /\ ~global_exit
    /\ spc # "closed"
    /\ global_exit' = TRUE
    /\ UNCHANGED <<hcaVars, pending_send, spc, wc, recv_idx, received, echoed>>

(* What main does when no call fails. *)
Progress == PollCq \/ ParseSend \/ ParseRecv \/ UpdateRecvIdx \/ pp_close_context

Main == Progress \/ PollFails \/ ParseFails

(* What the server does by itself. *)
ServerStep == HcaTransmit \/ Main \/ sigint_handler

(* Any ping may arrive at any time, but none twice; one that never does    *)
(* was lost.                                                               *)
Next == ServerStep \/ \E p \in (1..Iters) \ ToSet(received) : HcaReceive(p)

(* The adapter works through its send queue and the thread keeps running;  *)
(* nothing makes a datagram arrive, and nothing makes a call fail.         *)
Fairness == WF_vars(HcaTransmit) /\ WF_vars(Progress)

Spec == Init /\ [][Next]_vars
FairSpec == Spec /\ Fairness

-----------------------------------------------------------------------------
(* Properties. *)

(* The types of the variables; a queue index is always one of a buffer. *)
TypeOK ==
    /\ rq \in Seq(QueueIdx)
    /\ sq \in Seq(QueueIdx)
    /\ cq \in Seq(WrIds)
    /\ recv_payloads \in [QueueIdx -> 0..Iters]
    /\ pending_send \in [QueueIdx -> BOOLEAN]
    /\ spc \in {"poll", "parse", "update", "done", "closed"}
    /\ wc \in Seq(WrIds)
    /\ recv_idx \in 0..Iters
    /\ global_exit \in BOOLEAN
    /\ received \in Seq(1..Iters)
    /\ echoed \in Seq(0..Iters)

Running == spc \in {"poll", "parse", "update"}

(* Where each buffer is: in a posted receive, in a receive completion, in  *)
(* a posted send or in a send completion.  While main updates recv_idx the *)
(* completion at the head of wc has already become a posted send.          *)
OpenWc == IF spc = "update" THEN Tail(wc) ELSE wc
Completions == OpenWc \o cq
Owners(i) == Count(rq, {i}) + Count(Completions, {PINGPONG_RECV_WRID + i})
             + Count(sq, {i}) + Count(Completions, {PINGPONG_SEND_WRID + i})

(* No buffer is ever given to the adapter twice or forgotten: as long as   *)
(* the server runs each queue index is in exactly one place, so that a     *)
(* buffer being sent is not received into, and none leaks.                 *)
OneOwner == Running => \A i \in QueueIdx : Owners(i) = 1

(* The wait of parse_single_wc (ud_pingpong.c:366) is never entered: only  *)
(* the waiting thread itself could clear the bit, so the server would hang *)
(* for good.                                                               *)
NoSelfWait ==
    (spc = "parse" /\ IsRecv(Head(wc))) => ~pending_send[RecvIdx(Head(wc))]

(* The server is a faithful echo: what it sends back is what it received,  *)
(* in that order, nothing twice and nothing altered on the way.            *)
EchoInOrder == IsPrefix(echoed, received)

(* Every ping the adapter received is sent back, unless the server stops:  *)
(* again and again it has caught up.                                       *)
EveryPingEchoed == []<>(Len(echoed) = Len(received) \/ ~Running)

(* The server ends once the last packet has reached it. *)
LastPingEnds == (\E n \in DOMAIN received : received[n] = Iters) ~> (spc = "closed")
=============================================================================
