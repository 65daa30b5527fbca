----------------------------- MODULE XskSocket ------------------------------
(***************************************************************************)
(* The AF_XDP socket of xdp/pp_sock.c: the UMEM frames and the rings they  *)
(* travel through.  A frame is free (on the stack umem_frame_addr), in the *)
(* fill ring or the driver waiting for a packet, in the receive ring, in   *)
(* the transmit ring or the driver being sent, or in the completion ring.  *)
(* The main thread (handle_receive_packets) restocks the fill ring,        *)
(* processes a batch of packets and collects completions; on the client a  *)
(* sender thread (xsk_send_packet) shares the stack and the transmit ring  *)
(* with it under a spin lock.  The kernel side of the rings is external    *)
(* and runs beside both threads.                                           *)
(***************************************************************************)
EXTENDS Integers, Sequences, SequencesExt, Counting

CONSTANTS NUM_FRAMES,     \* frames of the UMEM
          RING_SIZE,      \* descriptors of each of the four rings
          RX_BATCH_SIZE,  \* packets handled at a time
          HwDepth,        \* frames the driver takes from the fill ring ahead
          Iters,          \* packets of the experiment
          Builds          \* values of the SERVER macro to consider

ASSUME SizesAssumption ==
    /\ RING_SIZE \in Nat \ {0} /\ RX_BATCH_SIZE \in Nat \ {0}
    /\ HwDepth \in Nat \ {0} /\ Iters \in Nat \ {0}
    /\ NUM_FRAMES \in Nat /\ NUM_FRAMES >= RING_SIZE
ASSUME BuildsAssumption == Builds \subseteq BOOLEAN

VARIABLES
    SERVER,           \* the build (never changes)
    net,              \* ids of the packets on their way to this node
    fq, hw,           \* fill ring; frames the driver has taken from it
    rx,               \* receive ring
    tx, nic,          \* transmit ring; frames the driver is sending
    cq,               \* completion ring
    umem_frame_addr,  \* stack of the free frames
    outstanding_tx,   \* sends submitted and not yet collected
    content,          \* frame -> id of the packet in it
    lock,             \* xsk_client_lock: "free", "main" or "sender"
    mpc,              \* next step of the main thread
    rcvd, done,       \* size of the batch, and how many of it are processed
    tpc,              \* next step of the sender thread
    id,               \* loop variable of the sender thread
    global_exit,
    arrived,          \* history: ids in the order they entered the receive ring
    handled,          \* ids persisted (client) or turned round (server)
    sent,             \* history: ids in the order the driver sent them
    dropped,          \* history: frames a failed send of the server kept
    starved           \* history: the sender found no free frame

kernelVars == <<net, hw, nic, arrived, sent>>
mainVars == <<mpc, rcvd, done, handled, dropped, global_exit>>
senderVars == <<tpc, id, starved>>
vars == <<SERVER, kernelVars, fq, rx, tx, cq, umem_frame_addr, outstanding_tx,
          content, lock, mainVars, senderVars>>

Frames == 0..(NUM_FRAMES - 1)
INVALID_UMEM_FRAME == NUM_FRAMES

(* n calls of xsk_alloc_umem_frame: the frames handed out, and the rest. *)
AllocN(stack, n) ==
    [k \in 1..n |-> IF k <= Len(stack) THEN stack[Len(stack) + 1 - k]
                                       ELSE INVALID_UMEM_FRAME]
AfterAllocN(stack, n) ==
    SubSeq(stack, 1, IF n <= Len(stack) THEN Len(stack) - n ELSE 0)

(* xsk_configure_socket: the fill ring is stuffed from the top of the stack. *)
Init ==
    LET all == [k \in 1..NUM_FRAMES |-> k - 1] IN
    /\ SERVER \in Builds
    /\ net = IF SERVER THEN 1..Iters ELSE {}
    /\ fq = AllocN(all, RING_SIZE)
    /\ umem_frame_addr = AfterAllocN(all, RING_SIZE)
    /\ hw = <<>> /\ rx = <<>> /\ tx = <<>> /\ nic = <<>> /\ cq = <<>>
    /\ outstanding_tx = 0
    /\ content = [f \in Frames |-> 0]
    /\ lock = "free"
    /\ mpc = "peek" /\ rcvd = 0 /\ done = 0
    /\ tpc = IF SERVER THEN "end" ELSE "send"
    /\ id = 1
    /\ global_exit = FALSE
    /\ arrived = <<>> /\ handled = <<>> /\ sent = <<>>
    /\ dropped = {} /\ starved = FALSE

-----------------------------------------------------------------------------
(* The kernel and the driver. *)

(* An address outside the UMEM is discarded. *)
KernelFill ==
    /\ mpc # "exit"
    /\ fq # <<>>
    /\ Len(hw) < HwDepth
    /\ hw' = IF Head(fq) \in Frames THEN Append(hw, Head(fq)) ELSE hw
    /\ fq' = Tail(fq)
    /\ UNCHANGED <<SERVER, net, nic, arrived, sent, rx, tx, cq, umem_frame_addr,
                   outstanding_tx, content, lock, mainVars, senderVars>>

(* xdp_xsk redirects a pingpong packet into the next frame of the driver.  *)
KernelReceive ==
    /\ mpc # "exit"
    /\ hw # <<>>
    /\ Len(rx) < RING_SIZE
    /\ \E p \in net :
          /\ net' = net \ {p}
          /\ content' = [content EXCEPT ![Head(hw)] = p]
          /\ arrived' = Append(arrived, p)
    /\ rx' = Append(rx, Head(hw))
    /\ hw' = Tail(hw)
    /\ UNCHANGED <<SERVER, nic, sent, fq, tx, cq, umem_frame_addr, outstanding_tx,
                   lock, mainVars, senderVars>>

(* The driver takes a descriptor only when its completion has room. *)
KernelTransmit ==
    /\ mpc # "exit"
    /\ tx # <<>>
    /\ Len(nic) + Len(cq) < RING_SIZE
    /\ nic' = IF Head(tx) \in Frames THEN Append(nic, Head(tx)) ELSE nic
    /\ tx' = Tail(tx)
    /\ UNCHANGED <<SERVER, net, hw, arrived, sent, fq, rx, cq, umem_frame_addr,
                   outstanding_tx, content, lock, mainVars, senderVars>>

(* The packet is on the wire; what the client sends comes back or is lost, *)
(* and a frame that is not a pingpong packet any more is not answered.     *)
KernelComplete ==
    /\ mpc # "exit"
    /\ nic # <<>>
    /\ sent' = Append(sent, content[Head(nic)])
    /\ net' = IF SERVER THEN net ELSE net \cup ({content[Head(nic)]} \ {0})
    /\ cq' = Append(cq, Head(nic))
    /\ nic' = Tail(nic)
    /\ UNCHANGED <<SERVER, hw, arrived, fq, rx, tx, umem_frame_addr,
                   outstanding_tx, content, lock, mainVars, senderVars>>

Kernel == KernelFill \/ KernelReceive \/ KernelTransmit \/ KernelComplete

(* Mutant: the completions are freed and not released from the ring. *)
complete_txKeepsRing ==
    \/ /\ outstanding_tx = 0
       /\ UNCHANGED <<cq, umem_frame_addr, outstanding_tx>>
    \/ /\ outstanding_tx > 0
       /\ umem_frame_addr' = umem_frame_addr \o cq
       /\ outstanding_tx' = IF Len(cq) < outstanding_tx THEN outstanding_tx - Len(cq)
                                                        ELSE 0
       /\ UNCHANGED cq

(* Mutant: outstanding_tx is not decremented. *)
complete_txNoCount ==
    \/ /\ outstanding_tx = 0
       /\ UNCHANGED <<cq, umem_frame_addr, outstanding_tx>>
    \/ /\ outstanding_tx > 0
       /\ umem_frame_addr' = umem_frame_addr \o cq
       /\ cq' = <<>>
       /\ UNCHANGED outstanding_tx

-----------------------------------------------------------------------------
(* complete_tx collects what has completed, unless nothing is outstanding. *)
complete_tx ==
    \/ /\ outstanding_tx = 0
       /\ UNCHANGED <<cq, umem_frame_addr, outstanding_tx>>
    \/ /\ outstanding_tx > 0
       /\ umem_frame_addr' = umem_frame_addr \o cq
       /\ outstanding_tx' = IF Len(cq) < outstanding_tx THEN outstanding_tx - Len(cq)
                                                        ELSE 0
       /\ cq' = <<>>

-----------------------------------------------------------------------------
(* The main thread: rx_and_process calling handle_receive_packets. *)

Peek ==
    /\ mpc = "peek"
    /\ ~global_exit
    /\ rx # <<>>
    /\ rcvd' = IF Len(rx) < RX_BATCH_SIZE THEN Len(rx) ELSE RX_BATCH_SIZE
    /\ done' = 0
    /\ mpc' = "restock"
    /\ UNCHANGED <<SERVER, kernelVars, fq, rx, tx, cq, umem_frame_addr,
                   outstanding_tx, content, lock, handled, dropped, global_exit, senderVars>>

(* Under the lock.  xsk_prod_nb_free reports the room in the fill ring; it *)
(* reads the consumer index afresh only when the room it knows of is less  *)
(* than the number of free frames.                                         *)
Restock ==
    /\ mpc = "restock"
    /\ SERVER \/ lock = "free"
    /\ lock' = IF SERVER THEN lock ELSE "main"
    /\ \E stock_frames \in 0..(RING_SIZE - Len(fq)) :
          /\ \/ stock_frames = RING_SIZE - Len(fq)
             \/ stock_frames >= Len(umem_frame_addr)
          /\ fq' = fq \o AllocN(umem_frame_addr, stock_frames)
          /\ umem_frame_addr' = AfterAllocN(umem_frame_addr, stock_frames)
    /\ mpc' = "process"
    /\ UNCHANGED <<SERVER, kernelVars, rx, tx, cq, outstanding_tx, content, rcvd,
                   done, handled, dropped, global_exit, senderVars>>

(* process_packet of a frame that is not a pingpong packet: it is freed.   *)
ProcessRejects ==
    /\ mpc = "process"
    /\ done < rcvd
    /\ content[rx[done + 1]] = 0
    /\ umem_frame_addr' = Append(umem_frame_addr, rx[done + 1])
    /\ done' = done + 1
    /\ UNCHANGED <<SERVER, kernelVars, fq, rx, tx, cq, outstanding_tx, content,
                   lock, mpc, rcvd, handled, dropped, global_exit, senderVars>>

(* Mutant: the server frees the frame it has queued for transmission. *)
ProcessFreesQueued ==
    /\ mpc = "process"
    /\ done < rcvd
    /\ content[rx[done + 1]] # 0
    /\ LET f == rx[done + 1] IN
          /\ global_exit' = (global_exit \/ content[f] >= Iters)
          /\ IF SERVER /\ Len(tx) < RING_SIZE
             THEN tx' = Append(tx, f) /\ outstanding_tx' = outstanding_tx + 1
             ELSE UNCHANGED <<tx, outstanding_tx>>
          /\ umem_frame_addr' = Append(umem_frame_addr, f)
          /\ handled' = Append(handled, content[f])
    /\ done' = done + 1
    /\ UNCHANGED <<SERVER, kernelVars, fq, rx, cq, content, lock, mpc, rcvd,
                   dropped, senderVars>>

(* process_packet.  The server sends the frame back, and keeps it even     *)
(* when the transmit ring is full; the client persists the payload and     *)
(* frees the frame.                                                        *)
Process ==
    /\ mpc = "process"
    /\ done < rcvd
    /\ content[rx[done + 1]] # 0
    /\ LET f == rx[done + 1] IN
          /\ global_exit' = (global_exit \/ content[f] >= Iters)
          /\ \/ /\ SERVER
                /\ Len(tx) < RING_SIZE
                /\ tx' = Append(tx, f)
                /\ outstanding_tx' = outstanding_tx + 1
                /\ UNCHANGED <<umem_frame_addr, dropped>>
             \/ /\ SERVER
                /\ Len(tx) = RING_SIZE
                /\ dropped' = dropped \cup {f}
                /\ UNCHANGED <<umem_frame_addr, tx, outstanding_tx>>
             \/ /\ ~SERVER
                /\ umem_frame_addr' = Append(umem_frame_addr, f)
                /\ UNCHANGED <<tx, outstanding_tx, dropped>>
          /\ handled' = Append(handled, content[f])
    /\ done' = done + 1
    /\ UNCHANGED <<SERVER, kernelVars, fq, rx, cq, content, lock, mpc, rcvd, senderVars>>

(* Mutant: one packet is released, whatever the size of the batch. *)
ReleaseOne ==
    /\ mpc = "process"
    /\ done = rcvd
    /\ rx' = Tail(rx)
    /\ complete_tx
    /\ lock' = IF SERVER THEN lock ELSE "free"
    /\ mpc' = "peek"
    /\ rcvd' = 0 /\ done' = 0
    /\ UNCHANGED <<SERVER, kernelVars, fq, tx, content, handled, dropped,
                   global_exit, senderVars>>

(* The batch is released, completions are collected, the lock is given up. *)
Release ==
    /\ mpc = "process"
    /\ done = rcvd
    /\ rx' = SubSeq(rx, rcvd + 1, Len(rx))
    /\ complete_tx
    /\ lock' = IF SERVER THEN lock ELSE "free"
    /\ mpc' = "peek"
    /\ rcvd' = 0 /\ done' = 0
    /\ UNCHANGED <<SERVER, kernelVars, fq, tx, content, handled, dropped,
                   global_exit, senderVars>>

(* The loop has ended: the sender is cancelled, at the latest in its next  *)
(* system call, which it may make with the lock held; nobody takes the     *)
(* lock again.  The socket is deleted.                                     *)
xsk_cleanup ==
    /\ mpc = "peek"
    /\ global_exit
    /\ mpc' = "exit"
    /\ tpc' = "end"
    /\ UNCHANGED <<SERVER, kernelVars, fq, rx, tx, cq, umem_frame_addr,
                   outstanding_tx, content, lock, rcvd, done, handled, dropped,
                   global_exit, id, starved>>

interrupt_handler ==
    /\ mpc # "exit"
    /\ ~global_exit
    /\ global_exit' = TRUE
    /\ UNCHANGED <<SERVER, kernelVars, fq, rx, tx, cq, umem_frame_addr,
                   outstanding_tx, content, lock, mpc, rcvd, done, handled,
                   dropped, senderVars>>

Main == Peek \/ Restock \/ ProcessRejects \/ Process \/ Release \/ xsk_cleanup

-----------------------------------------------------------------------------
(* The client's sender thread: client_send_pp_packet. *)

(* The affinity of the thread cannot be read or set: nothing is sent. *)
SenderGivesUp ==
    /\ tpc = "send"
    /\ id = 1
    /\ tpc' = "end"
    /\ UNCHANGED <<SERVER, kernelVars, fq, rx, tx, cq, umem_frame_addr,
                   outstanding_tx, content, lock, mainVars, id, starved>>

(* No transmit slot: -1, and thread_send_packets returns. *)
SendNoSlot ==
    /\ tpc = "send"
    /\ lock = "free"
    /\ Len(tx) = RING_SIZE
    /\ tpc' = "end"
    /\ UNCHANGED <<SERVER, kernelVars, fq, rx, tx, cq, umem_frame_addr,
                   outstanding_tx, content, lock, mainVars, id, starved>>

(* The packet is copied into a frame from the stack and submitted.  With   *)
(* no frame left the address is INVALID_UMEM_FRAME, one byte before the    *)
(* UMEM, and the copy spoils frame 0.                                      *)
SendSubmit ==
    /\ tpc = "send"
    /\ lock = "free"
    /\ Len(tx) < RING_SIZE
    /\ LET f == AllocN(umem_frame_addr, 1)[1] IN
          /\ tx' = Append(tx, f)
          /\ starved' = (starved \/ f \notin Frames)
          /\ content' = IF f \in Frames THEN [content EXCEPT ![f] = id]
                                        ELSE [content EXCEPT ![0] = 0]
    /\ umem_frame_addr' = AfterAllocN(umem_frame_addr, 1)
    /\ outstanding_tx' = outstanding_tx + 1
    /\ lock' = "sender"
    /\ tpc' = "complete"
    /\ UNCHANGED <<SERVER, kernelVars, fq, rx, cq, mainVars, id>>

(* Mutant: the loop runs once too often. *)
SendCompleteOneMore ==
    /\ tpc = "complete"
    /\ complete_tx
    /\ lock' = "free"
    /\ id' = id + 1
    /\ tpc' = IF id <= Iters THEN "send" ELSE "end"
    /\ UNCHANGED <<SERVER, kernelVars, fq, rx, tx, content, mainVars, starved>>

(* Mutant: the lock is not released. *)
SendCompleteKeepsLock ==
    /\ tpc = "complete"
    /\ complete_tx
    /\ id' = id + 1
    /\ tpc' = IF id < Iters THEN "send" ELSE "end"
    /\ UNCHANGED <<SERVER, kernelVars, fq, rx, tx, content, lock, mainVars, starved>>

SendComplete ==
    /\ tpc = "complete"
    /\ complete_tx
    /\ lock' = "free"
    /\ id' = id + 1
    /\ tpc' = IF id < Iters THEN "send" ELSE "end"
    /\ UNCHANGED <<SERVER, kernelVars, fq, rx, tx, content, mainVars, starved>>

Sender == SendNoSlot \/ SendSubmit \/ SendComplete

Next == Kernel \/ Main \/ SenderGivesUp \/ Sender \/ interrupt_handler

(* The driver sends what is submitted and both threads run; the spin lock  *)
(* need not be fair, and nothing makes a packet arrive.                    *)
Fairness ==
    /\ WF_vars(KernelFill) /\ WF_vars(KernelTransmit) /\ WF_vars(KernelComplete)
    /\ WF_vars(Main) /\ WF_vars(Sender)

Spec == Init /\ [][Next]_vars
FairSpec == Spec /\ Fairness

-----------------------------------------------------------------------------
(* Properties. *)

Addr == Frames \cup {INVALID_UMEM_FRAME}

(* The types of the variables; frames that are free, in the driver or in   *)
(* the receive and completion rings are frames of the UMEM.                *)
TypeOK ==
    /\ SERVER \in BOOLEAN
    /\ net \subseteq 0..Iters
    /\ fq \in Seq(Addr) /\ tx \in Seq(Addr)
    /\ hw \in Seq(Frames) /\ rx \in Seq(Frames)
    /\ nic \in Seq(Frames) /\ cq \in Seq(Frames)
    /\ umem_frame_addr \in Seq(Frames)
    /\ outstanding_tx \in Nat
    /\ content \in [Frames -> 0..Iters]
    /\ lock \in {"free", "main", "sender"}
    /\ mpc \in {"peek", "restock", "process", "exit"}
    /\ rcvd \in 0..RX_BATCH_SIZE /\ done \in 0..rcvd
    /\ tpc \in {"send", "complete", "end"}
    /\ id \in 1..(Iters + 1)
    /\ global_exit \in BOOLEAN
    /\ arrived \in Seq(0..Iters) /\ handled \in Seq(0..Iters)
    /\ sent \in Seq(0..Iters)
    /\ dropped \subseteq Frames
    /\ starved \in BOOLEAN

(* Packets of the receive ring that have not been processed. *)
OpenRx == SubSeq(rx, done + 1, Len(rx))

(* How many times frame f is somewhere. *)
Places(f) == Count(fq \o hw \o OpenRx \o tx \o nic \o cq \o umem_frame_addr, {f})

(* A frame is never in two places at once (two packets would share its     *)
(* memory, and the assertion of xsk_free_umem_frame would fail in the end) *)
(* and none disappears, except those of sends the server could not queue.  *)
FramesConserved ==
    \A f \in Frames : Places(f) = IF f \in dropped THEN 0 ELSE 1

(* outstanding_tx counts exactly the frames on the transmit side, so that  *)
(* complete_tx never skips a completion it should collect, unless the      *)
(* client sent from an invalid address.                                    *)
OutstandingExact ==
    ~starved => outstanding_tx = Len(tx) + Len(nic) + Len(cq)

(* The packets are processed in the order they arrived, each once and as   *)
(* it arrived, although batches, restocking and the sender thread share    *)
(* the frames.                                                             *)
HandledInOrder == ~starved => IsPrefix(handled, arrived)

(* What leaves the node is what was submitted: the server's pongs are the  *)
(* pings it handled, in order; the client's pings leave in order.          *)
SentInOrder ==
    /\ (SERVER /\ dropped = {}) => IsPrefix(sent, handled)
    /\ (~SERVER /\ ~starved) =>
          \A m, n \in DOMAIN sent : m < n => sent[m] < sent[n]

(* Every packet that reaches the receive ring is processed, unless the     *)
(* loop ends: neither thread can keep the lock from the other for ever.    *)
(* (A client that sent from an invalid address may have spoiled a packet.) *)
EveryPacketHandled ==
    \A n \in 1..Iters :
        (Len(arrived) >= n) ~> (Len(handled) >= n \/ global_exit \/ starved)

(* The comment of pp_sock.c:410: process_packet keeps the frame because it *)
(* is queued for transmission.  Then no frame is ever lost.                *)
NoFrameLost == \A f \in Frames : Places(f) >= 1
=============================================================================
