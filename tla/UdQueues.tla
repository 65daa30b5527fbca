------------------------------ MODULE UdQueues ------------------------------
(***************************************************************************)
(* What the client and the server of the UD pingpong share: the size of    *)
(* the queues and the ids of work requests (rdma/ud_pingpong.c).           *)
(***************************************************************************)
EXTENDS Integers, Sequences, SequencesExt, Counting

CONSTANTS QUEUE_SIZE,  \* receive buffers, and entries of each queue
          Iters        \* packets of the experiment

ASSUME QueueAssumption == QUEUE_SIZE \in Nat \ {0}
ASSUME ItersAssumption == Iters \in Nat \ {0}

QueueIdx == 0..(QUEUE_SIZE - 1)
WrIds == 0..(2 * QUEUE_SIZE - 1)

(* Ids below QUEUE_SIZE are of sends, the others of receives. *)
PINGPONG_SEND_WRID == 0

(* Mutant: the receive ids start one too high. *)
RecvWridOffByOne == QUEUE_SIZE + 1

PINGPONG_RECV_WRID == QUEUE_SIZE
IsRecv(w) == w >= PINGPONG_RECV_WRID
RecvIdx(w) == w - PINGPONG_RECV_WRID
=============================================================================
