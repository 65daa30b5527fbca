------------------------------ MODULE Exchange ------------------------------
(***************************************************************************)
(* exchange_data (common/net.c): one datagram from the client to the       *)
(* server and one back, over UDP port 1234, without a timeout or a retry.  *)
(* All the XDP and RDMA experiments but the pure one begin with it.  What  *)
(* is exchanged is abstracted to the run of the program that sent it.  The *)
(* network (external) reorders and loses datagrams; one that arrives while *)
(* nobody has bound the port is dropped.                                   *)
(***************************************************************************)
EXTENDS Integers, Sequences

CONSTANTS Client, Server    \* the two hosts

ASSUME PeerAssumption == Client # Server

VARIABLES
    net,    \* datagrams on their way: destination and run of the sender
    queue,  \* host -> runs in the datagrams waiting in its socket
    xpc,    \* host -> next step of exchange_data
    peer,   \* host -> run that sent what is in out_buffer, 0 if nothing
    lost    \* history: a datagram was lost, or dropped by a closed port

xVars == <<net, queue, xpc, peer, lost>>

Host == {Client, Server}
Other(h) == IF h = Client THEN Server ELSE Client

XInit ==
    /\ net = {}
    /\ queue = [h \in Host |-> <<>>]
    /\ xpc = [h \in Host |-> "out"]
    /\ peer = [h \in Host |-> 0]
    /\ lost = FALSE

(* The socket exists from bind to close, or to the end of the process. *)
Bound(h) == xpc[h] \in {"send", "recv"}

(* Mutant: the server answers before it has been asked. *)
EnterServerSends(h) ==
    /\ xpc[h] = "out"
    /\ peer' = [peer EXCEPT ![h] = 0]
    /\ xpc' = [xpc EXCEPT ![h] = "send"]
    /\ UNCHANGED <<net, queue, lost>>

(* socket, bind and the memset of out_buffer; a client goes on to sendto,  *)
(* a server to recvfrom.                                                   *)
Enter(h) ==
    /\ xpc[h] = "out"
    /\ peer' = [peer EXCEPT ![h] = 0]
    /\ xpc' = [xpc EXCEPT ![h] = IF h = Client THEN "send" ELSE "recv"]
    /\ UNCHANGED <<net, queue, lost>>

(* sendto: first for the client, last for the server. *)
Sendto(h, run) ==
    /\ xpc[h] = "send"
    /\ net' = net \cup {[to |-> Other(h), run |-> run]}
    /\ xpc' = [xpc EXCEPT ![h] = IF h = Client THEN "recv" ELSE "done"]
    /\ queue' = IF h = Client THEN queue ELSE [queue EXCEPT ![h] = <<>>]
    /\ UNCHANGED <<peer, lost>>

(* Mutant: the server does not answer. *)
RecvfromSilent(h) ==
    /\ xpc[h] = "recv"
    /\ queue[h] # <<>>
    /\ peer' = [peer EXCEPT ![h] = Head(queue[h])]
    /\ xpc' = [xpc EXCEPT ![h] = "done"]
    /\ queue' = [queue EXCEPT ![h] = <<>>]
    /\ UNCHANGED <<net, lost>>

(* recvfrom takes the first datagram, whoever sent it. *)
Recvfrom(h) ==
    /\ xpc[h] = "recv"
    /\ queue[h] # <<>>
    /\ peer' = [peer EXCEPT ![h] = Head(queue[h])]
    /\ xpc' = [xpc EXCEPT ![h] = IF h = Client THEN "done" ELSE "send"]
    /\ queue' = [queue EXCEPT ![h] = IF h = Client THEN <<>> ELSE Tail(@)]
    /\ UNCHANGED <<net, lost>>

(* A call fails: -1, and out_buffer may have been filled already.  The     *)
(* socket is not closed, but nobody reads from it again.                   *)
ExchangeFails(h) ==
    /\ Bound(h)
    /\ xpc' = [xpc EXCEPT ![h] = "failed"]
    /\ queue' = [queue EXCEPT ![h] = <<>>]
    /\ UNCHANGED <<net, peer, lost>>

(* The caller goes on. *)
Leave(h) ==
    /\ xpc[h] \in {"done", "failed"}
    /\ xpc' = [xpc EXCEPT ![h] = "out"]
    /\ UNCHANGED <<net, queue, peer, lost>>

(* The process is gone, with its socket and what it was told. *)
Forget(h) ==
    /\ xpc' = [xpc EXCEPT ![h] = "out"]
    /\ queue' = [queue EXCEPT ![h] = <<>>]
    /\ peer' = [peer EXCEPT ![h] = 0]
    /\ UNCHANGED <<net, lost>>

Deliver(d) ==
    /\ d \in net
    /\ net' = net \ {d}
    /\ IF Bound(d.to)
       THEN queue' = [queue EXCEPT ![d.to] = Append(@, d.run)] /\ UNCHANGED lost
       ELSE lost' = TRUE /\ UNCHANGED queue
    /\ UNCHANGED <<xpc, peer>>

Lose(d) ==
    /\ d \in net
    /\ net' = net \ {d}
    /\ lost' = TRUE
    /\ UNCHANGED <<queue, xpc, peer>>

exchange_data(h, run) == Sendto(h, run) \/ Recvfrom(h)
=============================================================================
