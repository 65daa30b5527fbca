---------------------------- MODULE UdpPingpong ----------------------------
(***************************************************************************)
(* The pingpong over plain UDP sockets (no-bypass/main.c, kind "udp") and  *)
(* the one whose server is an XDP program (xdp/pp_pure.c with              *)
(* pingpong_pure.c, kind "pure").  Both have the same client: the thread   *)
(* of start_sending_packets sends the pings, main receives pongs until it  *)
(* has seen the last id.  They differ in how the thread gets at main's     *)
(* socket and in how main gets rid of the thread.  The network (external)  *)
(* loses and reorders datagrams and does not duplicate them.               *)
(***************************************************************************)
EXTENDS Integers

CONSTANTS Iters,    \* packets of the experiment
          IdxWord   \* number of values of main.c's last_idx, a uint32_t

ASSUME ItersAssumption == Iters \in Nat \ {0}
ASSUME WordAssumption == IdxWord \in Nat \ {0}

VARIABLES
    kind,         \* which of the two programs
    tpc, id,      \* the sender thread: next step, loop variable
    cpc,          \* next step of the client's main
    last_idx,     \* what main takes for the highest id received
    global_exit,  \* SIGINT reached the client
    srv_pc,       \* next step of the server
    srv_last_idx, \* highest id the server received
    srv_exit,     \* SIGINT reached the server
    pings, pongs, \* ids of the datagrams on their way
    persisted,    \* ids handed to the persistence agent
    lost,         \* history: ids of datagrams that were lost
    failed,       \* history: a call failed
    dangled       \* history: the thread read a socket that was not there

threadVars == <<tpc, id, dangled>>
mainVars == <<cpc, last_idx, persisted>>
srvVars == <<srv_pc, srv_last_idx, srv_exit>>
udpVars == <<kind, threadVars, mainVars, global_exit, srvVars, pings, pongs, lost, failed>>

Greater(a, b) == IF a > b THEN a ELSE b

UdpInit ==
    /\ kind \in {"udp", "pure"}
    /\ tpc = "none" /\ id = 1
    /\ cpc = "start" /\ last_idx = 0 /\ global_exit = FALSE
    /\ srv_pc = "start" /\ srv_last_idx = 0 /\ srv_exit = FALSE
    /\ pings = {} /\ pongs = {} /\ persisted = {}
    /\ lost = {} /\ failed = FALSE /\ dangled = FALSE

-----------------------------------------------------------------------------
(* The sender thread: thread_send_packets with the callback of either      *)
(* program.  It ends with the process.                                     *)

Alive == cpc # "exit"

(* sleep and the affinity, which may fail. *)
SenderStart ==
    /\ tpc = "start"
    /\ Alive
    /\ \/ tpc' = "send" /\ UNCHANGED failed
       \/ tpc' = "end" /\ failed' = TRUE
    /\ UNCHANGED <<kind, id, dangled, mainVars, global_exit, srvVars, pings, pongs, lost>>

(* What the callback finds through aux.  pp_pure.c passes the address of a *)
(* parameter of send_packets, which has returned by then; main.c that of a *)
(* local of start_client, which is there until start_client returns.       *)
Aux == IF kind = "udp" /\ cpc # "closed" THEN {"socket"} ELSE {"socket", "other"}

(* A send that fails, in itself or on what is not an open socket, ends the *)
(* thread.                                                                 *)
SenderSend ==
    /\ tpc = "send"
    /\ Alive
    /\ \E fd \in Aux :
          \/ /\ fd = "socket" /\ cpc # "closed"
             /\ pings' = pings \cup {id}
             /\ id' = id + 1
             /\ tpc' = IF id + 1 <= Iters THEN "send" ELSE "end"
             /\ UNCHANGED <<failed, dangled>>
          \/ /\ tpc' = "end"
             /\ dangled' = (dangled \/ fd = "other" \/ cpc = "closed")
             /\ failed' = TRUE
             /\ UNCHANGED <<pings, id>>
    /\ UNCHANGED <<kind, mainVars, global_exit, srvVars, pongs, lost>>

thread_send_packets == SenderStart \/ SenderSend

-----------------------------------------------------------------------------
(* The client's main. *)

(* Mutant: one packet less is waited for. *)
LoopsOffByOne(last) == last + 1 < Iters /\ ~global_exit

(* The condition of the receive loop; only main.c has a SIGINT handler. *)
Loops(last) == last < Iters /\ ~global_exit

(* The sockets are set up and the thread is started. *)
start_client ==
    /\ cpc = "start"
    /\ tpc' = "start"
    /\ cpc' = IF Loops(0) THEN "recv" ELSE "leave"
    /\ UNCHANGED <<kind, id, dangled, last_idx, persisted, global_exit, srvVars, pings, pongs,
                   lost, failed>>

(* signal() lets recvfrom restart, so SIGINT is noticed after a packet. *)
ClientRecv ==
    /\ cpc = "recv"
    /\ \E p \in pongs :
          /\ pongs' = pongs \ {p}
          /\ persisted' = persisted \cup {p}
          /\ last_idx' = IF kind = "udp" THEN Greater(last_idx, p) % IdxWord ELSE Greater(last_idx, p)
    /\ cpc' = IF Loops(last_idx') THEN "recv" ELSE "leave"
    /\ UNCHANGED <<kind, threadVars, global_exit, srvVars, pings, lost, failed>>

ClientRecvFails ==
    /\ cpc = "recv"
    /\ cpc' = "leave"
    /\ failed' = TRUE
    /\ UNCHANGED <<kind, threadVars, last_idx, persisted, global_exit, srvVars, pings, pongs, lost>>

(* pp_pure.c cancels the thread at its next call and joins it before it    *)
(* closes the socket; main.c just closes it.                               *)
ClientLeave ==
    /\ cpc = "leave"
    /\ cpc' = "closed"
    /\ tpc' = IF kind = "pure" THEN "end" ELSE tpc
    /\ UNCHANGED <<kind, id, dangled, last_idx, persisted, global_exit, srvVars, pings, pongs,
                   lost, failed>>

(* The persistence agent is closed and main returns. *)
ClientExit ==
    /\ cpc = "closed"
    /\ cpc' = "exit"
    /\ UNCHANGED <<kind, threadVars, last_idx, persisted, global_exit, srvVars, pings, pongs,
                   lost, failed>>

sigint_handler ==
    /\ kind = "udp"
    /\ \/ Alive /\ global_exit' = TRUE /\ UNCHANGED srv_exit
       \/ srv_pc # "end" /\ srv_exit' = TRUE /\ UNCHANGED global_exit
    /\ UNCHANGED <<kind, threadVars, mainVars, srv_pc, srv_last_idx, pings, pongs, lost, failed>>

-----------------------------------------------------------------------------
(* The server: start_server, or the XDP program xdp_main, which has no     *)
(* state and never stops.                                                  *)

ServerLoops(last) == kind = "pure" \/ (last < Iters /\ ~srv_exit)

ServerStart ==
    /\ srv_pc = "start"
    /\ srv_pc' = IF ServerLoops(0) THEN "recv" ELSE "end"
    /\ UNCHANGED <<kind, threadVars, mainVars, global_exit, srv_last_idx, srv_exit, pings, pongs,
                   lost, failed>>

(* Mutant: the server leaves the loop without answering the last ping. *)
ServerEchoLeaves ==
    /\ srv_pc = "recv"
    /\ \E p \in pings :
          /\ pings' = pings \ {p}
          /\ srv_last_idx' = IF kind = "udp" THEN Greater(srv_last_idx, p) ELSE srv_last_idx
          /\ pongs' = IF ServerLoops(srv_last_idx') THEN pongs \cup {p} ELSE pongs
    /\ srv_pc' = IF ServerLoops(srv_last_idx') THEN "recv" ELSE "end"
    /\ UNCHANGED <<kind, threadVars, mainVars, global_exit, srv_exit, lost, failed>>

ServerEcho ==
    /\ srv_pc = "recv"
    /\ \E p \in pings :
          /\ pings' = pings \ {p}
          /\ pongs' = pongs \cup {p}
          /\ srv_last_idx' = IF kind = "udp" THEN Greater(srv_last_idx, p) ELSE srv_last_idx
    /\ srv_pc' = IF ServerLoops(srv_last_idx') THEN "recv" ELSE "end"
    /\ UNCHANGED <<kind, threadVars, mainVars, global_exit, srv_exit, lost, failed>>

(* bind, recvfrom or sendto fails: start_server returns. *)
ServerFails ==
    /\ kind = "udp"
    /\ srv_pc # "end"
    /\ srv_pc' = "end"
    /\ failed' = TRUE
    /\ pings' \in {pings} \cup {pings \ {p} : p \in pings}
    /\ UNCHANGED <<kind, threadVars, mainVars, global_exit, srv_last_idx, srv_exit, pongs, lost>>

-----------------------------------------------------------------------------

Lose ==
    /\ \E p \in pings \cup pongs : lost' = lost \cup {p} /\ pings' = pings \ {p} /\ pongs' = pongs \ {p}
    /\ UNCHANGED <<kind, threadVars, mainVars, global_exit, srvVars, failed>>

UdpClient == start_client \/ ClientRecv \/ ClientLeave \/ ClientExit
UdpServer == ServerStart \/ ServerEcho

UdpNext ==
    \/ thread_send_packets \/ UdpClient \/ UdpServer
    \/ ClientRecvFails \/ ServerFails \/ sigint_handler \/ Lose

(* Threads and server run, and take what is in their sockets. *)
UdpFairness == WF_udpVars(thread_send_packets) /\ WF_udpVars(UdpClient) /\ WF_udpVars(UdpServer)

UdpSpec == UdpInit /\ [][UdpNext]_udpVars

-----------------------------------------------------------------------------
(* Properties. *)

UdpTypeOK ==
    /\ kind \in {"udp", "pure"}
    /\ tpc \in {"none", "start", "send", "end"} /\ id \in 1..(Iters + 1)
    /\ cpc \in {"start", "recv", "leave", "closed", "exit"}
    /\ last_idx \in 0..Iters /\ srv_last_idx \in 0..Iters
    /\ srv_pc \in {"start", "recv", "end"}
    /\ UNION {pings, pongs, persisted, lost} \subseteq 1..Iters
    /\ {global_exit, srv_exit, failed, dangled} \subseteq BOOLEAN

(* The thread never gets to use main's socket after main has closed it.    *)
(* In pp_pure.c that is so whatever happens.  In main.c, where "passing a  *)
(* ref to the local socket should work fine since the current function     *)
(* will not return until the pingpong is finished" (main.c:109), it rests  *)
(* on the last pong coming only after the last send, and an interruption   *)
(* or a call that fails breaks it.                                         *)
SocketOpen ==
    (cpc = "closed" /\ tpc \in {"start", "send"}) => kind = "udp" /\ (global_exit \/ failed)

(* The experiment ends: the client exits unless packet Iters or its answer *)
(* was lost, somebody was interrupted or a call failed, which includes the *)
(* use of pp_pure.c's dangling pointer.  Neither the loss of other packets *)
(* nor the server stopping at the last id with pings outstanding matters.  *)
(* last_idx has 32 bits (main.c:113): from 2^32 packets on main never ends.*)
UdpEnds ==
    (kind = "pure" \/ Iters < IdxWord) =>
        <>(cpc = "exit" \/ Iters \in lost \/ global_exit \/ srv_exit \/ failed)
=============================================================================
