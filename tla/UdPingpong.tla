----------------------------- MODULE UdPingpong -----------------------------
(***************************************************************************)
(* The whole UD pingpong: the client (UdClient) and the server (UdServer)  *)
(* with the network between them, which loses and reorders datagrams but   *)
(* does not duplicate them.  A ping reaches the server only when the       *)
(* client's adapter sent it, and a pong the client only when the server's  *)
(* adapter sent it back.  The variables of the client keep their names,    *)
(* those of the server have the prefix srv_.                               *)
(***************************************************************************)
EXTENDS UdClient

VARIABLES srv_rq, srv_sq, srv_cq, srv_recv_payloads, srv_pending_send, srv_pc,
          srv_wc, srv_recv_idx, srv_global_exit, srv_received, srv_echoed

srvVars == <<srv_rq, srv_sq, srv_cq, srv_recv_payloads, srv_pending_send, srv_pc,
             srv_wc, srv_recv_idx, srv_global_exit, srv_received, srv_echoed>>

Server == INSTANCE UdServer WITH
    rq <- srv_rq, sq <- srv_sq, cq <- srv_cq,
    recv_payloads <- srv_recv_payloads, pending_send <- srv_pending_send,
    spc <- srv_pc, wc <- srv_wc, recv_idx <- srv_recv_idx,
    global_exit <- srv_global_exit, received <- srv_received, echoed <- srv_echoed

udVars == <<vars, srvVars>>

UdInit == Init /\ Server!Init

(* Ids sent more often than received; a datagram that is never delivered   *)
(* was lost.                                                               *)
InFlight(out, in) == {p \in ToSet(out) : Count(out, {p}) > Count(in, {p})}

PingArrives ==
    /\ \E p \in InFlight(pinged, srv_received) : Server!HcaReceive(p)
    /\ UNCHANGED vars

PongArrives ==
    /\ \E p \in InFlight(srv_echoed, received) : HcaReceive(p)
    /\ UNCHANGED srvVars

UdNext ==
    \/ ClientStep /\ UNCHANGED srvVars
    \/ Server!ServerStep /\ UNCHANGED vars
    \/ PingArrives
    \/ PongArrives

(* The fairness of the two programs; the network owes nothing. *)
UdFairness ==
    /\ Fairness
    /\ WF_srvVars(Server!HcaTransmit)
    /\ WF_srvVars(Server!Progress)

UdSpec == UdInit /\ [][UdNext]_udVars
FairUdSpec == UdSpec /\ UdFairness

-----------------------------------------------------------------------------
(* Properties: those of the client are in UdClient, and those of the       *)
(* server, explained in UdServer, are given names here.                    *)

(* The types of the variables of both programs. *)
UdTypeOK == TypeOK /\ Server!TypeOK

(* Each program, seen alone, is in the environment that its own module     *)
(* gives it: the server gets no ping twice and none that is not of the     *)
(* experiment, and the client gets no pong but of a ping it sent, once.    *)
(* That needs the client never to send an id twice from its one buffer     *)
(* (ud_pingpong.c:440) and the server never to send back a buffer that was *)
(* overwritten or is still empty (ud_pingpong.c:370).                      *)
EachAlone == Spec /\ Server!Spec

(* No buffer of the server is with the adapter twice or nowhere. *)
OneOwner == Server!OneOwner

(* The server never waits for a bit that only it can clear. *)
NoSelfWait == Server!NoSelfWait

(* The server echoes what it received, in that order. *)
EchoInOrder == Server!EchoInOrder

(* Every ping that the server's adapter received is sent back. *)
EveryPingEchoed == Server!EveryPingEchoed

(* The server ends once the last ping has reached it. *)
LastPingEnds == Server!LastPingEnds
=============================================================================
