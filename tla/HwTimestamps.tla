---------------------------- MODULE HwTimestamps ----------------------------
(***************************************************************************)
(* no-bypass/hwts.cpp: two hosts play pingpong in lockstep, one datagram   *)
(* at a time, and print when the network card sent and received each of    *)
(* them.  The time of a send comes back later, on the error queue of the   *)
(* socket, with the number of the datagram (SOF_TIMESTAMPING_OPT_ID).  The *)
(* error queue is read without waiting; when it is empty, the code parses  *)
(* the control buffer all the same, which nobody has written in this call: *)
(* it may hold what an earlier call left on the stack.  Datagrams have no  *)
(* id of their own; here they are numbered by their sender, from 0.        *)
(***************************************************************************)
EXTENDS Integers, Sequences

CONSTANTS Client, Server,  \* the two hosts
          Packets,         \* datagrams each sends
          MaxFaults        \* calls that fail

ASSUME HostAssumption == Client # Server
ASSUME PacketsAssumption == Packets \in Nat \ {0}
ASSUME FaultsAssumption == MaxFaults \in Nat

VARIABLES
    hw,           \* host -> SIOCSHWTSTAMP succeeded
    pc,           \* host -> next step
    i,            \* host -> loop variable of client_loop or server_loop
    sent,         \* host -> datagrams sent, the kernel's OPT_ID counter
    stamping,     \* host -> datagrams whose send time is still to come
    errq,         \* host -> error queue: datagrams whose send time is known
    control,      \* host -> datagram in the record that is left on the stack
    send_ts,      \* host -> row -> the time in it
    send_ts_cnt,  \* host -> send times counted
    recv_ts,      \* host -> datagrams whose receive times were recorded
    flying,       \* datagrams on their way
    gone,         \* history: a datagram was lost
    reparsed,     \* host -> history: an old record was taken for a new one
    faults        \* history: calls that failed

hwVars == <<hw, pc, i, sent, stamping, errq, control, send_ts, send_ts_cnt, recv_ts, flying,
            gone, reparsed, faults>>
tables == <<control, send_ts, send_ts_cnt, reparsed>>

Hosts == {Client, Server}
Remote(h) == IF h = Client THEN Server ELSE Client
Rows == 0..(Packets - 1)

(* A row of send_ts has the send time of a datagram, nothing yet, or the   *)
(* time at which some datagram was received.                               *)
NoTime == -1
RecvTime == -2

HwInit ==
    /\ hw \in [Hosts -> BOOLEAN]
    /\ pc = [h \in Hosts |-> IF h = Client THEN "send" ELSE "receive"]
    /\ i = [h \in Hosts |-> 0]
    /\ sent = [h \in Hosts |-> 0]
    /\ stamping = [h \in Hosts |-> {}]
    /\ errq = [h \in Hosts |-> <<>>]
    /\ control = [h \in Hosts |-> NoTime]
    /\ send_ts = [h \in Hosts |-> [n \in Rows |-> NoTime]]
    /\ send_ts_cnt = [h \in Hosts |-> 0]
    /\ recv_ts = [h \in Hosts |-> <<>>]
    /\ flying = {}
    /\ gone = FALSE
    /\ reparsed = [h \in Hosts |-> FALSE]
    /\ faults = 0

(* The order of the calls in a round of client_loop and of server_loop. *)
Round(h) == IF h = Client THEN <<"send", "extract", "receive">> ELSE <<"receive", "extract", "send">>

(* The call at pc[h] has returned; after the last round comes the drain. *)
Advance(h) ==
    LET r == Round(h) IN
    IF pc[h] = r[3]
    THEN /\ i' = [i EXCEPT ![h] = @ + 1]
         /\ pc' = [pc EXCEPT ![h] = IF i[h] + 1 < Packets THEN r[1] ELSE "drain"]
    ELSE /\ pc' = [pc EXCEPT ![h] = IF @ = r[1] THEN r[2] ELSE r[3]]
         /\ UNCHANGED i

-----------------------------------------------------------------------------
(* The calls. *)

Send(h) ==
    /\ pc[h] = "send"
    /\ flying' = flying \cup {[to |-> Remote(h), n |-> sent[h]]}
    /\ stamping' = IF hw[h] THEN [stamping EXCEPT ![h] = @ \cup {sent[h]}] ELSE stamping
    /\ sent' = [sent EXCEPT ![h] = @ + 1]
    /\ Advance(h)
    /\ UNCHANGED <<hw, errq, tables, recv_ts, gone, faults>>

(* A datagram that the card did not stamp leaves no row. *)
extract_recv_timestamp(h, n) ==
    recv_ts' = IF hw[h] THEN [recv_ts EXCEPT ![h] = Append(@, n)] ELSE recv_ts

(* Mutant: receiving does not wait for a datagram. *)
ReceiveNoWait(h) ==
    /\ pc[h] = "receive"
    /\ \/ /\ \E d \in flying :
                /\ d.to = h
                /\ flying' = flying \ {d}
                /\ extract_recv_timestamp(h, d.n)
       \/ UNCHANGED <<flying, recv_ts>>
    /\ Advance(h)
    /\ UNCHANGED <<hw, sent, stamping, errq, tables, gone, faults>>

(* recvmsg waits for a datagram. *)
Receive(h) ==
    /\ pc[h] = "receive"
    /\ \E d \in flying :
          /\ d.to = h
          /\ flying' = flying \ {d}
          /\ extract_recv_timestamp(h, d.n)
    /\ Advance(h)
    /\ UNCHANGED <<hw, sent, stamping, errq, tables, gone, faults>>

(* One send time is recorded: time t for datagram n. *)
Record(h, n, t) ==
    /\ send_ts' = [send_ts EXCEPT ![h][n] = t]
    /\ send_ts_cnt' = [send_ts_cnt EXCEPT ![h] = @ + 1]
    /\ control' = [control EXCEPT ![h] = n]

ReadErrqueue(h) ==
    /\ errq[h] # <<>>
    /\ Record(h, Head(errq[h]), Head(errq[h]))
    /\ errq' = [errq EXCEPT ![h] = Tail(@)]
    /\ UNCHANGED reparsed

(* EAGAIN: nothing is found in the buffer, or the id of an old record with *)
(* the time beside it, which receive may have overwritten with its own.    *)
(* The buffer is at the same place of the stack in every call, so that no  *)
(* other record can be left there.  Each is a time followed by an id, and  *)
(* two ids without a time, for which hwts.cpp:122 throws, are left neither *)
(* by the kernel nor by receive.                                           *)
ReadNothing(h) ==
    /\ errq[h] = <<>>
    /\ \/ UNCHANGED tables
       \/ /\ control[h] # NoTime
          /\ \E t \in {send_ts[h][control[h]]} \cup {RecvTime : n \in DOMAIN recv_ts[h]} :
                Record(h, control[h], t)
          /\ reparsed' = [reparsed EXCEPT ![h] = TRUE]
    /\ UNCHANGED errq

(* Mutant: a read of the empty queue counts as well. *)
ExtractCountsAll(h) ==
    \/ ReadErrqueue(h)
    \/ /\ errq[h] = <<>>
       /\ send_ts_cnt' = [send_ts_cnt EXCEPT ![h] = @ + 1]
       /\ UNCHANGED <<control, send_ts, reparsed, errq>>

extract_send_timestamps(h) == ReadErrqueue(h) \/ ReadNothing(h)

Extract(h) ==
    /\ pc[h] = "extract"
    /\ extract_send_timestamps(h)
    /\ Advance(h)
    /\ UNCHANGED <<hw, sent, stamping, recv_ts, flying, gone, faults>>

(* Mutant: the loop goes on with all send times counted. *)
DrainOnceMore(h) ==
    /\ pc[h] = "drain"
    /\ IF send_ts_cnt[h] <= Packets
       THEN extract_send_timestamps(h) /\ UNCHANGED pc
       ELSE pc' = [pc EXCEPT ![h] = "printed"] /\ UNCHANGED <<tables, errq>>
    /\ UNCHANGED <<hw, i, sent, stamping, recv_ts, flying, gone, faults>>

(* The loop of start_program after the rounds, and the printing. *)
Drain(h) ==
    /\ pc[h] = "drain"
    /\ IF send_ts_cnt[h] < Packets
       THEN extract_send_timestamps(h) /\ UNCHANGED pc
       ELSE pc' = [pc EXCEPT ![h] = "printed"] /\ UNCHANGED <<tables, errq>>
    /\ UNCHANGED <<hw, i, sent, stamping, recv_ts, flying, gone, faults>>

(* A call fails otherwise: it says so and returns, and the loop goes on. *)
CallFails(h) ==
    /\ pc[h] \in {"send", "receive", "extract"}
    /\ faults < MaxFaults
    /\ faults' = faults + 1
    /\ Advance(h)
    /\ UNCHANGED <<hw, sent, stamping, errq, tables, recv_ts, flying, gone>>

-----------------------------------------------------------------------------
(* The card and the network (external). *)

Stamp(h) ==
    /\ \E n \in stamping[h] :
          /\ stamping' = [stamping EXCEPT ![h] = @ \ {n}]
          /\ errq' = [errq EXCEPT ![h] = Append(@, n)]
    /\ UNCHANGED <<hw, pc, i, sent, tables, recv_ts, flying, gone, faults>>

LoseDatagram ==
    /\ \E d \in flying : flying' = flying \ {d}
    /\ gone' = TRUE
    /\ UNCHANGED <<hw, pc, i, sent, stamping, errq, tables, recv_ts, faults>>

start_program(h) == Send(h) \/ Receive(h) \/ Extract(h) \/ Drain(h)

HwNext == LoseDatagram \/ \E h \in Hosts : start_program(h) \/ CallFails(h) \/ Stamp(h)

(* Both programs run and take what has arrived; the card stamps what it    *)
(* sends once it was told to.                                              *)
HwFairness == \A h \in Hosts : WF_hwVars(start_program(h)) /\ WF_hwVars(Stamp(h))

HwSpec == HwInit /\ [][HwNext]_hwVars

-----------------------------------------------------------------------------
(* Properties. *)

HwTypeOK ==
    /\ hw \in [Hosts -> BOOLEAN]
    /\ pc \in [Hosts -> {"send", "extract", "receive", "drain", "printed"}]
    /\ i \in [Hosts -> 0..Packets] /\ sent \in [Hosts -> 0..Packets]
    /\ stamping \in [Hosts -> SUBSET Rows]
    /\ errq \in [Hosts -> Seq(Rows)]
    /\ control \in [Hosts -> Rows \cup {NoTime}]
    /\ send_ts \in [Hosts -> [Rows -> Rows \cup {NoTime, RecvTime}]]
    /\ send_ts_cnt \in [Hosts -> 0..Packets]
    /\ \A h \in Hosts : recv_ts[h] \in Seq(Rows) /\ Len(recv_ts[h]) <= Packets
    /\ flying \subseteq [to : Hosts, n : Rows]
    /\ gone \in BOOLEAN /\ reparsed \in [Hosts -> BOOLEAN] /\ faults \in 0..MaxFaults

(* Row n of either table is about round n: although the datagrams carry no *)
(* id and recv_ts is filled by counting (hwts.cpp:90), the time in row n   *)
(* is of the n-th datagram of the other host, because each side sends one  *)
(* only after it received one.  A call that fails shifts the rows.         *)
RowsAligned ==
    faults = 0 => \A h \in Hosts : \A n \in DOMAIN recv_ts[h] : recv_ts[h][n] = n - 1

(* No row ever has the send time of another datagram, in whatever order    *)
(* and however late the card delivers them, and what is printed has one in *)
(* every row even if calls failed, unless a read of the empty error queue  *)
(* (hwts.cpp:152, EAGAIN is let through) counted an old record again, so   *)
(* that the loop of hwts.cpp:285 ended early.                              *)
SendTimesComplete ==
    \A h \in Hosts, n \in Rows :
        /\ send_ts[h][n] \in {NoTime, n, RecvTime}
        /\ (pc[h] = "printed" /\ ~reparsed[h]) => send_ts[h][n] = n

(* Both programs print and end, unless a datagram is lost (then both wait  *)
(* for ever, nothing is sent again), a call fails, or the card was not set *)
(* to stamp (hwts.cpp:266 ignores that result and the loop never ends).    *)
HwEnds == \A h \in Hosts : <>(pc[h] = "printed" \/ gone \/ faults > 0 \/ ~hw[h])
=============================================================================
