---------------------- MODULE SocketExperimentsProofs ----------------------
(***************************************************************************)
(* Theorems about the experiments over the sockets of the kernel           *)
(* (UdpPingpong, HwTimestamps, SocketExperiments) for every number of      *)
(* packets, faults and losses.                                             *)
(*                                                                         *)
(* UDP: no id is anywhere before the thread has sent it, so main sees the  *)
(* last one only when the thread is done.  Hardware timestamps: each call  *)
(* of a round is counted by one of three counters; without faults the four *)
(* counters of sends and receives of the two hosts follow one another; a   *)
(* send time is in one place at a time, so that the count of send times is *)
(* the number of rows that have one until an old record is read again.     *)
(***************************************************************************)
EXTENDS SocketExperiments, SequenceTheorems, FiniteSetTheorems, TLAPS

-----------------------------------------------------------------------------
(* The inductive invariant of UdpPingpong. *)

(* Ids in the network, at the client and in the logs have been sent. *)
Sent ==
    /\ \A p \in pings : p \in 1..Iters /\ p < id
    /\ \A p \in pongs : p \in 1..Iters /\ p < id
    /\ \A p \in persisted : p \in 1..Iters /\ p < id
    /\ \A p \in lost : p \in 1..Iters /\ p < id
    /\ last_idx < id /\ srv_last_idx < id

(* The thread and main. *)
Joined ==
    /\ tpc \in {"none", "start", "send"} => id <= Iters
    /\ tpc = "none" <=> cpc = "start"
    /\ cpc \in {"leave", "closed"} => tpc = "end" \/ global_exit \/ failed
    /\ (cpc = "closed" /\ kind = "pure") => tpc = "end"

UdpInv == UdpTypeOK /\ Sent /\ Joined

-----------------------------------------------------------------------------
(* The inductive invariant of HwTimestamps. *)

InRound(h) == pc[h] \in {"send", "extract", "receive"}

(* The calls of each kind that have returned, with or without success. *)
Sends(h) == i[h] + (IF h = Client /\ pc[h] \in {"extract", "receive"} THEN 1 ELSE 0)
Receives(h) == i[h] + (IF h = Server /\ pc[h] \in {"extract", "send"} THEN 1 ELSE 0)
Extracts(h) == i[h] + (IF pc[h] = Round(h)[3] THEN 1 ELSE 0)

BoundsAt(h) ==
    /\ IF InRound(h) THEN i[h] < Packets ELSE i[h] = Packets
    /\ sent[h] <= Sends(h)
    /\ Len(recv_ts[h]) <= Receives(h)
    /\ InRound(h) => send_ts_cnt[h] <= Extracts(h)
    /\ pc[h] = "printed" => send_ts_cnt[h] = Packets

HwBounds == recv_ts \in [Hosts -> Seq(Rows)] /\ \A h \in Hosts : BoundsAt(h)

(* The datagram that a host receives next is the only one on its way. *)
Lockstep ==
    faults = 0 =>
        /\ \A h \in Hosts : sent[h] = Sends(h) /\ Receives(h) <= sent[Remote(h)]
        /\ \A d \in flying : d.n = Receives(d.to) /\ sent[Remote(d.to)] = Receives(d.to) + 1
        /\ \A h \in Hosts :
              /\ hw[h] => Len(recv_ts[h]) = Receives(h)
              /\ \A n \in 1..Len(recv_ts[h]) : recv_ts[h][n] = n - 1

(* The rows that have a time, and what is left to read. *)
Filled(h) == {n \in Rows : send_ts[h][n] # NoTime}
Waiting(h) == {errq[h][n] : n \in 1..Len(errq[h])}

PlacesAt(h) ==
    /\ \A m, n \in 1..Len(errq[h]) : errq[h][m] = errq[h][n] => m = n
    /\ \A n \in stamping[h] : n < sent[h] /\ n \notin Waiting(h)
    /\ \A n \in Waiting(h) : n < sent[h]

TimesAt(h) ==
    /\ \A n \in Rows : send_ts[h][n] \in {NoTime, n, RecvTime}
    /\ ~reparsed[h] =>
          /\ send_ts_cnt[h] = Cardinality(Filled(h))
          /\ \A n \in Rows : send_ts[h][n] # RecvTime
          /\ \A n \in Filled(h) : n < sent[h] /\ n \notin stamping[h] /\ n \notin Waiting(h)

Places == \A h \in Hosts : PlacesAt(h)
Times == \A h \in Hosts : TimesAt(h)

HwInv == HwTypeOK /\ HwBounds /\ Lockstep /\ Places /\ Times

SocketInv == UdpInv /\ HwInv

-----------------------------------------------------------------------------
(* UdpPingpong. *)

(* The type invariant, one set at a time. *)
UdpSets ==
    /\ \A p \in pings : p \in 1..Iters
    /\ \A p \in pongs : p \in 1..Iters
    /\ \A p \in persisted : p \in 1..Iters
    /\ \A p \in lost : p \in 1..Iters

UdpScalars ==
    /\ kind \in {"udp", "pure"}
    /\ tpc \in {"none", "start", "send", "end"} /\ id \in 1..(Iters + 1)
    /\ cpc \in {"start", "recv", "leave", "closed", "exit"}
    /\ last_idx \in 0..Iters /\ srv_last_idx \in 0..Iters
    /\ srv_pc \in {"start", "recv", "end"}

UdpFlags ==
    global_exit \in BOOLEAN /\ srv_exit \in BOOLEAN /\ failed \in BOOLEAN /\ dangled \in BOOLEAN

(* The type invariant in parts. *)
LEMMA UdpTypeParts == UdpTypeOK <=> UdpScalars /\ UdpFlags /\ UdpSets
  <1>1. UNION {pings, pongs, persisted, lost} \subseteq 1..Iters <=> UdpSets
    BY DEF UdpSets
  <1>2. {global_exit, srv_exit, failed, dangled} \subseteq BOOLEAN
          <=> UdpFlags
    BY Zenon DEF UdpFlags
  <1> QED
    BY <1>1, <1>2, Zenon DEF UdpTypeOK, UdpScalars

(* What main keeps of an id is not more than the id. *)
LEMMA Truncated == ASSUME NEW n \in Nat PROVE n % IdxWord \in 0..n
  <1>1. n % IdxWord \in 0..(IdxWord - 1)
    BY WordAssumption
  <1>2. n < IdxWord => n % IdxWord = n
    BY WordAssumption
  <1> QED
    BY <1>1, <1>2, WordAssumption

(* The beginning. *)
LEMMA UdpStarts == UdpInit => UdpInv
  <1> SUFFICES ASSUME UdpInit PROVE UdpInv
    OBVIOUS
  <1>1. UdpScalars
    BY ItersAssumption DEF UdpInit, UdpScalars
  <1>2. UdpSets /\ UdpFlags
    BY Zenon DEF UdpInit, UdpSets, UdpFlags
  <1>3. Sent /\ Joined
    BY ItersAssumption DEF UdpInit, Sent, Joined
  <1> QED
    BY <1>1, <1>2, <1>3, UdpTypeParts DEF UdpInv

(* Every step of the UDP pingpong keeps its invariant. *)
LEMMA UdpStep == ASSUME UdpInv, UdpNext PROVE UdpInv'
  <1>0. UdpScalars /\ UdpSets /\ Sent /\ Joined /\ Iters \in Nat \ {0}
    BY UdpTypeParts, ItersAssumption DEF UdpInv
  <1>f. UdpFlags'
    <2>1. UdpFlags
      BY UdpTypeParts DEF UdpInv
    <2>2. CASE UNCHANGED <<global_exit, srv_exit>>
      <3>1. failed' \in {failed, TRUE} /\ dangled' \in {dangled, TRUE, FALSE}
        BY <2>2 DEF UdpNext, thread_send_packets, SenderStart, SenderSend, UdpClient, start_client,
           ClientRecv, ClientRecvFails, ClientLeave, ClientExit, UdpServer, ServerStart, ServerEcho,
           ServerFails, sigint_handler, Lose, threadVars
      <3> QED
        BY <2>1, <2>2, <3>1, Zenon DEF UdpFlags
    <2>3. CASE sigint_handler
      BY <2>1, <2>3, Zenon DEF sigint_handler, UdpFlags, threadVars
    <2> QED
      BY <2>2, <2>3 DEF UdpNext, thread_send_packets, SenderStart, SenderSend, UdpClient, start_client,
         ClientRecv, ClientRecvFails, ClientLeave, ClientExit, UdpServer, ServerStart, ServerEcho,
         ServerFails, Lose, srvVars
  <1> SUFFICES UdpScalars' /\ Sent' /\ Joined'
    <2>1. Sent' => UdpSets'
      BY DEF Sent, UdpSets
    <2>2. UdpTypeOK' <=> UdpScalars' /\ UdpFlags' /\ UdpSets'
      BY UdpTypeParts, PTL
    <2> QED
      BY <1>f, <2>1, <2>2 DEF UdpInv
  <1>1. CASE SenderStart
    BY <1>0, <1>1 DEF SenderStart, UdpScalars, Sent, Joined, mainVars, srvVars, Alive
  <1>2. CASE SenderSend
    BY <1>0, <1>2 DEF SenderSend, UdpScalars, Sent, Joined, mainVars, srvVars, Alive
  <1>3. CASE start_client
    BY <1>0, <1>3 DEF start_client, UdpScalars, Sent, Joined, Loops, srvVars
  <1>4. CASE ClientRecv
    <2>1. PICK p \in pongs :
             /\ pongs' = pongs \ {p}
             /\ persisted' = persisted \cup {p}
             /\ last_idx' \in {Greater(last_idx, p), Greater(last_idx, p) % IdxWord}
      BY <1>4 DEF ClientRecv
    <2>2. /\ cpc = "recv" /\ cpc' = IF Loops(last_idx') THEN "recv" ELSE "leave"
          /\ UNCHANGED <<kind, tpc, id, global_exit, srv_pc, srv_last_idx, pings, lost, failed>>
      BY <1>4 DEF ClientRecv, threadVars, srvVars
    <2>3. /\ p \in 1..Iters /\ p < id
          /\ Greater(last_idx, p) \in 0..Iters /\ Greater(last_idx, p) < id
      BY <1>0, <2>1 DEF Sent, UdpScalars, Greater
    <2>4. last_idx' \in 0..Iters /\ last_idx' < id
      <3>1. Greater(last_idx, p) % IdxWord \in 0..Greater(last_idx, p)
        BY <1>0, <2>3, Truncated
      <3> QED
        BY <1>0, <2>1, <2>3, <3>1 DEF UdpScalars
    <2>5. UdpScalars'
      BY <1>0, <2>2, <2>4 DEF UdpScalars
    <2>6. Sent'
      BY <1>0, <2>1, <2>2, <2>3, <2>4 DEF Sent
    <2>7. Joined'
      BY <1>0, <2>2, <2>4 DEF Joined, Loops, UdpScalars
    <2> QED
      BY <2>5, <2>6, <2>7
  <1>5. CASE ClientRecvFails
    BY <1>0, <1>5 DEF ClientRecvFails, UdpScalars, Sent, Joined, threadVars, srvVars
  <1>6. CASE ClientLeave
    BY <1>0, <1>6 DEF ClientLeave, UdpScalars, Sent, Joined, srvVars
  <1>7. CASE ClientExit
    BY <1>0, <1>7 DEF ClientExit, UdpScalars, Sent, Joined, threadVars, srvVars
  <1>8. CASE sigint_handler
    BY <1>0, <1>8 DEF sigint_handler, UdpScalars, Sent, Joined, threadVars, mainVars
  <1>9. CASE ServerStart
    BY <1>0, <1>9 DEF ServerStart, UdpScalars, Sent, Joined, threadVars, mainVars
  <1>10. CASE ServerEcho
    BY <1>0, <1>10 DEF ServerEcho, UdpScalars, Sent, Joined, threadVars, mainVars, Greater
  <1>11. CASE ServerFails
    BY <1>0, <1>11 DEF ServerFails, UdpScalars, Sent, Joined, threadVars, mainVars
  <1>12. CASE Lose
    BY <1>0, <1>12 DEF Lose, UdpScalars, Sent, Joined, threadVars, mainVars, srvVars
  <1> QED
    BY <1>1, <1>2, <1>3, <1>4, <1>5, <1>6, <1>7, <1>8, <1>9, <1>10, <1>11, <1>12
    DEF UdpNext, thread_send_packets, UdpClient, UdpServer

(* A step of the other program. *)
LEMMA UdpStutter == ASSUME UdpInv, UNCHANGED udpVars PROVE UdpInv'
  BY DEF UdpInv, UdpTypeOK, Sent, Joined, udpVars, threadVars, mainVars, srvVars

-----------------------------------------------------------------------------
(* HwTimestamps. *)

(* The two hosts. *)
LEMMA TwoHosts ==
    /\ Client \in Hosts /\ Server \in Hosts /\ Client # Server
    /\ \A h \in Hosts : Remote(h) \in Hosts /\ Remote(h) # h /\ Remote(Remote(h)) = h
    /\ \A h, g \in Hosts : g = h \/ g = Remote(h)
    /\ \A h \in Hosts : h # Client => h = Server
  BY HostAssumption DEF Hosts, Remote

(* The order of the calls. *)
LEMMA Rounds ==
    /\ Round(Client)[1] = "send" /\ Round(Client)[2] = "extract" /\ Round(Client)[3] = "receive"
    /\ Round(Server)[1] = "receive" /\ Round(Server)[2] = "extract" /\ Round(Server)[3] = "send"
  BY TwoHosts DEF Round

HwCounts ==
    \A h \in Hosts :
        /\ i[h] \in 0..Packets /\ Packets \in Nat
        /\ Sends(h) \in 0..Packets /\ Receives(h) \in 0..Packets /\ Extracts(h) \in 0..Packets
        /\ pc[h] = "send" => Sends(h) < Packets
        /\ pc[h] = "receive" => Receives(h) < Packets
        /\ pc[h] = "extract" => Extracts(h) < Packets
        /\ pc[h] = "send" => IF h = Client THEN Sends(h) = Receives(h) ELSE Receives(h) = Sends(h) + 1
        /\ IF h = Client THEN Sends(h) <= Receives(h) + 1 ELSE Sends(h) <= Receives(h)

(* No call is made more than Packets times. *)
LEMMA CountsBound == HwTypeOK /\ HwBounds => HwCounts
  <1> SUFFICES ASSUME HwTypeOK, HwBounds, NEW h \in Hosts
               PROVE  HwCounts!(h)
    BY DEF HwCounts
  <1>1. /\ i[h] \in 0..Packets /\ Packets \in Nat
        /\ pc[h] \in {"send", "extract", "receive", "drain", "printed"}
        /\ IF InRound(h) THEN i[h] < Packets ELSE i[h] = Packets
    BY PacketsAssumption DEF HwTypeOK, HwBounds, BoundsAt
  <1>2. CASE h = Client
    BY <1>1, <1>2, Rounds, TwoHosts DEF InRound, Sends, Receives, Extracts
  <1>3. CASE h = Server
    BY <1>1, <1>3, Rounds, TwoHosts DEF InRound, Sends, Receives, Extracts
  <1> QED
    BY <1>2, <1>3, TwoHosts

(* What the return of a call at host h changes. *)
Counted(h) ==
    /\ i' \in [Hosts -> 0..Packets]
    /\ pc' \in [Hosts -> {"send", "extract", "receive", "drain", "printed"}] /\ pc'[h] # "printed"
    /\ IF InRound(h)' THEN i'[h] < Packets ELSE i'[h] = Packets
    /\ Sends(h)' = Sends(h) + (IF pc[h] = "send" THEN 1 ELSE 0)
    /\ Receives(h)' = Receives(h) + (IF pc[h] = "receive" THEN 1 ELSE 0)
    /\ Extracts(h)' = Extracts(h) + (IF pc[h] = "extract" THEN 1 ELSE 0)

(* What stays as it is at host g. *)
Rests(g) ==
    /\ i'[g] = i[g] /\ pc'[g] = pc[g] /\ InRound(g)' = InRound(g)
    /\ Sends(g)' = Sends(g) /\ Receives(g)' = Receives(g) /\ Extracts(g)' = Extracts(g)

(* Advance counts the call that has returned, and only at its host. *)
LEMMA Advances ==
    ASSUME HwTypeOK, HwBounds, NEW h \in Hosts, InRound(h), Advance(h)
    PROVE  Counted(h) /\ \A g \in Hosts : g # h => Rests(g)
  <1>1. /\ i \in [Hosts -> 0..Packets] /\ Packets \in Nat /\ i[h] < Packets
        /\ pc \in [Hosts -> {"send", "extract", "receive", "drain", "printed"}]
        /\ pc[h] \in {"send", "extract", "receive"}
    BY PacketsAssumption DEF HwTypeOK, HwBounds, BoundsAt, InRound
  <1>2. \A g \in Hosts : g # h => i'[g] = i[g] /\ pc'[g] = pc[g]
    BY <1>1 DEF Advance
  <1>3. \A g \in Hosts : g # h => Rests(g)
    BY <1>2 DEF Rests, InRound, Sends, Receives, Extracts
  <1>4. CASE pc[h] = Round(h)[3]
    <2>1. /\ i' = [i EXCEPT ![h] = @ + 1]
          /\ pc' = [pc EXCEPT ![h] = IF i[h] + 1 < Packets THEN Round(h)[1] ELSE "drain"]
      BY <1>4 DEF Advance
    <2>2. /\ i' \in [Hosts -> 0..Packets] /\ i'[h] = i[h] + 1
          /\ pc'[h] = IF i[h] + 1 < Packets THEN Round(h)[1] ELSE "drain"
      BY <1>1, <2>1
    <2>3. pc' \in [Hosts -> {"send", "extract", "receive", "drain", "printed"}]
      BY <1>1, <2>1, Rounds, TwoHosts
    <2>4. CASE h = Client
      <3>1. /\ pc[h] = "receive" /\ i'[h] = i[h] + 1 /\ i[h] \in Nat /\ Packets \in Nat /\ i[h] < Packets
            /\ pc'[h] = IF i[h] + 1 < Packets THEN "send" ELSE "drain"
        BY <1>1, <1>4, <2>2, <2>4, Rounds
      <3>2. Round(h)[3] = "receive" /\ h = Client /\ h # Server
        BY <2>4, Rounds, TwoHosts
      <3>3. IF InRound(h)' THEN i'[h] < Packets ELSE i'[h] = Packets
        BY <3>1 DEF InRound
      <3>4. /\ Sends(h)' = Sends(h) + (IF pc[h] = "send" THEN 1 ELSE 0)
            /\ Receives(h)' = Receives(h) + (IF pc[h] = "receive" THEN 1 ELSE 0)
            /\ Extracts(h)' = Extracts(h) + (IF pc[h] = "extract" THEN 1 ELSE 0)
        BY <3>1, <3>2 DEF Sends, Receives, Extracts
      <3>5. pc'[h] # "printed"
        BY <3>1
      <3> QED
        BY <1>3, <2>2, <2>3, <3>3, <3>4, <3>5, Zenon DEF Counted
    <2>5. CASE h = Server
      <3>1. /\ pc[h] = "send" /\ i'[h] = i[h] + 1 /\ i[h] \in Nat /\ Packets \in Nat /\ i[h] < Packets
            /\ pc'[h] = IF i[h] + 1 < Packets THEN "receive" ELSE "drain"
        BY <1>1, <1>4, <2>2, <2>5, Rounds
      <3>2. Round(h)[3] = "send" /\ h # Client /\ h = Server
        BY <2>5, Rounds, TwoHosts
      <3>3. IF InRound(h)' THEN i'[h] < Packets ELSE i'[h] = Packets
        BY <3>1 DEF InRound
      <3>4. /\ Sends(h)' = Sends(h) + (IF pc[h] = "send" THEN 1 ELSE 0)
            /\ Receives(h)' = Receives(h) + (IF pc[h] = "receive" THEN 1 ELSE 0)
            /\ Extracts(h)' = Extracts(h) + (IF pc[h] = "extract" THEN 1 ELSE 0)
        BY <3>1, <3>2 DEF Sends, Receives, Extracts
      <3>5. pc'[h] # "printed"
        BY <3>1
      <3> QED
        BY <1>3, <2>2, <2>3, <3>3, <3>4, <3>5, Zenon DEF Counted
    <2> QED
      BY <1>3, <2>4, <2>5, TwoHosts
  <1>5. CASE pc[h] # Round(h)[3]
    <2>1. /\ i' = i
          /\ pc' = [pc EXCEPT ![h] = IF @ = Round(h)[1] THEN Round(h)[2] ELSE Round(h)[3]]
      BY <1>5 DEF Advance
    <2>2. pc'[h] = IF pc[h] = Round(h)[1] THEN Round(h)[2] ELSE Round(h)[3]
      BY <1>1, <2>1
    <2>3. pc' \in [Hosts -> {"send", "extract", "receive", "drain", "printed"}]
      BY <1>1, <2>1, Rounds, TwoHosts
    <2>4. CASE h = Client
      <3>1. /\ pc[h] \in {"send", "extract"} /\ i'[h] = i[h] /\ i[h] \in Nat /\ i[h] < Packets
            /\ pc'[h] = IF pc[h] = "send" THEN "extract" ELSE "receive"
        BY <1>1, <1>5, <2>1, <2>2, <2>4, Rounds
      <3>2. Round(h)[3] = "receive" /\ h = Client /\ h # Server
        BY <2>4, Rounds, TwoHosts
      <3>3. IF InRound(h)' THEN i'[h] < Packets ELSE i'[h] = Packets
        BY <3>1 DEF InRound
      <3>4. /\ Sends(h)' = Sends(h) + (IF pc[h] = "send" THEN 1 ELSE 0)
            /\ Receives(h)' = Receives(h) + (IF pc[h] = "receive" THEN 1 ELSE 0)
            /\ Extracts(h)' = Extracts(h) + (IF pc[h] = "extract" THEN 1 ELSE 0)
        BY <3>1, <3>2 DEF Sends, Receives, Extracts
      <3>5. pc'[h] # "printed"
        BY <3>1
      <3> QED
        BY <1>1, <1>3, <2>1, <2>3, <3>3, <3>4, <3>5, Zenon DEF Counted
    <2>5. CASE h = Server
      <3>1. /\ pc[h] \in {"receive", "extract"} /\ i'[h] = i[h] /\ i[h] \in Nat /\ i[h] < Packets
            /\ pc'[h] = IF pc[h] = "receive" THEN "extract" ELSE "send"
        BY <1>1, <1>5, <2>1, <2>2, <2>5, Rounds
      <3>2. Round(h)[3] = "send" /\ h # Client /\ h = Server
        BY <2>5, Rounds, TwoHosts
      <3>3. IF InRound(h)' THEN i'[h] < Packets ELSE i'[h] = Packets
        BY <3>1 DEF InRound
      <3>4. /\ Sends(h)' = Sends(h) + (IF pc[h] = "send" THEN 1 ELSE 0)
            /\ Receives(h)' = Receives(h) + (IF pc[h] = "receive" THEN 1 ELSE 0)
            /\ Extracts(h)' = Extracts(h) + (IF pc[h] = "extract" THEN 1 ELSE 0)
        BY <3>1, <3>2 DEF Sends, Receives, Extracts
      <3>5. pc'[h] # "printed"
        BY <3>1
      <3> QED
        BY <1>1, <1>3, <2>1, <2>3, <3>3, <3>4, <3>5, Zenon DEF Counted
    <2> QED
      BY <1>3, <2>4, <2>5, TwoHosts
  <1> QED
    BY <1>4, <1>5

(* The error queue. *)

(* A send time comes. *)
LEMMA ErrqAppend ==
    ASSUME NEW q \in Seq(Rows), NEW n \in Rows, \A k \in 1..Len(q) : q[k] # n,
           \A k, l \in 1..Len(q) : q[k] = q[l] => k = l
    PROVE  /\ Append(q, n) \in Seq(Rows)
           /\ \A k, l \in 1..Len(Append(q, n)) : Append(q, n)[k] = Append(q, n)[l] => k = l
           /\ {Append(q, n)[k] : k \in 1..Len(Append(q, n))} = {q[k] : k \in 1..Len(q)} \cup {n}
  <1>1. /\ Append(q, n) \in Seq(Rows) /\ Len(q) \in Nat
        /\ Len(Append(q, n)) = Len(q) + 1
        /\ \A k \in 1..Len(q) : Append(q, n)[k] = q[k]
        /\ Append(q, n)[Len(q) + 1] = n
    BY AppendProperties, LenProperties
  <1>2. \A k \in 1..(Len(q) + 1) : k \in 1..Len(q) \/ k = Len(q) + 1
    BY <1>1
  <1>3. \A k \in 1..Len(q) : k \in 1..(Len(q) + 1)
    BY <1>1
  <1>4. Len(q) + 1 \in 1..(Len(q) + 1)
    BY <1>1
  <1>5. {Append(q, n)[k] : k \in 1..Len(Append(q, n))} = {q[k] : k \in 1..Len(q)} \cup {n}
    <2>1. \A k \in 1..Len(Append(q, n)) : Append(q, n)[k] \in {q[l] : l \in 1..Len(q)} \cup {n}
      BY <1>1, <1>2
    <2>2. \A k \in 1..Len(q) : q[k] \in {Append(q, n)[l] : l \in 1..Len(Append(q, n))}
      BY <1>1, <1>3
    <2>3. n \in {Append(q, n)[l] : l \in 1..Len(Append(q, n))}
      BY <1>1, <1>4
    <2> QED
      BY <2>1, <2>2, <2>3
  <1>6. \A k, l \in 1..Len(Append(q, n)) : Append(q, n)[k] = Append(q, n)[l] => k = l
    BY <1>1, <1>2
  <1> QED
    BY <1>1, <1>5, <1>6

(* A send time is read. *)
LEMMA ErrqTail ==
    ASSUME NEW q \in Seq(Rows), q # <<>>, \A k, l \in 1..Len(q) : q[k] = q[l] => k = l
    PROVE  /\ Head(q) \in Rows /\ Tail(q) \in Seq(Rows)
           /\ \A k, l \in 1..Len(Tail(q)) : Tail(q)[k] = Tail(q)[l] => k = l
           /\ Head(q) \in {q[k] : k \in 1..Len(q)}
           /\ {Tail(q)[k] : k \in 1..Len(Tail(q))} \subseteq {q[k] : k \in 1..Len(q)} \ {Head(q)}
  <1>1. /\ Len(q) \in Nat \ {0} /\ Tail(q) \in Seq(Rows) /\ Head(q) = q[1] /\ Head(q) \in Rows
        /\ Len(Tail(q)) = Len(q) - 1
        /\ \A k \in 1..Len(Tail(q)) : Tail(q)[k] = q[k + 1]
    BY HeadTailProperties, LenProperties, ElementOfSeq, EmptySeq
  <1>2. \A k \in 1..Len(Tail(q)) : k + 1 \in 1..Len(q) /\ k + 1 # 1
    BY <1>1
  <1>3. \A k, l \in 1..Len(Tail(q)) : Tail(q)[k] = Tail(q)[l] => k = l
    BY <1>1, <1>2
  <1>4. 1 \in 1..Len(q)
    BY <1>1
  <1>5. Head(q) \in {q[k] : k \in 1..Len(q)}
    BY <1>1, <1>4
  <1>6. {Tail(q)[k] : k \in 1..Len(Tail(q))} \subseteq {q[k] : k \in 1..Len(q)} \ {Head(q)}
    BY <1>1, <1>2, <1>4
  <1> QED
    BY <1>1, <1>3, <1>5, <1>6

(* Rows that have a time. *)
LEMMA FilledFinite ==
    ASSUME NEW h \in Hosts
    PROVE  IsFiniteSet(Filled(h)) /\ Cardinality(Filled(h)) \in Nat
  <1>1. IsFiniteSet(Rows)
    BY PacketsAssumption, FS_Interval DEF Rows
  <1>2. Filled(h) \in SUBSET Rows
    BY DEF Filled
  <1> QED
    BY <1>1, <1>2, FS_Subset, FS_CardinalityType

(* The parts of the type invariant that reading the error queue changes. *)
TablesOK ==
    /\ errq \in [Hosts -> Seq(Rows)]
    /\ control \in [Hosts -> Rows \cup {NoTime}]
    /\ send_ts \in [Hosts -> [Rows -> Rows \cup {NoTime, RecvTime}]]

(* What extract_send_timestamps does at the host h. *)
Reads(h) ==
    /\ TablesOK'
    /\ send_ts_cnt' = [send_ts_cnt EXCEPT ![h] = @ + 1] \/ send_ts_cnt' = send_ts_cnt
    /\ reparsed' \in [Hosts -> BOOLEAN]
    /\ Places' /\ Times'

(* A time that the card has delivered. *)
LEMMA ReadsErrqueue ==
    ASSUME HwTypeOK, Places, Times, NEW h \in Hosts, ReadErrqueue(h), UNCHANGED <<sent, stamping>>
    PROVE  Reads(h)
  <1> DEFINE q == errq[h]
             x == Head(errq[h])
  <1>1. TablesOK /\ send_ts_cnt \in [Hosts -> 0..Packets] /\ reparsed \in [Hosts -> BOOLEAN]
    BY DEF HwTypeOK, TablesOK
  <1>2. /\ q # <<>> /\ errq' = [errq EXCEPT ![h] = Tail(@)] /\ reparsed' = reparsed
        /\ send_ts' = [send_ts EXCEPT ![h][x] = x]
        /\ send_ts_cnt' = [send_ts_cnt EXCEPT ![h] = @ + 1]
        /\ control' = [control EXCEPT ![h] = x]
    BY DEF ReadErrqueue, Record
  <1>3. q \in Seq(Rows) /\ \A k, l \in 1..Len(q) : q[k] = q[l] => k = l
    BY <1>1 DEF TablesOK, Places, PlacesAt
  <1>4. /\ x \in Rows /\ Tail(q) \in Seq(Rows)
        /\ \A k, l \in 1..Len(Tail(q)) : Tail(q)[k] = Tail(q)[l] => k = l
        /\ x \in Waiting(h)
        /\ {Tail(q)[k] : k \in 1..Len(Tail(q))} \subseteq Waiting(h) \ {x}
    BY <1>2, <1>3, ErrqTail, Zenon DEF Waiting
  <1>5. /\ errq'[h] = Tail(q) /\ Waiting(h)' \subseteq Waiting(h) \ {x}
        /\ send_ts'[h] = [send_ts[h] EXCEPT ![x] = x] /\ send_ts_cnt'[h] = send_ts_cnt[h] + 1
        /\ \A g \in Hosts : g # h => /\ errq'[g] = errq[g] /\ send_ts'[g] = send_ts[g]
                                     /\ send_ts_cnt'[g] = send_ts_cnt[g]
    BY <1>1, <1>2, <1>4 DEF TablesOK, Waiting
  <1>6. \A g \in Hosts : g # h => Waiting(g)' = Waiting(g) /\ Filled(g)' = Filled(g)
    BY <1>5 DEF Waiting, Filled
  <1>7. send_ts[h] \in [Rows -> Rows \cup {NoTime, RecvTime}]
    BY <1>1 DEF TablesOK
  <1> HIDE DEF q, x
  <1>8. Filled(h)' = Filled(h) \cup {x} /\ x # NoTime /\ x # RecvTime
    <2>1. x # NoTime /\ x # RecvTime
      BY <1>4, PacketsAssumption DEF Rows, NoTime, RecvTime
    <2>2. \A n \in Rows : send_ts'[h][n] = IF n = x THEN x ELSE send_ts[h][n]
      BY <1>4, <1>5, <1>7
    <2> QED
      BY <1>4, <2>1, <2>2 DEF Filled
  <1>9. TablesOK'
    BY <1>1, <1>2, <1>4 DEF TablesOK, q
  <1>10. Places'
    <2> SUFFICES ASSUME NEW g \in Hosts PROVE PlacesAt(g)'
      BY DEF Places
    <2>1. PlacesAt(g)
      BY DEF Places
    <2>2. CASE g = h
      <3>1. \A m, n \in 1..Len(errq'[h]) : errq'[h][m] = errq'[h][n] => m = n
        <4>1. errq'[h] = Tail(q)
          BY <1>5
        <4> QED
          BY <1>4, <4>1, Zenon
      <3>2. /\ \A n \in stamping'[h] : n < sent'[h] /\ n \notin Waiting(h)'
            /\ \A n \in Waiting(h)' : n < sent'[h]
        BY <1>5, <2>1, <2>2 DEF PlacesAt
      <3> QED
        BY <2>2, <3>1, <3>2 DEF PlacesAt
    <2>3. CASE g # h
      BY <1>5, <1>6, <2>1, <2>3 DEF PlacesAt
    <2> QED
      BY <2>2, <2>3
  <1>11. Times'
    <2> SUFFICES ASSUME NEW g \in Hosts PROVE TimesAt(g)'
      BY DEF Times
    <2>1. TimesAt(g) /\ PlacesAt(h)
      BY DEF Times, Places
    <2>2. CASE g = h
      <3>1. \A n \in Rows : send_ts'[h][n] = IF n = x THEN x ELSE send_ts[h][n]
        BY <1>4, <1>5, <1>7
      <3>2. \A n \in Rows : send_ts'[h][n] \in {NoTime, n, RecvTime}
        BY <2>1, <2>2, <3>1 DEF TimesAt
      <3>3. ASSUME ~reparsed[h]
            PROVE  /\ send_ts_cnt'[h] = Cardinality(Filled(h)')
                   /\ \A n \in Rows : send_ts'[h][n] # RecvTime
                   /\ \A n \in Filled(h)' : n < sent[h] /\ n \notin stamping[h] /\ n \notin Waiting(h)'
        <4>1. x \notin Filled(h) /\ send_ts_cnt[h] = Cardinality(Filled(h))
          BY <1>4, <2>1, <2>2, <3>3 DEF TimesAt
        <4>2. Cardinality(Filled(h) \cup {x}) = Cardinality(Filled(h)) + 1
          BY <4>1, FilledFinite, FS_AddElement
        <4>3. send_ts_cnt'[h] = Cardinality(Filled(h)')
          BY <1>5, <1>8, <4>1, <4>2
        <4>4. \A n \in Rows : send_ts'[h][n] # RecvTime
          BY <1>8, <2>1, <2>2, <3>1, <3>3 DEF TimesAt
        <4>5. x < sent[h] /\ x \notin stamping[h]
          BY <1>4, <2>1 DEF PlacesAt
        <4>6. \A n \in Filled(h) : n < sent[h] /\ n \notin stamping[h] /\ n \notin Waiting(h)
          BY <2>1, <2>2, <3>3 DEF TimesAt
        <4> QED
          BY <1>5, <1>8, <4>3, <4>4, <4>5, <4>6
      <3> QED
        BY <1>2, <2>2, <3>2, <3>3 DEF TimesAt
    <2>3. CASE g # h
      BY <1>2, <1>5, <1>6, <2>1, <2>3 DEF TimesAt
    <2> QED
      BY <2>2, <2>3
  <1> QED
    BY <1>1, <1>2, <1>9, <1>10, <1>11 DEF Reads

(* Nothing is there, and an old record may be read again. *)
LEMMA ReadsNothing ==
    ASSUME HwTypeOK, Places, Times, NEW h \in Hosts, ReadNothing(h), UNCHANGED <<sent, stamping>>
    PROVE  Reads(h)
  <1>1. TablesOK /\ send_ts_cnt \in [Hosts -> 0..Packets] /\ reparsed \in [Hosts -> BOOLEAN]
    BY DEF HwTypeOK, TablesOK
  <1>2. errq' = errq
    BY DEF ReadNothing
  <1>3. Places'
    BY <1>2 DEF Places, PlacesAt, Waiting
  <1>4. CASE UNCHANGED tables
    <2>1. control' = control /\ send_ts' = send_ts /\ send_ts_cnt' = send_ts_cnt /\ reparsed' = reparsed
      BY <1>4 DEF tables
    <2>2. Times'
      <3>1. \A g \in Hosts : Waiting(g)' = Waiting(g) /\ Filled(g)' = Filled(g)
        BY <1>2, <2>1 DEF Waiting, Filled
      <3> QED
        BY <1>2, <2>1, <3>1 DEF Times, TimesAt
    <2> QED
      BY <1>1, <1>2, <1>3, <2>1, <2>2 DEF Reads, TablesOK
  <1>5. ASSUME control[h] # NoTime,
               NEW t \in {send_ts[h][control[h]]} \cup {RecvTime : n \in DOMAIN recv_ts[h]},
               Record(h, control[h], t), reparsed' = [reparsed EXCEPT ![h] = TRUE]
        PROVE  Reads(h)
    <2> DEFINE x == control[h]
    <2>1. /\ send_ts' = [send_ts EXCEPT ![h][x] = t]
          /\ send_ts_cnt' = [send_ts_cnt EXCEPT ![h] = @ + 1]
          /\ control' = [control EXCEPT ![h] = x]
      BY <1>5 DEF Record
    <2>2. x \in Rows /\ send_ts[h] \in [Rows -> Rows \cup {NoTime, RecvTime}]
      BY <1>1, <1>5 DEF TablesOK
    <2>3. t \in {send_ts[h][x], RecvTime}
      OBVIOUS
    <2> HIDE DEF x
    <2>4. TablesOK'
      BY <1>1, <1>2, <2>1, <2>2, <2>3 DEF TablesOK
    <2>5. reparsed' \in [Hosts -> BOOLEAN] /\ reparsed'[h] /\ \A g \in Hosts : g # h => reparsed'[g] = reparsed[g]
      BY <1>1, <1>5, Zenon
    <2>6. /\ \A n \in Rows : send_ts'[h][n] = IF n = x THEN t ELSE send_ts[h][n]
          /\ \A g \in Hosts : g # h => send_ts'[g] = send_ts[g] /\ send_ts_cnt'[g] = send_ts_cnt[g]
      BY <1>1, <2>1, <2>2 DEF TablesOK
    <2>7. Times'
      <3> SUFFICES ASSUME NEW g \in Hosts PROVE TimesAt(g)'
        BY DEF Times
      <3>1. TimesAt(g)
        BY DEF Times
      <3>2. CASE g = h
        <4>1. \A n \in Rows : send_ts'[h][n] \in {NoTime, n, RecvTime}
          BY <2>2, <2>3, <2>6, <3>1, <3>2 DEF TimesAt
        <4> QED
          BY <2>5, <3>2, <4>1 DEF TimesAt
      <3>3. CASE g # h
        <4>1. Waiting(g)' = Waiting(g) /\ Filled(g)' = Filled(g)
          BY <1>2, <2>6, <3>3 DEF Waiting, Filled
        <4> QED
          BY <2>5, <2>6, <3>1, <3>3, <4>1 DEF TimesAt
      <3> QED
        BY <3>2, <3>3
    <2> QED
      BY <1>3, <2>1, <2>4, <2>5, <2>7 DEF Reads
  <1> QED
    BY <1>4, <1>5 DEF ReadNothing

(* extract_send_timestamps. *)
LEMMA ReadsSendTimes ==
    ASSUME HwTypeOK, Places, Times, NEW h \in Hosts, extract_send_timestamps(h), UNCHANGED <<sent, stamping>>
    PROVE  Reads(h)
  BY ReadsErrqueue, ReadsNothing DEF extract_send_timestamps

(* A step that neither sends nor receives keeps the hosts in step. *)
LEMMA LockstepKept ==
    ASSUME Lockstep, flying \subseteq [to : Hosts, n : Rows], flying' \subseteq flying,
           \A g \in Hosts : Sends(g)' = Sends(g) /\ Receives(g)' = Receives(g),
           UNCHANGED <<sent, recv_ts, hw, faults>>
    PROVE  Lockstep'
  <1> SUFFICES ASSUME faults = 0
               PROVE  /\ \A h \in Hosts : sent[h] = Sends(h)' /\ Receives(h)' <= sent[Remote(h)]
                      /\ \A d \in flying' : d.n = Receives(d.to)' /\ sent[Remote(d.to)] = Receives(d.to)' + 1
                      /\ \A h \in Hosts :
                            /\ hw[h] => Len(recv_ts[h]) = Receives(h)'
                            /\ \A n \in 1..Len(recv_ts[h]) : recv_ts[h][n] = n - 1
    BY DEF Lockstep
  <1>1. \A d \in flying' : d \in flying /\ d.to \in Hosts
    OBVIOUS
  <1> QED
    BY <1>1 DEF Lockstep

(* client_loop and server_loop read the error queue. *)
LEMMA HwExtract == ASSUME HwInv, NEW h \in Hosts, Extract(h) PROVE HwInv'
  <1>1. HwTypeOK /\ HwBounds /\ Lockstep /\ Places /\ Times /\ HwCounts
    BY CountsBound DEF HwInv
  <1>2. /\ pc[h] = "extract" /\ InRound(h) /\ extract_send_timestamps(h) /\ Advance(h)
        /\ UNCHANGED <<hw, sent, stamping, recv_ts, flying, gone, faults>>
    BY DEF Extract, InRound
  <1>3. Counted(h) /\ \A g \in Hosts : g # h => Rests(g)
    BY <1>1, <1>2, Advances
  <1>4. Reads(h)
    BY <1>1, <1>2, ReadsSendTimes
  <1>5. \A g \in Hosts : Sends(g)' = Sends(g) /\ Receives(g)' = Receives(g)
    BY <1>1, <1>2, <1>3 DEF Counted, Rests, HwCounts
  <1>6. Lockstep'
    BY <1>1, <1>2, <1>5, LockstepKept DEF HwTypeOK
  <1>7. send_ts_cnt' \in [Hosts -> 0..Packets] /\ send_ts_cnt'[h] <= Extracts(h)'
        /\ \A g \in Hosts : g # h => send_ts_cnt'[g] = send_ts_cnt[g]
    <2>1. /\ send_ts_cnt \in [Hosts -> 0..Packets] /\ send_ts_cnt[h] <= Extracts(h) /\ Packets \in Nat
          /\ Extracts(h) \in Nat /\ Extracts(h) < Packets /\ Extracts(h)' = Extracts(h) + 1
      BY <1>1, <1>2, <1>3 DEF HwTypeOK, HwBounds, BoundsAt, HwCounts, Counted
    <2>2. send_ts_cnt' = [send_ts_cnt EXCEPT ![h] = @ + 1] \/ send_ts_cnt' = send_ts_cnt
      BY <1>4 DEF Reads
    <2> QED
      BY <2>1, <2>2
  <1>8. HwTypeOK'
    BY <1>1, <1>2, <1>3, <1>4, <1>7 DEF HwTypeOK, Counted, Reads, TablesOK
  <1>9. HwBounds'
    <2> SUFFICES ASSUME NEW g \in Hosts PROVE BoundsAt(g)'
      BY <1>1, <1>2 DEF HwBounds
    <2>1. BoundsAt(g)
      BY <1>1 DEF HwBounds
    <2>2. CASE g = h
      BY <1>2, <1>3, <1>5, <1>7, <2>1, <2>2 DEF BoundsAt, Counted
    <2>3. CASE g # h
      BY <1>2, <1>3, <1>7, <2>1, <2>3 DEF BoundsAt, Rests
    <2> QED
      BY <2>2, <2>3
  <1> QED
    BY <1>4, <1>6, <1>8, <1>9 DEF HwInv, Reads

(* The loop after the rounds. *)
LEMMA HwDrain == ASSUME HwInv, NEW h \in Hosts, Drain(h) PROVE HwInv'
  <1>1. HwTypeOK /\ HwBounds /\ Lockstep /\ Places /\ Times /\ HwCounts
    BY CountsBound DEF HwInv
  <1>2. /\ pc[h] = "drain" /\ UNCHANGED <<hw, i, sent, stamping, recv_ts, flying, gone, faults>>
    BY DEF Drain
  <1>3. /\ pc' \in [Hosts -> {"send", "extract", "receive", "drain", "printed"}]
        /\ pc'[h] \in {"drain", "printed"} /\ \A g \in Hosts : g # h => pc'[g] = pc[g]
    BY <1>1, <1>2 DEF Drain, HwTypeOK
  <1>4. \A g \in Hosts : /\ Sends(g)' = Sends(g) /\ Receives(g)' = Receives(g) /\ Extracts(g)' = Extracts(g)
                         /\ InRound(g)' = InRound(g)
    <2>1. \A g \in Hosts : g # h => Rests(g)
      BY <1>2, <1>3 DEF Rests, Sends, Receives, Extracts, InRound
    <2>2. Round(h)[3] \in {"send", "receive"}
      BY Rounds, TwoHosts
    <2>3. /\ Sends(h)' = Sends(h) /\ Receives(h)' = Receives(h) /\ Extracts(h)' = Extracts(h)
          /\ InRound(h)' = InRound(h)
      BY <1>2, <1>3, <2>2 DEF Sends, Receives, Extracts, InRound
    <2> QED
      BY <2>1, <2>3 DEF Rests
  <1>5. Lockstep'
    BY <1>1, <1>2, <1>4, LockstepKept DEF HwTypeOK
  <1>6. CASE send_ts_cnt[h] < Packets
    <2>1. Reads(h) /\ pc' = pc
      BY <1>1, <1>2, <1>6, ReadsSendTimes DEF Drain
    <2>2. send_ts_cnt' \in [Hosts -> 0..Packets] /\ \A g \in Hosts : g # h => send_ts_cnt'[g] = send_ts_cnt[g]
      <3>1. /\ send_ts_cnt \in [Hosts -> 0..Packets] /\ Packets \in Nat
            /\ send_ts_cnt' = [send_ts_cnt EXCEPT ![h] = @ + 1] \/ send_ts_cnt' = send_ts_cnt
        BY <1>1, <2>1, PacketsAssumption DEF Reads, HwTypeOK
      <3> QED
        BY <1>6, <3>1
    <2>3. HwTypeOK'
      BY <1>1, <1>2, <2>1, <2>2 DEF HwTypeOK, Reads, TablesOK
    <2>4. HwBounds'
      BY <1>1, <1>2, <1>4, <2>1, <2>2 DEF HwBounds, BoundsAt, InRound
    <2> QED
      BY <1>5, <2>1, <2>3, <2>4 DEF HwInv, Reads
  <1>7. CASE ~(send_ts_cnt[h] < Packets)
    <2>1. UNCHANGED <<control, send_ts, send_ts_cnt, reparsed, errq>>
      BY <1>7 DEF Drain, tables
    <2>2. send_ts_cnt[h] = Packets
      BY <1>1, <1>7, PacketsAssumption DEF HwTypeOK
    <2>3. HwTypeOK'
      BY <1>1, <1>2, <1>3, <2>1 DEF HwTypeOK
    <2>4. HwBounds'
      BY <1>1, <1>2, <1>3, <1>4, <2>1, <2>2 DEF HwBounds, BoundsAt
    <2>5. \A g \in Hosts : Waiting(g)' = Waiting(g) /\ Filled(g)' = Filled(g)
      BY <2>1 DEF Waiting, Filled
    <2>6. Places' /\ Times'
      BY <1>1, <1>2, <2>1, <2>5 DEF Places, PlacesAt, Times, TimesAt
    <2> QED
      BY <1>5, <2>3, <2>4, <2>6 DEF HwInv
  <1> QED
    BY <1>6, <1>7

(* A host sends when the other one has received all it sent before. *)
LEMMA SendsNext ==
    ASSUME HwInv, NEW h \in Hosts, pc[h] = "send", faults = 0
    PROVE  sent[h] = Receives(Remote(h))
  <1>1. HwCounts /\ Lockstep
    BY CountsBound DEF HwInv
  <1>2. /\ Sends(Client) \in Nat /\ Receives(Client) \in Nat /\ Sends(Client) <= Receives(Client) + 1
        /\ Sends(Server) \in Nat /\ Receives(Server) \in Nat /\ Sends(Server) <= Receives(Server)
    BY <1>1, TwoHosts DEF HwCounts
  <1>3. /\ sent[Client] = Sends(Client) /\ Receives(Client) <= sent[Server]
        /\ sent[Server] = Sends(Server) /\ Receives(Server) <= sent[Client]
    BY <1>1, TwoHosts DEF Lockstep, Remote
  <1>4. CASE h = Client
    <2>1. Sends(Client) = Receives(Client)
      BY <1>1, <1>4, TwoHosts DEF HwCounts
    <2>2. sent[Client] = Receives(Server)
      BY <1>2, <1>3, <2>1
    <2> QED
      BY <1>4, <2>2 DEF Remote
  <1>5. CASE h = Server
    <2>1. Receives(Server) = Sends(Server) + 1
      BY <1>1, <1>5, TwoHosts DEF HwCounts
    <2>2. sent[Server] = Receives(Client)
      BY <1>2, <1>3, <2>1
    <2> QED
      BY <1>5, <2>2, TwoHosts DEF Remote
  <1> QED
    BY <1>4, <1>5, TwoHosts

(* A datagram is sent. *)
LEMMA HwSend == ASSUME HwInv, NEW h \in Hosts, Send(h) PROVE HwInv'
  <1> DEFINE x == sent[h]
             r == Remote(h)
             d0 == [to |-> Remote(h), n |-> sent[h]]
  <1>1. HwTypeOK /\ HwBounds /\ Lockstep /\ Places /\ Times /\ HwCounts
    BY CountsBound DEF HwInv
  <1>2. /\ pc[h] = "send" /\ InRound(h) /\ Advance(h) /\ flying' = flying \cup {d0}
        /\ stamping' \in {[stamping EXCEPT ![h] = @ \cup {x}], stamping}
        /\ sent' = [sent EXCEPT ![h] = @ + 1]
        /\ UNCHANGED <<hw, errq, control, send_ts, send_ts_cnt, reparsed, recv_ts, gone, faults>>
    BY DEF Send, InRound, tables
  <1>3. Counted(h) /\ \A g \in Hosts : g # h => Rests(g)
    BY <1>1, <1>2, Advances
  <1>4. /\ sent \in [Hosts -> 0..Packets] /\ Packets \in Nat /\ x \in Nat /\ x <= Sends(h)
        /\ Sends(h) \in Nat /\ Sends(h) < Packets
        /\ flying \subseteq [to : Hosts, n : Rows] /\ stamping \in [Hosts -> SUBSET Rows]
    BY <1>1, <1>2 DEF HwTypeOK, HwBounds, BoundsAt, HwCounts
  <1>5. x \in Rows /\ x + 1 \in 0..Packets
    BY <1>4 DEF Rows
  <1>6. /\ sent' \in [Hosts -> 0..Packets] /\ sent'[h] = x + 1
        /\ \A g \in Hosts : g # h => sent'[g] = sent[g]
    BY <1>2, <1>4, <1>5
  <1>7. /\ stamping' \in [Hosts -> SUBSET Rows] /\ stamping'[h] \subseteq stamping[h] \cup {x}
        /\ \A g \in Hosts : g # h => stamping'[g] = stamping[g]
    BY <1>2, <1>4, <1>5
  <1>8. r \in Hosts /\ r # h /\ Remote(r) = h /\ \A g \in Hosts : g = h \/ g = r
    BY TwoHosts
  <1>9. flying' \subseteq [to : Hosts, n : Rows]
    BY <1>2, <1>4, <1>5, <1>8
  <1>10. /\ Sends(h)' = Sends(h) + 1 /\ Receives(h)' = Receives(h) /\ Extracts(h)' = Extracts(h)
         /\ Receives(r)' = Receives(r) /\ Sends(r)' = Sends(r)
    BY <1>1, <1>2, <1>3, <1>8 DEF Counted, Rests, HwCounts
  <1> HIDE DEF x
  <1>11. HwTypeOK'
    BY <1>1, <1>2, <1>3, <1>6, <1>7, <1>9 DEF HwTypeOK, Counted
  <1>12. HwBounds'
    <2> SUFFICES ASSUME NEW g \in Hosts PROVE BoundsAt(g)'
      BY <1>1, <1>2 DEF HwBounds
    <2>1. BoundsAt(g)
      BY <1>1 DEF HwBounds
    <2>2. CASE g = h
      BY <1>2, <1>3, <1>4, <1>6, <1>10, <2>1, <2>2 DEF BoundsAt, Counted
    <2>3. CASE g # h
      BY <1>2, <1>3, <1>6, <2>1, <2>3 DEF BoundsAt, Rests
    <2> QED
      BY <2>2, <2>3
  <1>13. Lockstep'
    <2> SUFFICES ASSUME faults = 0
                 PROVE  /\ \A g \in Hosts : sent'[g] = Sends(g)' /\ Receives(g)' <= sent'[Remote(g)]
                        /\ \A d \in flying' : d.n = Receives(d.to)' /\ sent'[Remote(d.to)] = Receives(d.to)' + 1
                        /\ \A g \in Hosts :
                              /\ hw[g] => Len(recv_ts[g]) = Receives(g)'
                              /\ \A n \in 1..Len(recv_ts[g]) : recv_ts[g][n] = n - 1
      BY <1>2 DEF Lockstep
    <2>1. x = Receives(r) /\ x = Sends(h) /\ Receives(h) <= sent[r] /\ sent[r] = Sends(r)
      BY <1>1, <1>2, <1>8, SendsNext DEF Lockstep, x
    <2>2. \A d \in flying : d.to = h /\ d.n = Receives(h) /\ sent[r] = Receives(h) + 1
      <3>1. \A d \in flying : d.to \in Hosts
        BY <1>4
      <3>2. \A d \in flying : d.to # r
        <4> SUFFICES ASSUME NEW d \in flying, d.to = r PROVE FALSE
          OBVIOUS
        <4>1. sent[h] = Receives(r) + 1
          BY <1>1, <1>8 DEF Lockstep
        <4> QED
          BY <1>4, <2>1, <4>1 DEF x
      <3> QED
        BY <1>1, <1>8, <3>1, <3>2 DEF Lockstep
    <2>3. sent'[r] = sent[r]
      BY <1>6, <1>8
    <2>4. \A g \in Hosts : sent'[g] = Sends(g)' /\ Receives(g)' <= sent'[Remote(g)]
      <3>1. sent'[h] = Sends(h)' /\ Receives(h)' <= sent'[r]
        BY <1>6, <1>10, <2>1, <2>3
      <3>2. sent'[r] = Sends(r)' /\ Receives(r)' <= sent'[h]
        BY <1>4, <1>6, <1>10, <2>1, <2>3
      <3> QED
        BY <1>8, <3>1, <3>2
    <2>5. \A d \in flying' : d.n = Receives(d.to)' /\ sent'[Remote(d.to)] = Receives(d.to)' + 1
      <3>1. d0.n = Receives(d0.to)' /\ sent'[Remote(d0.to)] = Receives(d0.to)' + 1
        BY <1>6, <1>8, <1>10, <2>1 DEF x
      <3>2. \A d \in flying : d.n = Receives(d.to)' /\ sent'[Remote(d.to)] = Receives(d.to)' + 1
        BY <1>10, <2>2, <2>3
      <3> QED
        BY <1>2, <3>1, <3>2
    <2>6. \A g \in Hosts :
             /\ hw[g] => Len(recv_ts[g]) = Receives(g)'
             /\ \A n \in 1..Len(recv_ts[g]) : recv_ts[g][n] = n - 1
      BY <1>1, <1>8, <1>10 DEF Lockstep
    <2> QED
      BY <2>4, <2>5, <2>6
  <1>14. \A g \in Hosts : Waiting(g)' = Waiting(g) /\ Filled(g)' = Filled(g)
    BY <1>2 DEF Waiting, Filled
  <1>15. \A g \in Hosts : \A n \in Rows : n < sent[g] => n < sent'[g] /\ (n \in stamping'[g] => n \in stamping[g])
    <2>1. \A n \in Rows : n < x => n < x + 1 /\ n # x
      BY <1>4 DEF Rows
    <2>2. \A n \in Rows : n < sent[h] => n < sent'[h] /\ (n \in stamping'[h] => n \in stamping[h])
      BY <1>6, <1>7, <2>1 DEF x
    <2> QED
      BY <1>6, <1>7, <2>2
  <1>16. \A g \in Hosts : Waiting(g) \subseteq Rows /\ Filled(g) \subseteq Rows
    BY <1>1, ElementOfSeq DEF Waiting, Filled, HwTypeOK
  <1>17. Places'
    <2> SUFFICES ASSUME NEW g \in Hosts PROVE PlacesAt(g)'
      BY DEF Places
    <2>1. PlacesAt(g)
      BY <1>1 DEF Places
    <2>2. ASSUME NEW n \in stamping'[g] PROVE n < sent'[g] /\ n \notin Waiting(g)
      <3>1. CASE n \in stamping[g]
        BY <1>4, <1>15, <2>1, <3>1 DEF PlacesAt
      <3>2. CASE n \notin stamping[g]
        <4>1. g = h /\ n = x
          BY <1>7, <2>2, <3>2
        <4>2. x \notin Waiting(h)
          BY <1>4, <2>1, <4>1 DEF PlacesAt, x
        <4> QED
          BY <1>4, <1>6, <4>1, <4>2
      <3> QED
        BY <3>1, <3>2
    <2> QED
      BY <1>2, <1>14, <1>15, <1>16, <2>1, <2>2 DEF PlacesAt
  <1>18. Times'
    BY <1>1, <1>2, <1>14, <1>15, <1>16 DEF Times, TimesAt
  <1> QED
    BY <1>11, <1>12, <1>13, <1>17, <1>18 DEF HwInv

(* A datagram is received. *)
LEMMA HwReceive == ASSUME HwInv, NEW h \in Hosts, Receive(h) PROVE HwInv'
  <1>1. HwTypeOK /\ HwBounds /\ Lockstep /\ Places /\ Times /\ HwCounts
    BY CountsBound DEF HwInv
  <1>2. PICK e \in flying : e.to = h /\ flying' = flying \ {e} /\ extract_recv_timestamp(h, e.n)
    BY DEF Receive
  <1>3. /\ pc[h] = "receive" /\ InRound(h) /\ Advance(h)
        /\ UNCHANGED <<hw, sent, stamping, errq, control, send_ts, send_ts_cnt, reparsed, gone, faults>>
    BY DEF Receive, InRound, tables
  <1>4. Counted(h) /\ \A g \in Hosts : g # h => Rests(g)
    BY <1>1, <1>3, Advances
  <1>5. /\ flying \subseteq [to : Hosts, n : Rows] /\ e.n \in Rows /\ Packets \in Nat
        /\ recv_ts \in [Hosts -> Seq(Rows)] /\ recv_ts[h] \in Seq(Rows) /\ Len(recv_ts[h]) \in Nat
        /\ Receives(h) \in Nat /\ Receives(h) < Packets /\ Len(recv_ts[h]) <= Receives(h)
    <2>1. flying \subseteq [to : Hosts, n : Rows] /\ recv_ts \in [Hosts -> Seq(Rows)]
      BY <1>1 DEF HwTypeOK, HwBounds
    <2>2. e.n \in Rows /\ recv_ts[h] \in Seq(Rows) /\ Len(recv_ts[h]) \in Nat
      BY <1>2, <2>1, LenProperties
    <2>3. /\ Receives(h) \in Nat /\ Receives(h) < Packets /\ Len(recv_ts[h]) <= Receives(h)
          /\ Packets \in Nat
      BY <1>1, <1>3 DEF HwBounds, BoundsAt, HwCounts
    <2> QED
      BY <2>1, <2>2, <2>3
  <1>6. /\ Receives(h)' = Receives(h) + 1 /\ Extracts(h)' = Extracts(h)
        /\ \A g \in Hosts : Sends(g)' = Sends(g)
        /\ \A g \in Hosts : g # h => Receives(g)' = Receives(g)
    BY <1>1, <1>3, <1>4 DEF Counted, Rests, HwCounts
  <1>7. /\ recv_ts' \in [Hosts -> Seq(Rows)]
        /\ \A g \in Hosts : g # h => recv_ts'[g] = recv_ts[g]
        /\ recv_ts'[h] = IF hw[h] THEN Append(recv_ts[h], e.n) ELSE recv_ts[h]
    <2>1. Append(recv_ts[h], e.n) \in Seq(Rows)
      BY <1>5, AppendProperties
    <2> QED
      BY <1>2, <1>5, <2>1 DEF extract_recv_timestamp
  <1>8. /\ Len(Append(recv_ts[h], e.n)) = Len(recv_ts[h]) + 1
        /\ \A n \in 1..Len(recv_ts[h]) : Append(recv_ts[h], e.n)[n] = recv_ts[h][n]
        /\ Append(recv_ts[h], e.n)[Len(recv_ts[h]) + 1] = e.n
    BY <1>5, AppendProperties
  <1>9. Len(recv_ts'[h]) <= Receives(h)' /\ Receives(h)' \in 0..Packets
    BY <1>5, <1>6, <1>7, <1>8
  <1>10. HwTypeOK'
    <2>1. \A g \in Hosts : recv_ts'[g] \in Seq(Rows) /\ Len(recv_ts'[g]) <= Packets
      <3>1. Len(recv_ts'[h]) <= Packets
        <4>1. Len(recv_ts'[h]) \in Nat
          BY <1>7, LenProperties
        <4> QED
          BY <1>5, <1>9, <4>1
      <3> QED
        BY <1>1, <1>7, <3>1 DEF HwTypeOK
    <2>2. flying' \subseteq [to : Hosts, n : Rows]
      BY <1>2, <1>5
    <2> QED
      BY <1>1, <1>3, <1>4, <2>1, <2>2 DEF HwTypeOK, Counted
  <1>11. HwBounds'
    <2> SUFFICES ASSUME NEW g \in Hosts PROVE BoundsAt(g)'
      BY <1>7 DEF HwBounds
    <2>1. BoundsAt(g)
      BY <1>1 DEF HwBounds
    <2>2. CASE g = h
      BY <1>3, <1>4, <1>6, <1>9, <2>1, <2>2 DEF BoundsAt, Counted
    <2>3. CASE g # h
      BY <1>3, <1>4, <1>7, <2>1, <2>3 DEF BoundsAt, Rests
    <2> QED
      BY <2>2, <2>3
  <1>12. Lockstep'
    <2> SUFFICES ASSUME faults = 0
                 PROVE  /\ \A g \in Hosts : sent[g] = Sends(g)' /\ Receives(g)' <= sent[Remote(g)]
                        /\ \A d \in flying' : d.n = Receives(d.to)' /\ sent[Remote(d.to)] = Receives(d.to)' + 1
                        /\ \A g \in Hosts :
                              /\ hw[g] => Len(recv_ts'[g]) = Receives(g)'
                              /\ \A n \in 1..Len(recv_ts'[g]) : recv_ts'[g][n] = n - 1
      BY <1>3 DEF Lockstep
    <2>1. e.n = Receives(h) /\ sent[Remote(h)] = Receives(h) + 1
      BY <1>1, <1>2 DEF Lockstep
    <2>2. \A g \in Hosts : sent[g] = Sends(g)' /\ Receives(g)' <= sent[Remote(g)]
      BY <1>1, <1>5, <1>6, <2>1 DEF Lockstep
    <2>3. \A d \in flying' : d.to \in Hosts /\ d.to # h
      <3> SUFFICES ASSUME NEW d \in flying, d.to = h PROVE d = e
        BY <1>2, <1>5
      <3>1. d.n = e.n
        BY <1>1, <2>1 DEF Lockstep
      <3> QED
        BY <1>2, <1>5, <3>1
    <2>4. \A d \in flying' : d.n = Receives(d.to)' /\ sent[Remote(d.to)] = Receives(d.to)' + 1
      BY <1>1, <1>2, <1>6, <2>3 DEF Lockstep
    <2>5. ASSUME NEW g \in Hosts
          PROVE  /\ hw[g] => Len(recv_ts'[g]) = Receives(g)'
                 /\ \A n \in 1..Len(recv_ts'[g]) : recv_ts'[g][n] = n - 1
      <3>1. /\ hw[g] => Len(recv_ts[g]) = Receives(g)
            /\ \A n \in 1..Len(recv_ts[g]) : recv_ts[g][n] = n - 1
        BY <1>1 DEF Lockstep
      <3>2. CASE g # h
        BY <1>6, <1>7, <3>1, <3>2
      <3>3. CASE g = h /\ hw[h]
        <4>1. recv_ts'[h] = Append(recv_ts[h], e.n) /\ Len(recv_ts[h]) = Receives(h)
          BY <1>7, <3>1, <3>3
        <4>2. /\ Len(recv_ts'[h]) = Receives(h) + 1 /\ recv_ts'[h][Receives(h) + 1] = Receives(h)
              /\ \A n \in 1..Receives(h) : recv_ts'[h][n] = recv_ts[h][n]
          BY <1>8, <2>1, <4>1
        <4>3. \A n \in 1..Receives(h) : recv_ts[h][n] = n - 1
          BY <3>1, <3>3, <4>1
        <4>4. Receives(h) \in Nat
          BY <1>5
        <4>5. ASSUME NEW n \in 1..Len(recv_ts'[h]) PROVE recv_ts'[h][n] = n - 1
          BY <4>2, <4>3, <4>4
        <4> QED
          BY <1>6, <3>3, <4>2, <4>5
      <3>4. CASE g = h /\ ~hw[h]
        BY <1>7, <3>1, <3>4
      <3> QED
        BY <3>2, <3>3, <3>4
    <2> QED
      BY <2>2, <2>4, <2>5
  <1>13. \A g \in Hosts : Waiting(g)' = Waiting(g) /\ Filled(g)' = Filled(g)
    BY <1>3 DEF Waiting, Filled
  <1>14. Places' /\ Times'
    BY <1>1, <1>3, <1>13 DEF Places, PlacesAt, Times, TimesAt
  <1> QED
    BY <1>10, <1>11, <1>12, <1>14 DEF HwInv

(* A call fails. *)
LEMMA HwCallFails == ASSUME HwInv, NEW h \in Hosts, CallFails(h) PROVE HwInv'
  <1>1. HwTypeOK /\ HwBounds /\ Places /\ Times /\ HwCounts
    BY CountsBound DEF HwInv
  <1>2. /\ InRound(h) /\ Advance(h) /\ faults < MaxFaults /\ faults' = faults + 1
        /\ UNCHANGED <<hw, sent, stamping, errq, control, send_ts, send_ts_cnt, reparsed, recv_ts,
                       flying, gone>>
    BY DEF CallFails, InRound, tables
  <1>3. Counted(h) /\ \A g \in Hosts : g # h => Rests(g)
    BY <1>1, <1>2, Advances
  <1>4. faults' \in 0..MaxFaults /\ faults' # 0
    BY <1>1, <1>2, FaultsAssumption DEF HwTypeOK
  <1>5. HwTypeOK'
    BY <1>1, <1>2, <1>3, <1>4 DEF HwTypeOK, Counted
  <1>6. /\ Sends(h)' \in {Sends(h), Sends(h) + 1} /\ Receives(h)' \in {Receives(h), Receives(h) + 1}
        /\ Extracts(h)' \in {Extracts(h), Extracts(h) + 1}
        /\ Sends(h) \in Nat /\ Receives(h) \in Nat /\ Extracts(h) \in Nat
        /\ sent[h] \in Nat /\ Len(recv_ts[h]) \in Nat /\ send_ts_cnt[h] \in Nat
    BY <1>1, <1>3, LenProperties DEF Counted, HwCounts, HwTypeOK
  <1>7. HwBounds'
    <2> SUFFICES ASSUME NEW g \in Hosts PROVE BoundsAt(g)'
      BY <1>1, <1>2 DEF HwBounds
    <2>1. BoundsAt(g)
      BY <1>1 DEF HwBounds
    <2>2. CASE g = h
      BY <1>2, <1>3, <1>6, <2>1, <2>2 DEF BoundsAt, Counted
    <2>3. CASE g # h
      BY <1>2, <1>3, <2>1, <2>3 DEF BoundsAt, Rests
    <2> QED
      BY <2>2, <2>3
  <1>8. Lockstep'
    BY <1>4 DEF Lockstep
  <1>9. \A g \in Hosts : Waiting(g)' = Waiting(g) /\ Filled(g)' = Filled(g)
    BY <1>2 DEF Waiting, Filled
  <1>10. Places' /\ Times'
    BY <1>1, <1>2, <1>9 DEF Places, PlacesAt, Times, TimesAt
  <1> QED
    BY <1>5, <1>7, <1>8, <1>10 DEF HwInv

(* The card knows when a datagram was sent. *)
LEMMA HwStamp == ASSUME HwInv, NEW h \in Hosts, Stamp(h) PROVE HwInv'
  <1>1. HwTypeOK /\ HwBounds /\ Lockstep /\ Places /\ Times
    BY DEF HwInv
  <1>2. PICK x \in stamping[h] :
           /\ stamping' = [stamping EXCEPT ![h] = @ \ {x}]
           /\ errq' = [errq EXCEPT ![h] = Append(@, x)]
    BY DEF Stamp
  <1>3. UNCHANGED <<hw, pc, i, sent, control, send_ts, send_ts_cnt, reparsed, recv_ts, flying, gone, faults>>
    BY DEF Stamp, tables
  <1>4. /\ errq \in [Hosts -> Seq(Rows)] /\ stamping \in [Hosts -> SUBSET Rows]
        /\ x \in Rows /\ errq[h] \in Seq(Rows) /\ PlacesAt(h)
    BY <1>1 DEF HwTypeOK, Places
  <1>5. /\ Append(errq[h], x) \in Seq(Rows)
        /\ \A k, l \in 1..Len(Append(errq[h], x)) : Append(errq[h], x)[k] = Append(errq[h], x)[l] => k = l
        /\ {Append(errq[h], x)[k] : k \in 1..Len(Append(errq[h], x))} = Waiting(h) \cup {x}
    <2>1. /\ \A k \in 1..Len(errq[h]) : errq[h][k] # x
          /\ \A k, l \in 1..Len(errq[h]) : errq[h][k] = errq[h][l] => k = l
      BY <1>4 DEF PlacesAt, Waiting
    <2> QED
      BY <1>4, <2>1, ErrqAppend, Zenon DEF Waiting
  <1>6. /\ errq'[h] = Append(errq[h], x) /\ errq' \in [Hosts -> Seq(Rows)]
        /\ \A g \in Hosts : g # h => errq'[g] = errq[g]
    BY <1>2, <1>4, <1>5
  <1>7. /\ stamping'[h] = stamping[h] \ {x} /\ stamping' \in [Hosts -> SUBSET Rows]
        /\ \A g \in Hosts : g # h => stamping'[g] = stamping[g]
    BY <1>2, <1>4
  <1>8. /\ Waiting(h)' = Waiting(h) \cup {x}
        /\ \A g \in Hosts : g # h => Waiting(g)' = Waiting(g)
        /\ \A g \in Hosts : Filled(g)' = Filled(g)
    BY <1>3, <1>5, <1>6 DEF Waiting, Filled
  <1>9. HwTypeOK'
    BY <1>1, <1>3, <1>6, <1>7 DEF HwTypeOK
  <1>10. \A g \in Hosts : /\ Sends(g)' = Sends(g) /\ Receives(g)' = Receives(g) /\ Extracts(g)' = Extracts(g)
                          /\ InRound(g)' = InRound(g)
    BY <1>3 DEF Sends, Receives, Extracts, InRound
  <1>11. HwBounds'
    BY <1>1, <1>3, <1>10 DEF HwBounds, BoundsAt
  <1>12. Lockstep'
    BY <1>1, <1>3, <1>10, LockstepKept DEF HwTypeOK
  <1>13. Places'
    <2> SUFFICES ASSUME NEW g \in Hosts PROVE PlacesAt(g)'
      BY DEF Places
    <2>1. PlacesAt(g)
      BY <1>1 DEF Places
    <2>2. CASE g = h
      <3>1. \A m, n \in 1..Len(errq'[h]) : errq'[h][m] = errq'[h][n] => m = n
        BY <1>5, <1>6, Zenon
      <3>2. /\ \A n \in stamping'[h] : n < sent'[h] /\ n \notin Waiting(h)'
            /\ \A n \in Waiting(h)' : n < sent'[h]
        BY <1>3, <1>4, <1>7, <1>8 DEF PlacesAt
      <3> QED
        BY <2>2, <3>1, <3>2 DEF PlacesAt
    <2>3. CASE g # h
      BY <1>3, <1>6, <1>7, <1>8, <2>1, <2>3 DEF PlacesAt
    <2> QED
      BY <2>2, <2>3
  <1>14. Times'
    <2> SUFFICES ASSUME NEW g \in Hosts PROVE TimesAt(g)'
      BY DEF Times
    <2>1. TimesAt(g)
      BY <1>1 DEF Times
    <2>2. CASE g = h
      BY <1>3, <1>7, <1>8, <2>1, <2>2 DEF TimesAt
    <2>3. CASE g # h
      BY <1>3, <1>7, <1>8, <2>1, <2>3 DEF TimesAt
    <2> QED
      BY <2>2, <2>3
  <1> QED
    BY <1>9, <1>11, <1>12, <1>13, <1>14 DEF HwInv

(* Steps that leave the two hosts alone: a datagram is lost, or nothing    *)
(* happens.                                                                *)
LEMMA HwElsewhere ==
    ASSUME HwInv, flying' \subseteq flying, gone' \in BOOLEAN,
           UNCHANGED <<hw, pc, i, sent, stamping, errq, control, send_ts, send_ts_cnt, reparsed,
                       recv_ts, faults>>
    PROVE  HwInv'
  <1>1. HwTypeOK /\ HwBounds /\ Lockstep /\ Places /\ Times
    BY DEF HwInv
  <1>2. HwTypeOK'
    BY <1>1 DEF HwTypeOK
  <1>3. \A g \in Hosts : /\ Sends(g)' = Sends(g) /\ Receives(g)' = Receives(g) /\ Extracts(g)' = Extracts(g)
                         /\ InRound(g)' = InRound(g) /\ Waiting(g)' = Waiting(g) /\ Filled(g)' = Filled(g)
    BY DEF Sends, Receives, Extracts, InRound, Waiting, Filled
  <1>4. HwBounds'
    BY <1>1, <1>3 DEF HwBounds, BoundsAt
  <1>5. Lockstep'
    BY <1>1, <1>3, LockstepKept DEF HwTypeOK
  <1>6. Places' /\ Times'
    BY <1>1, <1>3 DEF Places, PlacesAt, Times, TimesAt
  <1> QED
    BY <1>2, <1>4, <1>5, <1>6 DEF HwInv

(* Every step of the hosts keeps their invariant. *)
LEMMA HwStep == ASSUME HwInv, HwNext PROVE HwInv'
  <1>1. CASE LoseDatagram
    BY <1>1, HwElsewhere DEF LoseDatagram, tables
  <1>2. CASE \E h \in Hosts : start_program(h) \/ CallFails(h) \/ Stamp(h)
    BY <1>2, HwSend, HwReceive, HwExtract, HwDrain, HwCallFails, HwStamp DEF start_program
  <1> QED
    BY <1>1, <1>2 DEF HwNext

(* A step of the other program. *)
LEMMA HwStutter == ASSUME HwInv, UNCHANGED hwVars PROVE HwInv'
  BY HwElsewhere DEF HwInv, HwTypeOK, hwVars

(* The beginning. *)
LEMMA HwStarts == HwInit => HwInv
  <1> SUFFICES ASSUME HwInit PROVE HwInv
    OBVIOUS
  <1>1. <<>> \in Seq(Rows) /\ Len(<<>>) = 0
    BY EmptySeq
  <1>2. Packets \in Nat \ {0}
    BY PacketsAssumption
  <1>3. /\ errq \in [Hosts -> Seq(Rows)] /\ recv_ts \in [Hosts -> Seq(Rows)]
        /\ \A h \in Hosts : errq[h] = <<>> /\ recv_ts[h] = <<>> /\ stamping[h] = {}
    BY <1>1 DEF HwInit
  <1>4. /\ control \in [Hosts -> Rows \cup {NoTime}]
        /\ send_ts \in [Hosts -> [Rows -> Rows \cup {NoTime, RecvTime}]]
        /\ \A h \in Hosts, n \in Rows : send_ts[h][n] = NoTime
    BY DEF HwInit
  <1>5. /\ i \in [Hosts -> 0..Packets] /\ sent \in [Hosts -> 0..Packets] /\ send_ts_cnt \in [Hosts -> 0..Packets]
        /\ \A h \in Hosts : i[h] = 0 /\ sent[h] = 0 /\ send_ts_cnt[h] = 0
    BY <1>2 DEF HwInit
  <1>6. /\ pc \in [Hosts -> {"send", "extract", "receive", "drain", "printed"}]
        /\ pc[Client] = "send" /\ pc[Server] = "receive"
    BY TwoHosts DEF HwInit
  <1>7. reparsed \in [Hosts -> BOOLEAN] /\ hw \in [Hosts -> BOOLEAN]
    BY Zenon DEF HwInit
  <1>8. HwTypeOK
    <2>1. \A h \in Hosts : recv_ts[h] \in Seq(Rows) /\ Len(recv_ts[h]) <= Packets
      BY <1>1, <1>2, <1>3
    <2>2. stamping \in [Hosts -> SUBSET Rows] /\ flying = {} /\ gone = FALSE /\ faults \in 0..MaxFaults
      BY FaultsAssumption DEF HwInit
    <2> QED
      BY <1>3, <1>4, <1>5, <1>6, <1>7, <2>1, <2>2 DEF HwTypeOK
  <1>9. \A h \in Hosts : Sends(h) = 0 /\ Receives(h) = 0 /\ Extracts(h) = 0 /\ InRound(h)
    <2>1. Sends(Client) = 0 /\ Receives(Client) = 0 /\ Extracts(Client) = 0 /\ InRound(Client)
      BY <1>5, <1>6, Rounds, TwoHosts DEF Sends, Receives, Extracts, InRound
    <2>2. Sends(Server) = 0 /\ Receives(Server) = 0 /\ Extracts(Server) = 0 /\ InRound(Server)
      BY <1>5, <1>6, Rounds, TwoHosts DEF Sends, Receives, Extracts, InRound
    <2> QED
      BY <2>1, <2>2, TwoHosts
  <1>10. HwBounds
    BY <1>1, <1>2, <1>3, <1>5, <1>9 DEF HwBounds, BoundsAt, InRound
  <1>11. Lockstep
    <2>1. flying = {}
      BY DEF HwInit
    <2> QED
      BY <1>1, <1>3, <1>5, <1>9, <2>1, TwoHosts DEF Lockstep
  <1>12. \A h \in Hosts : Waiting(h) = {} /\ Filled(h) = {}
    BY <1>1, <1>3, <1>4 DEF Waiting, Filled
  <1>13. Places
    BY <1>1, <1>3, <1>12 DEF Places, PlacesAt
  <1>14. Times
    <2>1. NoTime # RecvTime
      BY DEF NoTime, RecvTime
    <2> QED
      BY <1>4, <1>5, <1>12, <2>1, FS_EmptySet DEF Times, TimesAt
  <1> QED
    BY <1>8, <1>10, <1>11, <1>13, <1>14 DEF HwInv

-----------------------------------------------------------------------------
(* The theorems. *)

(* The invariants of both programs hold whichever experiment is started. *)
THEOREM SocketInvariant == FairSpec => []SocketInv
  <1>1. Init => SocketInv
    BY UdpStarts, HwStarts DEF Init, SocketInv
  <1>2. SocketInv /\ [Next]_vars => SocketInv'
    <2> SUFFICES ASSUME SocketInv, [Next]_vars PROVE SocketInv'
      OBVIOUS
    <2>1. CASE UdpNext /\ UNCHANGED hwVars
      BY <2>1, UdpStep, HwStutter DEF SocketInv
    <2>2. CASE HwNext /\ UNCHANGED udpVars
      BY <2>2, UdpStutter, HwStep DEF SocketInv
    <2>3. CASE UNCHANGED vars
      BY <2>3, UdpStutter, HwStutter DEF SocketInv, vars
    <2> QED
      BY <2>1, <2>2, <2>3 DEF Next
  <1> QED
    BY <1>1, <1>2, PTL DEF FairSpec

(* The variables of no-bypass/main.c, pp_pure.c and hwts.cpp keep their    *)
(* types; in particular no count of hwts.cpp passes the rows of its tables.*)
THEOREM SocketTypes == FairSpec => []TypeOK
  <1>1. SocketInv => TypeOK
    BY DEF SocketInv, UdpInv, HwInv, TypeOK
  <1> QED
    BY <1>1, SocketInvariant, PTL

(* The thread of main.c and pp_pure.c does not meet a closed socket, but   *)
(* for an interruption or a call that failed in main.c.                    *)
THEOREM UdpSocketOpen == FairSpec => []SocketOpen
  <1>1. SocketInv => SocketOpen
    BY DEF SocketInv, UdpInv, UdpTypeOK, Joined, SocketOpen
  <1> QED
    BY <1>1, SocketInvariant, PTL

(* Row n of hwts.cpp's table of receive times is about datagram n. *)
THEOREM HwRowsAligned == FairSpec => []RowsAligned
  <1>1. SocketInv => RowsAligned
    <2> SUFFICES ASSUME SocketInv, faults = 0, NEW h \in Hosts, NEW n \in DOMAIN recv_ts[h]
                 PROVE  recv_ts[h][n] = n - 1
      BY DEF RowsAligned
    <2>1. recv_ts[h] \in Seq(Rows) /\ \A m \in 1..Len(recv_ts[h]) : recv_ts[h][m] = m - 1
      BY DEF SocketInv, HwInv, HwTypeOK, Lockstep
    <2>2. DOMAIN recv_ts[h] = 1..Len(recv_ts[h])
      BY <2>1, LenProperties
    <2> QED
      BY <2>1, <2>2
  <1> QED
    BY <1>1, SocketInvariant, PTL

(* Every row of hwts.cpp's table of send times has its own send time when  *)
(* it is printed, unless an old record was read again.                     *)
THEOREM HwSendTimesComplete == FairSpec => []SendTimesComplete
  <1>1. SocketInv => SendTimesComplete
    <2> SUFFICES ASSUME SocketInv, NEW h \in Hosts, NEW n \in Rows
                 PROVE  /\ send_ts[h][n] \in {NoTime, n, RecvTime}
                        /\ (pc[h] = "printed" /\ ~reparsed[h]) => send_ts[h][n] = n
      BY DEF SendTimesComplete
    <2>1. TimesAt(h) /\ BoundsAt(h)
      BY DEF SocketInv, HwInv, Times, HwBounds
    <2>2. ASSUME pc[h] = "printed", ~reparsed[h] PROVE n \in Filled(h)
      <3>1. Cardinality(Filled(h)) = Packets
        BY <2>1, <2>2 DEF TimesAt, BoundsAt
      <3>2. IsFiniteSet(Rows) /\ Cardinality(Rows) = Packets
        <4>1. 0 \in Int /\ Packets - 1 \in Int /\ ~(0 > Packets - 1) /\ Packets - 1 - 0 + 1 = Packets
          BY PacketsAssumption
        <4> QED
          BY <4>1, FS_Interval DEF Rows
      <3>3. Filled(h) \in SUBSET Rows
        BY DEF Filled
      <3>4. Filled(h) = Rows
        BY <3>1, <3>2, <3>3, FS_Subset
      <3> QED
        BY <3>4
    <2> QED
      BY <2>1, <2>2 DEF TimesAt, Filled
  <1> QED
    BY <1>1, SocketInvariant, PTL
=============================================================================
