-------------------------- MODULE XdpStartupProofs --------------------------
(***************************************************************************)
(* Theorems about the start of the XDP experiments (XdpLoading, Exchange,  *)
(* XdpStartup) for every number of runs and faults.                        *)
(*                                                                         *)
(* Loading: the map can hold old payloads only while the program that      *)
(* fills it is pinned, so attach_xdp, which refuses a pinned program, gets *)
(* no further with such a map.  The exception lasts from the moment when   *)
(* detach_xdp has unpinned the program alone (torn) until a later one      *)
(* unpins the map.  A refused attach leaves its program pinned, so that    *)
(* the next detach_xdp goes all the way.  Exchange: while nothing fails,   *)
(* there is one datagram, or one server about to answer it, as long as the *)
(* client waits, and none otherwise; what it carries is the current run of *)
(* its sender, or the server's next run has not talked yet.                *)
(***************************************************************************)
EXTENDS XdpStartup, SequenceTheorems, TLAPS

-----------------------------------------------------------------------------
(* The inductive invariant of XdpLoading, for one host. *)

(* The process and its pin. *)
Process(h) ==
    /\ pc[h] = "idle" <=> Prog(h) = "none"
    /\ pc[h] \in {"exchange", "setup"} => Prog(h) \in {"poll", "sock"}
    /\ pc[h] = "attach_xdp" => Prog(h) \in prog_pin[h]

Attached(h) == pc[h] \in {"attach_xdp", "exchange", "setup", "run"}

(* Old payloads and the pin of the program that wrote them. *)
OldPayloads(h) ==
    torn[h] \/
    /\ map_pin[h] = "dirty" => "poll" \in prog_pin[h] \/ (Prog(h) = "poll" /\ pc[h] = "detach_maps")
    /\ (Prog(h) = "poll" /\ pc[h] = "attach_pin" /\ proc[h].map = "dirty") => "poll" \in prog_pin[h]
    /\ (Prog(h) = "poll" /\ Attached(h)) => proc[h].map # "dirty"

(* A program that was refused, and how far it is on its second attempt. *)
Refused(h) ==
    refused[h] # "none" =>
        /\ pc[h] # "idle" => refused[h] = Prog(h) /\ ~proc[h].remove
        /\ pc[h] \in {"idle", "detach_load", "detach_unpin"} => refused[h] \in prog_pin[h]
        /\ pc[h] \in {"exchange", "attach_load", "attach_pin", "attach_xdp"} => attached[h] = "none"
        /\ pc[h] \notin {"setup", "run"} /\ ~(pc[h] = "exchange" /\ Prog(h) = "poll")

LoadInv == \A h \in Host : Process(h) /\ OldPayloads(h) /\ Refused(h)

-----------------------------------------------------------------------------
(* The inductive invariant of the exchange. *)

(* The exchange of the run is over. *)
Past(h) ==
    \/ xpc[h] = "done"
    \/ Prog(h) = "poll" /\ pc[h] \in {"setup", "run"}
    \/ Prog(h) = "sock" /\ pc[h] \in {"attach_load", "attach_pin", "attach_xdp", "setup", "run"}

(* There is one datagram or one server that answers, and a client waits. *)
OneToken ==
    /\ \A d, e \in net : d = e
    /\ net # {} => queue[Server] = <<>> /\ queue[Client] = <<>> /\ xpc[Server] # "send"
    /\ queue[Server] # <<>> => queue[Client] = <<>> /\ xpc[Server] # "send"
    /\ queue[Client] # <<>> => xpc[Server] # "send"
    /\ (net # {} \/ queue[Server] # <<>> \/ queue[Client] # <<>> \/ xpc[Server] = "send") => xpc[Client] = "recv"

(* The answer r of the server is of the run it is in, if it got that far. *)
Answers(r) == Past(Server) => r = run[Server] /\ peer[Server] = run[Client]

Current ==
    /\ \A d \in net : IF d.to = Server THEN d.run = run[Client] ELSE Answers(d.run)
    /\ queue[Server] # <<>> => queue[Server] = <<run[Client]>>
    /\ xpc[Server] = "send" => peer[Server] = run[Client]
    /\ queue[Client] # <<>> => Answers(Head(queue[Client]))
    /\ Past(Client) => Answers(peer[Client])

PairInv ==
    faults = 0 => OneToken /\ Current /\ \A h \in Host : xpc[h] # "failed"

StartupInv == TypeOK /\ LoadInv /\ PairInv

-----------------------------------------------------------------------------
(* Loading. *)

LoadAt(h) == Process(h) /\ OldPayloads(h) /\ Refused(h)

(* What a step of another host leaves alone. *)
Same(g) ==
    /\ attached'[g] = attached[g] /\ prog_pin'[g] = prog_pin[g] /\ map_pin'[g] = map_pin[g]
    /\ proc'[g] = proc[g] /\ pc'[g] = pc[g] /\ torn'[g] = torn[g] /\ refused'[g] = refused[g]

(* A step of the host h: what its variables become. *)
Becomes(h, a, pins, m, p, l, t, r) ==
    /\ attached'[h] = a /\ prog_pin'[h] = pins /\ map_pin'[h] = m
    /\ proc'[h] = p /\ pc'[h] = l /\ torn'[h] = t /\ refused'[h] = r
    /\ LoadTypeOK'
    /\ \A g \in Host : g # h => Same(g)

(* What holds after a step of loading at the host h. *)
Loads(h) ==
    /\ LoadTypeOK' /\ LoadInv'
    /\ \A g \in Host : g # h => Same(g)

(* A step that keeps the invariant of its own host keeps all. *)
LEMMA OneHost ==
    ASSUME LoadInv, NEW h \in Host, LoadTypeOK', LoadAt(h)', \A g \in Host : g # h => Same(g)
    PROVE  Loads(h)
  <1>1. \A g \in Host : g # h => LoadAt(g)'
    BY DEF LoadInv, LoadAt, Same, Process, OldPayloads, Refused, Attached, Prog
  <1> QED
    BY <1>1 DEF Loads, LoadInv, LoadAt

(* The types of the variables of a host. *)
LEMMA HostTypes ==
    ASSUME LoadTypeOK, NEW h \in Host
    PROVE  /\ attached[h] \in Programs \cup {"none"} /\ prog_pin[h] \subseteq Programs
           /\ map_pin[h] \in MapStates /\ Prog(h) \in Programs \cup {"none"}
           /\ proc[h].remove \in BOOLEAN /\ proc[h].map \in MapStates
           /\ proc[h] \in [prog : Programs \cup {"none"}, remove : BOOLEAN, map : MapStates]
           /\ pc[h] \in Labels /\ torn[h] \in BOOLEAN /\ refused[h] \in Programs \cup {"none"}
  BY DEF LoadTypeOK, Prog

(* A program is started. *)
LEMMA LoadStart ==
    ASSUME LoadTypeOK, LoadInv, NEW h \in Host, NEW p \in Programs, NEW r \in BOOLEAN, StartMain(h, p, r)
    PROVE  Loads(h)
  <1>1. Becomes(h, attached[h], prog_pin[h], map_pin[h], [prog |-> p, remove |-> r, map |-> "none"],
                "detach_load", torn[h], IF r \/ refused[h] # p THEN "none" ELSE refused[h])
    BY DEF StartMain, Becomes, LoadTypeOK, Same, pinVars, NoProcess, MapStates, Labels
  <1>2. LoadAt(h) /\ pc[h] = "idle"
    BY DEF LoadInv, LoadAt, StartMain
  <1>3. LoadAt(h)'
    BY <1>1, <1>2, HostTypes DEF Becomes, LoadAt, Process, OldPayloads, Refused, Attached, Prog, Programs
  <1> QED
    BY <1>1, <1>3, OneHost DEF Becomes

(* detach_xdp loads the object. *)
LEMMA LoadDetachLoad ==
    ASSUME LoadTypeOK, LoadInv, NEW h \in Host, DetachLoad(h)
    PROVE  Loads(h)
  <1>1. Becomes(h, attached[h], prog_pin[h], IF Prog(h) = "poll" THEN Loaded(h) ELSE map_pin[h],
                IF Prog(h) = "poll" THEN [proc[h] EXCEPT !.map = Loaded(h)] ELSE proc[h],
                "detach_unpin", torn[h], refused[h])
    BY DEF DetachLoad, bpf_object__load, Loaded, Becomes, LoadTypeOK, Same, MapStates, Labels
  <1>2. LoadAt(h) /\ pc[h] = "detach_load"
    BY DEF LoadInv, LoadAt, DetachLoad
  <1>3. LoadAt(h)'
    BY <1>1, <1>2, HostTypes DEF Becomes, LoadAt, Process, OldPayloads, Refused, Attached, Prog, Programs, Loaded
  <1> QED
    BY <1>1, <1>3, OneHost DEF Becomes

(* The process after a step to l. *)
Stays(h, l) == IF l = "idle" THEN NoProcess ELSE proc[h]

(* Where main goes on. *)
LEMMA Ways ==
    ASSUME NEW h \in Host
    PROVE  /\ AfterDetach(h) \in {"idle", "exchange", "attach_load"}
           /\ proc[h].remove => AfterDetach(h) = "idle"
           /\ ~proc[h].remove => AfterDetach(h) = IF Prog(h) = "sock" THEN "exchange" ELSE "attach_load"
           /\ Prog(h) = "poll" => AfterAttach(h) = "exchange"
           /\ Prog(h) = "sock" => AfterAttach(h) = "setup"
           /\ Prog(h) = "pure" => AfterAttach(h) \in {"idle", "run"}
  BY DEF AfterDetach, AfterAttach

(* detach_xdp unpins the program, or returns. *)
LEMMA LoadDetachUnpin ==
    ASSUME LoadTypeOK, LoadInv, NEW h \in Host, DetachUnpin(h)
    PROVE  Loads(h)
  <1> DEFINE l == IF Prog(h) \in prog_pin[h] THEN "detach_maps" ELSE AfterDetach(h)
  <1>1. Becomes(h, attached[h], prog_pin[h] \ {Prog(h)}, map_pin[h], Stays(h, l),
                l, torn[h], refused[h])
    BY HostTypes, Ways DEF DetachUnpin, Goto, Stays, l, Becomes, LoadTypeOK, Same, pinVars, NoProcess, MapStates, Labels
  <1>2. LoadAt(h) /\ pc[h] = "detach_unpin"
    BY DEF LoadInv, LoadAt, DetachUnpin
  <1>3. LoadAt(h)'
    BY Ways, <1>1, <1>2, HostTypes DEF Becomes, LoadAt, Process, OldPayloads, Refused, Attached, Prog, Programs, Stays, NoProcess, l
  <1> QED
    BY <1>1, <1>3, OneHost DEF Becomes

(* detach_xdp unpins the maps. *)
LEMMA LoadDetachMaps ==
    ASSUME LoadTypeOK, LoadInv, NEW h \in Host, DetachMaps(h)
    PROVE  Loads(h)
  <1>1. Becomes(h, attached[h], prog_pin[h], IF Prog(h) = "poll" THEN "none" ELSE map_pin[h], proc[h],
                "detach_xdp", IF Prog(h) = "poll" THEN FALSE ELSE torn[h], refused[h])
    BY DEF DetachMaps, Goto, Becomes, LoadTypeOK, Same, pinVars, NoProcess, MapStates, Labels
  <1>2. LoadAt(h) /\ pc[h] = "detach_maps"
    BY DEF LoadInv, LoadAt, DetachMaps
  <1>3. LoadAt(h)'
    BY <1>1, <1>2, HostTypes DEF Becomes, LoadAt, Process, OldPayloads, Refused, Attached, Prog, Programs, Stays, NoProcess
  <1> QED
    BY <1>1, <1>3, OneHost DEF Becomes

(* detach_xdp detaches what is attached. *)
LEMMA LoadDetachXdp ==
    ASSUME LoadTypeOK, LoadInv, NEW h \in Host, DetachXdp(h)
    PROVE  Loads(h)
  <1>1. Becomes(h, "none", prog_pin[h], map_pin[h], Stays(h, AfterDetach(h)),
                AfterDetach(h), torn[h], refused[h])
    BY Ways DEF DetachXdp, Goto, Stays, Becomes, LoadTypeOK, Same, pinVars, NoProcess, MapStates, Labels
  <1>2. LoadAt(h) /\ pc[h] = "detach_xdp"
    BY DEF LoadInv, LoadAt, DetachXdp
  <1>3. LoadAt(h)'
    BY Ways, <1>1, <1>2, HostTypes DEF Becomes, LoadAt, Process, OldPayloads, Refused, Attached, Prog, Programs, Stays, NoProcess
  <1> QED
    BY <1>1, <1>3, OneHost DEF Becomes

(* attach_xdp loads the object. *)
LEMMA LoadAttachLoad ==
    ASSUME LoadTypeOK, LoadInv, NEW h \in Host, AttachLoad(h)
    PROVE  Loads(h)
  <1>1. Becomes(h, attached[h], prog_pin[h], IF Prog(h) = "poll" THEN Loaded(h) ELSE map_pin[h],
                IF Prog(h) = "poll" THEN [proc[h] EXCEPT !.map = Loaded(h)] ELSE proc[h],
                "attach_pin", torn[h], refused[h])
    BY DEF AttachLoad, bpf_object__load, Loaded, Becomes, LoadTypeOK, Same, pinVars, NoProcess, MapStates, Labels
  <1>2. LoadAt(h) /\ pc[h] = "attach_load"
    BY DEF LoadInv, LoadAt, AttachLoad
  <1>3. LoadAt(h)'
    BY <1>1, <1>2, HostTypes DEF Becomes, LoadAt, Process, OldPayloads, Refused, Attached, Prog, Programs, Stays, NoProcess, Loaded
  <1> QED
    BY <1>1, <1>3, OneHost DEF Becomes

(* attach_xdp pins the program, unless it is pinned. *)
LEMMA LoadAttachPin ==
    ASSUME LoadTypeOK, LoadInv, NEW h \in Host, AttachPin(h)
    PROVE  Loads(h)
  <1> DEFINE l == IF Prog(h) \in prog_pin[h] THEN "idle" ELSE "attach_xdp"
  <1>0. LoadAt(h) /\ pc[h] = "attach_pin" /\ Prog(h) \in Programs
    BY HostTypes DEF LoadInv, LoadAt, Process, AttachPin
  <1>1. Becomes(h, attached[h], prog_pin[h] \cup {Prog(h)}, map_pin[h], Stays(h, l),
                l, torn[h], refused[h])
    BY <1>0, HostTypes DEF AttachPin, Goto, Stays, l, Becomes, LoadTypeOK, Same, pinVars, NoProcess, MapStates, Labels
  <1>3. LoadAt(h)'
    BY <1>0, <1>1, HostTypes DEF Becomes, LoadAt, Process, OldPayloads, Refused, Attached, Prog, Programs, Stays, NoProcess, l
  <1> QED
    BY <1>1, <1>3, OneHost DEF Becomes

(* The program is attached. *)
LEMMA LoadAttachXdp ==
    ASSUME LoadTypeOK, LoadInv, NEW h \in Host, AttachXdp(h)
    PROVE  Loads(h)
  <1>0. LoadAt(h) /\ pc[h] = "attach_xdp" /\ Prog(h) \in Programs
    BY HostTypes DEF LoadInv, LoadAt, Process, AttachXdp
  <1>l. AfterAttach(h) \in Labels
    BY <1>0, Ways DEF Programs, Labels
  <1>1. Becomes(h, Prog(h), prog_pin[h], IF Prog(h) = "poll" THEN "dirty" ELSE map_pin[h], Stays(h, AfterAttach(h)),
                AfterAttach(h), torn[h], "none")
    BY <1>0, <1>l, HostTypes DEF AttachXdp, Goto, Stays, Becomes, LoadTypeOK, Same, pinVars, NoProcess, MapStates, Labels
  <1>3. LoadAt(h)'
    BY Ways, <1>0, <1>1, HostTypes DEF Becomes, LoadAt, Process, OldPayloads, Refused, Attached, Prog, Programs, Stays, NoProcess
  <1> QED
    BY <1>1, <1>3, OneHost DEF Becomes

(* Another program is attached. *)
LEMMA LoadAttachRefused ==
    ASSUME LoadTypeOK, LoadInv, NEW h \in Host, AttachRefused(h)
    PROVE  Loads(h)
  <1>0. LoadAt(h) /\ pc[h] = "attach_xdp" /\ Prog(h) \in Programs
    BY HostTypes DEF LoadInv, LoadAt, Process, AttachRefused
  <1>1. Becomes(h, attached[h], prog_pin[h], map_pin[h], NoProcess,
                "idle", torn[h], Prog(h))
    BY <1>0, HostTypes DEF AttachRefused, Goto, Becomes, LoadTypeOK, Same, pinVars, NoProcess, MapStates, Labels
  <1>3. LoadAt(h)'
    BY <1>0, <1>1, HostTypes DEF Becomes, LoadAt, Process, OldPayloads, Refused, Attached, Prog, Programs, Stays, NoProcess
  <1> QED
    BY <1>1, <1>3, OneHost DEF Becomes

(* The rest of the setup. *)
LEMMA LoadSetup ==
    ASSUME LoadTypeOK, LoadInv, NEW h \in Host, Setup(h)
    PROVE  Loads(h)
  <1>1. Becomes(h, attached[h], prog_pin[h], map_pin[h], proc[h],
                "run", torn[h], refused[h])
    BY DEF Setup, Goto, Becomes, LoadTypeOK, Same, pinVars, NoProcess, MapStates, Labels
  <1>2. LoadAt(h) /\ pc[h] = "setup"
    BY DEF LoadInv, LoadAt, Setup
  <1>3. LoadAt(h)'
    BY <1>1, <1>2, HostTypes DEF Becomes, LoadAt, Process, OldPayloads, Refused, Attached, Prog, Programs, Stays, NoProcess
  <1> QED
    BY <1>1, <1>3, OneHost DEF Becomes

(* The experiment is over. *)
LEMMA LoadFinish ==
    ASSUME LoadTypeOK, LoadInv, NEW h \in Host, Finish(h)
    PROVE  Loads(h)
  <1>1. Becomes(h, IF Prog(h) = "sock" THEN "none" ELSE attached[h], prog_pin[h], map_pin[h], NoProcess,
                "idle", torn[h], refused[h])
    BY DEF Finish, Goto, Becomes, LoadTypeOK, Same, pinVars, NoProcess, MapStates, Labels
  <1>2. LoadAt(h) /\ pc[h] = "run"
    BY DEF LoadInv, LoadAt, Finish
  <1>3. LoadAt(h)'
    BY <1>1, <1>2, HostTypes DEF Becomes, LoadAt, Process, OldPayloads, Refused, Attached, Prog, Programs, Stays, NoProcess
  <1> QED
    BY <1>1, <1>3, OneHost DEF Becomes

(* The program of the map is unpinned and the map is not. *)
Tearing(h) == pc[h] = "detach_maps" /\ Prog(h) = "poll"

(* A call fails. *)
LEMMA LoadCallFails ==
    ASSUME LoadTypeOK, LoadInv, NEW h \in Host, CallFails(h)
    PROVE  Loads(h)
  <1> DEFINE l == AfterFailure(h)
  <1>l. /\ pc[h] = "detach_maps" => l = "detach_xdp"
        /\ pc[h] \in {"detach_load", "detach_unpin", "detach_xdp"} => l = AfterDetach(h)
        /\ pc[h] \in {"attach_load", "attach_pin", "attach_xdp", "setup"} => l = "idle"
    BY DEF AfterFailure
  <1>2. LoadAt(h) /\ pc[h] \in Labels \ {"idle", "exchange", "run"}
    BY HostTypes DEF LoadInv, LoadAt, CallFails
  <1>t. l \in Labels
    BY <1>l, <1>2, Ways DEF Labels
  <1> HIDE DEF l
  <1>1. Becomes(h, attached[h], prog_pin[h], map_pin[h], Stays(h, l), l, torn[h] \/ Tearing(h), "none")
    BY <1>t DEF CallFails, Tears, Tearing, Goto, Stays, l, Becomes, LoadTypeOK, Same, pinVars, NoProcess, MapStates, Labels
  <1>3. LoadAt(h)'
    <2>1. Process(h)' /\ Refused(h)'
      BY Ways, <1>l, <1>1, <1>2, HostTypes DEF Becomes, LoadAt, Process, Refused, Prog, Programs, Stays, NoProcess, Labels
    <2>2. CASE Tearing(h)
      BY <1>1, <2>1, <2>2 DEF Becomes, LoadAt, OldPayloads
    <2>3. CASE ~Tearing(h)
      <3>1. torn'[h] = torn[h]
        BY <1>1, <2>3, HostTypes, Zenon DEF Becomes
      <3> QED
        BY Ways, <1>l, <1>1, <1>2, <2>1, <2>3, <3>1, HostTypes
        DEF Becomes, LoadAt, OldPayloads, Attached, Prog, Stays, NoProcess, Tearing, Labels
    <2> QED
      BY <2>2, <2>3
  <1> QED
    BY <1>1, <1>3, OneHost DEF Becomes

(* The process is killed. *)
LEMMA LoadDie ==
    ASSUME LoadTypeOK, LoadInv, NEW h \in Host, Die(h)
    PROVE  Loads(h)
  <1>1. Becomes(h, attached[h], prog_pin[h], map_pin[h], NoProcess, "idle", torn[h] \/ Tearing(h), "none")
    BY DEF Die, Tears, Tearing, Goto, Becomes, LoadTypeOK, Same, pinVars, NoProcess, MapStates, Labels
  <1>2. LoadAt(h) /\ pc[h] # "idle"
    BY DEF LoadInv, LoadAt, Die
  <1>3. LoadAt(h)'
    <2>1. Process(h)' /\ Refused(h)'
      BY <1>1 DEF Becomes, Process, Refused, Prog, NoProcess
    <2>2. CASE Tearing(h)
      BY <1>1, <2>1, <2>2 DEF Becomes, LoadAt, OldPayloads
    <2>3. CASE ~Tearing(h)
      <3>1. torn'[h] = torn[h]
        BY <1>1, <2>3, HostTypes, Zenon DEF Becomes
      <3> QED
        BY <1>1, <1>2, <2>1, <2>3, <3>1 DEF Becomes, LoadAt, OldPayloads, Prog, NoProcess, Tearing
    <2> QED
      BY <2>2, <2>3
  <1> QED
    BY <1>1, <1>3, OneHost DEF Becomes

(* The step from the exchange to the rest of main. *)
LEMMA LoadReturn ==
    ASSUME TypeOK, LoadInv, NEW h \in Host, Return(h)
    PROVE  Loads(h)
  <1> DEFINE l == IF Prog(h) = "sock" THEN "attach_load" ELSE IF xpc[h] = "done" THEN "setup" ELSE "idle"
  <1>0. LoadTypeOK /\ pc[h] = "exchange"
    BY DEF TypeOK, Return, Leave
  <1>1. Becomes(h, attached[h], prog_pin[h], map_pin[h], Stays(h, l),
                l, torn[h], refused[h])
    BY <1>0 DEF Return, Goto, Stays, l, Becomes, LoadTypeOK, Same, pinVars, NoProcess, MapStates, Labels
  <1>2. LoadAt(h)
    BY DEF LoadInv, LoadAt
  <1>3. LoadAt(h)'
    BY <1>0, <1>1, <1>2, HostTypes DEF Becomes, LoadAt, Process, OldPayloads, Refused, Attached, Prog, Programs, Stays, NoProcess, l
  <1> QED
    BY <1>1, <1>3, OneHost DEF Becomes

-----------------------------------------------------------------------------
(* The exchange. *)

(* The hosts. *)
LEMMA Peers ==
    /\ Client \in Host /\ Server \in Host /\ Client # Server
    /\ Other(Client) = Server /\ Other(Server) = Client
    /\ \A h \in Host : h = Client \/ h = Server
  BY PeerAssumption DEF Host, Other

(* The variables of the exchange. *)
XTypes ==
    /\ net \subseteq [to : Host, run : Nat]
    /\ queue \in [Host -> Seq(Nat)]
    /\ xpc \in [Host -> {"out", "send", "recv", "done", "failed"}]
    /\ peer \in [Host -> Nat]
    /\ lost \in BOOLEAN
    /\ run \in [Host -> Nat]
    /\ faults \in 0..MaxFaults

(* A process that exchanges addresses does nothing else. *)
Busy == \A h \in Host : xpc[h] # "out" => pc[h] = "exchange"

(* The type invariant in parts. *)
LEMMA TypeParts == TypeOK <=> LoadTypeOK /\ XTypes /\ Busy
  BY DEF TypeOK, XTypes, Busy

(* Steps that exchange nothing and get no further than the exchange. *)
LEMMA PairKept ==
    ASSUME PairInv, UNCHANGED <<net, queue, peer, run, faults>>,
           \A h \in Host : /\ xpc'[h] = "send" => xpc[h] = "send"
                           /\ xpc[h] = "recv" => xpc'[h] = "recv"
                           /\ xpc'[h] = "failed" => xpc[h] = "failed"
                           /\ Past(h)' => Past(h)
    PROVE  PairInv'
  <1> SUFFICES ASSUME faults = 0 PROVE OneToken' /\ Current' /\ \A h \in Host : xpc'[h] # "failed"
    BY DEF PairInv
  <1>1. OneToken /\ Current /\ \A h \in Host : xpc[h] # "failed"
    BY DEF PairInv
  <1>2. OneToken'
    BY <1>1, Peers DEF OneToken
  <1>3. Current'
    BY <1>1, Peers DEF Current, Answers
  <1> QED
    BY <1>1, <1>2, <1>3

(* A host that is not at the exchange is past it if it has been there. *)
LEMMA PastAway ==
    ASSUME Busy, NEW h \in Host, pc[h] # "exchange"
    PROVE  /\ xpc[h] = "out"
           /\ Past(h) <=> \/ Prog(h) = "poll" /\ pc[h] \in {"setup", "run"}
                          \/ Prog(h) = "sock" /\ pc[h] \in {"attach_load", "attach_pin", "attach_xdp", "setup", "run"}
  BY DEF Busy, Past

(* A program is started. *)
LEMMA StartStep == ASSUME StartupInv, NEW h \in Host, Start(h) PROVE StartupInv'
  <1>1. LoadTypeOK /\ XTypes /\ Busy /\ LoadInv /\ PairInv
    BY TypeParts DEF StartupInv
  <1>2. PICK p \in Programs, r \in BOOLEAN : StartMain(h, p, r)
    BY StartupAssumption, Peers DEF Start
  <1>3. /\ run' = [run EXCEPT ![h] = @ + 1] /\ UNCHANGED <<net, queue, xpc, peer, lost, faults>>
        /\ pc[h] = "idle" /\ pc' = [pc EXCEPT ![h] = "detach_load"]
    BY <1>2 DEF Start, xVars, StartMain
  <1>4. Loads(h)
    BY <1>1, <1>2, LoadStart
  <1>5. XTypes'
    BY <1>1, <1>3 DEF XTypes
  <1>6. Busy'
    BY <1>1, <1>3 DEF Busy, LoadTypeOK
  <1>7. xpc[h] = "out" /\ ~Past(h)' /\ pc'[h] = "detach_load"
    BY <1>1, <1>3, PastAway DEF Past, LoadTypeOK
  <1>8. PairInv'
    <2> SUFFICES ASSUME faults = 0 PROVE OneToken' /\ Current' /\ \A g \in Host : xpc'[g] # "failed"
      BY <1>3 DEF PairInv
    <2>1. OneToken /\ Current /\ \A g \in Host : xpc[g] # "failed"
      BY <1>1 DEF PairInv
    <2>2. OneToken'
      BY <1>3, <2>1 DEF OneToken
    <2>3. CASE h = Client
      BY <1>3, <1>7, <2>1, <2>3 DEF OneToken, Current
    <2>4. CASE h = Server
      <3>1. run'[Client] = run[Client] /\ (Past(Client)' <=> Past(Client))
        BY <1>1, <1>3, <1>4, <2>4, Peers DEF XTypes, Loads, Same, Past, Prog
      <3>2. ~Past(Server)'
        BY <1>7, <2>4
      <3> QED
        BY <1>3, <2>1, <2>2, <3>1, <3>2 DEF Current, Answers
    <2> QED
      BY <2>3, <2>4, Peers
  <1> QED
    BY <1>4, <1>5, <1>6, <1>8, TypeParts, PTL DEF StartupInv, Loads

(* detach_xdp, attach_xdp and the setup. *)
LEMMA LoadStep == ASSUME StartupInv, NEW h \in Host, Load(h) PROVE StartupInv'
  <1>1. LoadTypeOK /\ XTypes /\ Busy /\ LoadInv /\ PairInv
    BY TypeParts DEF StartupInv
  <1>2. UNCHANGED <<net, queue, xpc, peer, lost, run, faults>>
    BY DEF Load, xVars
  <1>3. Loads(h)
    BY <1>1, LoadDetachLoad, LoadDetachUnpin, LoadDetachMaps, LoadDetachXdp, LoadAttachLoad, LoadAttachPin,
       LoadAttachXdp, LoadAttachRefused, LoadSetup
       DEF Load, detach_xdp, attach_xdp
  <1>4. XTypes'
    BY <1>1, <1>2 DEF XTypes
  <1>5. pc[h] # "exchange"
    BY DEF Load, detach_xdp, attach_xdp, DetachLoad, DetachUnpin, DetachMaps, DetachXdp, AttachLoad,
           AttachPin, AttachXdp, AttachRefused, Setup
  <1>6. Busy'
    BY <1>1, <1>2, <1>3, <1>5 DEF Busy, Loads, Same
  <1>7. Past(h)' => Past(h)
    <2>1. xpc[h] = "out" /\ xpc'[h] = "out"
      BY <1>1, <1>2, <1>5, PastAway
    <2>2. Prog(h)' = "none" \/ Prog(h)' = Prog(h)
      BY <1>1 DEF Load, detach_xdp, attach_xdp, DetachLoad, DetachUnpin, DetachMaps, DetachXdp, AttachLoad,
           AttachPin, AttachXdp, AttachRefused, Setup, bpf_object__load, Goto, NoProcess, Prog, LoadTypeOK
    <2>3. CASE detach_xdp(h)
      <3>1. pc'[h] \in {"detach_unpin", "detach_maps", "detach_xdp", AfterDetach(h)}
        BY <1>1, <2>3 DEF detach_xdp, DetachLoad, DetachUnpin, DetachMaps, DetachXdp, Goto, LoadTypeOK
      <3> QED
        BY <2>1, <2>2, <3>1 DEF Past, AfterDetach
    <2>4. CASE attach_xdp(h) \/ Setup(h)
      <3>1. \/ pc[h] = "attach_load" /\ pc'[h] = "attach_pin"
            \/ pc[h] = "attach_pin" /\ pc'[h] \in {"attach_xdp", "idle"}
            \/ pc[h] = "attach_xdp" /\ pc'[h] \in {AfterAttach(h), "idle"}
            \/ pc[h] = "setup" /\ pc'[h] = "run"
        BY <1>1, <2>4 DEF attach_xdp, AttachLoad, AttachPin, AttachXdp, AttachRefused, Setup, Goto, LoadTypeOK
      <3> QED
        BY <2>1, <2>2, <3>1, Ways DEF Past
    <2> QED
      BY <2>3, <2>4 DEF Load
  <1>8. \A g \in Host : Past(g)' => Past(g)
    BY <1>2, <1>3, <1>7 DEF Loads, Same, Past, Prog
  <1>9. PairInv'
    BY <1>1, <1>2, <1>8, PairKept
  <1> QED
    BY <1>3, <1>4, <1>6, <1>9, TypeParts, PTL DEF StartupInv, Loads

(* The types when a process is gone. *)
LEMMA Forgets ==
    ASSUME XTypes, NEW h \in Host, Forget(h), run' = run, faults' \in 0..MaxFaults
    PROVE  /\ XTypes' /\ xpc'[h] = "out" /\ queue'[h] = <<>> /\ net' = net
           /\ \A g \in Host : g # h => xpc'[g] = xpc[g] /\ queue'[g] = queue[g] /\ peer'[g] = peer[g]
  <1>1. <<>> \in Seq(Nat)
    BY EmptySeq
  <1> QED
    BY <1>1 DEF XTypes, Forget

(* An experiment ends. *)
LEMMA EndStep == ASSUME StartupInv, NEW h \in Host, End(h) PROVE StartupInv'
  <1>1. LoadTypeOK /\ XTypes /\ Busy /\ LoadInv /\ PairInv
    BY TypeParts DEF StartupInv
  <1>2. Loads(h) /\ run' = run /\ faults' = faults /\ Forget(h)
    BY <1>1, LoadFinish DEF End
  <1>3. /\ XTypes' /\ xpc'[h] = "out" /\ queue'[h] = <<>> /\ net' = net
        /\ \A g \in Host : g # h => xpc'[g] = xpc[g] /\ queue'[g] = queue[g] /\ peer'[g] = peer[g]
    BY <1>1, <1>2, Forgets DEF XTypes
  <1>4. Busy'
    BY <1>1, <1>2, <1>3 DEF Busy, Loads, Same
  <1>5. pc[h] = "run" /\ pc'[h] = "idle" /\ xpc[h] = "out"
    BY <1>1, PastAway DEF End, Finish, Goto, LoadTypeOK
  <1>6. ~Past(h)' /\ \A g \in Host : g # h => (Past(g)' <=> Past(g))
    BY <1>2, <1>3, <1>5 DEF Past, Loads, Same, Prog
  <1>7. PairInv'
    <2> SUFFICES ASSUME faults = 0 PROVE OneToken' /\ Current' /\ \A g \in Host : xpc'[g] # "failed"
      BY <1>2 DEF PairInv
    <2>1. OneToken /\ Current /\ \A g \in Host : xpc[g] # "failed"
      BY <1>1 DEF PairInv
    <2>2. CASE h = Client
      BY <1>2, <1>3, <1>5, <1>6, <2>1, <2>2, Peers DEF OneToken, Current, Answers
    <2>3. CASE h = Server
      BY <1>2, <1>3, <1>5, <1>6, <2>1, <2>3, Peers DEF OneToken, Current, Answers
    <2> QED
      BY <2>2, <2>3, Peers
  <1> QED
    BY <1>2, <1>3, <1>4, <1>7, TypeParts, PTL DEF StartupInv, Loads

(* What the exchange leaves alone. *)
LEMMA Unloaded ==
    ASSUME LoadTypeOK, LoadInv, UNCHANGED loadVars
    PROVE  LoadTypeOK' /\ LoadInv' /\ pc' = pc /\ \A h \in Host : Prog(h)' = Prog(h)
  BY DEF loadVars, pinVars, LoadTypeOK, LoadInv, Process, OldPayloads, Refused, Attached, Prog

(* exchange_data is called. *)
LEMMA CallStep == ASSUME StartupInv, NEW h \in Host, Call(h) PROVE StartupInv'
  <1>1. LoadTypeOK /\ XTypes /\ Busy /\ LoadInv /\ PairInv
    BY TypeParts DEF StartupInv
  <1>2. /\ pc[h] = "exchange" /\ xpc[h] = "out" /\ peer' = [peer EXCEPT ![h] = 0]
        /\ xpc' = [xpc EXCEPT ![h] = IF h = Client THEN "send" ELSE "recv"]
        /\ UNCHANGED <<net, queue, lost, run, faults>>
    BY DEF Call, Enter
  <1>3. LoadTypeOK' /\ LoadInv' /\ pc' = pc /\ \A g \in Host : Prog(g)' = Prog(g)
    BY <1>1, Unloaded DEF Call
  <1>4. XTypes'
    BY <1>1, <1>2 DEF XTypes
  <1>5. /\ xpc'[h] = IF h = Client THEN "send" ELSE "recv"
        /\ \A g \in Host : g # h => xpc'[g] = xpc[g] /\ peer'[g] = peer[g]
    BY <1>1, <1>2 DEF XTypes
  <1>6. Busy'
    BY <1>1, <1>2, <1>3, <1>5 DEF Busy
  <1>7. ~Past(h)' /\ \A g \in Host : g # h => (Past(g)' <=> Past(g))
    BY <1>2, <1>3, <1>5 DEF Past
  <1>8. PairInv'
    <2> SUFFICES ASSUME faults = 0 PROVE OneToken' /\ Current' /\ \A g \in Host : xpc'[g] # "failed"
      BY <1>2 DEF PairInv
    <2>1. OneToken /\ Current /\ \A g \in Host : xpc[g] # "failed"
      BY <1>1 DEF PairInv
    <2>2. CASE h = Client
      BY <1>2, <1>5, <1>7, <2>1, <2>2, Peers DEF OneToken, Current, Answers
    <2>3. CASE h = Server
      BY <1>2, <1>5, <1>7, <2>1, <2>3, Peers DEF OneToken, Current, Answers
    <2> QED
      BY <2>2, <2>3, Peers
  <1> QED
    BY <1>3, <1>4, <1>6, <1>8, TypeParts, PTL DEF StartupInv

(* sendto: the client asks, or the server answers. *)
LEMMA SendtoStep ==
    ASSUME StartupInv, NEW h \in Host, Sendto(h, run[h]), UNCHANGED <<loadVars, run, faults>>
    PROVE  StartupInv'
  <1> DEFINE d0 == [to |-> Other(h), run |-> run[h]]
  <1>1. LoadTypeOK /\ XTypes /\ Busy /\ LoadInv /\ PairInv
    BY TypeParts DEF StartupInv
  <1>2. /\ xpc[h] = "send" /\ net' = net \cup {d0}
        /\ xpc' = [xpc EXCEPT ![h] = IF h = Client THEN "recv" ELSE "done"]
        /\ queue' = IF h = Client THEN queue ELSE [queue EXCEPT ![h] = <<>>]
        /\ UNCHANGED <<peer, lost, run, faults>>
    BY DEF Sendto
  <1>3. LoadTypeOK' /\ LoadInv' /\ pc' = pc /\ \A g \in Host : Prog(g)' = Prog(g)
    BY <1>1, Unloaded
  <1>4. d0 \in [to : Host, run : Nat] /\ <<>> \in Seq(Nat)
    BY <1>1, Peers, EmptySeq DEF XTypes
  <1>5. XTypes'
    BY <1>1, <1>2, <1>4 DEF XTypes
  <1>6. /\ xpc'[h] = IF h = Client THEN "recv" ELSE "done"
        /\ \A g \in Host : g # h => xpc'[g] = xpc[g] /\ queue'[g] = queue[g]
        /\ queue'[h] = IF h = Client THEN queue[h] ELSE <<>>
    BY <1>1, <1>2 DEF XTypes
  <1>7. Busy'
    BY <1>1, <1>2, <1>3, <1>6 DEF Busy
  <1>8. /\ \A g \in Host : g # h => (Past(g)' <=> Past(g))
        /\ h = Client => ~Past(h)' /\ ~Past(h)
    BY <1>1, <1>2, <1>3, <1>6 DEF Past, Busy
  <1>9. PairInv'
    <2> SUFFICES ASSUME faults = 0 PROVE OneToken' /\ Current' /\ \A g \in Host : xpc'[g] # "failed"
      BY <1>2 DEF PairInv
    <2>1. OneToken /\ Current /\ \A g \in Host : xpc[g] # "failed"
      BY <1>1 DEF PairInv
    <2>2. CASE h = Client
      <3>1. /\ net = {} /\ queue[Server] = <<>> /\ queue[Client] = <<>> /\ xpc[Server] # "send"
            /\ d0.to = Server /\ d0.run = run[Client]
        BY <1>2, <2>1, <2>2, Peers DEF OneToken
      <3> QED
        BY <1>2, <1>6, <1>8, <2>1, <2>2, <3>1, Peers DEF OneToken, Current, Answers
    <2>3. CASE h = Server
      <3>1. /\ net = {} /\ queue[Server] = <<>> /\ queue[Client] = <<>> /\ xpc[Client] = "recv"
            /\ peer[Server] = run[Client] /\ d0.to = Client /\ d0.run = run[Server]
        BY <1>2, <2>1, <2>3, Peers DEF OneToken, Current
      <3>2. ~Past(Client) /\ ~Past(Client)'
        BY <1>1, <1>8, <2>3, <3>1, Peers DEF Past, Busy
      <3>3. OneToken'
        BY <1>2, <1>6, <2>3, <3>1, Peers DEF OneToken
      <3>4. Current'
        BY <1>2, <1>6, <2>3, <3>1, <3>2, Peers DEF Current, Answers
      <3> QED
        BY <1>6, <2>1, <2>3, <3>3, <3>4, Peers
    <2> QED
      BY <2>2, <2>3, Peers
  <1> QED
    BY <1>3, <1>5, <1>7, <1>9, TypeParts, PTL DEF StartupInv

(* recvfrom: the server is asked, or the client has its answer. *)
LEMMA RecvfromStep ==
    ASSUME StartupInv, NEW h \in Host, Recvfrom(h), UNCHANGED <<loadVars, run, faults>>
    PROVE  StartupInv'
  <1>1. LoadTypeOK /\ XTypes /\ Busy /\ LoadInv /\ PairInv
    BY TypeParts DEF StartupInv
  <1>2. /\ xpc[h] = "recv" /\ queue[h] # <<>>
        /\ peer' = [peer EXCEPT ![h] = Head(queue[h])]
        /\ xpc' = [xpc EXCEPT ![h] = IF h = Client THEN "done" ELSE "send"]
        /\ queue' = [queue EXCEPT ![h] = IF h = Client THEN <<>> ELSE Tail(@)]
        /\ UNCHANGED <<net, lost, run, faults>>
    BY DEF Recvfrom
  <1>3. LoadTypeOK' /\ LoadInv' /\ pc' = pc /\ \A g \in Host : Prog(g)' = Prog(g)
    BY <1>1, Unloaded
  <1>4. Head(queue[h]) \in Nat /\ Tail(queue[h]) \in Seq(Nat) /\ <<>> \in Seq(Nat)
    <2>1. queue[h] \in Seq(Nat)
      BY <1>1 DEF XTypes
    <2> QED
      BY <1>2, <2>1, EmptySeq, HeadTailProperties
  <1>5. XTypes'
    BY <1>1, <1>2, <1>4 DEF XTypes
  <1>6. /\ xpc'[h] = IF h = Client THEN "done" ELSE "send"
        /\ \A g \in Host : g # h => xpc'[g] = xpc[g] /\ queue'[g] = queue[g] /\ peer'[g] = peer[g]
        /\ queue'[h] = IF h = Client THEN <<>> ELSE Tail(queue[h])
        /\ peer'[h] = Head(queue[h])
    BY <1>1, <1>2 DEF XTypes
  <1>7. Busy'
    BY <1>1, <1>2, <1>3, <1>6 DEF Busy
  <1>8. /\ \A g \in Host : g # h => (Past(g)' <=> Past(g))
        /\ h = Server => ~Past(h)' /\ ~Past(h)
    BY <1>1, <1>2, <1>3, <1>6, Peers DEF Past, Busy
  <1>9. PairInv'
    <2> SUFFICES ASSUME faults = 0 PROVE OneToken' /\ Current' /\ \A g \in Host : xpc'[g] # "failed"
      BY <1>2 DEF PairInv
    <2>1. OneToken /\ Current /\ \A g \in Host : xpc[g] # "failed"
      BY <1>1 DEF PairInv
    <2>2. CASE h = Client
      <3>1. /\ net = {} /\ queue[Server] = <<>> /\ queue[Client] # <<>> /\ xpc[Server] # "send"
            /\ Answers(Head(queue[Client]))
        BY <1>2, <2>1, <2>2 DEF OneToken, Current
      <3>2. OneToken'
        BY <1>2, <1>6, <2>2, <3>1, Peers DEF OneToken
      <3>3. Current'
        BY <1>2, <1>6, <1>8, <2>2, <3>1, Peers DEF Current, Answers
      <3> QED
        BY <1>6, <2>1, <2>2, <3>2, <3>3, Peers
    <2>3. CASE h = Server
      <3>1. /\ net = {} /\ queue[Server] = <<run[Client]>> /\ queue[Client] = <<>> /\ xpc[Client] = "recv"
        BY <1>2, <2>1, <2>3 DEF OneToken, Current
      <3>2. Tail(queue[Server]) = <<>> /\ Head(queue[Server]) = run[Client]
        BY <3>1
      <3>3. OneToken'
        BY <1>2, <1>6, <2>3, <3>1, <3>2, Peers DEF OneToken
      <3>4. Current'
        BY <1>2, <1>6, <1>8, <2>1, <2>3, <3>1, <3>2, Peers DEF Current, Answers
      <3> QED
        BY <1>6, <2>1, <2>3, <3>3, <3>4, Peers
    <2> QED
      BY <2>2, <2>3, Peers
  <1> QED
    BY <1>3, <1>5, <1>7, <1>9, TypeParts, PTL DEF StartupInv

(* exchange_data returns. *)
LEMMA ReturnStep == ASSUME StartupInv, NEW h \in Host, Return(h) PROVE StartupInv'
  <1>1. LoadTypeOK /\ XTypes /\ Busy /\ LoadInv /\ PairInv
    BY TypeParts DEF StartupInv
  <1>2. /\ xpc[h] \in {"done", "failed"} /\ xpc' = [xpc EXCEPT ![h] = "out"]
        /\ UNCHANGED <<net, queue, peer, lost, run, faults>>
    BY DEF Return, Leave
  <1>3. Loads(h)
    BY LoadReturn DEF StartupInv
  <1>4. XTypes' /\ xpc'[h] = "out" /\ \A g \in Host : g # h => xpc'[g] = xpc[g]
    BY <1>1, <1>2 DEF XTypes
  <1>5. Busy'
    BY <1>1, <1>3, <1>4 DEF Busy, Loads, Same
  <1>6. \A g \in Host : g # h => (Past(g)' <=> Past(g))
    BY <1>3, <1>4 DEF Past, Loads, Same, Prog
  <1>7. PairInv'
    <2>1. CASE xpc[h] = "done"
      BY <1>1, <1>2, <1>4, <1>6, <2>1, PairKept DEF Past
    <2>2. CASE xpc[h] = "failed"
      BY <1>1, <1>2, <2>2 DEF PairInv
    <2> QED
      BY <1>2, <2>1, <2>2
  <1> QED
    BY <1>3, <1>4, <1>5, <1>7, TypeParts, PTL DEF StartupInv, Loads

(* A datagram arrives, or is lost. *)
LEMMA NetworkStep == ASSUME StartupInv, Network PROVE StartupInv'
  <1>1. LoadTypeOK /\ XTypes /\ Busy /\ LoadInv /\ PairInv
    BY TypeParts DEF StartupInv
  <1>2. PICK d \in net : Deliver(d) \/ Lose(d)
    BY DEF Network
  <1>3. LoadTypeOK' /\ LoadInv' /\ pc' = pc /\ \A g \in Host : Prog(g)' = Prog(g)
    BY <1>1, Unloaded DEF Network
  <1>4. /\ net' = net \ {d} /\ UNCHANGED <<xpc, peer, run, faults>> /\ lost' \in {lost, TRUE}
        /\ queue' \in {queue, [queue EXCEPT ![d.to] = Append(@, d.run)]}
    BY <1>2 DEF Deliver, Lose, Network
  <1>5. d.to \in Host /\ d.run \in Nat /\ queue \in [Host -> Seq(Nat)] /\ queue[d.to] \in Seq(Nat)
    BY <1>1 DEF XTypes
  <1>6. Append(queue[d.to], d.run) \in Seq(Nat)
    BY <1>5, AppendProperties
  <1>7. XTypes'
    <2>1. lost' \in BOOLEAN
      BY <1>1, <1>4, Zenon DEF XTypes
    <2> QED
      BY <1>1, <1>4, <1>6, <2>1 DEF XTypes
  <1>8. Busy' /\ \A g \in Host : Past(g)' <=> Past(g)
    BY <1>1, <1>3, <1>4 DEF Busy, Past
  <1>9. PairInv'
    <2> SUFFICES ASSUME faults = 0 PROVE OneToken' /\ Current' /\ \A g \in Host : xpc'[g] # "failed"
      BY <1>4 DEF PairInv
    <2>1. OneToken /\ Current /\ \A g \in Host : xpc[g] # "failed"
      BY <1>1 DEF PairInv
    <2>2. /\ net' = {} /\ queue[Server] = <<>> /\ queue[Client] = <<>> /\ xpc[Server] # "send"
          /\ xpc[Client] = "recv"
      BY <1>4, <2>1 DEF OneToken
    <2>3. CASE queue' = queue
      BY <1>4, <1>8, <2>1, <2>2, <2>3, Peers DEF OneToken, Current, Answers
    <2>4. CASE queue' = [queue EXCEPT ![d.to] = Append(@, d.run)]
      <3>1. /\ queue'[d.to] = Append(queue[d.to], d.run)
            /\ \A g \in Host : g # d.to => queue'[g] = queue[g]
        BY <1>5, <2>4
      <3>2. Append(<<>>, d.run) = <<d.run>> /\ <<d.run>> # <<>> /\ Head(<<d.run>>) = d.run
        OBVIOUS
      <3>3. CASE d.to = Server
        <4>1. d.run = run[Client] /\ queue'[Server] = <<run[Client]>> /\ queue'[Client] = <<>>
          BY <2>1, <2>2, <3>1, <3>2, <3>3, Peers DEF Current
        <4> QED
          BY <1>4, <1>8, <2>1, <2>2, <4>1, Peers DEF OneToken, Current, Answers
      <3>4. CASE d.to = Client
        <4>1. Answers(d.run) /\ queue'[Client] = <<d.run>> /\ Head(queue'[Client]) = d.run /\ queue'[Server] = <<>>
          BY <2>1, <2>2, <3>1, <3>2, <3>4, Peers DEF Current
        <4>2. OneToken'
          BY <1>4, <2>2, <4>1, Peers DEF OneToken
        <4>3. Current'
          BY <1>4, <1>8, <2>1, <2>2, <4>1, Peers DEF Current, Answers
        <4> QED
          BY <1>4, <2>1, <4>2, <4>3
      <3> QED
        BY <1>5, <3>3, <3>4, Peers
    <2> QED
      BY <1>4, <2>3, <2>4
  <1> QED
    BY <1>3, <1>7, <1>8, <1>9, TypeParts, PTL DEF StartupInv

(* A call fails or a process is killed. *)
LEMMA FaultStep == ASSUME StartupInv, NEW h \in Host, Fault(h) PROVE StartupInv'
  <1>1. LoadTypeOK /\ XTypes /\ Busy /\ LoadInv
    BY TypeParts DEF StartupInv
  <1>2. faults' \in 0..MaxFaults /\ faults' # 0 /\ run' = run
    BY <1>1, StartupAssumption DEF Fault, XTypes
  <1>3. PairInv'
    BY <1>2 DEF PairInv
  <1>4. CASE CallFails(h) /\ UNCHANGED xVars
    <2>1. Loads(h) /\ pc[h] # "exchange"
      BY <1>1, <1>4, LoadCallFails DEF CallFails
    <2>2. XTypes'
      BY <1>1, <1>2, <1>4 DEF XTypes, xVars
    <2>3. Busy'
      BY <1>1, <1>4, <2>1 DEF Busy, Loads, Same, xVars
    <2> QED
      BY <1>3, <2>1, <2>2, <2>3, TypeParts, PTL DEF StartupInv, Loads
  <1>5. CASE ExchangeFails(h) /\ UNCHANGED loadVars
    <2>1. LoadTypeOK' /\ LoadInv' /\ pc' = pc
      BY <1>1, <1>5, Unloaded
    <2>2. XTypes'
      <3>1. <<>> \in Seq(Nat)
        BY EmptySeq
      <3> QED
        BY <1>1, <1>2, <1>5, <3>1 DEF XTypes, ExchangeFails
    <2>3. Busy'
      BY <1>1, <1>5, <2>1 DEF Busy, ExchangeFails, Bound, XTypes
    <2> QED
      BY <1>3, <2>1, <2>2, <2>3, TypeParts, PTL DEF StartupInv
  <1>6. CASE Die(h) /\ Forget(h)
    <2>1. Loads(h)
      BY <1>1, <1>6, LoadDie
    <2>2. XTypes' /\ xpc'[h] = "out" /\ \A g \in Host : g # h => xpc'[g] = xpc[g]
      BY <1>1, <1>2, <1>6, Forgets
    <2>3. Busy'
      BY <1>1, <2>1, <2>2 DEF Busy, Loads, Same
    <2> QED
      BY <1>3, <2>1, <2>2, <2>3, TypeParts, PTL DEF StartupInv, Loads
  <1> QED
    BY <1>4, <1>5, <1>6 DEF Fault

(* The beginning. *)
LEMMA StartupStarts == Init => StartupInv
  <1> SUFFICES ASSUME Init PROVE StartupInv
    OBVIOUS
  <1>1. LoadTypeOK
    BY DEF Init, LoadInit, LoadTypeOK, NoProcess, MapStates, Labels
  <1>2. XTypes
    <2>1. <<>> \in Seq(Nat)
      BY EmptySeq
    <2>2. lost \in BOOLEAN
      BY Zenon DEF Init, XInit
    <2> QED
      BY <2>1, <2>2, StartupAssumption DEF Init, XInit, XTypes
  <1>3. \A h \in Host : /\ pc[h] = "idle" /\ Prog(h) = "none" /\ map_pin[h] = "none" /\ refused[h] = "none"
                        /\ xpc[h] = "out" /\ queue[h] = <<>>
    BY DEF Init, LoadInit, XInit, NoProcess, Prog
  <1>4. LoadInv
    BY <1>3 DEF LoadInv, Process, OldPayloads, Refused, Attached
  <1>5. Busy
    BY <1>3 DEF Busy
  <1>6. PairInv
    <2>1. net = {}
      BY DEF Init, XInit
    <2>2. \A h \in Host : ~Past(h)
      BY <1>3 DEF Past
    <2> QED
      BY <1>3, <2>1, <2>2, Peers DEF PairInv, OneToken, Current
  <1> QED
    BY <1>1, <1>2, <1>4, <1>5, <1>6, TypeParts DEF StartupInv

-----------------------------------------------------------------------------
(* The theorems. *)

(* The invariant of the start of the experiments. *)
THEOREM StartupInvariant == Spec => []StartupInv
  <1>1. StartupInv /\ [Next]_vars => StartupInv'
    <2> SUFFICES ASSUME StartupInv, [Next]_vars PROVE StartupInv'
      OBVIOUS
    <2>1. CASE Network
      BY <2>1, NetworkStep
    <2>2. ASSUME NEW h \in Host, Start(h) \/ Main(h) \/ End(h) \/ Fault(h)
          PROVE  StartupInv'
      <3>1. CASE Talk(h)
        BY <3>1, SendtoStep, RecvfromStep DEF Talk, exchange_data
      <3> QED
        BY <2>2, <3>1, StartStep, LoadStep, CallStep, ReturnStep, EndStep, FaultStep DEF Main
    <2>3. CASE UNCHANGED vars
      <3>1. LoadTypeOK /\ XTypes /\ Busy /\ LoadInv /\ PairInv
        BY TypeParts DEF StartupInv
      <3>2. LoadTypeOK' /\ LoadInv' /\ pc' = pc /\ \A h \in Host : Prog(h)' = Prog(h)
        BY <2>3, <3>1, Unloaded DEF vars
      <3>3. UNCHANGED <<net, queue, xpc, peer, lost, run, faults>>
        BY <2>3 DEF vars, xVars
      <3>4. XTypes' /\ Busy'
        BY <3>1, <3>2, <3>3 DEF XTypes, Busy
      <3>5. PairInv'
        BY <3>1, <3>2, <3>3, PairKept DEF Past
      <3> QED
        BY <3>2, <3>4, <3>5, TypeParts, PTL DEF StartupInv
    <2> QED
      BY <2>1, <2>2, <2>3 DEF Next
  <1> QED
    BY <1>1, StartupStarts, PTL DEF Spec

(* The variables of xdp-loading.c and exchange_data keep their types, and  *)
(* a process that exchanges addresses does nothing else.                   *)
THEOREM StartupTypes == Spec => []TypeOK
  <1>1. StartupInv => TypeOK
    BY DEF StartupInv
  <1> QED
    BY <1>1, StartupInvariant, PTL

(* pp_poll.c never starts on old payloads, unless detach_xdp unpinned the  *)
(* program and then died or failed to unpin the map, with no map unpinned  *)
(* since.                                                                  *)
THEOREM StartupFreshMap == Spec => []FreshMap
  <1>1. StartupInv => FreshMap
    BY DEF StartupInv, LoadInv, OldPayloads, Attached, FreshMap
  <1> QED
    BY <1>1, StartupInvariant, PTL

(* A program that was refused is not refused a second time. *)
THEOREM StartupRetryAttaches == Spec => []RetryAttaches
  <1>1. StartupInv => RetryAttaches
    <2> SUFFICES ASSUME StartupInv, NEW h \in Host, pc[h] = "attach_xdp", refused[h] = Prog(h)
                 PROVE  attached[h] = "none"
      BY DEF RetryAttaches
    <2>1. Process(h) /\ Refused(h)
      BY DEF StartupInv, LoadInv
    <2>2. Prog(h) # "none"
      BY <2>1 DEF Process
    <2> QED
      BY <2>1, <2>2 DEF Refused
  <1> QED
    BY <1>1, StartupInvariant, PTL

(* Without faults, two experiments that run have each other's addresses,   *)
(* whatever exchange_data loses or receives late.                          *)
THEOREM StartupPaired == Spec => []Paired
  <1>1. StartupInv => Paired
    <2> SUFFICES ASSUME StartupInv, Talked(Client), Talked(Server), faults = 0
                 PROVE  peer[Client] = run[Server] /\ peer[Server] = run[Client]
      BY DEF Paired
    <2>1. Current
      BY DEF StartupInv, PairInv
    <2>2. Past(Client) /\ Past(Server)
      BY DEF Talked, Past
    <2> QED
      BY <2>1, <2>2 DEF Current, Answers
  <1> QED
    BY <1>1, StartupInvariant, PTL
=============================================================================
