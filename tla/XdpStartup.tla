----------------------------- MODULE XdpStartup -----------------------------
(***************************************************************************)
(* The start of the XDP experiments on two hosts: an operator starts       *)
(* programs, kills them when they hang and starts them again; each loads   *)
(* its XDP program (XdpLoading), exchanges addresses with the program on   *)
(* the other host (Exchange) and runs its experiment.                      *)
(***************************************************************************)
EXTENDS XdpLoading

CONSTANTS ClientPrograms, ServerPrograms,  \* what is started on each host
          ClientRuns, ServerRuns,          \* and how often
          MaxFaults                        \* processes killed, calls that fail

ASSUME StartupAssumption ==
    /\ ClientPrograms \cup ServerPrograms \subseteq Programs
    /\ ClientRuns \in Nat
    /\ ServerRuns \in Nat
    /\ MaxFaults \in Nat

VARIABLES
    run,      \* host -> number of the run, counting from 1
    faults    \* history: processes killed and calls that failed

vars == <<loadVars, xVars, run, faults>>

Init ==
    /\ LoadInit
    /\ XInit
    /\ run = [h \in Host |-> 0]
    /\ faults = 0

Start(h) ==
    /\ run[h] < IF h = Client THEN ClientRuns ELSE ServerRuns
    /\ \E p \in IF h = Client THEN ClientPrograms ELSE ServerPrograms, r \in BOOLEAN : StartMain(h, p, r)
    /\ run' = [run EXCEPT ![h] = @ + 1]
    /\ UNCHANGED <<xVars, faults>>

Load(h) ==
    /\ detach_xdp(h) \/ attach_xdp(h) \/ Setup(h)
    /\ UNCHANGED <<xVars, run, faults>>

End(h) ==
    /\ Finish(h)
    /\ Forget(h)
    /\ UNCHANGED <<run, faults>>

Call(h) ==
    /\ pc[h] = "exchange"
    /\ Enter(h)
    /\ UNCHANGED <<loadVars, run, faults>>

Talk(h) ==
    /\ exchange_data(h, run[h])
    /\ UNCHANGED <<loadVars, run, faults>>

(* Mutant: the exchange goes on in the background. *)
ReturnNoWait(h) ==
    /\ pc[h] = "exchange"
    /\ xpc[h] # "out"
    /\ Goto(h, IF Prog(h) = "sock" THEN "attach_load" ELSE "setup")
    /\ UNCHANGED <<xVars, pinVars, torn, refused, run, faults>>

(* pp_poll gives up when the exchange failed, pp_sock does not look. *)
Return(h) ==
    /\ Leave(h)
    /\ Goto(h, IF Prog(h) = "sock" THEN "attach_load"
               ELSE IF xpc[h] = "done" THEN "setup" ELSE "idle")
    /\ UNCHANGED <<pinVars, torn, refused, run, faults>>

Network ==
    /\ \E d \in net : Deliver(d) \/ Lose(d)
    /\ UNCHANGED <<loadVars, run, faults>>

Fault(h) ==
    /\ faults < MaxFaults
    /\ faults' = faults + 1
    /\ \/ CallFails(h) /\ UNCHANGED xVars
       \/ ExchangeFails(h) /\ UNCHANGED loadVars
       \/ Die(h) /\ Forget(h)
    /\ UNCHANGED run

Main(h) == Load(h) \/ Call(h) \/ Talk(h) \/ Return(h)

Next == Network \/ \E h \in Host : Start(h) \/ Main(h) \/ End(h) \/ Fault(h)

Spec == Init /\ [][Next]_vars

(* A process that can go on does, and the network does not keep datagrams  *)
(* for ever; nobody has to start or kill anything.                         *)
FairSpec == Spec /\ WF_vars(Network) /\ \A h \in Host : WF_vars(Main(h))

-----------------------------------------------------------------------------
(* Properties. *)

(* The types of the variables; a process that exchanges addresses does     *)
(* nothing else meanwhile.                                                 *)
TypeOK ==
    /\ LoadTypeOK
    /\ net \subseteq [to : Host, run : Nat]
    /\ queue \in [Host -> Seq(Nat)]
    /\ xpc \in [Host -> {"out", "send", "recv", "done", "failed"}]
    /\ peer \in [Host -> Nat]
    /\ lost \in BOOLEAN
    /\ run \in [Host -> Nat]
    /\ faults \in 0..MaxFaults
    /\ \A h \in Host : xpc[h] # "out" => pc[h] = "exchange"

Talked(h) == pc[h] = "run" /\ Prog(h) \in {"poll", "sock"}

(* Two experiments that run at the same time have the addresses of each    *)
(* other and not those of an earlier run, although datagrams are lost or   *)
(* late and nothing in them tells the runs apart (net.c:144 and 158), as   *)
(* long as nobody has been killed and no call has failed.                  *)
Paired ==
    (Talked(Client) /\ Talked(Server) /\ faults = 0) =>
        (peer[Client] = run[Server] /\ peer[Server] = run[Client])

(* A client that sends while the server waits has its answer, unless a     *)
(* datagram is lost or somebody fails: neither side waits for the other    *)
(* for ever.  There is no retry (net.c:145), so a lost datagram is enough  *)
(* to stop both.                                                           *)
ExchangeEnds ==
    (xpc[Server] = "recv" /\ xpc[Client] = "send" /\ ~lost) ~>
        (lost \/ faults > 0 \/ xpc[Client] = "out")
=============================================================================
