----------------------------- MODULE XdpLoading -----------------------------
(***************************************************************************)
(* Attaching and detaching the XDP programs (xdp/src/xdp-loading.c) by the *)
(* main functions of pp_poll.c, pp_pure.c and pp_sock.c.  What they change *)
(* outlives them: the program attached to the interface, and the pins of   *)
(* programs and maps in the BPF file system.  The map last_payload of      *)
(* pingpong.c is pinned by name, so an object that is loaded while the pin *)
(* exists takes over the old map with the payloads in it; the map with the *)
(* writer's index is not pinned and always new.  The pinned xsk_map of     *)
(* pingpong_xsk.c is left out: the kernel empties it with the socket.      *)
(* One process runs on a host at a time.  Two of the mains exchange        *)
(* addresses on the way, which is what Exchange models.                    *)
(***************************************************************************)
EXTENDS Exchange

VARIABLES
    attached,   \* host -> program attached to the interface, or "none"
    prog_pin,   \* host -> programs whose pinpath exists
    map_pin,    \* host -> what the pinned last_payload holds
    proc,       \* host -> the process: its program, whether it is to remove
                \* it only, what last_payload held when main loaded it
    pc,         \* host -> next step of main
    torn,       \* history: the program was unpinned and the map was not
    refused     \* history: program whose last run failed because another
                \* one was attached, with nothing done on the host since

pinVars == <<attached, prog_pin, map_pin>>
loadVars == <<pinVars, proc, pc, torn, refused>>

Programs == {"poll", "pure", "sock"}

(* There is no such map, it is empty, or it may hold payloads. *)
MapStates == {"none", "clean", "dirty"}

NoProcess == [prog |-> "none", remove |-> FALSE, map |-> "none"]

LoadInit ==
    /\ attached = [h \in Host |-> "none"]
    /\ prog_pin = [h \in Host |-> {}]
    /\ map_pin = [h \in Host |-> "none"]
    /\ proc = [h \in Host |-> NoProcess]
    /\ pc = [h \in Host |-> "idle"]
    /\ torn = [h \in Host |-> FALSE]
    /\ refused = [h \in Host |-> "none"]

Prog(h) == proc[h].prog

(* A step of main that ends at l; at "idle" the process is gone. *)
Goto(h, l) ==
    /\ pc' = [pc EXCEPT ![h] = l]
    /\ proc' = IF l = "idle" THEN [proc EXCEPT ![h] = NoProcess] ELSE proc

(* Every main begins with detach_xdp, whose result it ignores unless it is *)
(* asked to remove the program.                                            *)
StartMain(h, p, r) ==
    /\ pc[h] = "idle"
    /\ proc' = [proc EXCEPT ![h] = [NoProcess EXCEPT !.prog = p, !.remove = r]]
    /\ pc' = [pc EXCEPT ![h] = "detach_load"]
    /\ refused' = [refused EXCEPT ![h] = IF r \/ @ # p THEN "none" ELSE @]
    /\ UNCHANGED <<pinVars, torn>>

(* Where main goes on: pp_sock exchanges addresses before it attaches. *)
AfterDetach(h) ==
    IF proc[h].remove THEN "idle" ELSE IF Prog(h) = "sock" THEN "exchange" ELSE "attach_load"

(* The server of pp_pure leaves the work to the kernel and exits. *)
AfterAttach(h) ==
    CASE Prog(h) = "poll" -> "exchange"
      [] Prog(h) = "sock" -> "setup"
      [] Prog(h) = "pure" -> IF h = Server THEN "idle" ELSE "run"

-----------------------------------------------------------------------------
(* detach_xdp. *)

(* bpf_object__load takes over the pinned map or makes and pins a new one. *)
Loaded(h) == IF map_pin[h] = "none" THEN "clean" ELSE map_pin[h]

bpf_object__load(h) ==
    /\ map_pin' = IF Prog(h) = "poll" THEN [map_pin EXCEPT ![h] = Loaded(h)] ELSE map_pin
    /\ proc' = IF Prog(h) = "poll" THEN [proc EXCEPT ![h].map = Loaded(h)] ELSE proc

DetachLoad(h) ==
    /\ pc[h] = "detach_load"
    /\ bpf_object__load(h)
    /\ pc' = [pc EXCEPT ![h] = "detach_unpin"]
    /\ UNCHANGED <<attached, prog_pin, torn, refused>>

(* Without a pin of the program the function returns at once. *)
DetachUnpin(h) ==
    /\ pc[h] = "detach_unpin"
    /\ prog_pin' = [prog_pin EXCEPT ![h] = @ \ {Prog(h)}]
    /\ Goto(h, IF Prog(h) \in prog_pin[h] THEN "detach_maps" ELSE AfterDetach(h))
    /\ UNCHANGED <<attached, map_pin, torn, refused>>

(* Mutant: the maps keep their pins. *)
DetachMapsForgotten(h) ==
    /\ pc[h] = "detach_maps"
    /\ Goto(h, "detach_xdp")
    /\ UNCHANGED <<attached, prog_pin, map_pin, torn, refused>>

DetachMaps(h) ==
    /\ pc[h] = "detach_maps"
    /\ IF Prog(h) = "poll"
       THEN /\ map_pin' = [map_pin EXCEPT ![h] = "none"]
            /\ torn' = [torn EXCEPT ![h] = FALSE]
       ELSE UNCHANGED <<map_pin, torn>>
    /\ Goto(h, "detach_xdp")
    /\ UNCHANGED <<attached, prog_pin, refused>>

(* bpf_xdp_detach removes whatever program is attached. *)
DetachXdp(h) ==
    /\ pc[h] = "detach_xdp"
    /\ attached' = [attached EXCEPT ![h] = "none"]
    /\ Goto(h, AfterDetach(h))
    /\ UNCHANGED <<prog_pin, map_pin, torn, refused>>

detach_xdp(h) == DetachLoad(h) \/ DetachUnpin(h) \/ DetachMaps(h) \/ DetachXdp(h)

-----------------------------------------------------------------------------
(* attach_xdp, and the rest of main. *)

AttachLoad(h) ==
    /\ pc[h] = "attach_load"
    /\ bpf_object__load(h)
    /\ pc' = [pc EXCEPT ![h] = "attach_pin"]
    /\ UNCHANGED <<attached, prog_pin, torn, refused>>

(* A pin that exists is an error, and main exits. *)
AttachPin(h) ==
    /\ pc[h] = "attach_pin"
    /\ prog_pin' = [prog_pin EXCEPT ![h] = @ \cup {Prog(h)}]
    /\ Goto(h, IF Prog(h) \in prog_pin[h] THEN "idle" ELSE "attach_xdp")
    /\ UNCHANGED <<attached, map_pin, torn, refused>>

(* XDP_FLAGS_UPDATE_IF_NOEXIST: nothing may be attached yet.  From now on  *)
(* payloads get into the map.                                              *)
AttachXdp(h) ==
    /\ pc[h] = "attach_xdp"
    /\ attached[h] = "none"
    /\ attached' = [attached EXCEPT ![h] = Prog(h)]
    /\ map_pin' = IF Prog(h) = "poll" THEN [map_pin EXCEPT ![h] = "dirty"] ELSE map_pin
    /\ refused' = [refused EXCEPT ![h] = "none"]
    /\ Goto(h, AfterAttach(h))
    /\ UNCHANGED <<prog_pin, torn>>

(* Mutant: the pin is removed when the program cannot be attached. *)
AttachRefusedUnpins(h) ==
    /\ pc[h] = "attach_xdp"
    /\ attached[h] # "none"
    /\ refused' = [refused EXCEPT ![h] = Prog(h)]
    /\ prog_pin' = [prog_pin EXCEPT ![h] = @ \ {Prog(h)}]
    /\ Goto(h, "idle")
    /\ UNCHANGED <<attached, map_pin, torn>>

AttachRefused(h) ==
    /\ pc[h] = "attach_xdp"
    /\ attached[h] # "none"
    /\ refused' = [refused EXCEPT ![h] = Prog(h)]
    /\ Goto(h, "idle")
    /\ UNCHANGED <<pinVars, torn>>

attach_xdp(h) == AttachLoad(h) \/ AttachPin(h) \/ AttachXdp(h) \/ AttachRefused(h)

(* The map is mapped into memory, or UMEM and socket are set up. *)
Setup(h) ==
    /\ pc[h] = "setup"
    /\ Goto(h, "run")
    /\ UNCHANGED <<pinVars, torn, refused>>

(* The experiment is over.  pp_sock detaches its program and leaves the    *)
(* pins; the others leave the program attached as well.                    *)
Finish(h) ==
    /\ pc[h] = "run"
    /\ attached' = IF Prog(h) = "sock" THEN [attached EXCEPT ![h] = "none"] ELSE attached
    /\ Goto(h, "idle")
    /\ UNCHANGED <<prog_pin, map_pin, torn, refused>>

(* detach_xdp stops between the pin of the program and that of the map. *)
Tears(h) == torn' = [torn EXCEPT ![h] = @ \/ (pc[h] = "detach_maps" /\ Prog(h) = "poll")]

(* Where main goes on after a call that failed: bpf_map__unpin is only     *)
(* reported, any other failure makes detach_xdp return, and main goes on;  *)
(* after attach_xdp or the setup it exits and cleans up nothing.           *)
AfterFailure(h) ==
    CASE pc[h] = "detach_maps" -> "detach_xdp"
      [] pc[h] \in {"detach_load", "detach_unpin", "detach_xdp"} -> AfterDetach(h)
      [] pc[h] \in {"attach_load", "attach_pin", "attach_xdp", "setup"} -> "idle"

(* A call fails for a reason of its own and has no effect. *)
CallFails(h) ==
    /\ pc[h] \notin {"idle", "exchange", "run"}
    /\ Goto(h, AfterFailure(h))
    /\ Tears(h)
    /\ refused' = [refused EXCEPT ![h] = "none"]
    /\ UNCHANGED pinVars

(* The process is killed. *)
Die(h) ==
    /\ pc[h] # "idle"
    /\ Goto(h, "idle")
    /\ Tears(h)
    /\ refused' = [refused EXCEPT ![h] = "none"]
    /\ UNCHANGED pinVars

-----------------------------------------------------------------------------
(* Properties. *)

Labels == {"idle", "detach_load", "detach_unpin", "detach_maps", "detach_xdp", "exchange",
           "attach_load", "attach_pin", "attach_xdp", "setup", "run"}

LoadTypeOK ==
    /\ attached \in [Host -> Programs \cup {"none"}]
    /\ prog_pin \in [Host -> SUBSET Programs]
    /\ map_pin \in [Host -> MapStates]
    /\ proc \in [Host -> [prog : Programs \cup {"none"}, remove : BOOLEAN, map : MapStates]]
    /\ pc \in [Host -> Labels]
    /\ torn \in [Host -> BOOLEAN]
    /\ refused \in [Host -> Programs \cup {"none"}]

(* The poller never starts on payloads of an earlier experiment, whatever  *)
(* programs ran, failed or were killed before: the writer's index starts   *)
(* from 0, so it would take them for new.  The exceptions are a detach_xdp *)
(* that unpinned the program (xdp-loading.c:67) and then died before it    *)
(* unpinned the map, or went on although bpf_map__unpin failed (lines 80   *)
(* to 84): the next detach_xdp finds no program pinned and returns before  *)
(* the map.  They last until a later detach_xdp does unpin the map.        *)
FreshMap ==
    \A h \in Host : (pc[h] = "run" /\ Prog(h) = "poll" /\ proc[h].map = "dirty") => torn[h]

(* detach_xdp "always try to detach first" (pp_poll.c:401) removes nothing *)
(* when the program of another experiment is attached, since it returns    *)
(* without a pin of its own; but the failed run leaves that pin behind, so *)
(* that the same program, started again, is never refused a second time.   *)
RetryAttaches ==
    \A h \in Host : (pc[h] = "attach_xdp" /\ refused[h] = Prog(h)) => attached[h] = "none"
=============================================================================
