------------------------- MODULE SocketExperiments -------------------------
(***************************************************************************)
(* The experiments over the sockets of the kernel, for model checking: the *)
(* operator starts one of UdpPingpong and HwTimestamps, and the other one  *)
(* stays at its beginning.                                                 *)
(***************************************************************************)
EXTENDS UdpPingpong, HwTimestamps

VARIABLE experiment

vars == <<experiment, udpVars, hwVars>>

Init ==
    /\ UdpInit
    /\ HwInit
    /\ \/ experiment = "udp" /\ \A h \in Hosts : hw[h]
       \/ experiment = "hwts" /\ kind = "udp"

Next ==
    \/ experiment = "udp" /\ UdpNext /\ UNCHANGED <<experiment, hwVars>>
    \/ experiment = "hwts" /\ HwNext /\ UNCHANGED <<experiment, udpVars>>

FairSpec ==
    /\ Init
    /\ [][Next]_vars
    /\ experiment = "udp" => UdpFairness
    /\ experiment = "hwts" => HwFairness

-----------------------------------------------------------------------------
(* Properties; the others are in the modules of the two programs. *)

(* The types of the variables of either program. *)
TypeOK == UdpTypeOK /\ HwTypeOK

(* The experiment that was started ends, unless what its own module names  *)
(* happens (UdpEnds, HwEnds).                                              *)
ExperimentEnds ==
    /\ experiment = "udp" => UdpEnds
    /\ experiment = "hwts" => HwEnds
=============================================================================
