--------------------------- MODULE MCClientModes ----------------------------
(* The sessions of the run types that dial a server, on small instances: one   *)
(* of the kinds of ClientModes or the UDP side of the forward run type.  The   *)
(* other keeps its first state.                                                *)
EXTENDS ClientModes, UdpForward

MCInit == ModesInit /\ UdpInit

MCNext ==
    \/ ModesNext /\ UNCHANGED udpVars
    \/ run_type = "udp_forward" /\ UdpNext /\ UNCHANGED <<run_type, vars>>

MCSpec ==
    /\ MCInit /\ [][MCNext]_<<run_type, vars, udpVars>>
    /\ Fairness /\ UdpFairness

\* Sessions of all three kinds that were destroyed are freed, unless a lookup that
\* completes after destroy() opens the tunnel again.
SessionsFreed == TornDown /\ DestroyedFreed
=============================================================================
