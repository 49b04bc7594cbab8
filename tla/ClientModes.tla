----------------------------- MODULE ClientModes ------------------------------
(* A session of the run types that dial a server: a ClientSession or, in the     *)
(* same variables, a ForwardSession.  run_type says which; under "udp_forward"   *)
(* no such session runs (UdpForward), and the first state stays.                 *)
EXTENDS ClientSession, ForwardSession

CONSTANT RunTypes       \* subset of {"client", "forward", "udp_forward"}

VARIABLE run_type

ModesInit ==
    /\ run_type \in RunTypes
    /\ \/ run_type = "client" /\ Init
       \/ /\ run_type # "client" /\ ForwardInit
          /\ packet_cells = 1 /\ is_udp = FALSE /\ udp_data_buf = <<>>
          /\ empty_recv = FALSE /\ stray = FALSE

ModesNext ==
    \/ run_type = "client" /\ Next /\ UNCHANGED run_type
    \/ run_type = "forward" /\ ForwardNext /\ UNCHANGED <<run_type, clientVars>>

\* The relay of a ForwardSession is that of a CONNECT, so ClientSession's fairness is
\* its fairness as well.
ModesSpec == ModesInit /\ [][ModesNext]_<<run_type, vars>> /\ Fairness
===============================================================================
