--------------------------- MODULE ForwardSession ---------------------------
(***************************************************************************)
(* ForwardSession (forwardsession.cpp) and NATSession (natsession.cpp,     *)
(* the same but for where the target comes from): the target is known at   *)
(* start(), so the first local read and the dialling of the tunnel start   *)
(* together.                                                               *)
(*                                                                         *)
(* What is claimed of it is stated in Tunnel and, for both kinds of        *)
(* session, in ClientSession.                                              *)
(***************************************************************************)
EXTENDS Tunnel

ForwardInit ==
    /\ status = "NEW"
    /\ pending = Idle({})
    /\ in_open = TRUE /\ out_open = FALSE /\ udp_open = FALSE
    /\ first_packet_recv = FALSE /\ late_read = FALSE
    /\ in_next = 1 /\ out_next = 1
    /\ out_write_buf = <<>> /\ out_write_data = <<>> /\ writes = <<>>
    /\ server_got = <<>>
    /\ in_write_data = <<>> /\ client_got = <<>>

Start ==
    /\ status = "NEW"
    /\ status' = "CONNECT"
    /\ out_write_buf' = <<0>>
    /\ Handled({}, {"in_read", "resolve"})
    /\ UNCHANGED <<sockets, first_packet_recv, late_read, in_next, out_write_data, writes,
                   server_got, downward>>

\* start() gives up: no remote endpoint, or (NAT) no original destination.
StartFails ==
    /\ status = "NEW"
    /\ DestroyFrom({})
    /\ UNCHANGED <<upward, downward>>

ForwardHandshakeDone == TunnelUp("in_read", "FORWARD")

InRecvConnect == in_open /\ \E n \in 1..ReadMax : FirstPacket("in_read", n)

InRecvForward == in_open /\ \E n \in 1..ReadMax : LocalRead("in_read", "FORWARD", n)

ForwardOutSent == \E i \in DOMAIN writes : WriteDone(i, "in_read", "FORWARD")

ForwardOutRecv(n) ==
    /\ status = "FORWARD" /\ pending["out_read"] > 0
    /\ out_next + n - 1 <= ServerCells
    /\ out_next' = out_next + n
    /\ in_write_data' = Cells(out_next, n)
    /\ Handled({"out_read"}, {"in_write"})
    /\ UNCHANGED <<status, sockets, upward, client_got>>

ForwardInSent ==
    /\ status = "FORWARD" /\ pending["in_write"] > 0 /\ in_open
    /\ client_got' = client_got \o in_write_data
    /\ in_write_data' = <<>>
    /\ Handled({"in_write"}, {"out_read"})
    /\ UNCHANGED <<status, sockets, upward, out_next>>

ForwardNext ==
    \/ Start \/ StartFails
    \/ ResolveDone \/ ConnectDone \/ ForwardHandshakeDone
    \/ InRecvConnect \/ InRecvForward \/ ForwardOutSent
    \/ (\E n \in 1..ReadMax : ForwardOutRecv(n)) \/ ForwardInSent
    \/ Records \/ Failures \/ Shutdowns

ForwardSpec == ForwardInit /\ [][ForwardNext]_tunnelVars
=============================================================================
