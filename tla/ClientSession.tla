---------------------------- MODULE ClientSession ---------------------------
(***************************************************************************)
(* ClientSession (clientsession.cpp): a SOCKS5 negotiation on the local    *)
(* connection, then a CONNECT relayed from that connection or a            *)
(* UDP ASSOCIATE relayed from a UDP socket, through one TLS tunnel.        *)
(* A datagram of the local side is a read of one or more cells; a packet   *)
(* from the server is packet_cells cells of the tunnel's stream.           *)
(*                                                                         *)
(* Definitions named X_Something are deliberately wrong variants of X.     *)
(***************************************************************************)
EXTENDS Tunnel

CONSTANTS
    PacketSizes,    \* cells a UDP packet from the server may have
    MaxLength       \* MAX_LENGTH in cells

ASSUME ClientSessionAssumption ==
    /\ PacketSizes \subseteq Nat \ {0} /\ MaxLength \in Nat

VARIABLES
    packet_cells,   \* cells of a UDP packet from the server
    is_udp,
    udp_data_buf,   \* cells from the server that no packet was cut from yet
    empty_recv,     \* history: an empty datagram came while relaying
    stray           \* history: data came on the control connection of an associate

clientVars == <<packet_cells, is_udp, udp_data_buf, empty_recv, stray>>
vars == <<tunnelVars, clientVars>>

\* The operation that reads the payload, and the status in which it is relayed.
Source == IF is_udp THEN "udp_read" ELSE "in_read"
Forwarding == IF is_udp THEN "UDP_FORWARD" ELSE "FORWARD"

Init ==
    /\ status = "HANDSHAKE"
    /\ pending = Idle({"in_read"})
    /\ in_open = TRUE /\ out_open = FALSE /\ udp_open = FALSE
    /\ first_packet_recv = FALSE /\ late_read = FALSE
    /\ in_next = 1 /\ out_next = 1
    /\ out_write_buf = <<>> /\ out_write_data = <<>> /\ writes = <<>>
    /\ server_got = <<>>
    /\ in_write_data = <<>> /\ client_got = <<>>
    /\ is_udp = FALSE /\ udp_data_buf = <<>> /\ empty_recv = FALSE /\ stray = FALSE
    /\ packet_cells \in PacketSizes
-----------------------------------------------------------------------------
(* SOCKS5 negotiation. *)

\* A greeting or a request that is answered; a refusal makes the session INVALID.
Answered(accepted) ==
    /\ pending["in_read"] > 0 /\ in_open
    /\ status' = IF accepted THEN status ELSE "INVALID"
    /\ Handled({"in_read"}, {"in_write"})

Greeting ==
    /\ status = "HANDSHAKE"
    /\ \E accepted \in BOOLEAN : Answered(accepted)
    /\ UNCHANGED <<sockets, upward, downward, clientVars>>

BadGreetingOrRequest ==
    /\ status \in {"HANDSHAKE", "REQUEST"}
    /\ pending["in_read"] > 0 /\ in_open
    /\ DestroyFrom({"in_read"})
    /\ UNCHANGED <<upward, downward, clientVars>>

Request(udp) ==
    /\ status = "REQUEST"
    /\ Answered(TRUE)
    /\ is_udp' = udp
    /\ udp_open' = udp
    /\ out_write_buf' = <<0>>
    /\ UNCHANGED <<in_open, out_open, first_packet_recv, late_read, in_next, out_write_data,
                   writes, server_got, downward, packet_cells, udp_data_buf, empty_recv, stray>>

UnsupportedCommand ==
    /\ status = "REQUEST"
    /\ Answered(FALSE)
    /\ UNCHANGED <<sockets, upward, downward, clientVars>>

\* The UDP socket of an associate cannot be opened.
AssociateFails ==
    /\ status = "REQUEST"
    /\ pending["in_read"] > 0 /\ in_open
    /\ is_udp' = TRUE
    /\ DestroyFrom({"in_read"})
    /\ UNCHANGED <<upward, downward, packet_cells, udp_data_buf, empty_recv, stray>>

GreetingSent ==
    /\ status = "HANDSHAKE" /\ pending["in_write"] > 0
    /\ status' = "REQUEST"
    /\ Handled({"in_write"}, {"in_read"})
    /\ UNCHANGED <<sockets, upward, downward, clientVars>>

ReplySent ==
    /\ status = "REQUEST" /\ pending["in_write"] > 0
    /\ status' = "CONNECT"
    /\ Handled({"in_write"}, {"in_read", Source, "resolve"})
    /\ UNCHANGED <<sockets, upward, downward, clientVars>>

RefusalSent ==
    /\ status = "INVALID" /\ pending["in_write"] > 0
    /\ DestroyFrom({"in_write"})
    /\ UNCHANGED <<upward, downward, clientVars>>
-----------------------------------------------------------------------------
(* From the local side to the server. *)

SourceOpen == IF is_udp THEN udp_open ELSE in_open

HandshakeDone == TunnelUp(Source, Forwarding) /\ UNCHANGED clientVars

RecvConnect(n) ==
    /\ SourceOpen
    /\ FirstPacket(Source, n)
    /\ UNCHANGED clientVars

RecvForward(n) ==
    /\ SourceOpen
    /\ LocalRead(Source, Forwarding, n)
    /\ UNCHANGED clientVars

OutSent ==
    /\ \E i \in DOMAIN writes : WriteDone(i, Source, Forwarding)
    /\ UNCHANGED clientVars

\* udp_recv returns on an empty datagram, and does not read again.
EmptyDatagram ==
    /\ udp_open /\ pending["udp_read"] > 0
    /\ Handled({"udp_read"}, {})
    /\ empty_recv' = (status = "UDP_FORWARD")
    /\ UNCHANGED <<status, sockets, upward, downward, packet_cells, is_udp, udp_data_buf, stray>>

BadDatagram ==
    /\ udp_open /\ pending["udp_read"] > 0
    /\ DestroyFrom({"udp_read"})
    /\ UNCHANGED <<upward, downward, clientVars>>

\* Data on the control connection of an associate: kept as if it were a first
\* payload, or the end of the session once the tunnel is up.
StrayConnect ==
    /\ is_udp
    /\ status = "CONNECT" /\ pending["in_read"] > 0 /\ in_open
    /\ first_packet_recv' = TRUE
    /\ out_write_buf' = Append(out_write_buf, Garbage)
    /\ stray' = TRUE
    /\ Handled({"in_read"}, {})
    /\ UNCHANGED <<status, sockets, late_read, in_next, out_write_data, writes, server_got,
                   downward, packet_cells, is_udp, udp_data_buf, empty_recv>>

StrayForward ==
    /\ is_udp
    /\ status = "UDP_FORWARD" /\ pending["in_read"] > 0 /\ in_open
    /\ DestroyFrom({"in_read"})
    /\ UNCHANGED <<upward, downward, clientVars>>
-----------------------------------------------------------------------------
(* From the server to the local side. *)

OutRecv(n) ==
    /\ status = "FORWARD" /\ pending["out_read"] > 0
    /\ out_next + n - 1 <= ServerCells
    /\ out_next' = out_next + n
    /\ in_write_data' = Cells(out_next, n)
    /\ Handled({"out_read"}, {"in_write"})
    /\ UNCHANGED <<status, sockets, upward, client_got, clientVars>>

InSent ==
    /\ status = "FORWARD" /\ pending["in_write"] > 0 /\ in_open
    /\ client_got' = client_got \o in_write_data
    /\ in_write_data' = <<>>
    /\ Handled({"in_write"}, {"out_read"})
    /\ UNCHANGED <<status, sockets, upward, out_next, clientVars>>

\* udp_sent(): cut the next packet from buf and send it, or read on for the rest of it.
CutPacket_DropsRest(buf, done) ==
    \/ /\ Len(buf) >= packet_cells
       /\ in_write_data' = SubSeq(buf, 1, packet_cells)
       /\ udp_data_buf' = <<>>
       /\ Handled(done, {"udp_write"})
       /\ UNCHANGED <<status, sockets>>
    \/ /\ Len(buf) < packet_cells /\ Len(buf) > MaxLength
       /\ udp_data_buf' = buf /\ in_write_data' = <<>>
       /\ DestroyFrom(done)
    \/ /\ Len(buf) < packet_cells /\ Len(buf) <= MaxLength
       /\ udp_data_buf' = buf /\ in_write_data' = <<>>
       /\ Handled(done, {"out_read"})
       /\ UNCHANGED <<status, sockets>>

CutPacket(buf, done) ==
    \/ /\ Len(buf) >= packet_cells
       /\ in_write_data' = SubSeq(buf, 1, packet_cells)
       /\ udp_data_buf' = SubSeq(buf, packet_cells + 1, Len(buf))
       /\ Handled(done, {"udp_write"})
       /\ UNCHANGED <<status, sockets>>
    \/ /\ Len(buf) < packet_cells /\ Len(buf) > MaxLength
       /\ udp_data_buf' = buf /\ in_write_data' = <<>>
       /\ DestroyFrom(done)
    \/ /\ Len(buf) < packet_cells /\ Len(buf) <= MaxLength
       /\ udp_data_buf' = buf /\ in_write_data' = <<>>
       /\ Handled(done, {"out_read"})
       /\ UNCHANGED <<status, sockets>>

OutRecvUdp(n) ==
    /\ status = "UDP_FORWARD" /\ pending["out_read"] > 0
    /\ out_next + n - 1 <= ServerCells
    /\ out_next' = out_next + n
    /\ CutPacket(udp_data_buf \o Cells(out_next, n), {"out_read"})
    /\ UNCHANGED <<upward, client_got, packet_cells, is_udp, empty_recv, stray>>

UdpSent ==
    /\ status = "UDP_FORWARD" /\ pending["udp_write"] > 0 /\ udp_open
    /\ client_got' = client_got \o in_write_data
    /\ CutPacket(udp_data_buf, {"udp_write"})
    /\ UNCHANGED <<upward, out_next, packet_cells, is_udp, empty_recv, stray>>
-----------------------------------------------------------------------------
Negotiate ==
    \/ Greeting \/ BadGreetingOrRequest \/ UnsupportedCommand \/ AssociateFails
    \/ \E udp \in BOOLEAN : Request(udp)
    \/ GreetingSent \/ ReplySent \/ RefusalSent

Stray == StrayConnect \/ StrayForward \/ EmptyDatagram \/ BadDatagram

Relay ==
    \/ \E n \in 1..ReadMax : RecvConnect(n) \/ RecvForward(n) \/ OutRecv(n) \/ OutRecvUdp(n)
    \/ OutSent \/ InSent \/ UdpSent

Lower ==
    /\ ResolveDone \/ ConnectDone \/ Records \/ Failures \/ Shutdowns
    /\ UNCHANGED clientVars

Next == Negotiate \/ HandshakeDone \/ Relay \/ Stray \/ Lower

Spec == Init /\ [][Next]_vars

\* An operation on a closed socket, or one that destroy() cancelled, fails.
Fails(op) == OperationFails(op) /\ UNCHANGED clientVars

CancelledWriteFails ==
    /\ ~Uncancelled
    /\ \E i \in DOMAIN writes : WriteFails(i)
    /\ UNCHANGED clientVars

\* What ends without the peers: a lookup, the shutdown timer, an operation on a
\* closed socket, and what destroy() cancelled on out_socket.  Connects, handshakes,
\* reads and writes that nothing cancelled may wait for ever.
Fairness ==
    /\ WF_vars((ResolveDone /\ UNCHANGED clientVars) \/ Fails("resolve"))
    /\ WF_vars(~Uncancelled /\ Fails("connect"))
    /\ WF_vars(~Uncancelled /\ Fails("handshake"))
    /\ WF_vars(~Uncancelled /\ Fails("out_read"))
    /\ WF_vars(CancelledWriteFails)
    /\ WF_vars(~in_open /\ Fails("in_read"))
    /\ WF_vars(~in_open /\ Fails("in_write"))
    /\ WF_vars(~udp_open /\ Fails("udp_read"))
    /\ WF_vars(~udp_open /\ Fails("udp_write"))
    /\ WF_vars(ShutdownEnds("timer") /\ UNCHANGED clientVars)
    /\ WF_vars(~out_open /\ ShutdownEnds("shutdown") /\ UNCHANGED clientVars)

FairSpec == Spec /\ Fairness
-----------------------------------------------------------------------------
\* UpwardConserved, but for data on the control connection of an associate, which is
\* sent to the server as if it were a first payload.
PayloadConserved == stray \/ UpwardConserved

\* Neither relay direction doubles or dies.  With the tunnel up exactly one of a
\* payload read and a tunnel write is under way; the exception is an empty datagram
\* (udp_recv), after which the relay from the UDP socket stops.  Tunnel reads and
\* local writes alternate, and every cell the server sent is passed on once and in
\* order: packets are cut where they end, however the stream is read.  A
\* ForwardSession relays like a CONNECT.  The control connection of an associate is
\* watched by a read, so that the local side closing it ends the session; data on that
\* connection while the tunnel is dialled ends the watch.
RelaysServed ==
    /\ is_udp /\ in_open /\ ~stray /\ status \in {"CONNECT", "UDP_FORWARD"} =>
        pending["in_read"] = 1
    /\ status \in {"FORWARD", "UDP_FORWARD"} =>
        /\ late_read \/ stray \/ pending[Source] + Len(writes) = IF empty_recv THEN 0 ELSE 1
        /\ pending["out_read"] + pending["in_write"] + pending["udp_write"] = 1
        /\ client_got \o in_write_data \o udp_data_buf = Cells(1, out_next - 1)
        /\ is_udp => Len(client_got) % packet_cells = 0
=============================================================================
