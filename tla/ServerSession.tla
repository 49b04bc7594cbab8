--------------------------- MODULE ServerSession ----------------------------
(***************************************************************************)
(* One ServerSession (serversession.cpp) as its completion handlers run:   *)
(* TLS or trusted-front bootstrap, the first payload, the outbound         *)
(* connection, the two relay directions of a TCP or UDP session, and       *)
(* destroy() with the TLS shutdown and its timer.  The handlers of one     *)
(* session run one at a time (one thread, or one per io_context).          *)
(*                                                                         *)
(* pending[op] counts the asynchronous operations of a kind that have been *)
(* started and not yet handled.  destroy() cancels them, but a completion  *)
(* that is already queued still reports success, so after destroy() an     *)
(* operation may end either way.                                           *)
(*                                                                         *)
(* The client's payload is the cells 1, 2, ... ClientCells and the         *)
(* target's the cells 1 .. TargetCells; a UDP packet the client has framed *)
(* ends at each cell of packet_ends; a stream without such a cell never    *)
(* parses.  A definition X_Something is X with a plausible mistake in it.  *)
(***************************************************************************)
EXTENDS Integers, Sequences, FiniteSets

CONSTANTS
    ClientCells,    \* payload cells the client sends
    TargetCells,    \* cells, or datagrams, the target sends
    Framings,       \* ways the client may frame UDP packets, see packet_ends
    ReadMax,        \* in_read_buf.size(): cells one read returns at most
    MaxLength,      \* MAX_LENGTH: limit of an incomplete UDP packet
    FrameCells      \* cells of the trusted-front frame before the payload

ASSUME ServerSessionAssumption ==
    /\ ClientCells \in Nat
    /\ TargetCells \in Nat
    /\ Framings \subseteq SUBSET (1..ClientCells)
    /\ ReadMax \in Nat \ {0}
    /\ MaxLength \in Nat \ {0}
    /\ FrameCells \in Nat \ {0}

VARIABLES
    bootstrap_mode, \* "tls", "front" (no TLS) or "front_mtls"
    packet_ends,    \* last cell of each UDP packet the client frames
    status,         \* Status: "HANDSHAKE", "FORWARD", "UDP_FORWARD", "DESTROY"
    pending,        \* operations in flight, by kind
    in_open, out_open, udp_open,    \* the sockets
    bootstrap,      \* cells in trusted_front_bootstrap_buffer
    in_next,        \* next client cell to be read
    out_next,       \* next target cell to be read
    out_write_buf,  \* the first payload, kept until the target is connected
    out_write_data, \* cells being written to the target
    in_write_data,  \* cells being written to the client
    udp_data_buf,   \* unparsed UDP stream
    udp_request,    \* the packet being resolved or sent
    target_got,     \* cells the target has received
    client_got,     \* cells the client has received
    recv_len, sent_len,
    recorded,       \* usage recorded by destroy()
    too_long        \* history: destroyed by "UDP packet too long"

sockets == <<in_open, out_open, udp_open>>
upward == <<bootstrap, in_next, out_write_buf, out_write_data, udp_data_buf, udp_request, target_got>>
downward == <<out_next, in_write_data, client_got>>
meters == <<recv_len, sent_len>>
ended == <<recorded, too_long>>
setup == <<bootstrap_mode, packet_ends>>
vars == <<status, pending, sockets, upward, downward, meters, ended>>

Ops == {"handshake", "plain_write", "in_read", "in_write", "resolve", "connect",
        "out_read", "out_write", "udp_resolve", "udp_read", "udp_write",
        "shutdown", "timer"}

\* Cells of the frame that precede the payload.
Frame == IF bootstrap_mode = "tls" THEN 0 ELSE FrameCells

Cells(first, n) == [i \in 1..n |-> first + i - 1]

\* One operation of kind done has been handled, those of started begin.
Handled(done, started) ==
    pending' = [op \in Ops |->
                   pending[op] - (IF op = done THEN 1 ELSE 0)
                               + (IF op \in started THEN 1 ELSE 0)]

\* start(): the bootstrap mode decides what is awaited first.
Init ==
    /\ bootstrap_mode \in {"tls", "front", "front_mtls"}
    /\ packet_ends \in Framings
    /\ status = "HANDSHAKE"
    /\ pending = [op \in Ops |->
                     IF op = (IF bootstrap_mode = "front" THEN "in_read" ELSE "handshake")
                     THEN 1 ELSE 0]
    /\ in_open = TRUE /\ out_open = FALSE /\ udp_open = FALSE
    /\ bootstrap = 0
    /\ in_next = 1 /\ out_next = 1
    /\ out_write_buf = <<>> /\ out_write_data = <<>> /\ in_write_data = <<>>
    /\ udp_data_buf = <<>> /\ udp_request = <<>>
    /\ target_got = <<>> /\ client_got = <<>>
    /\ recv_len = 0 /\ sent_len = 0
    /\ recorded = <<0, 0>>
    /\ too_long = FALSE
-----------------------------------------------------------------------------
(* destroy(): mark, record the usage, cancel, close, start the TLS shutdown. *)

ShutdownOps_NoTimer ==
    IF in_open /\ bootstrap_mode # "front" THEN {"shutdown"} ELSE {}

ShutdownOps ==
    IF in_open /\ bootstrap_mode # "front" THEN {"shutdown", "timer"} ELSE {}

DestroyFrom(done) ==
    \/ /\ status = "DESTROY"
       /\ Handled(done, {})
       /\ UNCHANGED <<status, sockets, recorded>>
    \/ /\ status # "DESTROY"
       /\ status' = "DESTROY"
       /\ recorded' = <<recv_len', sent_len'>>
       /\ out_open' = FALSE /\ udp_open' = FALSE
       /\ in_open' = (in_open /\ bootstrap_mode # "front")
       /\ Handled(done, ShutdownOps)

\* An operation whose handler answers any error with destroy().
OperationFails(op) ==
    /\ op \notin {"shutdown", "timer"}
    /\ pending[op] > 0
    /\ UNCHANGED <<upward, downward, meters, too_long>>
    /\ DestroyFrom(op)

\* The TLS shutdown or its timer ends first: the connection is closed and the
\* other one cancelled.
ShutdownEnds(op) ==
    /\ op \in {"shutdown", "timer"}
    /\ pending[op] > 0
    /\ in_open
    /\ in_open' = FALSE
    /\ Handled(op, {})
    /\ UNCHANGED <<status, out_open, udp_open, upward, downward, meters, ended>>

\* The other callback, whether it was cancelled or already queued.
ShutdownEndsAgain(op) ==
    /\ op \in {"shutdown", "timer"}
    /\ pending[op] > 0
    /\ ~in_open
    /\ Handled(op, {})
    /\ UNCHANGED <<status, sockets, upward, downward, meters, ended>>
-----------------------------------------------------------------------------
(* Bootstrap and the first payload. *)

HandshakeDone ==
    /\ pending["handshake"] > 0
    /\ Handled("handshake", {"in_read"})
    /\ UNCHANGED <<status, sockets, upward, downward, meters, ended>>

\* A plain HTTP request on the TLS port is answered before destroy().
PlainHttpRequest ==
    /\ bootstrap_mode = "tls"
    /\ pending["handshake"] > 0
    /\ recv_len' = recv_len + 1
    /\ Handled("handshake", {"plain_write"})
    /\ UNCHANGED <<status, sockets, upward, downward, sent_len, ended>>

PlainResponseDone ==
    /\ pending["plain_write"] > 0
    /\ UNCHANGED <<upward, downward, meters, too_long>>
    /\ DestroyFrom("plain_write")

\* TrustedFrontIngressParser::parse on n more cells: the frame is still
\* incomplete ...
FrontFrameIncomplete(n) ==
    /\ status = "HANDSHAKE"
    /\ pending["in_read"] > 0
    /\ bootstrap + n < Frame
    /\ bootstrap' = bootstrap + n
    /\ UNCHANGED <<status, pending, sockets, in_next, out_write_buf, out_write_data,
                   udp_data_buf, udp_request, target_got, downward, meters, ended>>

\* ... or complete with no payload behind it yet, which is an error like a bad
\* length or envelope (OperationFails) ...
FrontPayloadMissing(n) ==
    /\ status = "HANDSHAKE"
    /\ pending["in_read"] > 0
    /\ bootstrap + n = Frame
    /\ UNCHANGED <<upward, downward, meters, too_long>>
    /\ DestroyFrom("in_read")

\* ... or followed by a request with m cells behind its header.  In TLS mode the
\* request comes by itself.
FirstPayload(m) ==
    /\ status = "HANDSHAKE"
    /\ pending["in_read"] > 0
    /\ Frame - bootstrap + m <= ReadMax
    /\ in_next + m - 1 <= ClientCells
    /\ bootstrap' = 0
    /\ out_write_buf' = Cells(in_next, m)
    /\ in_next' = in_next + m

\* handle_handshake_payload for a CONNECT request, or for anything that goes to
\* the fallback: the target is looked up.
ConnectRequest(m) ==
    /\ FirstPayload(m)
    /\ Handled("in_read", {"resolve"})
    /\ UNCHANGED <<status, sockets, out_write_data, udp_data_buf, udp_request,
                   target_got, downward, meters, ended>>

ResolveDone ==
    /\ pending["resolve"] > 0
    /\ out_open' = TRUE
    /\ Handled("resolve", {"connect"})
    /\ UNCHANGED <<status, in_open, udp_open, upward, downward, meters, ended>>

\* The target is connected: the first payload goes out before the next read.
ConnectDone_ReadsToo ==
    /\ pending["connect"] > 0
    /\ status' = "FORWARD"
    /\ \/ /\ out_write_buf # <<>>
          /\ out_write_data' = out_write_buf
          /\ Handled("connect", {"out_read", "out_write", "in_read"})
       \/ /\ out_write_buf = <<>>
          /\ Handled("connect", {"out_read", "in_read"})
          /\ UNCHANGED out_write_data
    /\ UNCHANGED <<sockets, bootstrap, in_next, out_write_buf, udp_data_buf, udp_request, target_got,
                   downward, meters, ended>>

ConnectDone ==
    /\ pending["connect"] > 0
    /\ status' = "FORWARD"
    /\ \/ /\ out_write_buf # <<>>
          /\ out_write_data' = out_write_buf
          /\ Handled("connect", {"out_read", "out_write"})
       \/ /\ out_write_buf = <<>>
          /\ Handled("connect", {"out_read", "in_read"})
          /\ UNCHANGED out_write_data
    /\ UNCHANGED <<sockets, bootstrap, in_next, out_write_buf, udp_data_buf, udp_request, target_got,
                   downward, meters, ended>>
-----------------------------------------------------------------------------
(* FORWARD: each direction reads, writes, and reads again. *)

InReadForward(n) ==
    /\ status = "FORWARD"
    /\ pending["in_read"] > 0
    /\ in_next + n - 1 <= ClientCells
    /\ out_write_data' = Cells(in_next, n)
    /\ in_next' = in_next + n
    /\ Handled("in_read", {"out_write"})
    /\ UNCHANGED <<status, sockets, bootstrap, out_write_buf, udp_data_buf, udp_request,
                   target_got, downward, meters, ended>>

OutWriteDone_Unmetered ==
    /\ pending["out_write"] > 0
    /\ target_got' = target_got \o out_write_data
    /\ Handled("out_write", IF status = "FORWARD" THEN {"in_read"} ELSE {})
    /\ UNCHANGED <<status, sockets, bootstrap, in_next, out_write_buf, out_write_data, udp_data_buf,
                   udp_request, downward, meters, ended>>

OutWriteDone ==
    /\ pending["out_write"] > 0
    /\ target_got' = target_got \o out_write_data
    /\ sent_len' = sent_len + Len(out_write_data)
    /\ Handled("out_write", IF status = "FORWARD" THEN {"in_read"} ELSE {})
    /\ UNCHANGED <<status, sockets, bootstrap, in_next, out_write_buf, out_write_data, udp_data_buf,
                   udp_request, downward, recv_len, ended>>

OutRead(n) ==
    /\ pending["out_read"] > 0
    /\ out_next + n - 1 <= TargetCells
    /\ out_next' = out_next + n
    /\ \/ /\ status = "FORWARD"
          /\ recv_len' = recv_len + n
          /\ in_write_data' = Cells(out_next, n)
          /\ Handled("out_read", {"in_write"})
       \/ /\ status # "FORWARD"
          /\ Handled("out_read", {})
          /\ UNCHANGED <<recv_len, in_write_data>>
    /\ UNCHANGED <<status, sockets, upward, client_got, sent_len, ended>>

InWriteDone_Unguarded ==
    /\ pending["in_write"] > 0
    /\ client_got' = client_got \o in_write_data
    /\ Handled("in_write", {"out_read"})
    /\ UNCHANGED <<status, sockets, upward, out_next, in_write_data, meters, ended>>

InWriteDone ==
    /\ pending["in_write"] > 0
    /\ client_got' = client_got \o in_write_data
    /\ Handled("in_write", CASE status = "FORWARD" -> {"out_read"}
                             [] status = "UDP_FORWARD" -> {"udp_read"}
                             [] OTHER -> {})
    /\ UNCHANGED <<status, sockets, upward, out_next, in_write_data, meters, ended>>

\* A read that completes after destroy() is dropped.
InReadLate ==
    /\ status = "DESTROY"
    /\ pending["in_read"] > 0
    /\ Handled("in_read", {})
    /\ UNCHANGED <<status, sockets, upward, downward, meters, ended>>
-----------------------------------------------------------------------------
(* UDP_FORWARD: udp_sent() parses the stream and dispatches its packets. *)

\* UDPPacket::parse succeeds once the buffer holds a packet's last cell.
Complete_AfterLimit(buf) ==
    Len(buf) <= MaxLength /\ \E i \in DOMAIN buf : buf[i] \in packet_ends

Complete(buf) == \E i \in DOMAIN buf : buf[i] \in packet_ends

FirstPacketLen(buf) ==
    CHOOSE i \in DOMAIN buf :
        buf[i] \in packet_ends /\ \A j \in 1..(i - 1) : buf[j] \notin packet_ends

TooLong(buf) == Len(buf) > MaxLength

\* The unparsed rest once a packet has been taken off the front.
Rest_FromStart(buf) == buf

Rest(buf) == SubSeq(buf, FirstPacketLen(buf) + 1, Len(buf))

\* try_parse_udp_packet and what udp_sent() does with its decision.
DispatchNext(done, buf) ==
    \/ /\ Complete(buf)
       /\ udp_request' = SubSeq(buf, 1, FirstPacketLen(buf))
       /\ udp_data_buf' = Rest(buf)
       /\ Handled(done, {"udp_resolve"})
       /\ status' = "UDP_FORWARD"
       /\ UNCHANGED <<sockets, ended>>
    \/ /\ ~Complete(buf) /\ ~TooLong(buf)
       /\ udp_data_buf' = buf
       /\ Handled(done, {"in_read"})
       /\ status' = "UDP_FORWARD"
       /\ UNCHANGED <<sockets, udp_request, ended>>
    \/ /\ ~Complete(buf) /\ TooLong(buf)
       /\ udp_data_buf' = buf
       /\ too_long' = TRUE
       /\ DestroyFrom(done)
       /\ UNCHANGED udp_request

\* start_udp_forward for a request with m cells behind its header.
AssociateRequest(m) ==
    /\ FirstPayload(m)
    /\ UNCHANGED <<out_write_data, target_got, downward, meters>>
    /\ DispatchNext("in_read", Cells(in_next, m))

InReadUdp(n) ==
    /\ status = "UDP_FORWARD"
    /\ pending["in_read"] > 0
    /\ in_next + n - 1 <= ClientCells
    /\ in_next' = in_next + n
    /\ UNCHANGED <<bootstrap, out_write_buf, out_write_data, target_got, downward, meters>>
    /\ DispatchNext("in_read", udp_data_buf \o Cells(in_next, n))

\* handle_udp_resolved_packet has no look at status: it opens udp_socket whenever
\* it is closed, starts the reads on it, and sends.
UdpResolveDone ==
    /\ pending["udp_resolve"] > 0
    /\ udp_open' = TRUE
    /\ Handled("udp_resolve", IF udp_open THEN {"udp_write"} ELSE {"udp_read", "udp_write"})
    /\ UNCHANGED <<status, in_open, out_open, upward, downward, meters, ended>>

\* ... or udp_socket cannot be opened.
UdpOpenFails ==
    /\ pending["udp_resolve"] > 0
    /\ ~udp_open
    /\ UNCHANGED <<upward, downward, meters, too_long>>
    /\ DestroyFrom("udp_resolve")

UdpWriteDone ==
    /\ pending["udp_write"] > 0
    /\ target_got' = target_got \o udp_request
    /\ sent_len' = sent_len + Len(udp_request)
    /\ UNCHANGED <<bootstrap, in_next, out_write_buf, out_write_data, downward, recv_len>>
    /\ \/ /\ status = "UDP_FORWARD"
          /\ DispatchNext("udp_write", udp_data_buf)
       \/ /\ status # "UDP_FORWARD"
          /\ Handled("udp_write", {})
          /\ UNCHANGED <<status, sockets, udp_data_buf, udp_request, ended>>

UdpRead ==
    /\ pending["udp_read"] > 0
    /\ out_next <= TargetCells
    /\ out_next' = out_next + 1
    /\ \/ /\ status = "UDP_FORWARD"
          /\ recv_len' = recv_len + 1
          /\ in_write_data' = <<out_next>>
          /\ Handled("udp_read", {"in_write"})
       \/ /\ status # "UDP_FORWARD"
          /\ Handled("udp_read", {})
          /\ UNCHANGED <<recv_len, in_write_data>>
    /\ UNCHANGED <<status, sockets, upward, client_got, sent_len, ended>>
-----------------------------------------------------------------------------
Reads == 1..ReadMax

Next ==
    \/ HandshakeDone \/ PlainHttpRequest \/ PlainResponseDone
    \/ \E n \in Reads : FrontFrameIncomplete(n) \/ FrontPayloadMissing(n)
    \/ \E m \in 0..ReadMax : ConnectRequest(m) \/ AssociateRequest(m)
    \/ ResolveDone \/ ConnectDone
    \/ \E n \in Reads : InReadForward(n) \/ OutRead(n) \/ InReadUdp(n)
    \/ OutWriteDone \/ InWriteDone \/ InReadLate
    \/ UdpResolveDone \/ UdpOpenFails \/ UdpWriteDone \/ UdpRead
    \/ \E op \in Ops : OperationFails(op) \/ ShutdownEnds(op) \/ ShutdownEndsAgain(op)

Spec == Init /\ [][Next /\ UNCHANGED setup]_<<setup, vars>>

\* Once destroy() has cancelled them the operations complete, and the shutdown
\* timer expires; the peer need not answer the TLS shutdown.
Fairness ==
    /\ \A op \in Ops :
        /\ WF_vars(status = "DESTROY" /\ OperationFails(op))
        /\ WF_vars(ShutdownEndsAgain(op))
    /\ WF_vars(ShutdownEnds("timer"))

FairSpec == Spec /\ Fairness
-----------------------------------------------------------------------------
\* asio allows one read and one write at a time on a stream, and the session's
\* buffers belong to the operation in flight: nothing is ever started twice, even
\* when completions of both directions and of destroy() cross.
SingleOperation == \A op \in Ops : pending[op] <= 1

\* Cells read from the client and on their way to the target.
InFlightUp ==
    (IF pending["resolve"] + pending["connect"] > 0 THEN out_write_buf ELSE <<>>)
        \o (IF pending["out_write"] > 0 THEN out_write_data ELSE <<>>)
        \o (IF pending["udp_resolve"] + pending["udp_write"] > 0 THEN udp_request ELSE <<>>)
        \o udp_data_buf

\* Until destroy() every cell read from the client, the first payload behind a
\* front's frame and the tail of a UDP stream included, has reached the target or
\* is in flight, once and in order; and so for the opposite direction.
StreamsConserved ==
    status # "DESTROY" =>
        /\ target_got \o InFlightUp = Cells(1, in_next - 1)
        /\ client_got \o (IF pending["in_write"] > 0 THEN in_write_data ELSE <<>>)
               = Cells(1, out_next - 1)

\* destroy() records the usage once, while a write may still be in flight: what
\* the authenticator misses is at most that last write, and nothing received.
UsageLag ==
    status = "DESTROY" =>
        /\ recorded[1] = recv_len
        /\ sent_len = Len(target_got)
        /\ sent_len - recorded[2] \in {0, Len(out_write_data), Len(udp_request)}

WellFramed ==
    /\ ClientCells \in packet_ends
    /\ \A e \in packet_ends : \E s \in {0} \cup packet_ends : e - s \in 1..MaxLength

\* The UDP stream buffer stays within one read of MAX_LENGTH, whatever is sent, and
\* "UDP packet too long" only ever ends a session whose client did frame a packet
\* longer than MAX_LENGTH or no packet at all: no way of cutting a good stream into
\* reads makes it look too long.
UdpLimitExact ==
    /\ Len(udp_data_buf) <= MaxLength + ReadMax
    /\ WellFramed => ~too_long

\* A destroyed session stays destroyed and starts nothing more on any socket,
\* except the one UDP packet whose name had been resolved by then.
DestroyIsFinal ==
    [][status = "DESTROY" =>
          /\ status' = "DESTROY"
          /\ \A op \in Ops \ {"udp_read", "udp_write"} : pending'[op] <= pending[op]]_vars

\* destroy() leads to a closed client connection, even if the peer never answers
\* the TLS shutdown, and to an idle session that can be freed, but for a read on
\* the UDP socket that a late packet has opened again.
OperationsDrain ==
    status = "DESTROY" ~> ~in_open /\ \A op \in Ops \ {"udp_read"} : pending[op] = 0
=============================================================================
