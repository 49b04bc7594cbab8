------------------------------- MODULE Tunnel -------------------------------
(***************************************************************************)
(* What ClientSession and ForwardSession (clientsession.cpp,               *)
(* forwardsession.cpp) have in common: a local connection is relayed into  *)
(* a TLS tunnel to the server.  The tunnel is dialled while the first      *)
(* payload may already be read; destroy() cancels and closes.  Handlers    *)
(* are atomic.                                                             *)
(*                                                                         *)
(* Writes to the tunnel are modelled at the grain at which asio's TLS      *)
(* stream takes them: async_write hands over one TLS record when it is     *)
(* started and the others one by one, each read from the member            *)
(* out_write_data at that moment.  A second write started meanwhile        *)
(* assigns the same member.  A cell is the payload of one record, cell 0   *)
(* is the trojan request, and Garbage is a record cut from memory that is  *)
(* no longer part of out_write_data.                                       *)
(*                                                                         *)
(* Cancellation does not reach a completion whose handler is already       *)
(* queued: a lookup may succeed after destroy(), and a first local read    *)
(* after the tunnel has come up (late_read).                               *)
(*                                                                         *)
(* Definitions named X_Something are deliberately wrong variants of X.     *)
(***************************************************************************)
EXTENDS Integers, Sequences, FiniteSets

CONSTANTS
    ClientCells,    \* cells the local side sends
    ServerCells,    \* cells the server sends
    ReadMax         \* cells one read returns at most

ASSUME TunnelAssumption ==
    /\ ClientCells \in Nat /\ ServerCells \in Nat
    /\ ReadMax \in Nat \ {0}

VARIABLES
    status,
    pending,            \* operations in flight, by kind (but for tunnel writes)
    in_open, out_open, udp_open,
    first_packet_recv,
    late_read,          \* history: the first local read outlived its cancellation
    in_next,            \* next local cell to be read
    out_write_buf,      \* request and first payload, until the tunnel is up
    out_write_data,     \* the buffer of the tunnel write
    writes,             \* tunnel writes in flight: next record and length
    server_got,         \* cells the server has received
    out_next,           \* next server cell to be read
    in_write_data,      \* cells being written to the local side
    client_got          \* cells the local side has received

sockets == <<in_open, out_open, udp_open>>
upward == <<first_packet_recv, late_read, in_next, out_write_buf, out_write_data, writes, server_got>>
downward == <<out_next, in_write_data, client_got>>
tunnelVars == <<status, pending, sockets, upward, downward>>

Ops == {"in_read", "in_write", "udp_read", "udp_write", "out_read",
        "resolve", "connect", "handshake", "shutdown", "timer"}

Garbage == -1

Cells(first, n) == [i \in 1..n |-> first + i - 1]

\* One operation of each kind in done has been handled, those of started begin.
Handled(done, started) ==
    pending' = [op \in Ops |->
                   pending[op] - (IF op \in done THEN 1 ELSE 0)
                               + (IF op \in started THEN 1 ELSE 0)]

Idle(started) == [op \in Ops |-> IF op \in started THEN 1 ELSE 0]

\* What goes on on out_socket was not cancelled by destroy().
Uncancelled ==
    status = "DESTROY" => out_open /\ pending["shutdown"] + pending["timer"] = 0

\* out_async_write_buffer: assign the member, start the write.
StartWrite(data) ==
    /\ out_write_data' = data
    /\ writes' = Append(writes, [next |-> 2, len |-> Len(data)])
    /\ server_got' = Append(server_got, data[1])

\* A write in flight hands over its next record.
WriteRecord(i) ==
    /\ i \in DOMAIN writes
    /\ writes[i].next <= writes[i].len
    /\ Uncancelled
    /\ server_got' = Append(server_got,
                            IF writes[i].next \in DOMAIN out_write_data
                            THEN out_write_data[writes[i].next] ELSE Garbage)
    /\ writes' = [writes EXCEPT ![i].next = @ + 1]
    /\ UNCHANGED <<status, pending, sockets, first_packet_recv, late_read, in_next, out_write_buf,
                   out_write_data, downward>>

\* The write in flight number i is over.
WriteEnds(i) ==
    /\ i \in DOMAIN writes
    /\ writes' = SubSeq(writes, 1, i - 1) \o SubSeq(writes, i + 1, Len(writes))
-----------------------------------------------------------------------------
(* destroy() *)

DestroyFrom(done) ==
    \/ /\ status = "DESTROY"
       /\ Handled(done, {})
       /\ UNCHANGED <<status, sockets>>
    \/ /\ status # "DESTROY"
       /\ status' = "DESTROY"
       /\ in_open' = FALSE /\ udp_open' = FALSE
       /\ Handled(done, IF out_open THEN {"shutdown", "timer"} ELSE {})
       /\ UNCHANGED out_open

\* Errors that the handlers answer with destroy().
OperationFails(op) ==
    /\ op \notin {"shutdown", "timer"}
    /\ pending[op] > 0
    /\ DestroyFrom({op})
    /\ UNCHANGED <<upward, downward>>

WriteFails(i) ==
    /\ WriteEnds(i)
    /\ DestroyFrom({})
    /\ UNCHANGED <<first_packet_recv, late_read, in_next, out_write_buf, out_write_data,
                   server_got, downward>>

\* The TLS shutdown or its timer: the first closes the tunnel.
ShutdownEnds(op) ==
    /\ op \in {"shutdown", "timer"}
    /\ pending[op] > 0
    /\ out_open' = FALSE
    /\ Handled({op}, {})
    /\ UNCHANGED <<status, in_open, udp_open, upward, downward>>
-----------------------------------------------------------------------------
(* Dialling the server. *)

ResolveDone ==
    /\ pending["resolve"] > 0
    /\ out_open' = TRUE
    /\ Handled({"resolve"}, {"connect"})
    /\ UNCHANGED <<status, in_open, udp_open, upward, downward>>

ConnectDone ==
    /\ pending["connect"] > 0
    /\ Uncancelled
    /\ Handled({"connect"}, {"handshake"})
    /\ UNCHANGED <<status, sockets, upward, downward>>

\* The tunnel is up: a local read that has brought nothing yet is cancelled (its
\* handler then returns at once), and the request goes out with what was read.
TunnelUp(read, forwarding) ==
    /\ pending["handshake"] > 0
    /\ Uncancelled
    /\ status' = forwarding
    /\ StartWrite(out_write_buf)
    /\ \/ /\ ~first_packet_recv
          /\ Handled({"handshake"} \cup {op \in {read} : pending[op] > 0}, {"out_read"})
          /\ UNCHANGED late_read
       \/ /\ first_packet_recv \/ pending[read] > 0
          /\ Handled({"handshake"}, {"out_read"})
          /\ late_read' = ~first_packet_recv
    /\ UNCHANGED <<sockets, first_packet_recv, in_next, out_write_buf, downward>>

-----------------------------------------------------------------------------
(* Relaying. *)

\* in_recv or udp_recv while the tunnel is being dialled: kept for later.
FirstPacket_Replaces(read, n) ==
    /\ status = "CONNECT" /\ pending[read] > 0
    /\ in_next + n - 1 <= ClientCells
    /\ first_packet_recv' = TRUE
    /\ out_write_buf' = Cells(in_next, n)
    /\ in_next' = in_next + n
    /\ Handled({read}, {})
    /\ UNCHANGED <<status, sockets, late_read, out_write_data, writes, server_got, downward>>

FirstPacket(read, n) ==
    /\ status = "CONNECT" /\ pending[read] > 0
    /\ in_next + n - 1 <= ClientCells
    /\ first_packet_recv' = TRUE
    /\ out_write_buf' = out_write_buf \o Cells(in_next, n)
    /\ in_next' = in_next + n
    /\ Handled({read}, {})
    /\ UNCHANGED <<status, sockets, late_read, out_write_data, writes, server_got, downward>>

\* in_recv or udp_recv with the tunnel up: write it on.
LocalRead(read, forwarding, n) ==
    /\ status = forwarding /\ pending[read] > 0
    /\ in_next + n - 1 <= ClientCells
    /\ in_next' = in_next + n
    /\ StartWrite(Cells(in_next, n))
    /\ Handled({read}, {})
    /\ UNCHANGED <<status, sockets, first_packet_recv, late_read, out_write_buf, downward>>

\* out_sent: read on.
WriteDone(i, read, forwarding) ==
    /\ i \in DOMAIN writes
    /\ writes[i].next > writes[i].len
    /\ status = forwarding
    /\ WriteEnds(i)
    /\ Handled({}, {read})
    /\ UNCHANGED <<status, sockets, first_packet_recv, late_read, in_next, out_write_buf,
                   out_write_data, server_got, downward>>

Records == \E i \in DOMAIN writes : WriteRecord(i)
Failures == (\E op \in Ops : OperationFails(op)) \/ (\E i \in DOMAIN writes : WriteFails(i))
Shutdowns == \E op \in {"shutdown", "timer"} : ShutdownEnds(op)
-----------------------------------------------------------------------------
\* What the server has received is a beginning of the trojan request followed by
\* what the local side sent, every cell once and in order.
StreamIntact == \A i \in DOMAIN server_got : server_got[i] = i - 1

\* What has been read from the local side and is neither sent nor dropped by
\* destroy() waits in out_write_buf or in the part of out_write_data still to go:
\* nothing is lost, doubled or reordered, however the first read, the dialling and
\* the writes cross, unless a first read outlives its cancellation.
UpwardConserved ==
    ~late_read =>
        /\ status = "CONNECT" => out_write_buf = Cells(0, in_next)
        /\ status \in {"FORWARD", "UDP_FORWARD"} /\ Len(writes) = 1 =>
              server_got \o SubSeq(out_write_data, writes[1].next, writes[1].len)
                  = Cells(0, in_next)
        /\ status \in {"FORWARD", "UDP_FORWARD"} /\ writes = <<>> =>
              server_got = Cells(0, in_next)

\* A destroyed session is freed for good: no handler holds it any more, and its
\* destructor closes what is open, whatever was pending and however silent the peers
\* are.  The exception is a lookup that destroy() cancelled too late: its handler does
\* not look at the status and opens the tunnel again, which then lasts as long as the
\* server likes; once destroyed a second time the session is freed.
Freed == writes = <<>> /\ \A op \in Ops : pending[op] = 0
Reopened == status = "DESTROY" /\ Uncancelled
TornDown == (status = "DESTROY") ~> ([]Freed \/ Reopened)
=============================================================================
