----------------------------- MODULE UdpForward -----------------------------
(***************************************************************************)
(* UDP port forwarding: Service::udp_async_read with its map udp_sessions, *)
(* and the UDPForwardSessions it creates (udpforwardsession.cpp), handlers *)
(* running one at a time.                                                  *)
(*                                                                         *)
(* The map holds weak pointers: an entry lives as long as some operation   *)
(* of the session is pending.  gc_timer is the idle timer: cancel() has no *)
(* effect on an expiry whose handler is already queued, and                *)
(* resolver.cancel() none on a result that is.  A datagram is a number; 0  *)
(* is the trojan request that opens the tunnel.                            *)
(* Variables that Tunnel has too are named u_ here.                        *)
(* X_Something is X with a plausible mistake.                              *)
(***************************************************************************)
EXTENDS Integers, Sequences, FiniteSets

CONSTANTS
    Endpoints,          \* local UDP senders
    Sessions,           \* session objects, reused once freed
    NoSession,
    UdpTimeout,         \* config.udp_timeout
    MaxTime,            \* bound on the clock
    MaxDatagrams        \* bound on the datagrams received

ASSUME UdpForwardAssumption ==
    /\ NoSession \notin Sessions
    /\ UdpTimeout \in Nat \ {0}
    /\ MaxTime \in Nat /\ MaxDatagrams \in Nat

VARIABLES
    now,
    udp_sessions,     \* endpoint -> session its entry points to, or NoSession
    received,         \* datagrams received by the service so far
    u_status,         \* "FREE" or the session's Status
    owner,            \* udp_recv_endpoint
    dialing,          \* pending step of the tunnel: "none", "resolve", "connect", "handshake"
    u_out_open,       \* out_socket
    reading,          \* an out_socket read is pending
    writing,          \* an out_socket write is pending
    shutting,         \* the TLS shutdown and its timer are pending
    deadline,         \* expiry of gc_timer, 0 when it is not armed
    expired,          \* expiries whose handler is queued
    u_out_write_buf,  \* packets waiting for the write in flight
    u_out_write_data, \* packets of the write in flight
    accepted,         \* history: packets handed to the session, in order
    u_server_got,     \* packets the server has received
    active_at,        \* history: time of the last traffic
    revived           \* history: the tunnel came up after destroy()

sessionVars == <<u_status, owner, dialing, u_out_open, reading, writing, shutting, deadline,
                 expired, u_out_write_buf, u_out_write_data, accepted, u_server_got,
                 active_at, revived>>
buffers == <<u_out_write_buf, u_out_write_data, accepted, u_server_got>>
udpVars == <<now, udp_sessions, received, sessionVars>>

Live == {"CONNECT", "FORWARD", "FORWARDING"}

UdpInit ==
    /\ now = 1
    /\ udp_sessions = [e \in Endpoints |-> NoSession]
    /\ received = 0
    /\ u_status = [s \in Sessions |-> "FREE"]
    /\ owner = [s \in Sessions |-> CHOOSE e \in Endpoints : TRUE]
    /\ dialing = [s \in Sessions |-> "none"]
    /\ u_out_open = [s \in Sessions |-> FALSE]
    /\ reading = [s \in Sessions |-> FALSE]
    /\ writing = [s \in Sessions |-> FALSE]
    /\ shutting = [s \in Sessions |-> FALSE]
    /\ deadline = [s \in Sessions |-> 0]
    /\ expired = [s \in Sessions |-> 0]
    /\ u_out_write_buf = [s \in Sessions |-> <<>>]
    /\ u_out_write_data = [s \in Sessions |-> <<>>]
    /\ accepted = [s \in Sessions |-> <<>>]
    /\ u_server_got = [s \in Sessions |-> <<>>]
    /\ active_at = [s \in Sessions |-> 0]
    /\ revived = [s \in Sessions |-> FALSE]
-----------------------------------------------------------------------------
(* Service::udp_async_read. *)

\* timer_async_wait() after gc_timer.cancel(): an armed timer moves, a queued
\* expiry stays queued.
ArmTimer_KeepsOld(s) ==
    /\ deadline' = [deadline EXCEPT ![s] = IF @ = 0 THEN now + UdpTimeout ELSE @]
    /\ active_at' = [active_at EXCEPT ![s] = now]

ArmTimer(s) ==
    /\ deadline' = [deadline EXCEPT ![s] = now + UdpTimeout]
    /\ active_at' = [active_at EXCEPT ![s] = now]

\* process() on the session the map still points to: in_recv(), which drops the
\* datagram when the session is already destroyed.
Deliver(s, d) ==
    \/ /\ u_status[s] = "DESTROY"
       /\ UNCHANGED sessionVars
    \/ /\ u_status[s] = "FORWARD"
       /\ ArmTimer(s)
       /\ u_status' = [u_status EXCEPT ![s] = "FORWARDING"]
       /\ accepted' = [accepted EXCEPT ![s] = Append(@, d)]
       /\ u_out_write_data' = [u_out_write_data EXCEPT ![s] = <<d>>]
       /\ writing' = [writing EXCEPT ![s] = TRUE]
       /\ UNCHANGED <<owner, dialing, u_out_open, reading, shutting, expired, u_out_write_buf,
                      u_server_got, revived>>
    \/ /\ u_status[s] \in {"CONNECT", "FORWARDING"}
       /\ ArmTimer(s)
       /\ accepted' = [accepted EXCEPT ![s] = Append(@, d)]
       /\ u_out_write_buf' = [u_out_write_buf EXCEPT ![s] = Append(@, d)]
       /\ UNCHANGED <<u_status, owner, dialing, u_out_open, reading, writing, shutting, expired,
                      u_out_write_data, u_server_got, revived>>

\* The map has no entry for e, or one whose weak pointer is no longer good.
Expired_NeverFound(e) == TRUE

Expired(e) ==
    ~\E s \in Sessions : udp_sessions[e] = s /\ u_status[s] # "FREE" /\ owner[s] = e

DatagramForOld(e) ==
    /\ received < MaxDatagrams
    /\ ~Expired(e)
    /\ received' = received + 1
    /\ Deliver(udp_sessions[e], received + 1)
    /\ UNCHANGED <<now, udp_sessions>>

\* No session, or an expired one: create, start(), process().
DatagramForNew(e, s) ==
    /\ received < MaxDatagrams
    /\ Expired(e)
    /\ u_status[s] = "FREE"
    /\ received' = received + 1
    /\ udp_sessions' = [udp_sessions EXCEPT ![e] = s]
    /\ u_status' = [u_status EXCEPT ![s] = "CONNECT"]
    /\ owner' = [owner EXCEPT ![s] = e]
    /\ dialing' = [dialing EXCEPT ![s] = "resolve"]
    /\ ArmTimer(s)
    /\ u_out_write_buf' = [u_out_write_buf EXCEPT ![s] = <<0, received + 1>>]
    /\ accepted' = [accepted EXCEPT ![s] = <<0, received + 1>>]
    /\ u_out_write_data' = [u_out_write_data EXCEPT ![s] = <<>>]
    /\ u_server_got' = [u_server_got EXCEPT ![s] = <<>>]
    /\ revived' = [revived EXCEPT ![s] = FALSE]
    /\ UNCHANGED <<now, u_out_open, reading, writing, shutting, expired>>
-----------------------------------------------------------------------------
(* UDPForwardSession. *)

\* destroy(): cancel everything, shut the tunnel down if it was opened.
Destroy_KeepsTimer(s) ==
    /\ u_status' = [u_status EXCEPT ![s] = "DESTROY"]
    /\ shutting' = [shutting EXCEPT ![s] = u_out_open[s]]
    /\ UNCHANGED deadline

Destroy(s) ==
    /\ u_status' = [u_status EXCEPT ![s] = "DESTROY"]
    /\ deadline' = [deadline EXCEPT ![s] = 0]
    /\ shutting' = [shutting EXCEPT ![s] = u_out_open[s]]

\* destroy() has not cancelled what goes on on out_socket.
UdpUncancelled(s) == u_status[s] = "DESTROY" => u_out_open[s] /\ ~shutting[s]

UdpResolveDone(s) ==
    /\ dialing[s] = "resolve"
    /\ dialing' = [dialing EXCEPT ![s] = "connect"]
    /\ u_out_open' = [u_out_open EXCEPT ![s] = TRUE]
    /\ UNCHANGED <<now, udp_sessions, received, u_status, owner, reading, writing, shutting,
                   deadline, expired, buffers, active_at, revived>>

UdpConnectDone(s) ==
    /\ dialing[s] = "connect"
    /\ UdpUncancelled(s)
    /\ dialing' = [dialing EXCEPT ![s] = "handshake"]
    /\ UNCHANGED <<now, udp_sessions, received, u_status, owner, u_out_open, reading, writing,
                   shutting, deadline, expired, buffers, active_at, revived>>

\* The tunnel is up: the request and what has queued up behind it go out.  No
\* look at u_status.
UdpHandshakeDone(s) ==
    /\ dialing[s] = "handshake"
    /\ UdpUncancelled(s)
    /\ dialing' = [dialing EXCEPT ![s] = "none"]
    /\ u_status' = [u_status EXCEPT ![s] = "FORWARDING"]
    /\ revived' = [revived EXCEPT ![s] = @ \/ u_status[s] = "DESTROY"]
    /\ reading' = [reading EXCEPT ![s] = TRUE]
    /\ writing' = [writing EXCEPT ![s] = TRUE]
    /\ u_out_write_data' = [u_out_write_data EXCEPT ![s] = u_out_write_buf[s]]
    /\ u_out_write_buf' = [u_out_write_buf EXCEPT ![s] = <<>>]
    /\ UNCHANGED <<now, udp_sessions, received, owner, u_out_open, shutting, deadline, expired,
                   accepted, u_server_got, active_at>>

DialFails(s) ==
    /\ dialing[s] # "none"
    /\ dialing' = [dialing EXCEPT ![s] = "none"]
    /\ \/ /\ u_status[s] = "DESTROY"
          /\ UNCHANGED <<u_status, deadline, shutting>>
       \/ /\ u_status[s] # "DESTROY"
          /\ Destroy(s)
    /\ UNCHANGED <<now, udp_sessions, received, owner, u_out_open, reading, writing, expired,
                   buffers, active_at, revived>>

\* out_sent(): go on with what has queued up, or wait for the next datagram.
UdpWriteDone(s) ==
    /\ writing[s]
    /\ u_server_got' = [u_server_got EXCEPT ![s] = @ \o u_out_write_data[s]]
    /\ \/ /\ u_status[s] = "FORWARDING" /\ u_out_write_buf[s] # <<>>
          /\ u_out_write_data' = [u_out_write_data EXCEPT ![s] = u_out_write_buf[s]]
          /\ u_out_write_buf' = [u_out_write_buf EXCEPT ![s] = <<>>]
          /\ UNCHANGED <<u_status, writing>>
       \/ /\ u_status[s] = "FORWARDING" /\ u_out_write_buf[s] = <<>>
          /\ u_status' = [u_status EXCEPT ![s] = "FORWARD"]
          /\ writing' = [writing EXCEPT ![s] = FALSE]
          /\ UNCHANGED <<u_out_write_data, u_out_write_buf>>
       \/ /\ u_status[s] = "DESTROY"
          /\ writing' = [writing EXCEPT ![s] = FALSE]
          /\ UNCHANGED <<u_status, u_out_write_data, u_out_write_buf>>
    /\ UNCHANGED <<now, udp_sessions, received, owner, dialing, u_out_open, reading, shutting,
                   deadline, expired, accepted, active_at, revived>>

\* out_recv(): the packets in it go to the endpoint, the timer starts again.
ReadDone(s) ==
    /\ reading[s]
    /\ u_status[s] \in {"FORWARD", "FORWARDING"}
    /\ ArmTimer(s)
    /\ UNCHANGED <<now, udp_sessions, received, u_status, owner, dialing, u_out_open, reading,
                   writing, shutting, expired, buffers, revived>>

\* The tunnel breaks, or the server's stream has no packet within MAX_LENGTH.
ReadFails(s) ==
    /\ reading[s]
    /\ reading' = [reading EXCEPT ![s] = FALSE]
    /\ \/ /\ u_status[s] = "DESTROY"
          /\ UNCHANGED <<u_status, deadline, shutting>>
       \/ /\ u_status[s] # "DESTROY"
          /\ Destroy(s)
    /\ UNCHANGED <<now, udp_sessions, received, owner, dialing, u_out_open, writing, expired,
                   buffers, active_at, revived>>

UdpWriteFails(s) ==
    /\ writing[s]
    /\ writing' = [writing EXCEPT ![s] = FALSE]
    /\ \/ /\ u_status[s] = "DESTROY"
          /\ UNCHANGED <<u_status, deadline, shutting>>
       \/ /\ u_status[s] # "DESTROY"
          /\ Destroy(s)
    /\ UNCHANGED <<now, udp_sessions, received, owner, dialing, u_out_open, reading, expired,
                   buffers, active_at, revived>>

\* gc_timer expires; its handler is queued.
TimerExpires(s) ==
    /\ deadline[s] # 0
    /\ now >= deadline[s]
    /\ deadline' = [deadline EXCEPT ![s] = 0]
    /\ expired' = [expired EXCEPT ![s] = @ + 1]
    /\ UNCHANGED <<now, udp_sessions, received, u_status, owner, dialing, u_out_open, reading,
                   writing, shutting, buffers, active_at, revived>>

TimeoutHandler(s) ==
    /\ expired[s] > 0
    /\ expired' = [expired EXCEPT ![s] = @ - 1]
    /\ \/ /\ u_status[s] = "DESTROY"
          /\ UNCHANGED <<u_status, deadline, shutting>>
       \/ /\ u_status[s] # "DESTROY"
          /\ Destroy(s)
    /\ UNCHANGED <<now, udp_sessions, received, owner, dialing, u_out_open, reading, writing,
                   buffers, active_at, revived>>

\* The TLS shutdown completes or times out.
UdpShutdownEnds(s) ==
    /\ shutting[s]
    /\ shutting' = [shutting EXCEPT ![s] = FALSE]
    /\ u_out_open' = [u_out_open EXCEPT ![s] = FALSE]
    /\ UNCHANGED <<now, udp_sessions, received, u_status, owner, dialing, reading, writing,
                   deadline, expired, buffers, active_at, revived>>

\* Nothing pending refers to the session: the weak pointer expires.
Free(s) ==
    /\ u_status[s] # "FREE"
    /\ dialing[s] = "none" /\ ~reading[s] /\ ~writing[s] /\ ~shutting[s]
    /\ deadline[s] = 0 /\ expired[s] = 0
    /\ u_status' = [u_status EXCEPT ![s] = "FREE"]
    /\ u_out_open' = [u_out_open EXCEPT ![s] = FALSE]
    /\ UNCHANGED <<now, udp_sessions, received, owner, dialing, reading, writing, shutting,
                   deadline, expired, buffers, active_at, revived>>

Tick ==
    /\ now < MaxTime
    /\ now' = now + 1
    /\ UNCHANGED <<udp_sessions, received, sessionVars>>

UdpNext ==
    \/ \E e \in Endpoints : DatagramForOld(e)
    \/ \E e \in Endpoints, s \in Sessions : DatagramForNew(e, s)
    \/ \E s \in Sessions :
        \/ UdpResolveDone(s) \/ UdpConnectDone(s) \/ UdpHandshakeDone(s) \/ DialFails(s)
        \/ UdpWriteDone(s) \/ ReadDone(s) \/ ReadFails(s) \/ UdpWriteFails(s)
        \/ TimerExpires(s) \/ TimeoutHandler(s) \/ UdpShutdownEnds(s) \/ Free(s)
    \/ Tick

UdpSpec == UdpInit /\ [][UdpNext]_udpVars

\* A lookup ends, what destroy() cancelled fails, queued handlers run, the shutdown
\* timer fires.  Nothing else is assumed of the server.
UdpFairness ==
    \A s \in Sessions :
        /\ WF_udpVars(dialing[s] = "resolve" /\ (UdpResolveDone(s) \/ DialFails(s)))
        /\ WF_udpVars(~UdpUncancelled(s) /\ dialing[s] # "resolve" /\ DialFails(s))
        /\ WF_udpVars(~UdpUncancelled(s) /\ ReadFails(s))
        /\ WF_udpVars(~UdpUncancelled(s) /\ UdpWriteFails(s))
        /\ WF_udpVars(TimeoutHandler(s))
        /\ WF_udpVars(UdpShutdownEnds(s))
        /\ WF_udpVars(Free(s))

UdpFairSpec == UdpSpec /\ UdpFairness
-----------------------------------------------------------------------------
\* A datagram is accepted by the live session of its sender or not at all; every
\* accepted one has been sent to the server, is being sent, or is queued behind
\* the write in flight, once and in order, with the trojan request in front.  None
\* is stranded: a session with something queued is writing or still dialling.
PacketsConserved ==
    \A s \in Sessions :
        /\ u_status[s] \in Live =>
               accepted[s] = u_server_got[s]
                             \o (IF writing[s] THEN u_out_write_data[s] ELSE <<>>)
                             \o u_out_write_buf[s]
        /\ u_status[s] = "FORWARD" => u_out_write_buf[s] = <<>> /\ ~writing[s]
        /\ u_status[s] = "FORWARDING" => writing[s]
        /\ u_status[s] = "CONNECT" => dialing[s] # "none"

\* A sender has one session at a time, so its replies and its packets do not
\* split over two tunnels.
OneSessionPerEndpoint ==
    \A s, t \in Sessions :
        u_status[s] \in Live /\ u_status[t] \in Live /\ owner[s] = owner[t] => s = t

\* The datagrams of a sender travel through its one session, where none is lost,
\* repeated or overtaken by a later one.
DatagramsConserved == OneSessionPerEndpoint /\ PacketsConserved

\* Every live session has its idle timer armed or its expiry queued, so that none can
\* stay idle for ever, unless its tunnel came up after destroy().
LiveSessionsTimed ==
    \A s \in Sessions :
        u_status[s] \in Live /\ ~revived[s] => deadline[s] # 0 \/ expired[s] > 0

\* The timer never expires early, whatever order of cancellations and restarts came
\* before.
ExpiryJustified ==
    [][\A s \in Sessions :
          expired'[s] > expired[s] => now - active_at[s] >= UdpTimeout]_udpVars

\* docs/config.md: udp_timeout "controls how long (in seconds) a UDP session will last in
\* idle".  A live session is timed, unless destroy() came before its tunnel, and its timer
\* never expires early.
IdleTimed == []LiveSessionsTimed /\ ExpiryJustified

\* A destroyed session is freed in the end, so that the next datagram of its sender
\* opens a new one instead of being dropped.  The exception is the one of Tunnel: a
\* lookup that completes after destroy() opens the tunnel again.
DestroyedFreed ==
    \A s \in Sessions :
        u_status[s] = "DESTROY" ~>
            \/ u_status[s] = "FREE"
            \/ u_status[s] = "DESTROY" /\ UdpUncancelled(s)
=============================================================================
