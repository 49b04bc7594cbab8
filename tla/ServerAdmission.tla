-------------------------- MODULE ServerAdmission ---------------------------
(***************************************************************************)
(* The server's admission path end to end: Service accepts a connection,   *)
(* asks AbuseController for a slot and starts a ServerSession, which may    *)
(* take a fallback slot and gives everything back in destroy().            *)
(*                                                                         *)
(* A session runs up to two chains of completion handlers: "up" (inbound   *)
(* read, then outbound write, and so on) and, while it relays, "down" (the *)
(* opposite direction).  Worker threads run the handlers; nothing ties the *)
(* chains of one session to one thread when the threads share one          *)
(* io_context, so destroy() is modelled at the grain of its reads and      *)
(* writes of shared state.  AbuseController's operations are atomic (its   *)
(* mutex) and the fallback counter's too (module FallbackController shows   *)
(* that its compare-exchange loops implement an atomic pool).              *)
(*                                                                         *)
(* A definition X_Something is X with a plausible mistake in it, for the   *)
(* sensitivity runs.                                                       *)
(***************************************************************************)
EXTENDS AbuseStats, FiniteSets, FiniteSetsExt

CONSTANTS
    Ips,            \* source addresses
    Sessions,       \* session objects, reused once freed
    NoIp,
    FallbackMax,    \* abuse_control.fallback_max_active
    Layouts,        \* records of thread_num and use_multi_io_context to be covered
    FrontIps,       \* sources TrustedFrontAdmissionPolicy allows; {} without the listener
    MaxTime,        \* bound on the clock
    MaxResets       \* bound, per source, on the peers gone before start() reads their address

ASSUME AdmissionAssumption ==
    /\ IsFiniteSet(Sessions) /\ IsFiniteSet(Ips)
    /\ NoIp \notin Ips
    /\ FallbackMax \in Int
    /\ Layouts \subseteq [thread_num : Nat \ {0}, use_multi_io_context : BOOLEAN]
    /\ FrontIps \subseteq Ips
    /\ MaxTime \in Nat
    /\ MaxResets \in Nat

Chains == {"up", "down"}

VARIABLES
    layout,                     \* of the threads: one io_context each, or one for all
    now,
    per_ip,                     \* AbuseController::per_ip
    active_sessions,            \* runtime_metrics.active_sessions
    active_fallback_sessions,   \* FallbackController's counter
    phase,                      \* where each session is, accept handler included
    peer,                       \* in_endpoint's address
    front,                      \* accepted on the trusted-front listener
    connection_slot_acquired,
    fallback_slot_acquired,
    pc,                         \* what each chain of each session is doing
    resets,                     \* resets[ip]: sessions whose start() failed
    slipped                     \* history: slots granted to ip in its latest cooldown

globals == <<layout, now, per_ip, active_sessions, active_fallback_sessions, resets, slipped>>
flags == <<connection_slot_acquired, fallback_slot_acquired>>
vars == <<globals, phase, peer, front, flags, pc>>

Accepting == {"accepted", "checked", "granted"}
Alive == {"handshake", "connecting", "relay"}

\* The chain has an asynchronous operation pending, or none at all.
Idle == {"none", "waiting"}

\* Handlers that some thread is in the middle of.
RunningChains == {sc \in Sessions \X Chains : pc[sc[1]][sc[2]] \notin Idle}
RunningAccepts == {s \in Sessions : phase[s] \in Accepting}

\* A thread is free to begin a handler of session s.
MayRun(s) ==
    /\ Cardinality(RunningChains) + Cardinality(RunningAccepts) < layout.thread_num
    /\ layout.use_multi_io_context => \A c \in Chains : pc[s][c] \in Idle

Init ==
    /\ layout \in Layouts
    /\ now = 1
    /\ per_ip = [ip \in Ips |-> NoEntry]
    /\ active_sessions = 0
    /\ active_fallback_sessions = 0
    /\ phase = [s \in Sessions |-> "free"]
    /\ peer = [s \in Sessions |-> NoIp]
    /\ front = [s \in Sessions |-> FALSE]
    /\ connection_slot_acquired = [s \in Sessions |-> FALSE]
    /\ fallback_slot_acquired = [s \in Sessions |-> FALSE]
    /\ pc = [s \in Sessions |-> [c \in Chains |-> "none"]]
    /\ resets = [ip \in Ips |-> 0]
    /\ slipped = [ip \in Ips |-> 0]

Goto(s, c, place) == pc' = [pc EXCEPT ![s][c] = place]
Enter(s, p) == phase' = [phase EXCEPT ![s] = p]

\* The last reference to a session goes away.
Forget(s) ==
    /\ Enter(s, "free")
    /\ peer' = [peer EXCEPT ![s] = NoIp]
    /\ front' = [front EXCEPT ![s] = FALSE]

\* The constructor of the session that is about to be accepted.
Construct(s) ==
    /\ connection_slot_acquired' = [connection_slot_acquired EXCEPT ![s] = FALSE]
    /\ fallback_slot_acquired' = [fallback_slot_acquired EXCEPT ![s] = FALSE]
-----------------------------------------------------------------------------
(* Service: the accept handlers. *)

\* async_accept completes with a connection from ip.  A listener has one accept
\* pending and re-arms it when the handler is through.
Accept(s, ip) ==
    /\ phase[s] = "free"
    /\ MayRun(s)
    /\ ~layout.use_multi_io_context => \A t \in RunningAccepts : front[t]
    /\ Enter(s, "accepted")
    /\ peer' = [peer EXCEPT ![s] = ip]
    /\ Construct(s)
    /\ UNCHANGED <<globals, front, pc>>

\* The trusted-front listener, which run() serves on the shared io_context only, asks
\* neither for cooldown nor for a slot.
AcceptFront(s, ip) ==
    /\ phase[s] = "free"
    /\ ~layout.use_multi_io_context
    /\ MayRun(s)
    /\ \A t \in RunningAccepts : ~front[t]
    /\ Enter(s, "granted")
    /\ peer' = [peer EXCEPT ![s] = ip]
    /\ front' = [front EXCEPT ![s] = TRUE]
    /\ Construct(s)
    /\ UNCHANGED <<globals, pc>>

\* evaluate_incoming_connection: the cooldown, then the slot.
CheckCooldown_Skipped(s) ==
    /\ phase[s] = "accepted"
    /\ Enter(s, "checked")
    /\ UNCHANGED <<globals, peer, front, flags, pc>>

CheckCooldown(s) ==
    /\ phase[s] = "accepted"
    /\ \/ /\ InCooldown(per_ip[peer[s]], now)
          /\ Forget(s)
       \/ /\ ~InCooldown(per_ip[peer[s]], now)
          /\ Enter(s, "checked")
          /\ UNCHANGED <<peer, front>>
    /\ UNCHANGED <<globals, flags, pc>>

AcquireConnectionSlot(s) ==
    /\ phase[s] = "checked"
    /\ per_ip' = [per_ip EXCEPT ![peer[s]] = AfterAcquire(@)]
    /\ \/ /\ SlotAvailable(per_ip[peer[s]])
          /\ Enter(s, "granted")
          /\ slipped' = [slipped EXCEPT ![peer[s]] =
                             IF InCooldown(per_ip[peer[s]], now) THEN @ + 1 ELSE @]
          /\ UNCHANGED <<peer, front>>
       \/ /\ ~SlotAvailable(per_ip[peer[s]])
          /\ Forget(s)
          /\ UNCHANGED slipped
    /\ UNCHANGED <<layout, now, active_sessions, active_fallback_sessions, resets, flags, pc>>

\* The connection is counted and start() takes the session over.
StartSession_BeforeCount(s) ==
    /\ phase[s] = "granted"
    /\ Enter(s, "handshake")
    /\ connection_slot_acquired' = [connection_slot_acquired EXCEPT ![s] = TRUE]
    /\ Goto(s, "up", "waiting")
    /\ UNCHANGED <<globals, peer, front, fallback_slot_acquired>>

StartSession(s) ==
    /\ phase[s] = "granted"
    /\ active_sessions' = active_sessions + 1
    /\ Enter(s, "handshake")
    /\ connection_slot_acquired' = [connection_slot_acquired EXCEPT ![s] = TRUE]
    /\ Goto(s, "up", "waiting")
    /\ UNCHANGED <<layout, now, per_ip, active_fallback_sessions, resets, slipped,
                   peer, front, fallback_slot_acquired>>

\* start() cannot read the peer's address any more: destroy() runs before
\* connection_slot_acquired is set and finds nothing to release.
StartFails(s) ==
    /\ phase[s] = "granted"
    /\ resets[peer[s]] < MaxResets
    /\ resets' = [resets EXCEPT ![peer[s]] = @ + 1]
    /\ active_sessions' = active_sessions + 1
    /\ Forget(s)
    /\ UNCHANGED <<layout, now, per_ip, active_fallback_sessions, slipped, flags, pc>>
-----------------------------------------------------------------------------
(* ServerSession: the first payload and the outbound connection. *)

PayloadArrives(s) ==
    /\ phase[s] = "handshake"
    /\ pc[s]["up"] = "waiting"
    /\ MayRun(s)

\* A trojan request with a known password: TCP connects first, UDP relays at once.
Authenticated(s) ==
    /\ PayloadArrives(s)
    /\ \/ Enter(s, "connecting")
       \/ Enter(s, "relay")
    /\ UNCHANGED <<globals, peer, front, flags, pc>>

\* A trojan request with an unknown password, which counts against the peer.
BadPassword(s) ==
    /\ PayloadArrives(s)
    /\ per_ip' = [per_ip EXCEPT ![peer[s]] = AfterAuthFailure(@, now)]
    /\ slipped' = [slipped EXCEPT ![peer[s]] =
                       IF InCooldown(per_ip[peer[s]], now) THEN @ ELSE 0]
    /\ Goto(s, "up", "fallback")
    /\ UNCHANGED <<layout, now, active_sessions, active_fallback_sessions, resets,
                   phase, peer, front, flags>>

NotTrojan(s) ==
    /\ PayloadArrives(s)
    /\ Goto(s, "up", "fallback")
    /\ UNCHANGED <<globals, phase, peer, front, flags>>

FallbackAvailable ==
    Enabled /\ FallbackMax > 0 => active_fallback_sessions < FallbackMax

\* begin_tcp_relay with requires_fallback_slot.
TakeFallbackSlot(s) ==
    /\ pc[s]["up"] = "fallback"
    /\ \/ /\ FallbackAvailable
          /\ active_fallback_sessions' = active_fallback_sessions + 1
          /\ fallback_slot_acquired' = [fallback_slot_acquired EXCEPT ![s] = TRUE]
          /\ Enter(s, "connecting")
          /\ Goto(s, "up", "waiting")
       \/ /\ ~FallbackAvailable
          /\ Goto(s, "up", "test")
          /\ UNCHANGED <<active_fallback_sessions, fallback_slot_acquired, phase>>
    /\ UNCHANGED <<layout, now, per_ip, active_sessions, resets, slipped, peer, front,
                   connection_slot_acquired>>

\* The outbound side opens: the TCP connection is made, or the first UDP packet
\* opens udp_socket.
OutboundOpens(s) ==
    /\ phase[s] \in {"connecting", "relay"}
    /\ pc[s] = [up |-> "waiting", down |-> "none"]
    /\ MayRun(s)
    /\ Enter(s, "relay")
    /\ Goto(s, "down", "waiting")
    /\ UNCHANGED <<globals, peer, front, flags>>
-----------------------------------------------------------------------------
(* ServerSession::destroy(), reached from any chain. *)

\* A chain's pending operation ends in an error: TLS or framing failure, end of
\* stream, or its cancellation by the other chain's destroy().
OperationFails(s, c) ==
    /\ phase[s] \in Alive \cup {"destroyed"}
    /\ pc[s][c] = "waiting"
    /\ MayRun(s)
    /\ Goto(s, c, "test")
    /\ UNCHANGED <<globals, phase, peer, front, flags>>

TestStatus(s, c) ==
    /\ pc[s][c] = "test"
    /\ Goto(s, c, IF phase[s] = "destroyed" THEN "none" ELSE "mark")
    /\ UNCHANGED <<globals, phase, peer, front, flags>>

SetStatus(s, c) ==
    /\ pc[s][c] = "mark"
    /\ Enter(s, "destroyed")
    /\ Goto(s, c, "leave")
    /\ UNCHANGED <<globals, peer, front, flags>>

\* Service::release_connection_slot: the metric, then the controller.
LeaveActiveSessions(s, c) ==
    /\ pc[s][c] = "leave"
    /\ \/ /\ connection_slot_acquired[s]
          /\ active_sessions' = IF active_sessions > 0 THEN active_sessions - 1 ELSE 0
          /\ Goto(s, c, "release")
       \/ /\ ~connection_slot_acquired[s]
          /\ Goto(s, c, "leave_fallback")
          /\ UNCHANGED active_sessions
    /\ UNCHANGED <<layout, now, per_ip, active_fallback_sessions, resets, slipped,
                   phase, peer, front, flags>>

ReleaseConnectionSlot(s, c) ==
    /\ pc[s][c] = "release"
    /\ per_ip' = [per_ip EXCEPT ![peer[s]] = AfterRelease(@, now)]
    /\ Goto(s, c, "clear")
    /\ UNCHANGED <<layout, now, active_sessions, active_fallback_sessions, resets, slipped,
                   phase, peer, front, flags>>

ClearConnectionFlag(s, c) ==
    /\ pc[s][c] = "clear"
    /\ connection_slot_acquired' = [connection_slot_acquired EXCEPT ![s] = FALSE]
    /\ Goto(s, c, "leave_fallback")
    /\ UNCHANGED <<globals, phase, peer, front, fallback_slot_acquired>>

ReleaseFallbackSlot(s, c) ==
    /\ pc[s][c] = "leave_fallback"
    /\ \/ /\ fallback_slot_acquired[s]
          /\ active_fallback_sessions' =
                 IF active_fallback_sessions > 0 THEN active_fallback_sessions - 1 ELSE 0
          /\ Goto(s, c, "clear_fallback")
       \/ /\ ~fallback_slot_acquired[s]
          /\ Goto(s, c, "none")
          /\ UNCHANGED active_fallback_sessions
    /\ UNCHANGED <<layout, now, per_ip, active_sessions, resets, slipped,
                   phase, peer, front, flags>>

ClearFallbackFlag(s, c) ==
    /\ pc[s][c] = "clear_fallback"
    /\ fallback_slot_acquired' = [fallback_slot_acquired EXCEPT ![s] = FALSE]
    /\ Goto(s, c, "none")
    /\ UNCHANGED <<globals, phase, peer, front, connection_slot_acquired>>

\* No handler refers to the session any more.
Free(s) ==
    /\ phase[s] = "destroyed"
    /\ \A c \in Chains : pc[s][c] = "none"
    /\ Forget(s)
    /\ UNCHANGED <<globals, flags, pc>>

Tick ==
    /\ now < MaxTime
    /\ now' = now + 1
    /\ UNCHANGED <<layout, per_ip, active_sessions, active_fallback_sessions, resets, slipped,
                   phase, peer, front, flags, pc>>
-----------------------------------------------------------------------------
AcceptStep(s) ==
    CheckCooldown(s) \/ AcquireConnectionSlot(s) \/ StartSession(s) \/ StartFails(s)

DestroyStep(s, c) ==
    \/ TestStatus(s, c) \/ SetStatus(s, c)
    \/ LeaveActiveSessions(s, c) \/ ReleaseConnectionSlot(s, c) \/ ClearConnectionFlag(s, c)
    \/ ReleaseFallbackSlot(s, c) \/ ClearFallbackFlag(s, c)

Next ==
    \/ \E s \in Sessions :
        \/ \E ip \in Ips : Accept(s, ip)
        \/ \E ip \in FrontIps : AcceptFront(s, ip)
        \/ AcceptStep(s)
        \/ Authenticated(s) \/ BadPassword(s) \/ NotTrojan(s)
        \/ TakeFallbackSlot(s) \/ OutboundOpens(s)
        \/ \E c \in Chains : OperationFails(s, c) \/ DestroyStep(s, c)
        \/ Free(s)
    \/ Tick

Spec == Init /\ [][Next]_vars

-----------------------------------------------------------------------------
\* No thread is in the middle of a handler.
Quiescent == RunningChains = {} /\ RunningAccepts = {}

AliveFrom(ip) == {s \in Sessions : phase[s] \in Alive /\ peer[s] = ip /\ ~front[s]}

WithinLimit(ip) == LimitsConnections => Cardinality(AliveFrom(ip)) <= PerIpMax

\* docs/security.md: "If a source IP exceeds the configured concurrent connection
\* limit, new connections are rejected": no IP ever has more public sessions in
\* the session flow than per_ip_max_connections.
ConnectionLimit == \A ip \in Ips : WithinLimit(ip)

\* The same for every IP that makes no trusted-front connections, whichever threads
\* accept and destroy() its sessions and those of others.
DirectLimit == \A ip \in Ips \ FrontIps : WithinLimit(ip)

OnFallback == {s \in Sessions : phase[s] \in Alive /\ fallback_slot_acquired[s]}

\* docs/runbooks/abuse-control.md: the controller "counts active sessions per source
\* IP": between handlers its counter is the number of public sessions really alive
\* and of those whose start() could not read the peer's address, which stay counted
\* for good, so that a refused client is refused for one of these.  The metric
\* active_sessions counts the same sessions and the trusted-front ones.  The fallback
\* counter is the number of live sessions sent to the fallback (one refused, failed or
\* finished anywhere on the way has given its slot back), and fallback_max_active holds
\* even while destroy() of one session runs beside another session's first payload.
CountersExact ==
    /\ Quiescent =>
        /\ LimitsConnections =>
              \A ip \in Ips \ FrontIps :
                  per_ip[ip].active_connections = Cardinality(AliveFrom(ip)) + resets[ip]
        /\ active_sessions = Cardinality({s \in Sessions : phase[s] \in Alive})
                                 + MapThenSumSet(LAMBDA ip : resets[ip], Ips)
        /\ active_fallback_sessions = Cardinality(OnFallback)
    /\ Enabled /\ FallbackMax > 0 => Cardinality(OnFallback) <= FallbackMax

\* docs/runbooks/abuse-control.md: after enough failures "new connections from that IP are rejected
\* during cooldown".  is_ip_in_cooldown and try_acquire_connection_slot are two critical
\* sections, and another worker may record the last failure between them.  Only
\* connections that were past the check at that moment slip into the cooldown, one for
\* each other thread at the most, however long it lasts, however often it is renewed and
\* whatever the layout of the threads: with one thread, none.
SlipsBounded == \A ip \in Ips : slipped[ip] < layout.thread_num
=============================================================================
