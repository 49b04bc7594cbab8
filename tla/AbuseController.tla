-------------------------- MODULE AbuseController ---------------------------
(***************************************************************************)
(* AbuseController (abuse_controller.cpp) and the connections that use it. *)
(* Each operation takes the controller's mutex for its whole body, so each *)
(* is one action; threads interleave between the operations.  A connection *)
(* that was granted a slot gives it back once (SessionLifecycleRuntime);   *)
(* ServerAdmission models the sessions that are meant to keep to this.     *)
(***************************************************************************)
EXTENDS AbuseStats, FiniteSets, Sequences

CONSTANTS
    Ips,        \* source addresses
    Conns,      \* connections
    NoIp,       \* "holds no slot"
    MaxTime     \* bound on the clock

ASSUME AbuseClientsAssumption ==
    /\ IsFiniteSet(Conns)
    /\ NoIp \notin Ips
    /\ MaxTime \in Nat

VARIABLES
    now,        \* steady_clock, in seconds
    per_ip,     \* the controller's map
    holder,     \* the IP on whose account a connection holds a slot
    triggered,  \* history: when an IP last reached the failure threshold, 0 never
    failures    \* history: times of the failures counted since then

vars == <<now, per_ip, holder, triggered, failures>>

HoldersOf(ip) == {c \in Conns : holder[c] = ip}

Init ==
    /\ now = 1
    /\ per_ip = [ip \in Ips |-> NoEntry]
    /\ holder = [c \in Conns |-> NoIp]
    /\ triggered = [ip \in Ips |-> 0]
    /\ failures = [ip \in Ips |-> <<>>]

\* try_acquire_connection_slot for a connection from ip: granted or refused.
TryAcquire(c, ip) ==
    /\ holder[c] = NoIp
    /\ per_ip' = [per_ip EXCEPT ![ip] = AfterAcquire(@)]
    /\ holder' = [holder EXCEPT ![c] = IF SlotAvailable(per_ip[ip]) THEN ip ELSE @]
    /\ UNCHANGED <<now, triggered, failures>>

\* release_connection_slot by a connection that was granted one.
Release(c) ==
    /\ holder[c] # NoIp
    /\ per_ip' = [per_ip EXCEPT ![holder[c]] = AfterRelease(@, now)]
    /\ holder' = [holder EXCEPT ![c] = NoIp]
    /\ UNCHANGED <<now, triggered, failures>>

\* record_auth_failure.
RecordAuthFailure(ip) ==
    /\ CountsAuthFailures
    /\ per_ip' = [per_ip EXCEPT ![ip] = AfterAuthFailure(@, now)]
    /\ IF ReachesThreshold(per_ip[ip], now)
       THEN /\ triggered' = [triggered EXCEPT ![ip] = now]
            /\ failures' = [failures EXCEPT ![ip] = <<>>]
       ELSE /\ failures' = [failures EXCEPT ![ip] = Append(@, now)]
            /\ UNCHANGED triggered
    /\ UNCHANGED <<now, holder>>

Tick ==
    /\ now < MaxTime
    /\ now' = now + 1
    /\ UNCHANGED <<per_ip, holder, triggered, failures>>

Next ==
    \/ \E c \in Conns, ip \in Ips : TryAcquire(c, ip)
    \/ \E c \in Conns : Release(c)
    \/ \E ip \in Ips : RecordAuthFailure(ip)
    \/ Tick

Spec == Init /\ [][Next]_vars
-----------------------------------------------------------------------------
TypeOK ==
    /\ now \in Nat \ {0}
    /\ per_ip \in [Ips -> IpAbuseStats]
    /\ holder \in [Conns -> Ips \cup {NoIp}]
    /\ triggered \in [Ips -> Nat]
    /\ failures \in [Ips -> Seq(Nat)]

\* The counter of an IP is exactly the number of connections that hold one of
\* its slots: no slot is lost when an entry is erased and re-created, and the
\* guarded decrement never hides a release that was not counted.
SlotsAccounted ==
    LimitsConnections =>
        \A ip \in Ips : per_ip[ip].active_connections = Cardinality(HoldersOf(ip))

\* "rejects new connections when the limit is reached": no IP ever has more
\* connections inside than per_ip_max_connections.
ConnectionLimit ==
    LimitsConnections => \A ip \in Ips : Cardinality(HoldersOf(ip)) <= PerIpMax

\* "once the threshold is reached, the IP enters cooldown" and stays in it for
\* cooldown_seconds: erasing the entry on the last release, or failures counted
\* during the cooldown, never shorten it.
CooldownKept ==
    ChecksCooldown =>
        \A ip \in Ips :
            triggered[ip] # 0 /\ now < triggered[ip] + CooldownSeconds
                => InCooldown(per_ip[ip], now)

\* Which of the failures of ip, counted since it last reached the threshold, are
\* not older than the window.
RecentFailures(ip) ==
    {i \in 1..Len(failures[ip]) : now - failures[ip][i] <= AuthFailWindow}

\* The window is fixed to its first failure, not sliding, so up to twice the
\* threshold less two failures may fall into one window length unpunished; one
\* more always starts a cooldown.
BurstBounded ==
    CountsAuthFailures =>
        \A ip \in Ips : Cardinality(RecentFailures(ip)) <= 2 * AuthFailMax - 2

\* An IP enters cooldown only on its AuthFailMax-th failure within one window
\* length: failures outside the window, or already punished, do not count.
CooldownJustified ==
    [][\A ip \in Ips :
          triggered'[ip] # triggered[ip]
              => Cardinality(RecentFailures(ip)) >= AuthFailMax - 1]_vars

\* A cooldown comes no earlier and no later than this.
CooldownExact == []BurstBounded /\ CooldownJustified

\* Each IP's slots are a pool: a connection enters only while fewer than
\* PerIpMax are inside (any number when the limit is off), and leaves once.
PoolCapacity == IF LimitsConnections THEN PerIpMax ELSE Cardinality(Conns)

Pool == INSTANCE SlotPool WITH
    Pools <- Ips, Clients <- Conns, Capacity <- PoolCapacity,
    held <- [ip \in Ips |-> HoldersOf(ip)]

ImplementsSlotPool == Pool!Spec
=============================================================================
