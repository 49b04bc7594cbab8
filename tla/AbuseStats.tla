----------------------------- MODULE AbuseStats -----------------------------
(***************************************************************************)
(* The per-IP bookkeeping of AbuseController (abuse_controller.cpp), as    *)
(* operators on one entry of its map per_ip.  An entry records whether the *)
(* map holds the IP at all (tracked) and the four fields of IpAbuseStats.  *)
(* Every operator is the body of one critical section of the controller's  *)
(* mutex; the state machines that interleave them are AbuseController and  *)
(* ServerAdmission.                                                        *)
(*                                                                         *)
(* A definition X_Something is X with a plausible mistake in it; nothing   *)
(* uses it but the sensitivity runs, which put it in the place of X.       *)
(***************************************************************************)
EXTENDS Integers

CONSTANTS
    Enabled,            \* abuse_control.enabled
    PerIpMax,           \* abuse_control.per_ip_max_connections
    AuthFailMax,        \* abuse_control.auth_fail_max
    AuthFailWindow,     \* abuse_control.auth_fail_window_seconds
    CooldownSeconds     \* abuse_control.cooldown_seconds

\* The configuration is read as plain integers; zero or less turns a control off.
ASSUME AbuseConfigAssumption ==
    /\ Enabled \in BOOLEAN
    /\ PerIpMax \in Int
    /\ AuthFailMax \in Int
    /\ AuthFailWindow \in Int
    /\ CooldownSeconds \in Int

IpAbuseStats ==
    [tracked : BOOLEAN,
     active_connections : Nat,
     auth_fail_count : Nat,
     auth_fail_window_start : Nat,   \* 0 is the clock's epoch: no window yet
     cooldown_until : Int]

\* An IP the map does not hold.
NoEntry ==
    [tracked |-> FALSE,
     active_connections |-> 0,
     auth_fail_count |-> 0,
     auth_fail_window_start |-> 0,
     cooldown_until |-> 0]

LimitsConnections == Enabled /\ PerIpMax > 0
CountsAuthFailures == Enabled /\ AuthFailMax > 0 /\ AuthFailWindow > 0
ChecksCooldown == Enabled /\ AuthFailMax > 0 /\ CooldownSeconds > 0

\* per_ip[ip] inserts a default entry when there is none.
Inserted(st) == [st EXCEPT !.tracked = TRUE]

\* try_acquire_connection_slot: its result, and the entry it leaves behind,
\* inserted even when the slot is then refused.
SlotAvailable_OffByOne(st) ==
    LimitsConnections => st.active_connections <= PerIpMax

SlotAvailable(st) ==
    LimitsConnections => st.active_connections < PerIpMax

AfterAcquire(st) ==
    IF ~LimitsConnections THEN st
    ELSE IF SlotAvailable(st)
    THEN [Inserted(st) EXCEPT !.active_connections = @ + 1]
    ELSE Inserted(st)

\* release_connection_slot: decrement, then drop an entry that says nothing.
Disposable_IgnoringActive(st, now) ==
    st.auth_fail_count = 0 /\ st.cooldown_until <= now

Disposable_IgnoringCooldown(st, now) ==
    st.active_connections = 0 /\ st.auth_fail_count = 0

Disposable(st, now) ==
    /\ st.active_connections = 0
    /\ st.auth_fail_count = 0
    /\ st.cooldown_until <= now

Decremented_Reset(st) == [st EXCEPT !.active_connections = 0]

Decremented(st) ==
    [st EXCEPT !.active_connections = IF @ > 0 THEN @ - 1 ELSE @]

AfterRelease(st, now) ==
    IF ~LimitsConnections \/ ~st.tracked THEN st
    ELSE IF Disposable(Decremented(st), now) THEN NoEntry
    ELSE Decremented(st)

\* is_ip_in_cooldown.
InCooldown(st, now) ==
    ChecksCooldown /\ st.tracked /\ st.cooldown_until > now

\* record_auth_failure: count in the current window or open a new one, then
\* enter cooldown when the count reaches the threshold.
OpensWindow(st, now) ==
    \/ st.auth_fail_window_start = 0
    \/ now - st.auth_fail_window_start > AuthFailWindow

FailCount_NoReset(st, now) == st.auth_fail_count + 1

FailCount(st, now) ==
    IF OpensWindow(st, now) THEN 1 ELSE st.auth_fail_count + 1

ReachesThreshold(st, now) ==
    CountsAuthFailures /\ FailCount(st, now) >= AuthFailMax

AfterAuthFailure(st, now) ==
    IF ~CountsAuthFailures THEN st
    ELSE IF ReachesThreshold(st, now)
    THEN [tracked |-> TRUE,
          active_connections |-> st.active_connections,
          auth_fail_count |-> 0,
          auth_fail_window_start |-> now,
          cooldown_until |-> now + CooldownSeconds]
    ELSE [tracked |-> TRUE,
          active_connections |-> st.active_connections,
          auth_fail_count |-> FailCount(st, now),
          auth_fail_window_start |->
              IF OpensWindow(st, now) THEN now ELSE st.auth_fail_window_start,
          cooldown_until |-> st.cooldown_until]
=============================================================================
