-------------------------- MODULE UsageAccounting ---------------------------
(***************************************************************************)
(* Quotas (authenticator.cpp): a user's recorded usage is compared with    *)
(* the quota when a session authenticates and is increased when destroy()  *)
(* ends the session.  A statement that fails is logged and forgotten, and  *)
(* a session that stop() drops is freed without destroy().  auth() and     *)
(* record() hold a mutex and are atomic.                                   *)
(*                                                                         *)
(* Definitions named X_Something are deliberately wrong variants of X.     *)
(***************************************************************************)
EXTENDS Integers, FiniteSets, FiniteSetsExt

CONSTANTS
    Users, UserSessions,
    NoUser,         \* the session is not authenticated by the database
    Quota,          \* Quota[u], negative for none
    MaxBytes,       \* bound: bytes a session moves
    MaxGrants       \* bound: sessions granted to a user

ASSUME UsageAssumption ==
    /\ IsFiniteSet(UserSessions)
    /\ NoUser \notin Users
    /\ Quota \in [Users -> Int]
    /\ MaxBytes \in Nat

VARIABLES
    used,           \* used[u]: download + upload in the database
    auth_password,  \* auth_password[s]: the user a session is recorded for
    bytes,          \* bytes[s]: recv_len + sent_len
    grants          \* history: grants[u]

usageVars == <<used, auth_password, bytes, grants>>

UsageInit ==
    /\ used = [u \in Users |-> 0]
    /\ auth_password = [s \in UserSessions |-> NoUser]
    /\ bytes = [s \in UserSessions |-> 0]
    /\ grants = [u \in Users |-> 0]

\* Authenticator::auth
Granted_OffByOne(u) == Quota[u] < 0 \/ used[u] <= Quota[u]

Granted(u) == Quota[u] < 0 \/ used[u] < Quota[u]

\* The session is authenticated by the database, and remembers the user.
Auth(s, u) ==
    /\ auth_password[s] = NoUser
    /\ grants[u] < MaxGrants
    /\ Granted(u)
    /\ auth_password' = [auth_password EXCEPT ![s] = u]
    /\ bytes' = [bytes EXCEPT ![s] = 0]
    /\ grants' = [grants EXCEPT ![u] = @ + 1]
    /\ UNCHANGED used

\* in_recv, out_recv, udp_recv, udp_sent: data is counted.
Transfer(s) ==
    /\ auth_password[s] # NoUser
    /\ bytes[s] < MaxBytes
    /\ bytes' = [bytes EXCEPT ![s] = @ + 1]
    /\ UNCHANGED <<used, auth_password, grants>>

Closed(s) ==
    /\ auth_password[s] # NoUser
    /\ auth_password' = [auth_password EXCEPT ![s] = NoUser]
    /\ UNCHANGED <<bytes, grants>>

\* destroy(): record_usage adds what the session moved ...
Destroy(s) ==
    /\ Closed(s)
    /\ used' = [used EXCEPT ![auth_password[s]] = @ + bytes[s]]

\* ... or the UPDATE fails.
RecordFails(s) == Closed(s) /\ UNCHANGED used

OpenSessions(u) == {s \in UserSessions : auth_password[s] = u}

\* stop() ends the event loop, and the handlers that own the sessions are freed with it:
\* no session runs destroy().
Stop ==
    /\ \E u \in Users : OpenSessions(u) # {}
    /\ auth_password' = [s \in UserSessions |-> NoUser]
    /\ UNCHANGED <<used, bytes, grants>>

UsageNext ==
    \/ \E s \in UserSessions, u \in Users : Auth(s, u)
    \/ \E s \in UserSessions : Transfer(s) \/ Destroy(s) \/ RecordFails(s)
    \/ Stop

UsageSpec == UsageInit /\ [][UsageNext]_usageVars
-----------------------------------------------------------------------------
OpenBytes(u) == MapThenSumSet(LAMBDA s : bytes[s], OpenSessions(u))

\* auth() compares usage that leaves out the sessions under way, so a user can go over the
\* quota, but only by what the sessions that exist at one time can move, however many
\* come and go.  The bound is on what record() has written and may still write: what a
\* failed UPDATE or a stop() loses is charged to nobody.
OvershootBounded ==
    \A u \in Users :
        Quota[u] > 0 =>
            used[u] + OpenBytes(u) <= Quota[u] - 1 + Cardinality(UserSessions) * MaxBytes
=============================================================================
