------------------------- MODULE MCServerAdmission --------------------------
(* What a server grants: connection and fallback slots (ServerAdmission) and    *)
(* the quota of a user (UsageAccounting).  A behaviour is one of the two; the   *)
(* variables of the other keep their initial values.                            *)
EXTENDS ServerAdmission, UsageAccounting, TLC

CONSTANTS QuotaOfAll, Unlimited

\* One user has no quota.
MCQuota == [u \in Users |-> IF u = Unlimited THEN -1 ELSE QuotaOfAll]

VARIABLE part

MCInit == Init /\ UsageInit /\ part \in {"connections", "users"}

MCNext ==
    /\ \/ part = "connections" /\ Next /\ UNCHANGED usageVars
       \/ part = "users" /\ UsageNext /\ UNCHANGED vars
    /\ UNCHANGED part

MCSpec == MCInit /\ [][MCNext]_<<vars, usageVars, part>>

OneThread == [thread_num |-> 1, use_multi_io_context |-> FALSE]
Workers == [thread_num |-> 2, use_multi_io_context |-> TRUE]
MCLayouts == {OneThread, Workers}
FrontLayouts == {OneThread}

Symmetry == Permutations(Sessions) \cup Permutations(UserSessions)
=============================================================================
