------------------------- MODULE FallbackController -------------------------
(***************************************************************************)
(* FallbackController (fallback_controller.cpp): the budget of active      *)
(* fallback sessions, kept in one atomic counter of RuntimeMetrics.  There *)
(* is no lock: a call loads the counter and retries a compare-exchange, so *)
(* every atomic access is a step of its own and sessions on other threads  *)
(* run in between.  compare_exchange_weak may also fail spuriously.        *)
(* (A definition X_Something is X with a plausible mistake in it.)         *)
(***************************************************************************)
EXTENDS Integers, FiniteSets

CONSTANTS
    AbuseEnabled,   \* abuse_control.enabled
    FallbackMax,    \* abuse_control.fallback_max_active
    Sessions,       \* server sessions
    MaxCalls        \* bound on the calls of try_acquire_slot

ASSUME FallbackAssumption ==
    /\ AbuseEnabled \in BOOLEAN
    /\ FallbackMax \in Int
    /\ IsFiniteSet(Sessions)
    /\ MaxCalls \in Nat

VARIABLES
    active_fallback_sessions,
    fallback_connections_total,
    rejected_fallback_total,
    pc,         \* where each session is in its call
    current     \* the local the call compares the counter with

budgetVars == <<active_fallback_sessions, fallback_connections_total,
                rejected_fallback_total, pc, current>>

LimitsFallback == AbuseEnabled /\ FallbackMax > 0

BudgetInit ==
    /\ active_fallback_sessions = 0
    /\ fallback_connections_total = 0
    /\ rejected_fallback_total = 0
    /\ pc = [s \in Sessions |-> "idle"]
    /\ current = [s \in Sessions |-> 0]

\* Calls of try_acquire_slot so far: counted in a total, or still inside.
Calls ==
    fallback_connections_total + rejected_fallback_total
        + Cardinality({s \in Sessions : pc[s] \in {"acquiring", "acquired"}})

\* try_acquire_slot, budget off: the total is incremented, then the counter.
CountUnlimited(s) ==
    /\ ~LimitsFallback
    /\ pc[s] = "idle"
    /\ Calls < MaxCalls
    /\ fallback_connections_total' = fallback_connections_total + 1
    /\ pc' = [pc EXCEPT ![s] = "uncounted"]
    /\ UNCHANGED <<active_fallback_sessions, rejected_fallback_total, current>>

EnterUnlimited_LoadStore(s) ==
    /\ pc[s] = "uncounted"
    /\ active_fallback_sessions' = 1
    /\ pc' = [pc EXCEPT ![s] = "holding"]
    /\ UNCHANGED <<fallback_connections_total, rejected_fallback_total, current>>

EnterUnlimited(s) ==
    /\ pc[s] = "uncounted"
    /\ active_fallback_sessions' = active_fallback_sessions + 1
    /\ pc' = [pc EXCEPT ![s] = "holding"]
    /\ UNCHANGED <<fallback_connections_total, rejected_fallback_total, current>>

\* try_acquire_slot, budget on: the first load.
LoadForAcquire(s) ==
    /\ LimitsFallback
    /\ pc[s] = "idle"
    /\ Calls < MaxCalls
    /\ pc' = [pc EXCEPT ![s] = "acquiring"]
    /\ current' = [current EXCEPT ![s] = active_fallback_sessions]
    /\ UNCHANGED <<active_fallback_sessions, fallback_connections_total,
                   rejected_fallback_total>>

\* The compare-exchange of the loop succeeds ...
AcquireExchange_AddAfterTest(s) ==
    /\ pc[s] = "acquiring"
    /\ current[s] < FallbackMax
    /\ active_fallback_sessions' = active_fallback_sessions + 1
    /\ pc' = [pc EXCEPT ![s] = "acquired"]
    /\ UNCHANGED <<fallback_connections_total, rejected_fallback_total, current>>

AcquireExchange(s) ==
    /\ pc[s] = "acquiring"
    /\ current[s] < FallbackMax
    /\ active_fallback_sessions = current[s]
    /\ active_fallback_sessions' = current[s] + 1
    /\ pc' = [pc EXCEPT ![s] = "acquired"]
    /\ UNCHANGED <<fallback_connections_total, rejected_fallback_total, current>>

\* ... or fails, for real or spuriously, and reloads the local.
AcquireRetry_NoReload(s) ==
    /\ pc[s] = "acquiring"
    /\ current[s] < FallbackMax
    /\ UNCHANGED budgetVars

AcquireRetry(s) ==
    /\ pc[s] = "acquiring"
    /\ current[s] < FallbackMax
    /\ current' = [current EXCEPT ![s] = active_fallback_sessions]
    /\ UNCHANGED <<active_fallback_sessions, fallback_connections_total,
                   rejected_fallback_total, pc>>

CountAcquired(s) ==
    /\ pc[s] = "acquired"
    /\ fallback_connections_total' = fallback_connections_total + 1
    /\ pc' = [pc EXCEPT ![s] = "holding"]
    /\ UNCHANGED <<active_fallback_sessions, rejected_fallback_total, current>>

\* The loop ends without a slot.
Reject(s) ==
    /\ pc[s] = "acquiring"
    /\ current[s] >= FallbackMax
    /\ rejected_fallback_total' = rejected_fallback_total + 1
    /\ pc' = [pc EXCEPT ![s] = "idle"]
    /\ UNCHANGED <<active_fallback_sessions, fallback_connections_total, current>>

\* release_slot, called by a session that was given a slot: the load ...
LoadForRelease(s) ==
    /\ pc[s] = "holding"
    /\ pc' = [pc EXCEPT ![s] = "releasing"]
    /\ current' = [current EXCEPT ![s] = active_fallback_sessions]
    /\ UNCHANGED <<active_fallback_sessions, fallback_connections_total,
                   rejected_fallback_total>>

\* ... the loop ends on a counter seen at zero or a successful exchange ...
ReleaseExchange(s) ==
    /\ pc[s] = "releasing"
    /\ current[s] = 0 \/ active_fallback_sessions = current[s]
    /\ active_fallback_sessions' =
           IF current[s] = 0 THEN active_fallback_sessions ELSE current[s] - 1
    /\ pc' = [pc EXCEPT ![s] = "idle"]
    /\ UNCHANGED <<fallback_connections_total, rejected_fallback_total, current>>

\* ... or the exchange fails and reloads the local.
ReleaseRetry(s) ==
    /\ pc[s] = "releasing"
    /\ current[s] > 0
    /\ current' = [current EXCEPT ![s] = active_fallback_sessions]
    /\ UNCHANGED <<active_fallback_sessions, fallback_connections_total,
                   rejected_fallback_total, pc>>

Step(s) ==
    \/ CountUnlimited(s) \/ EnterUnlimited(s)
    \/ LoadForAcquire(s) \/ AcquireExchange(s) \/ AcquireRetry(s)
    \/ CountAcquired(s) \/ Reject(s)
    \/ LoadForRelease(s) \/ ReleaseExchange(s) \/ ReleaseRetry(s)

BudgetNext == \E s \in Sessions : Step(s)

BudgetSpec == BudgetInit /\ [][BudgetNext]_budgetVars

\* A thread inside a call keeps running.  A session need not ever make a call
\* or end.  An exchange that could succeed is not failed spuriously for ever;
\* that others change the counter again and again is bounded by MaxCalls only.
BudgetFairness ==
    \A s \in Sessions :
        /\ WF_budgetVars(EnterUnlimited(s))
        /\ WF_budgetVars(AcquireExchange(s)) /\ WF_budgetVars(AcquireRetry(s))
        /\ WF_budgetVars(CountAcquired(s))
        /\ WF_budgetVars(Reject(s))
        /\ WF_budgetVars(ReleaseExchange(s)) /\ WF_budgetVars(ReleaseRetry(s))

-----------------------------------------------------------------------------
Places == {"idle", "uncounted", "acquiring", "acquired", "holding", "releasing"}

BudgetTypes ==
    /\ active_fallback_sessions \in Nat
    /\ fallback_connections_total \in Nat
    /\ rejected_fallback_total \in Nat
    /\ pc \in [Sessions -> Places]
    /\ current \in [Sessions -> Nat]

\* The sessions that own one unit of the counter.
Holding == {s \in Sessions : pc[s] \in {"acquired", "holding", "releasing"}}

\* The lock-free counter is exact: no increment and no decrement is lost or
\* applied twice, however the loads and exchanges of the sessions interleave.
CounterExact == active_fallback_sessions = Cardinality(Holding)

\* fallback_max_active is never exceeded, although the test of the loop and
\* the increment are two steps.
BudgetKept == LimitsFallback => Cardinality(Holding) <= FallbackMax

\* release_slot always gives back a unit: it never leaves its loop on a
\* counter it saw at zero while its caller still owns a unit.
ReleaseEffective ==
    \A s \in Sessions : pc[s] = "releasing" => current[s] > 0

Budget == INSTANCE SlotPool WITH
    Pools <- {"fallback"}, Clients <- Sessions,
    Capacity <- IF LimitsFallback THEN FallbackMax ELSE Cardinality(Sessions),
    held <- [p \in {"fallback"} |-> Holding]

\* The compare-exchange loops implement an atomic pool of slots.
ImplementsBudget == Budget!Spec

\* A call returns: a session inside try_acquire_slot or release_slot gets out
\* of the loop however often other sessions change the counter.
CallsReturn ==
    \A s \in Sessions :
        /\ pc[s] \in {"uncounted", "acquiring", "acquired"} ~> pc[s] \in {"idle", "holding"}
        /\ pc[s] = "releasing" ~> pc[s] = "idle"
=============================================================================
