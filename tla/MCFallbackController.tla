------------------------ MODULE MCFallbackController ------------------------
(* FallbackController with a budget, and a second one configured without.  A    *)
(* behaviour is that of one of them; the other keeps its initial state.         *)
EXTENDS FallbackController

VARIABLES free_active, free_total, free_rejected, free_pc, free_current, part

freeVars == <<free_active, free_total, free_rejected, free_pc, free_current>>

Unlimited == INSTANCE FallbackController WITH
    FallbackMax <- 0,
    active_fallback_sessions <- free_active,
    fallback_connections_total <- free_total,
    rejected_fallback_total <- free_rejected,
    pc <- free_pc, current <- free_current

MCInit == BudgetInit /\ Unlimited!BudgetInit /\ part \in {"limited", "unlimited"}

MCNext ==
    /\ \/ part = "limited" /\ BudgetNext /\ UNCHANGED freeVars
       \/ part = "unlimited" /\ Unlimited!BudgetNext /\ UNCHANGED budgetVars
    /\ UNCHANGED part

MCSpec == MCInit /\ [][MCNext]_<<budgetVars, freeVars, part>> /\ BudgetFairness

\* The counter is exact with a budget, and without one too, although try_acquire_slot then
\* adds without a loop while releases compare and exchange.
CountsExact == CounterExact /\ Unlimited!CounterExact
=============================================================================
