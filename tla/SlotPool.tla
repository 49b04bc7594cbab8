------------------------------ MODULE SlotPool ------------------------------
(***************************************************************************)
(* What the abuse controls promise, with no data structure: pools of       *)
(* Capacity slots each, and for every pool the set of clients that hold    *)
(* one of its slots.  AbuseController implements it with a pool per source *)
(* IP, FallbackController with a single pool, the fallback budget.         *)
(***************************************************************************)
EXTENDS Integers, FiniteSets

CONSTANTS Pools, Clients, Capacity

VARIABLE held

Init == held = [p \in Pools |-> {}]

\* A client enters a pool that still has a slot.
Acquire(p, c) ==
    /\ c \notin held[p]
    /\ Cardinality(held[p]) < Capacity
    /\ held' = [held EXCEPT ![p] = @ \cup {c}]

\* A client leaves the pool it is in; nobody else's slot is affected.
Release(p, c) ==
    /\ c \in held[p]
    /\ held' = [held EXCEPT ![p] = @ \ {c}]

Next == \E p \in Pools, c \in Clients : Acquire(p, c) \/ Release(p, c)

Spec == Init /\ [][Next]_held
=============================================================================
