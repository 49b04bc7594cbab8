----------------------- MODULE ServerAdmissionProofs ------------------------
(***************************************************************************)
(* Proofs about ServerAdmission, for any set of source addresses, any      *)
(* finite set of sessions and every configuration: what slips into a       *)
(* cooldown, whatever the layout of the threads; and what every session is *)
(* at while others run, and the counting that the limits rest on           *)
(* (ServerLimitsProofs).                                                   *)
(*                                                                         *)
(* The slots are exact when no two threads run handlers of one session,    *)
(* which a single thread and an io_context per worker both give;           *)
(* OneThreadPerSession says so, and the theorems that need it name it.     *)
(***************************************************************************)
EXTENDS ServerAdmission, FiniteSetTheorems, WellFoundedInduction, TLAPS

OneThreadPerSession ==
    \A l \in Layouts : l.thread_num = 1 \/ l.use_multi_io_context

Leaving == {"leave", "release", "clear", "leave_fallback", "clear_fallback"}

AdmissionTypes ==
    /\ layout \in Layouts /\ now \in Nat \ {0}
    /\ per_ip \in [Ips -> IpAbuseStats] /\ resets \in [Ips -> Nat]
    /\ slipped \in [Ips -> Nat]
    /\ active_sessions \in Nat /\ active_fallback_sessions \in Nat
    /\ phase \in [Sessions -> {"free", "destroyed"} \cup Accepting \cup Alive]
    /\ peer \in [Sessions -> Ips \cup {NoIp}] /\ front \in [Sessions -> BOOLEAN]
    /\ connection_slot_acquired \in [Sessions -> BOOLEAN]
    /\ fallback_slot_acquired \in [Sessions -> BOOLEAN]
    /\ pc \in [Sessions -> [Chains -> Idle \cup {"fallback", "test", "mark"} \cup Leaving]]

\* Where destroy() of a session is, and what the session still holds then.
SessionInv(s) ==
    /\ phase[s] # "free" => peer[s] \in Ips
    /\ front[s] => phase[s] # "free" /\ peer[s] \in FrontIps
    /\ \A c, d \in Chains : pc[s][c] \notin Idle /\ pc[s][d] \notin Idle => c = d
    /\ phase[s] \in {"free"} \cup Accepting =>
          /\ ~connection_slot_acquired[s] /\ ~fallback_slot_acquired[s]
          /\ \A c \in Chains : pc[s][c] = "none"
    /\ phase[s] \in Alive => connection_slot_acquired[s] /\ \A c \in Chains : pc[s][c] \notin Leaving
    /\ phase[s] = "handshake" => ~fallback_slot_acquired[s]
    /\ \A c \in Chains :
          /\ pc[s][c] = "fallback" => c = "up" /\ phase[s] = "handshake"
          /\ pc[s][c] = "mark" => phase[s] \in Alive
    /\ phase[s] = "destroyed" =>
          /\ connection_slot_acquired[s] <=> \E c \in Chains : pc[s][c] \in {"leave", "release", "clear"}
          /\ fallback_slot_acquired[s] => \E c \in Chains : pc[s][c] \in Leaving
          /\ \A c \in Chains : pc[s][c] = "clear_fallback" => fallback_slot_acquired[s]

\* The sessions each counter stands for.
Holds(s, ip) ==
    /\ ~front[s] /\ peer[s] = ip
    /\ phase[s] = "granted" \/ (connection_slot_acquired[s] /\ \A c \in Chains : pc[s][c] # "clear")

HoldersOf(ip) == {s \in Sessions : Holds(s, ip)}

IsCounted(s) ==
    connection_slot_acquired[s] /\ \A c \in Chains : pc[s][c] \notin {"release", "clear"}

Counted == {s \in Sessions : IsCounted(s)}

FallsBack(s) == fallback_slot_acquired[s] /\ \A c \in Chains : pc[s][c] # "clear_fallback"

OnSlot == {s \in Sessions : FallsBack(s)}

SlotCounts(ip) ==
    /\ per_ip[ip].active_connections = Cardinality(HoldersOf(ip)) + resets[ip]
    /\ per_ip[ip].active_connections <= PerIpMax
    /\ per_ip[ip].active_connections > 0 => per_ip[ip].tracked

SlotInv == LimitsConnections => \A ip \in Ips \ FrontIps : SlotCounts(ip)

SumOver(f, S) == MapThenSumSet(LAMBDA x : f[x], S)

MetricInv == active_sessions = Cardinality(Counted) + SumOver(resets, Ips)

FallbackInv ==
    /\ active_fallback_sessions = Cardinality(OnSlot)
    /\ Enabled /\ FallbackMax > 0 => active_fallback_sessions <= FallbackMax

AllSessions == \A s \in Sessions : SessionInv(s)
-----------------------------------------------------------------------------
(* Types. *)

\* Every critical section of the controller's mutex maps entries to entries.
LEMMA StatsTyped ==
  ASSUME NEW st \in IpAbuseStats, NEW t \in Nat \ {0}
  PROVE  /\ AfterAcquire(st) \in IpAbuseStats
         /\ AfterRelease(st, t) \in IpAbuseStats
         /\ AfterAuthFailure(st, t) \in IpAbuseStats
<1> USE AbuseConfigAssumption
<1>0. NoEntry \in IpAbuseStats
  BY DEF NoEntry, IpAbuseStats
<1>1. Inserted(st) \in IpAbuseStats
  BY Zenon DEF Inserted, IpAbuseStats
<1>2. [Inserted(st) EXCEPT !.active_connections = @ + 1] \in IpAbuseStats
  BY <1>1 DEF IpAbuseStats
<1>3. Decremented(st) \in IpAbuseStats
  BY DEF Decremented, IpAbuseStats
<1>4. FailCount(st, t) \in Nat
  BY DEF FailCount, IpAbuseStats
<1>5. AfterAuthFailure(st, t) \in IpAbuseStats
  BY <1>4 DEF AfterAuthFailure, IpAbuseStats
<1> QED
  BY <1>0, <1>1, <1>2, <1>3, <1>5, Zenon DEF AfterAcquire, AfterRelease

\* The server starts with well-typed state.
LEMMA TypesInitially == Init => AdmissionTypes
  BY DEF Init, AdmissionTypes, NoEntry, IpAbuseStats, Idle, Accepting, Alive

\* The actions of one session, by name.
SessionNext(s) ==
    \/ \E ip \in Ips : Accept(s, ip)
    \/ \E ip \in FrontIps : AcceptFront(s, ip)
    \/ AcceptStep(s)
    \/ Authenticated(s) \/ BadPassword(s) \/ NotTrojan(s)
    \/ TakeFallbackSlot(s) \/ OutboundOpens(s)
    \/ \E c \in Chains : OperationFails(s, c) \/ DestroyStep(s, c)
    \/ Free(s)

\* Every handler keeps the types.
LEMMA TypesStep ==
  ASSUME AdmissionTypes, NEW s \in Sessions, SessionNext(s)
  PROVE  AdmissionTypes'
<1> USE AdmissionAssumption, AbuseConfigAssumption DEF AdmissionTypes, globals, flags
<1> DEFINE Places == Idle \cup {"fallback", "test", "mark"} \cup Leaving
           Phases == {"free", "destroyed"} \cup Accepting \cup Alive
<1>goto. ASSUME NEW c \in Chains, NEW p \in Places, Goto(s, c, p)
         PROVE  pc' \in [Sessions -> [Chains -> Places]]
  BY <1>goto, Zenon DEF Goto
<1>enter. ASSUME NEW p \in Phases, Enter(s, p) PROVE phase' \in [Sessions -> Phases]
  BY <1>enter, Zenon DEF Enter
<1>places. /\ {"none", "waiting", "fallback", "test", "mark", "leave", "release", "clear",
                "leave_fallback", "clear_fallback"} \in SUBSET Places
           /\ {"free", "destroyed", "accepted", "checked", "granted", "handshake", "connecting",
                "relay"} \in SUBSET Phases
           /\ "up" \in Chains /\ "down" \in Chains
  BY Zenon DEF Idle, Leaving, Accepting, Alive, Chains
<1>forget. ASSUME Forget(s)
           PROVE  /\ phase' \in [Sessions -> Phases] /\ peer' \in [Sessions -> Ips \cup {NoIp}]
                  /\ front' \in [Sessions -> BOOLEAN]
  BY <1>forget, <1>enter, <1>places, Zenon DEF Forget
<1>flags. ASSUME Construct(s)
          PROVE  /\ connection_slot_acquired' \in [Sessions -> BOOLEAN]
                 /\ fallback_slot_acquired' \in [Sessions -> BOOLEAN]
  BY <1>flags, Zenon DEF Construct
<1> HIDE DEF Places, Phases
<1>t. ASSUME pc' \in [Sessions -> [Chains -> Places]], phase' \in [Sessions -> Phases],
             layout' = layout, now' = now,
             per_ip' \in [Ips -> IpAbuseStats], resets' \in [Ips -> Nat],
             slipped' \in [Ips -> Nat],
             active_sessions' \in Nat, active_fallback_sessions' \in Nat,
             peer' \in [Sessions -> Ips \cup {NoIp}], front' \in [Sessions -> BOOLEAN],
             connection_slot_acquired' \in [Sessions -> BOOLEAN],
             fallback_slot_acquired' \in [Sessions -> BOOLEAN]
      PROVE  AdmissionTypes'
  BY <1>t, Zenon DEF Places, Phases
<1>s. /\ pc \in [Sessions -> [Chains -> Places]] /\ phase \in [Sessions -> Phases]
      /\ \A st \in IpAbuseStats : /\ AfterAcquire(st) \in IpAbuseStats
                                  /\ AfterRelease(st, now) \in IpAbuseStats
                                  /\ AfterAuthFailure(st, now) \in IpAbuseStats
  BY StatsTyped, Zenon DEF Places, Phases
<1>1. ASSUME NEW ip \in Ips, Accept(s, ip) PROVE AdmissionTypes'
  BY <1>1, <1>t, <1>s, <1>enter, <1>flags, <1>places, Zenon DEF Accept
<1>2. ASSUME NEW ip \in FrontIps, AcceptFront(s, ip) PROVE AdmissionTypes'
  BY <1>2, <1>t, <1>s, <1>enter, <1>flags, <1>places, Zenon DEF AcceptFront
<1>3. CASE CheckCooldown(s)
  BY <1>3, <1>t, <1>s, <1>enter, <1>forget, <1>places, Zenon DEF CheckCooldown
<1>4. CASE AcquireConnectionSlot(s)
  <2>1. per_ip' \in [Ips -> IpAbuseStats]
    BY <1>4, <1>s, Zenon DEF AcquireConnectionSlot
  <2>2. slipped' \in [Ips -> Nat]
    BY <1>4 DEF AcquireConnectionSlot
  <2>3. /\ phase' \in [Sessions -> Phases] /\ peer' \in [Sessions -> Ips \cup {NoIp}]
        /\ front' \in [Sessions -> BOOLEAN]
    BY <1>4, <1>s, <1>enter, <1>forget, <1>places, Zenon DEF AcquireConnectionSlot
  <2> QED
    BY <1>4, <1>t, <1>s, <2>1, <2>2, <2>3, Zenon DEF AcquireConnectionSlot
<1>5. CASE StartSession(s)
  BY <1>5, <1>t, <1>s, <1>enter, <1>goto, <1>places DEF StartSession
<1>6. CASE StartFails(s)
  <2>1. resets' \in [Ips -> Nat]
    <3>1. resets' = [resets EXCEPT ![peer[s]] = resets[peer[s]] + 1]
      BY <1>6, Zenon DEF StartFails
    <3>2. \A ip \in Ips : resets[ip] + 1 \in Nat
      OBVIOUS
    <3> QED
      BY <3>1, <3>2, Zenon
  <2>2. active_sessions' \in Nat
    BY <1>6 DEF StartFails
  <2> QED
    BY <1>6, <1>t, <1>s, <1>forget, <2>1, <2>2, Zenon DEF StartFails
<1>7. CASE Authenticated(s)
  BY <1>7, <1>t, <1>s, <1>enter, <1>places, Zenon DEF Authenticated
<1>8. CASE BadPassword(s)
  <2>1. per_ip' \in [Ips -> IpAbuseStats]
    BY <1>8, <1>s, Zenon DEF BadPassword
  <2>2. slipped' \in [Ips -> Nat]
    BY <1>8, Zenon DEF BadPassword
  <2> QED
    BY <1>8, <1>t, <1>s, <1>goto, <1>places, <2>1, <2>2, Zenon DEF BadPassword
<1>9. CASE NotTrojan(s)
  BY <1>9, <1>t, <1>s, <1>goto, <1>places, Zenon DEF NotTrojan
<1>10. CASE TakeFallbackSlot(s)
  <2>a. active_fallback_sessions' \in Nat
    BY <1>10 DEF TakeFallbackSlot
  <2>b. fallback_slot_acquired' \in [Sessions -> BOOLEAN]
    BY <1>10, Zenon DEF TakeFallbackSlot
  <2>1. phase' \in [Sessions -> Phases]
    BY <1>10, <1>s, <1>enter, <1>places, Zenon DEF TakeFallbackSlot
  <2>2. pc' \in [Sessions -> [Chains -> Places]]
    BY <1>10, <1>goto, <1>places, Zenon DEF TakeFallbackSlot
  <2> QED
    BY <1>10, <1>t, <2>a, <2>b, <2>1, <2>2, Zenon DEF TakeFallbackSlot
<1>11. CASE OutboundOpens(s)
  BY <1>11, <1>t, <1>s, <1>goto, <1>enter, <1>places, Zenon DEF OutboundOpens
<1>12. ASSUME NEW c \in Chains, OperationFails(s, c) \/ TestStatus(s, c) \/ SetStatus(s, c)
       PROVE  AdmissionTypes'
  BY <1>12, <1>t, <1>s, <1>goto, <1>enter, <1>places, Zenon DEF OperationFails, TestStatus, SetStatus
<1>13. ASSUME NEW c \in Chains, LeaveActiveSessions(s, c) PROVE AdmissionTypes'
  BY <1>13, <1>t, <1>s, <1>goto, <1>places DEF LeaveActiveSessions
<1>14. ASSUME NEW c \in Chains, ReleaseConnectionSlot(s, c) PROVE AdmissionTypes'
  <2>1. per_ip' \in [Ips -> IpAbuseStats]
    BY <1>14, <1>s, Zenon DEF ReleaseConnectionSlot
  <2> QED
    BY <1>14, <1>t, <1>s, <1>goto, <1>places, <2>1, Zenon DEF ReleaseConnectionSlot
<1>15. ASSUME NEW c \in Chains, ReleaseFallbackSlot(s, c) PROVE AdmissionTypes'
  BY <1>15, <1>t, <1>s, <1>goto, <1>places DEF ReleaseFallbackSlot
<1>16. ASSUME NEW c \in Chains, ClearConnectionFlag(s, c) \/ ClearFallbackFlag(s, c)
       PROVE  AdmissionTypes'
  BY <1>16, <1>t, <1>s, <1>goto, <1>places, Zenon DEF ClearConnectionFlag, ClearFallbackFlag
<1>17. CASE Free(s)
  BY <1>17, <1>t, <1>s, <1>forget, Zenon DEF Free
<1> QED
  BY <1>1, <1>2, <1>3, <1>4, <1>5, <1>6, <1>7, <1>8, <1>9, <1>10, <1>11, <1>12, <1>13, <1>14, <1>15,
     <1>16, <1>17, Zenon DEF SessionNext, AcceptStep, DestroyStep

-----------------------------------------------------------------------------
(* The sessions. *)

Local(t) ==
    <<phase[t], peer[t], front[t], connection_slot_acquired[t], fallback_slot_acquired[t], pc[t]>>

\* A handler touches its own session only.
LEMMA OthersKept ==
  ASSUME AdmissionTypes, NEW s \in Sessions, SessionNext(s), NEW t \in Sessions, t # s
  PROVE  Local(t)' = Local(t)
<1> USE DEF AdmissionTypes, globals, flags, Local, Enter, Goto, Forget, Construct
<1>1. ASSUME NEW ip \in Ips, Accept(s, ip) PROVE Local(t)' = Local(t)
  BY <1>1, Zenon DEF Accept
<1>2. ASSUME NEW ip \in FrontIps, AcceptFront(s, ip) PROVE Local(t)' = Local(t)
  BY <1>2, Zenon DEF AcceptFront
<1>3. CASE CheckCooldown(s) \/ AcquireConnectionSlot(s)
  BY <1>3, Zenon DEF CheckCooldown, AcquireConnectionSlot
<1>4. CASE StartSession(s) \/ StartFails(s)
  BY <1>4, Zenon DEF StartSession, StartFails
<1>5. CASE Authenticated(s) \/ BadPassword(s) \/ NotTrojan(s) \/ OutboundOpens(s)
  BY <1>5, Zenon DEF Authenticated, BadPassword, NotTrojan, OutboundOpens
<1>6. CASE TakeFallbackSlot(s)
  BY <1>6, Zenon DEF TakeFallbackSlot
<1>7. ASSUME NEW c \in Chains, OperationFails(s, c) \/ TestStatus(s, c) \/ SetStatus(s, c)
      PROVE  Local(t)' = Local(t)
  BY <1>7, Zenon DEF OperationFails, TestStatus, SetStatus
<1>8. ASSUME NEW c \in Chains, LeaveActiveSessions(s, c) \/ ReleaseConnectionSlot(s, c)
                                \/ ReleaseFallbackSlot(s, c)
      PROVE  Local(t)' = Local(t)
  BY <1>8, Zenon DEF LeaveActiveSessions, ReleaseConnectionSlot, ReleaseFallbackSlot
<1>9. ASSUME NEW c \in Chains, ClearConnectionFlag(s, c) \/ ClearFallbackFlag(s, c)
      PROVE  Local(t)' = Local(t)
  BY <1>9, Zenon DEF ClearConnectionFlag, ClearFallbackFlag
<1>10. CASE Free(s)
  BY <1>10, Zenon DEF Free
<1> QED
  BY <1>1, <1>2, <1>3, <1>4, <1>5, <1>6, <1>7, <1>8, <1>9, <1>10, Zenon
  DEF SessionNext, AcceptStep, DestroyStep

\* No more handlers run than there are threads, so they are finitely many.
LEMMA RunningFinite == IsFiniteSet(RunningChains) /\ IsFiniteSet(RunningAccepts)
<1>1. IsFiniteSet(RunningAccepts)
  BY AdmissionAssumption, FS_Subset, Zenon DEF RunningAccepts
<1>2. IsFiniteSet(Chains)
  <2>1. IsFiniteSet({"up"}) /\ {"up"} \cup {"down"} = {"up", "down"}
    BY FS_Singleton, Zenon
  <2> QED
    BY <2>1, FS_AddElement, Zenon DEF Chains
<1>3. IsFiniteSet(Sessions \X Chains)
  BY <1>2, AdmissionAssumption, FS_Product, Zenon
<1> QED
  BY <1>1, <1>3, FS_Subset, Zenon DEF RunningChains

\* A thread that is free finds no handler of the session running.
LEMMA FreeThread ==
  ASSUME AdmissionTypes, OneThreadPerSession, NEW s \in Sessions, MayRun(s)
  PROVE  \A c \in Chains : pc[s][c] \in Idle
<1>1. CASE layout.use_multi_io_context
  BY <1>1, Zenon DEF MayRun
<1>2. CASE layout.thread_num = 1
  <2>1. Cardinality(RunningChains) \in Nat /\ Cardinality(RunningAccepts) \in Nat
    BY RunningFinite, FS_CardinalityType, Zenon
  <2>2. Cardinality(RunningChains) = 0
    BY <1>2, <2>1 DEF MayRun
  <2>3. RunningChains = {}
    BY <2>2, RunningFinite, FS_EmptySet, Zenon
  <2>4. ASSUME NEW c \in Chains PROVE pc[s][c] \in Idle
    <3>1. <<s, c>> \notin RunningChains
      BY <2>3, Zenon
    <3> QED
      BY <3>1, Zenon DEF RunningChains
  <2> QED
    BY <2>4, Zenon
<1> QED
  BY <1>1, <1>2, Zenon DEF OneThreadPerSession, AdmissionTypes

\* The session that acts.
LEMMA ActorStep ==
  ASSUME AdmissionTypes, AllSessions, OneThreadPerSession, NEW s \in Sessions, SessionNext(s)
  PROVE  SessionInv(s)'
<1> USE AdmissionAssumption
        DEF AdmissionTypes, globals, flags, Enter, Goto, Forget, Construct, SessionInv,
            Chains, Idle, Leaving, Accepting, Alive
<1>s. SessionInv(s)
  BY Zenon DEF AllSessions
<1>m. MayRun(s) => \A c \in Chains : pc[s][c] \in Idle
  BY FreeThread, Zenon
<1>1. ASSUME NEW ip \in Ips, Accept(s, ip) PROVE SessionInv(s)'
  BY <1>1, <1>s, Zenon DEF Accept
<1>2. ASSUME NEW ip \in FrontIps, AcceptFront(s, ip) PROVE SessionInv(s)'
  BY <1>2, <1>s, Zenon DEF AcceptFront
<1>3. CASE CheckCooldown(s)
  BY <1>3, <1>s, Zenon DEF CheckCooldown
<1>4. CASE AcquireConnectionSlot(s)
  <2>1. UNCHANGED <<flags, pc>> /\ phase[s] = "checked"
    BY <1>4, Zenon DEF AcquireConnectionSlot
  <2>2. CASE Enter(s, "granted") /\ UNCHANGED <<peer, front>>
    BY <1>s, <2>1, <2>2, Zenon
  <2>3. CASE Forget(s)
    BY <1>s, <2>1, <2>3, Zenon
  <2> QED
    BY <1>4, <2>2, <2>3, Zenon DEF AcquireConnectionSlot
<1>5. CASE StartSession(s)
  BY <1>5, <1>s, Zenon DEF StartSession
<1>6. CASE StartFails(s)
  BY <1>6, <1>s, Zenon DEF StartFails
<1>7. CASE Authenticated(s)
  BY <1>7, <1>s, <1>m, Zenon DEF Authenticated, PayloadArrives
<1>8. CASE BadPassword(s) \/ NotTrojan(s)
  BY <1>8, <1>s, <1>m, SMTT(30) DEF BadPassword, NotTrojan, PayloadArrives
<1>9. CASE OutboundOpens(s)
  BY <1>9, <1>s, <1>m, Zenon DEF OutboundOpens
<1>10. CASE TakeFallbackSlot(s)
  BY <1>10, <1>s DEF TakeFallbackSlot
<1>11. ASSUME NEW c \in Chains, OperationFails(s, c) PROVE SessionInv(s)'
  BY <1>11, <1>s, <1>m, Zenon DEF OperationFails
<1>12. ASSUME NEW c \in Chains, TestStatus(s, c) PROVE SessionInv(s)'
  BY <1>12, <1>s DEF TestStatus
<1>13. ASSUME NEW c \in Chains, SetStatus(s, c) PROVE SessionInv(s)'
  BY <1>13, <1>s DEF SetStatus
<1>14. ASSUME NEW c \in Chains, LeaveActiveSessions(s, c) PROVE SessionInv(s)'
  BY <1>14, <1>s DEF LeaveActiveSessions
<1>15. ASSUME NEW c \in Chains, ReleaseConnectionSlot(s, c) PROVE SessionInv(s)'
  BY <1>15, <1>s, SMTT(30) DEF ReleaseConnectionSlot
<1>16. ASSUME NEW c \in Chains, ReleaseFallbackSlot(s, c) PROVE SessionInv(s)'
  BY <1>16, <1>s DEF ReleaseFallbackSlot
<1>17. ASSUME NEW c \in Chains, ClearConnectionFlag(s, c) PROVE SessionInv(s)'
  BY <1>17, <1>s, SMTT(30) DEF ClearConnectionFlag
<1>18. ASSUME NEW c \in Chains, ClearFallbackFlag(s, c) PROVE SessionInv(s)'
  BY <1>18, <1>s, Zenon DEF ClearFallbackFlag
<1>19. CASE Free(s)
  BY <1>19, <1>s, Zenon DEF Free
<1> QED
  BY <1>1, <1>2, <1>3, <1>4, <1>5, <1>6, <1>7, <1>8, <1>9, <1>10, <1>11, <1>12, <1>13, <1>14, <1>15,
     <1>16, <1>17, <1>18, <1>19, Zenon DEF SessionNext, AcceptStep, DestroyStep

\* The types, whoever acts.
LEMMA TypesKept == ASSUME AdmissionTypes, [Next]_vars PROVE AdmissionTypes'
<1>1. ASSUME NEW s \in Sessions, SessionNext(s) PROVE AdmissionTypes'
  BY <1>1, TypesStep, Zenon
<1>2. CASE Tick
  BY <1>2 DEF Tick, AdmissionTypes, flags
<1>3. CASE UNCHANGED vars
  BY <1>3, Zenon DEF vars, globals, flags, AdmissionTypes
<1> QED
  BY <1>1, <1>2, <1>3, Zenon DEF Next, SessionNext

\* All sessions, whoever acts.
LEMMA SessionsStep ==
  ASSUME AdmissionTypes, AllSessions, OneThreadPerSession, [Next]_vars
  PROVE  AdmissionTypes' /\ AllSessions'
<1>same. ASSUME \A t \in Sessions : Local(t)' = Local(t) PROVE AllSessions'
  <2> SUFFICES ASSUME NEW t \in Sessions PROVE SessionInv(t)'
    BY Zenon DEF AllSessions
  <2>1. SessionInv(t) /\ Local(t)' = Local(t)
    BY <1>same, Zenon DEF AllSessions
  <2> QED
    BY <2>1, Zenon DEF SessionInv, Local
<1>1. ASSUME NEW s \in Sessions, SessionNext(s) PROVE AllSessions'
  <2>1. ASSUME NEW t \in Sessions, t # s PROVE SessionInv(t)'
    <3>1. SessionInv(t) /\ Local(t)' = Local(t)
      BY <1>1, <2>1, OthersKept, Zenon DEF AllSessions
    <3> QED
      BY <3>1, Zenon DEF SessionInv, Local
  <2>2. SessionInv(s)'
    BY <1>1, ActorStep, Zenon
  <2> QED
    BY <2>1, <2>2, Zenon DEF AllSessions
<1>2. CASE Tick
  <2>1. \A t \in Sessions : Local(t)' = Local(t)
    BY <1>2, Zenon DEF Tick, flags, Local
  <2> QED
    BY <2>1, <1>same, TypesKept, Zenon
<1>3. CASE UNCHANGED vars
  <2>1. \A t \in Sessions : Local(t)' = Local(t)
    BY <1>3, Zenon DEF vars, flags, Local
  <2> QED
    BY <2>1, <1>same, TypesKept, Zenon
<1> QED
  BY <1>1, <1>2, <1>3, TypesKept, Zenon DEF Next, SessionNext

-----------------------------------------------------------------------------
(* The cooldown. *)

\* An address the map does not hold is in no cooldown.
EntryInv == \A ip \in Ips : ~per_ip[ip].tracked => per_ip[ip].cooldown_until = 0

\* The three handlers that touch the controller.
LEMMA EntryChanges ==
  ASSUME [Next]_vars
  PROVE  \/ per_ip' = per_ip
         \/ \E s \in Sessions : \/ AcquireConnectionSlot(s) \/ BadPassword(s)
                                \/ \E c \in Chains : ReleaseConnectionSlot(s, c)
  BY DEF Next, vars, globals, Accept, AcceptFront, AcceptStep, CheckCooldown,
         StartSession, StartFails, Authenticated, NotTrojan, TakeFallbackSlot,
         OutboundOpens, OperationFails, DestroyStep, TestStatus, SetStatus, LeaveActiveSessions,
         ClearConnectionFlag, ReleaseFallbackSlot, ClearFallbackFlag, Free, Tick

\* Every step keeps an address the map does not hold out of cooldown.
LEMMA EntryStep ==
  ASSUME AdmissionTypes, EntryInv, [Next]_vars
  PROVE  EntryInv'
<1> USE AbuseConfigAssumption
<1> DEFINE Good(st) == ~st.tracked => st.cooldown_until = 0
<1>1. ASSUME NEW st \in IpAbuseStats, Good(st)
      PROVE  Good(AfterAcquire(st)) /\ Good(AfterRelease(st, now)) /\ Good(AfterAuthFailure(st, now))
  <2>1. Good(AfterAcquire(st))
    BY <1>1, Zenon DEF AfterAcquire, Inserted, IpAbuseStats
  <2>2. Good(AfterRelease(st, now))
    BY <1>1, Zenon DEF AfterRelease, Decremented, NoEntry, IpAbuseStats
  <2>3. Good(AfterAuthFailure(st, now))
    BY <1>1, Zenon DEF AfterAuthFailure
  <2> QED
    BY <2>1, <2>2, <2>3, Zenon
<1> HIDE DEF Good
<1>2. \A ip \in Ips : per_ip[ip] \in IpAbuseStats /\ Good(per_ip[ip])
  BY Zenon DEF EntryInv, AdmissionTypes, Good
<1>3. \A ip \in Ips : Good(per_ip'[ip])
  <2>1. ASSUME NEW s \in Sessions, AcquireConnectionSlot(s) PROVE \A ip \in Ips : Good(per_ip'[ip])
    BY <1>1, <1>2, <2>1, Zenon DEF AcquireConnectionSlot, AdmissionTypes
  <2>2. ASSUME NEW s \in Sessions, BadPassword(s) PROVE \A ip \in Ips : Good(per_ip'[ip])
    BY <1>1, <1>2, <2>2, Zenon DEF BadPassword, AdmissionTypes
  <2>3. ASSUME NEW s \in Sessions, NEW c \in Chains, ReleaseConnectionSlot(s, c)
        PROVE  \A ip \in Ips : Good(per_ip'[ip])
    BY <1>1, <1>2, <2>3, Zenon DEF ReleaseConnectionSlot, AdmissionTypes
  <2> QED
    BY <1>2, <2>1, <2>2, <2>3, EntryChanges, Zenon
<1> QED
  BY <1>3, Zenon DEF EntryInv, Good

\* The connections from ip that are past the check and have no slot yet.
Checked(ip) == {s \in Sessions : phase[s] = "checked" /\ peer[s] = ip}

\* What makes SlipsBounded inductive: in a cooldown, those that may still slip in count too.
SlipInv ==
    \A ip \in Ips :
        /\ slipped[ip] < layout.thread_num
        /\ InCooldown(per_ip[ip], now) => slipped[ip] + Cardinality(Checked(ip)) < layout.thread_num

\* They are finitely many, and run accept handlers.
LEMMA CheckedFinite ==
  ASSUME NEW ip
  PROVE  /\ IsFiniteSet(Checked(ip)) /\ Cardinality(Checked(ip)) \in Nat
         /\ Cardinality(Checked(ip)) <= Cardinality(RunningAccepts)
<1>1. Checked(ip) \subseteq RunningAccepts
  BY Zenon DEF Checked, RunningAccepts, Accepting
<1> QED
  BY <1>1, RunningFinite, FS_Subset, FS_CardinalityType, Zenon

\* A slot, given, refused or given back, starts no cooldown.
LEMMA CooldownKept ==
  ASSUME NEW st \in IpAbuseStats, NEW t \in Nat \ {0}, ~st.tracked => st.cooldown_until = 0
  PROVE  /\ InCooldown(AfterAcquire(st), t) => InCooldown(st, t)
         /\ InCooldown(AfterRelease(st, t), t) => InCooldown(st, t)
<1> USE AbuseConfigAssumption DEF IpAbuseStats
<1>1. InCooldown(AfterAcquire(st), t) => InCooldown(st, t)
  BY DEF InCooldown, AfterAcquire, Inserted
<1>2. InCooldown(AfterRelease(st, t), t) => InCooldown(st, t)
  BY Zenon DEF InCooldown, AfterRelease, Decremented, NoEntry
<1> QED
  BY <1>1, <1>2, Zenon

\* The layout is for good.
LEMMA LayoutKept == ASSUME [Next]_vars PROVE layout' = layout
  BY ZenonT(60)
  DEF Next, vars, globals, Accept, AcceptFront, AcceptStep, CheckCooldown, AcquireConnectionSlot,
      StartSession, StartFails, Authenticated, BadPassword, NotTrojan, TakeFallbackSlot,
      OutboundOpens, OperationFails, DestroyStep, TestStatus, SetStatus, LeaveActiveSessions,
      ReleaseConnectionSlot, ClearConnectionFlag, ReleaseFallbackSlot, ClearFallbackFlag, Free, Tick

\* The check lets a connection past only out of a cooldown, a slot takes one of those past it,
\* and the failure that starts a cooldown runs on a thread of its own.
LEMMA SlipStep ==
  ASSUME AdmissionTypes, EntryInv, SlipInv, [Next]_vars
  PROVE  SlipInv'
<1> USE AdmissionAssumption
<1>l. layout' = layout /\ layout.thread_num \in Nat \ {0}
  BY LayoutKept, Zenon DEF AdmissionTypes
<1>n. \A ip \in Ips : /\ slipped[ip] \in Nat /\ per_ip[ip] \in IpAbuseStats
                      /\ ~per_ip[ip].tracked => per_ip[ip].cooldown_until = 0
  BY Zenon DEF AdmissionTypes, EntryInv
<1>k. now \in Nat \ {0}
  BY Zenon DEF AdmissionTypes
<1>c. ASSUME NEW ip \in Ips, Checked(ip)' \subseteq Checked(ip)
      PROVE  /\ Cardinality(Checked(ip)') \in Nat /\ Cardinality(Checked(ip)) \in Nat
             /\ Cardinality(Checked(ip)') <= Cardinality(Checked(ip))
  BY <1>c, CheckedFinite, FS_Subset, FS_CardinalityType, Zenon
\* A step that lets nobody past the check and starts no cooldown.
<1>fewer. ASSUME NEW ip \in Ips, Checked(ip)' \subseteq Checked(ip), slipped'[ip] = slipped[ip],
                 InCooldown(per_ip'[ip], now') => InCooldown(per_ip[ip], now)
          PROVE  /\ slipped'[ip] < layout'.thread_num
                 /\ InCooldown(per_ip'[ip], now') =>
                       slipped'[ip] + Cardinality(Checked(ip)') < layout'.thread_num
  <2>1. /\ Cardinality(Checked(ip)') \in Nat /\ Cardinality(Checked(ip)) \in Nat
        /\ Cardinality(Checked(ip)') <= Cardinality(Checked(ip))
    BY <1>fewer, <1>c, Zenon
  <2>2. /\ slipped[ip] < layout.thread_num
        /\ InCooldown(per_ip[ip], now) => slipped[ip] + Cardinality(Checked(ip)) < layout.thread_num
    BY Zenon DEF SlipInv
  <2> DEFINE a == Cardinality(Checked(ip)')
             b == Cardinality(Checked(ip))
  <2> HIDE DEF a, b
  <2>3. a \in Nat /\ b \in Nat /\ a <= b /\ slipped[ip] \in Nat
    BY <2>1, <1>n, Zenon DEF a, b
  <2>4. slipped[ip] + b < layout.thread_num => slipped[ip] + a < layout.thread_num
    BY <1>l, <2>3
  <2> QED
    BY <1>l, <1>fewer, <2>2, <2>4, Zenon DEF a, b
<1>quiet. ASSUME UNCHANGED <<per_ip, slipped, now>>, \A ip \in Ips : Checked(ip)' \subseteq Checked(ip)
          PROVE  SlipInv'
  BY <1>quiet, <1>fewer, Zenon DEF SlipInv
<1>same. ASSUME UNCHANGED <<phase, peer>> PROVE \A ip \in Ips : Checked(ip)' \subseteq Checked(ip)
  BY <1>same, Zenon DEF Checked
<1>moves. ASSUME NEW s \in Sessions, NEW p, p # "checked", Enter(s, p),
                 \A t \in Sessions : t # s => peer'[t] = peer[t]
          PROVE  \A ip \in Ips : Checked(ip)' \subseteq Checked(ip)
  <2>1. \A t \in Sessions : phase'[t] = "checked" => t # s /\ phase[t] = "checked"
    BY <1>moves, Zenon DEF Enter, AdmissionTypes
  <2> QED
    BY <1>moves, <2>1, Zenon DEF Checked
<1>peers. ASSUME NEW s \in Sessions, NEW x, peer' = [peer EXCEPT ![s] = x]
          PROVE  \A t \in Sessions : t # s => peer'[t] = peer[t]
  BY <1>peers, Zenon DEF AdmissionTypes
<1>forget. ASSUME NEW s \in Sessions, Forget(s)
           PROVE  \A ip \in Ips : Checked(ip)' \subseteq Checked(ip)
  BY <1>forget, <1>moves, <1>peers, Zenon DEF Forget
<1>1. ASSUME NEW s \in Sessions, NEW ip \in Ips, Accept(s, ip) \/ AcceptFront(s, ip) PROVE SlipInv'
  BY <1>1, <1>quiet, <1>moves, <1>peers, Zenon DEF Accept, AcceptFront, globals
<1>2. ASSUME NEW s \in Sessions, CheckCooldown(s) PROVE SlipInv'
  <2>1. UNCHANGED <<per_ip, slipped, now>>
    BY <1>2, Zenon DEF CheckCooldown, globals
  <2>2. CASE Forget(s)
    BY <2>1, <2>2, <1>quiet, <1>forget, Zenon
  <2>3. CASE Enter(s, "checked") /\ UNCHANGED peer /\ ~InCooldown(per_ip[peer[s]], now)
    <3>1. ASSUME NEW ip \in Ips
          PROVE  /\ slipped'[ip] < layout'.thread_num
                 /\ InCooldown(per_ip'[ip], now') =>
                       slipped'[ip] + Cardinality(Checked(ip)') < layout'.thread_num
      <4>1. CASE ip = peer[s]
        BY <1>l, <2>1, <2>3, <4>1, Zenon DEF SlipInv
      <4>2. CASE ip # peer[s]
        <5>1. \A t \in Sessions : t # s => phase'[t] = phase[t]
          BY <2>3, Zenon DEF Enter, AdmissionTypes
        <5>2. Checked(ip)' \subseteq Checked(ip)
          BY <2>3, <4>2, <5>1, Zenon DEF Checked
        <5> QED
          BY <2>1, <5>2, <1>fewer, Zenon
      <4> QED
        BY <4>1, <4>2, Zenon
    <3> QED
      BY <3>1, Zenon DEF SlipInv
  <2> QED
    BY <1>2, <2>2, <2>3, Zenon DEF CheckCooldown
<1>3. ASSUME NEW s \in Sessions, AcquireConnectionSlot(s) PROVE SlipInv'
  <2>1. /\ phase[s] = "checked" /\ now' = now
        /\ per_ip' = [per_ip EXCEPT ![peer[s]] = AfterAcquire(per_ip[peer[s]])]
    BY <1>3, Zenon DEF AcquireConnectionSlot
  <2>2. \A ip \in Ips : InCooldown(per_ip'[ip], now') => InCooldown(per_ip[ip], now)
    <3> SUFFICES ASSUME NEW ip \in Ips PROVE InCooldown(per_ip'[ip], now') => InCooldown(per_ip[ip], now)
      BY Zenon
    <3>1. per_ip'[ip] = IF ip = peer[s] THEN AfterAcquire(per_ip[ip]) ELSE per_ip[ip]
      BY <2>1, Zenon DEF AdmissionTypes
    <3> QED
      BY <2>1, <3>1, <1>n, <1>k, CooldownKept, Zenon
  <2>3. \A ip \in Ips : Checked(ip)' \subseteq Checked(ip)
    BY <1>3, <1>moves, <1>forget, Zenon DEF AcquireConnectionSlot
  <2>4. CASE UNCHANGED slipped
    BY <2>2, <2>3, <2>4, <1>fewer, Zenon DEF SlipInv
  <2>5. CASE /\ Enter(s, "granted")
             /\ slipped' = [slipped EXCEPT ![peer[s]] =
                                IF InCooldown(per_ip[peer[s]], now) THEN @ + 1 ELSE @]
    <3>1. ASSUME NEW ip \in Ips
          PROVE  /\ slipped'[ip] < layout'.thread_num
                 /\ InCooldown(per_ip'[ip], now') =>
                       slipped'[ip] + Cardinality(Checked(ip)') < layout'.thread_num
      <4>1. slipped'[ip] = IF ip = peer[s] /\ InCooldown(per_ip[ip], now)
                              THEN slipped[ip] + 1 ELSE slipped[ip]
        BY <2>5, Zenon DEF AdmissionTypes
      <4>2. CASE slipped'[ip] = slipped[ip]
        BY <2>2, <2>3, <4>2, <1>fewer, Zenon
      <4>3. CASE ip = peer[s] /\ InCooldown(per_ip[ip], now) /\ slipped'[ip] = slipped[ip] + 1
        <5>1. s \in Checked(ip)
          BY <2>1, <4>3, Zenon DEF Checked
        <5>2. phase'[s] = "granted"
          BY <2>5, Zenon DEF Enter, AdmissionTypes
        <5>3. Checked(ip)' \subseteq Checked(ip) \ {s}
          BY <2>3, <5>2, Zenon DEF Checked
        <5> DEFINE a == Cardinality(Checked(ip)')
                   b == Cardinality(Checked(ip))
        <5>4. /\ b \in Nat /\ IsFiniteSet(Checked(ip) \ {s})
              /\ Cardinality(Checked(ip) \ {s}) = b - 1
          BY <5>1, CheckedFinite, FS_RemoveElement, Zenon
        <5>5. a <= Cardinality(Checked(ip) \ {s}) /\ a \in Nat
          BY <5>3, <5>4, FS_Subset, FS_CardinalityType, Zenon
        <5>6. slipped[ip] + b < layout.thread_num
          BY <4>3, Zenon DEF SlipInv
        <5> HIDE DEF a, b
        <5>7. /\ b \in Nat /\ a \in Nat /\ a <= b - 1 /\ slipped[ip] \in Nat
              /\ slipped[ip] + b < layout.thread_num
          BY <5>4, <5>5, <5>6, <1>n, Zenon
        <5>8. slipped[ip] + 1 + a < layout.thread_num /\ slipped[ip] + 1 < layout.thread_num
          BY <5>7, <1>l
        <5> QED
          BY <4>3, <5>8, <1>l, Zenon DEF a
      <4> QED
        BY <4>1, <4>2, <4>3, Zenon
    <3> QED
      BY <3>1, Zenon DEF SlipInv
  <2> QED
    BY <1>3, <2>4, <2>5, Zenon DEF AcquireConnectionSlot
<1>4. ASSUME NEW s \in Sessions, BadPassword(s) PROVE SlipInv'
  <2>1. /\ MayRun(s) /\ UNCHANGED <<phase, peer, now>>
        /\ per_ip' = [per_ip EXCEPT ![peer[s]] = AfterAuthFailure(per_ip[peer[s]], now)]
        /\ slipped' = [slipped EXCEPT ![peer[s]] =
                           IF InCooldown(per_ip[peer[s]], now) THEN slipped[peer[s]] ELSE 0]
    BY <1>4, Zenon DEF BadPassword, PayloadArrives
  <2>2. \A ip \in Ips : Checked(ip)' = Checked(ip)
    BY <2>1, Zenon DEF Checked
  <2>3. ASSUME NEW ip \in Ips
        PROVE  /\ slipped'[ip] < layout'.thread_num
               /\ InCooldown(per_ip'[ip], now') =>
                     slipped'[ip] + Cardinality(Checked(ip)') < layout'.thread_num
    <3>1. CASE ip # peer[s]
      <4>1. per_ip'[ip] = per_ip[ip] /\ slipped'[ip] = slipped[ip]
        BY <2>1, <3>1, Zenon DEF AdmissionTypes
      <4> QED
        BY <2>1, <2>2, <4>1, <1>fewer, Zenon
    <3>2. CASE ip = peer[s] /\ InCooldown(per_ip[ip], now)
      <4>1. slipped'[ip] = slipped[ip]
        BY <2>1, <3>2, Zenon DEF AdmissionTypes
      <4> QED
        BY <2>2, <3>2, <4>1, <1>fewer, Zenon
    <3>3. CASE ip = peer[s] /\ ~InCooldown(per_ip[ip], now)
      <4>1. slipped'[ip] = 0
        BY <2>1, <3>3, Zenon DEF AdmissionTypes
      <4> DEFINE a == Cardinality(Checked(ip))
                 b == Cardinality(RunningAccepts)
                 d == Cardinality(RunningChains)
      <4>2. a \in Nat /\ b \in Nat /\ d \in Nat /\ a <= b /\ d + b < layout.thread_num
        BY <2>1, CheckedFinite, RunningFinite, FS_CardinalityType, Zenon DEF MayRun
      <4> HIDE DEF a, b, d
      <4>3. 0 + a < layout.thread_num /\ 0 < layout.thread_num
        BY <4>2, <1>l
      <4> QED
        BY <2>2, <4>1, <4>3, <1>l, Zenon DEF a
    <3> QED
      BY <3>1, <3>2, <3>3, Zenon
  <2> QED
    BY <2>3, Zenon DEF SlipInv
<1>5. ASSUME NEW s \in Sessions, NEW c \in Chains, ReleaseConnectionSlot(s, c) PROVE SlipInv'
  <2>1. /\ UNCHANGED <<phase, peer, now, slipped>>
        /\ per_ip' = [per_ip EXCEPT ![peer[s]] = AfterRelease(per_ip[peer[s]], now)]
    BY <1>5, Zenon DEF ReleaseConnectionSlot
  <2>2. \A ip \in Ips : InCooldown(per_ip'[ip], now') => InCooldown(per_ip[ip], now)
    <3> SUFFICES ASSUME NEW ip \in Ips PROVE InCooldown(per_ip'[ip], now') => InCooldown(per_ip[ip], now)
      BY Zenon
    <3>1. per_ip'[ip] = IF ip = peer[s] THEN AfterRelease(per_ip[ip], now) ELSE per_ip[ip]
      BY <2>1, Zenon DEF AdmissionTypes
    <3> QED
      BY <2>1, <3>1, <1>n, <1>k, CooldownKept, Zenon
  <2> QED
    BY <2>1, <2>2, <1>same, <1>fewer, Zenon DEF SlipInv
<1>6. CASE Tick
  <2>1. UNCHANGED <<phase, peer, per_ip, slipped>> /\ now' = now + 1
    BY <1>6, Zenon DEF Tick
  <2>2. ASSUME NEW st \in IpAbuseStats, InCooldown(st, now') PROVE InCooldown(st, now)
    BY <2>1, <2>2, <1>k DEF InCooldown, IpAbuseStats
  <2> QED
    BY <2>1, <2>2, <1>n, <1>same, <1>fewer, Zenon DEF SlipInv
<1>7. ASSUME NEW s \in Sessions, StartSession(s) \/ StartFails(s) PROVE SlipInv'
  <2>1. UNCHANGED <<per_ip, slipped, now>>
    BY <1>7, Zenon DEF StartSession, StartFails
  <2>2. Forget(s) \/ (Enter(s, "handshake") /\ UNCHANGED peer)
    BY <1>7, Zenon DEF StartSession, StartFails
  <2> QED
    BY <2>1, <2>2, <1>quiet, <1>moves, <1>forget, Zenon
<1>8. ASSUME NEW s \in Sessions, Authenticated(s) \/ OutboundOpens(s) PROVE SlipInv'
  <2>1. UNCHANGED <<per_ip, slipped, now, peer>>
    BY <1>8, Zenon DEF Authenticated, OutboundOpens, globals
  <2>2. Enter(s, "connecting") \/ Enter(s, "relay")
    BY <1>8, Zenon DEF Authenticated, OutboundOpens
  <2> QED
    BY <2>1, <2>2, <1>quiet, <1>moves, Zenon
<1>9. ASSUME NEW s \in Sessions, NotTrojan(s) \/ TakeFallbackSlot(s) PROVE SlipInv'
  <2>1. UNCHANGED <<per_ip, slipped, now, peer>>
    BY <1>9, Zenon DEF NotTrojan, TakeFallbackSlot, globals
  <2>2. UNCHANGED phase \/ Enter(s, "connecting")
    BY <1>9, Zenon DEF NotTrojan, TakeFallbackSlot
  <2> QED
    BY <2>1, <2>2, <1>quiet, <1>moves, <1>same, Zenon
<1>10. ASSUME NEW s \in Sessions, NEW c \in Chains,
              \/ OperationFails(s, c) \/ TestStatus(s, c) \/ SetStatus(s, c)
              \/ LeaveActiveSessions(s, c) \/ ClearConnectionFlag(s, c)
              \/ ReleaseFallbackSlot(s, c) \/ ClearFallbackFlag(s, c)
       PROVE  SlipInv'
  <2>1. UNCHANGED <<per_ip, slipped, now, peer>>
    BY <1>10, Zenon DEF OperationFails, TestStatus, SetStatus, LeaveActiveSessions,
           ClearConnectionFlag, ReleaseFallbackSlot, ClearFallbackFlag, globals
  <2>2. UNCHANGED phase \/ Enter(s, "destroyed")
    BY <1>10, Zenon DEF OperationFails, TestStatus, SetStatus, LeaveActiveSessions,
           ClearConnectionFlag, ReleaseFallbackSlot, ClearFallbackFlag
  <2> QED
    BY <2>1, <2>2, <1>quiet, <1>moves, <1>same, Zenon
<1>11. ASSUME NEW s \in Sessions, Free(s) PROVE SlipInv'
  BY <1>11, <1>quiet, <1>forget, Zenon DEF Free, globals
<1>12. CASE UNCHANGED vars
  BY <1>12, <1>quiet, <1>same, Zenon DEF vars, globals
<1> QED
  BY <1>1, <1>2, <1>3, <1>4, <1>5, <1>6, <1>7, <1>8, <1>9, <1>10, <1>11, <1>12, Zenon
  DEF Next, AcceptStep, DestroyStep

\* SlipsBounded, for every number of threads, sharing an io_context or not: whatever the
\* accept handlers, the failures and the clock do, evaluate_incoming_connection gives in one
\* cooldown of an address no more slots than there are threads beside the one that records
\* the failure.
THEOREM SlipsCorrect == Spec => []SlipsBounded
<1> DEFINE I == AdmissionTypes /\ EntryInv /\ SlipInv
<1>1. Init => I
  <2> SUFFICES ASSUME Init PROVE I
    BY Zenon
  <2>1. EntryInv
    BY Zenon DEF Init, EntryInv, NoEntry
  <2>2. \A ip \in Ips : ~InCooldown(per_ip[ip], now)
    BY Zenon DEF Init, NoEntry, InCooldown
  <2>3. layout.thread_num \in Nat \ {0} /\ \A ip \in Ips : slipped[ip] = 0
    BY AdmissionAssumption, Zenon DEF Init
  <2>4. SlipInv
    BY <2>2, <2>3 DEF SlipInv
  <2> QED
    BY <2>1, <2>4, TypesInitially, Zenon
<1>2. I /\ [Next]_vars => I'
  <2> SUFFICES ASSUME I, [Next]_vars PROVE I'
    BY Zenon
  <2>1. AdmissionTypes'
    BY TypesKept, Zenon
  <2> QED
    BY <2>1, EntryStep, SlipStep, Zenon
<1>3. I => SlipsBounded
  BY Zenon DEF SlipInv, SlipsBounded
<1> HIDE DEF I
<1> QED
  BY <1>1, <1>2, <1>3, PTL DEF Spec

-----------------------------------------------------------------------------
\* What every state satisfies.
AdmissionInv == AdmissionTypes /\ AllSessions /\ EntryInv

\* AdmissionInv is an invariant when no two threads run handlers of one session.
LEMMA AdmissionHolds == ASSUME OneThreadPerSession PROVE Spec => []AdmissionInv
<1>1. Init => AdmissionInv
  <2> SUFFICES ASSUME Init PROVE AdmissionInv
    BY Zenon
  <2>1. AllSessions
    BY Zenon DEF Init, AllSessions, SessionInv, Accepting, Alive, Idle, Leaving
  <2>2. EntryInv
    BY Zenon DEF Init, EntryInv, NoEntry
  <2> QED
    BY <2>1, <2>2, TypesInitially, Zenon DEF AdmissionInv
<1>2. AdmissionInv /\ [Next]_vars => AdmissionInv'
  BY SessionsStep, EntryStep, Zenon DEF AdmissionInv
<1> QED
  BY <1>1, <1>2, PTL DEF Spec

-----------------------------------------------------------------------------
(* Sums over a finite set, as MapThenSumSet computes them. *)

First(T) == CHOOSE x \in T : TRUE

\* The function that MapThenSumSet computes: the sums over the subsets of S.
Sums(f, S) ==
    CHOOSE g : g = [T \in SUBSET S |-> IF T = {} THEN 0 ELSE f[First(T)] + g[T \ {First(T)}]]

SumsRecur(f, S) ==
    \A T \in SUBSET S :
        Sums(f, S)[T] = IF T = {} THEN 0 ELSE f[First(T)] + Sums(f, S)[T \ {First(T)}]

\* SumOver, with its local function named.
LEMMA SumDef == ASSUME NEW f, NEW S PROVE SumOver(f, S) = Sums(f, S)[S]
  BY Zenon DEF SumOver, MapThenSumSet, MapThenFoldSet, Sums, First

\* A set of naturals has a least element.
LEMMA Least ==
  ASSUME NEW T \in SUBSET Nat, T # {}
  PROVE  \E x \in T : \A y \in T : x <= y
<1> DEFINE R == {ss \in Nat \X Nat : ss[1] < ss[2]}
<1>1. IsWellFoundedOn(R, Nat)
  BY NatLessThanWellFounded, Zenon DEF OpToRel
<1>2. PICK x \in T : \A y \in T : ~(<<y, x>> \in R)
  BY <1>1, WFMin, Zenon
<1>3. ASSUME NEW y \in T PROVE x <= y
  <2>1. x \in Nat /\ y \in Nat /\ ~(<<y, x>> \in R)
    BY <1>2, Zenon
  <2>2. ~(y < x)
    BY <2>1, Zenon
  <2> QED
    BY <2>1, <2>2
<1> QED
  BY <1>3, Zenon

\* Among subsets of a finite set there is one that loses the property with any element.
LEMMA LeastSubset ==
  ASSUME NEW S, IsFiniteSet(S), NEW B \in SUBSET SUBSET S, B # {}
  PROVE  \E T \in B : \A x \in T : T \ {x} \notin B
<1>1. \A T \in SUBSET S : IsFiniteSet(T) /\ Cardinality(T) \in Nat
  BY FS_Subset, FS_CardinalityType, Zenon
<1> DEFINE N == {Cardinality(T) : T \in B}
<1>2. N \in SUBSET Nat /\ N # {}
  BY <1>1, Zenon
<1>3. PICK n \in N : \A m \in N : n <= m
  BY <1>2, Least, Zenon
<1>4. PICK T \in B : Cardinality(T) = n
  BY <1>3, Zenon
<1>5. ASSUME NEW x \in T, T \ {x} \in B PROVE FALSE
  <2>1. Cardinality(T \ {x}) = Cardinality(T) - 1 /\ Cardinality(T) \in Nat
    BY <1>1, <1>5, FS_RemoveElement, Zenon
  <2>2. n <= Cardinality(T \ {x})
    BY <1>3, <1>5, Zenon
  <2> QED
    BY <1>4, <2>1, <2>2
<1> QED
  BY <1>5, Zenon

\* First picks an element.
LEMMA FirstOne == ASSUME NEW T, T # {} PROVE First(T) \in T
  BY Zenon DEF First

\* The recursion of Sums has a solution.
LEMMA SumsExist ==
  ASSUME NEW f, NEW S, IsFiniteSet(S)
  PROVE  SumsRecur(f, S)
<1> DEFINE D(n) == {T \in SUBSET S : Cardinality(T) <= n}
           F(g, T) == IF T = {} THEN 0 ELSE f[First(T)] + g[T \ {First(T)}]
           Bad == {n \in Nat : ~\E g : g = [T \in D(n) |-> F(g, T)]}
<1>1. \A T \in SUBSET S : IsFiniteSet(T) /\ Cardinality(T) \in Nat
  BY FS_Subset, FS_CardinalityType, Zenon
<1>d. ASSUME NEW n \in Nat, NEW T \in D(n), T # {}
      PROVE  n > 0 /\ T \ {First(T)} \in D(n - 1) /\ First(T) \in T
  <2>1. First(T) \in T /\ T \in SUBSET S /\ IsFiniteSet(T) /\ Cardinality(T) \in Nat
    BY <1>1, <1>d, FirstOne, Zenon
  <2>2. Cardinality(T \ {First(T)}) = Cardinality(T) - 1 /\ Cardinality(T \ {First(T)}) \in Nat
    BY <1>1, <2>1, FS_RemoveElement, Zenon
  <2>3. Cardinality(T) <= n
    BY Zenon
  <2> QED
    BY <2>1, <2>2, <2>3
<1>2. Bad = {}
  <2> SUFFICES ASSUME Bad # {} PROVE FALSE
    BY Zenon
  <2>1. Bad \in SUBSET Nat
    BY Zenon
  <2> HIDE DEF Bad
  <2>2. PICK n \in Bad : \A m \in Bad : n <= m
    BY <2>1, Least, Zenon
  <2>3. n \in Nat /\ ~\E g : g = [T \in D(n) |-> F(g, T)]
    BY <2>2, ZenonT(30) DEF Bad
  <2>4. \E g : \A T \in D(n) : T # {} => g[T \ {First(T)}] = F(g, T \ {First(T)})
    <3>1. CASE n = 0
      BY <1>d, <2>3, <3>1, SMTT(30)
    <3>2. CASE n # 0
      <4>1. n - 1 \in Nat /\ n - 1 \notin Bad
        BY <2>2, <2>3, <3>2
      <4>2. PICK g : g = [T \in D(n - 1) |-> F(g, T)]
        BY <4>1, Zenon DEF Bad
      <4>3. ASSUME NEW T \in D(n), T # {} PROVE g[T \ {First(T)}] = F(g, T \ {First(T)})
        BY <1>d, <2>3, <4>2, <4>3, Zenon
      <4> QED
        BY <4>3, Zenon
    <3> QED
      BY <3>1, <3>2, Zenon
  <2>5. PICK g : \A T \in D(n) : T # {} => g[T \ {First(T)}] = F(g, T \ {First(T)})
    BY <2>4, Zenon
  <2> DEFINE h == [T \in D(n) |-> F(g, T)]
  <2>6. ASSUME NEW T \in D(n) PROVE F(h, T) = F(g, T)
    <3>1. CASE T = {}
      BY <3>1, Zenon
    <3>2. CASE T # {}
      <4> DEFINE U == T \ {First(T)}
      <4>1. U \in D(n - 1) /\ n > 0
        BY <1>d, <2>3, <3>2, Zenon
      <4>2. U \in D(n)
        BY <1>1, <2>3, <4>1
      <4>3. h[U] = F(g, U)
        BY <4>2, Zenon
      <4>4. g[U] = F(g, U)
        BY <2>5, <3>2, Zenon
      <4> HIDE DEF h
      <4> QED
        BY <3>2, <4>3, <4>4, Zenon
    <3> QED
      BY <3>1, <3>2, Zenon
  <2>7. h = [T \in D(n) |-> F(h, T)]
    BY <2>6, Zenon
  <2> QED
    BY <2>3, <2>7, Zenon
<1>3. PICK g : g = [T \in D(Cardinality(S)) |-> F(g, T)]
  BY <1>1, <1>2, Zenon
<1>4. D(Cardinality(S)) = SUBSET S
  BY <1>1, FS_Subset, Zenon
<1>5. \E h : h = [T \in SUBSET S |-> F(h, T)]
  BY <1>3, <1>4, Zenon
<1>6. Sums(f, S) = [T \in SUBSET S |-> F(Sums(f, S), T)]
  BY <1>5, Zenon DEF Sums
<1> HIDE DEF F
<1>7. \A T \in SUBSET S : Sums(f, S)[T] = F(Sums(f, S), T)
  BY <1>6, Zenon
<1> QED
  BY <1>7, Zenon DEF F, SumsRecur

\* A sum of naturals is a natural, at most the bound of a summand times their number.
LEMMA SumBounded ==
  ASSUME NEW S, IsFiniteSet(S), NEW m \in Nat, NEW f, \A x \in S : f[x] \in 0..m
  PROVE  SumOver(f, S) \in Nat /\ SumOver(f, S) <= Cardinality(S) * m
<1> DEFINE g == Sums(f, S)
           B == {T \in SUBSET S : ~(g[T] \in Nat /\ g[T] <= Cardinality(T) * m)}
<1>1. \A T \in SUBSET S : g[T] = IF T = {} THEN 0 ELSE f[First(T)] + g[T \ {First(T)}]
  BY SumsExist, ZenonT(30) DEF SumsRecur
<1>2. B = {}
  <2> SUFFICES ASSUME B # {} PROVE FALSE
    BY Zenon
  <2>0. B \in SUBSET SUBSET S
    BY Zenon
  <2> HIDE DEF B, g
  <2>1. PICK T \in B : \A x \in T : T \ {x} \notin B
    BY <2>0, LeastSubset, Zenon
  <2>2. T \in SUBSET S /\ ~(g[T] \in Nat /\ g[T] <= Cardinality(T) * m)
    BY <2>1, Zenon DEF B
  <2>3. CASE T = {}
    <3>1. g[T] = 0 /\ Cardinality(T) = 0
      BY <1>1, <2>2, <2>3, FS_EmptySet, Zenon
    <3>2. 0 * m = 0
      OBVIOUS
    <3> QED
      BY <2>2, <3>1, <3>2
  <2>4. CASE T # {}
    <3> DEFINE x == First(T)
               c == Cardinality(T)
    <3>1. x \in T /\ x \in S /\ f[x] \in 0..m
      BY <2>2, <2>4, FirstOne, Zenon
    <3>2. g[T \ {x}] \in Nat /\ g[T \ {x}] <= Cardinality(T \ {x}) * m
      BY <2>1, <2>2, <3>1, Zenon DEF B
    <3>3. Cardinality(T \ {x}) = c - 1 /\ c \in Nat
      BY <2>2, <3>1, FS_Subset, FS_CardinalityType, FS_RemoveElement, Zenon
    <3>4. g[T] = f[x] + g[T \ {x}]
      BY <1>1, <2>2, <2>4, Zenon
    <3> HIDE DEF x, c
    <3>5. (c - 1) * m = c * m - m /\ c * m \in Int
      BY <3>3
    <3>6. g[T] \in Nat /\ g[T] <= c * m
      BY <3>1, <3>2, <3>3, <3>4, <3>5
    <3> QED
      BY <2>2, <3>6, Zenon DEF c
  <2> QED
    BY <2>3, <2>4, Zenon
<1>3. g[S] \in Nat /\ g[S] <= Cardinality(S) * m
  BY <1>2, Zenon
<1> QED
  BY <1>3, SumDef, Zenon

\* A sum of natural numbers is one.
LEMMA SumNat ==
  ASSUME NEW S, IsFiniteSet(S), NEW f \in [S -> Nat]
  PROVE  SumOver(f, S) \in Nat
<1> DEFINE g == Sums(f, S)
           B == {T \in SUBSET S : g[T] \notin Nat}
<1>0. SumsRecur(f, S)
  BY SumsExist, Zenon
<1>1. \A T \in SUBSET S : g[T] = IF T = {} THEN 0 ELSE f[First(T)] + g[T \ {First(T)}]
  BY <1>0, Zenon DEF SumsRecur
<1>2. B = {}
  <2> SUFFICES ASSUME B # {} PROVE FALSE
    BY Zenon
  <2>0. B \in SUBSET SUBSET S
    BY Zenon
  <2> HIDE DEF B, g
  <2>1. PICK T \in B : \A x \in T : T \ {x} \notin B
    BY <2>0, LeastSubset, Zenon
  <2>2. T \in SUBSET S /\ g[T] \notin Nat
    BY <2>1, Zenon DEF B
  <2>3. T # {}
    <3> SUFFICES ASSUME T = {} PROVE FALSE
      BY Zenon
    <3>1. g[T] = 0
      BY <1>1, <2>2, Zenon
    <3> QED
      BY <2>2, <3>1
  <2>4. First(T) \in T
    BY <2>3, FirstOne, Zenon
  <2>5. g[T \ {First(T)}] \in Nat /\ f[First(T)] \in Nat
    BY <2>1, <2>2, <2>4, Zenon DEF B
  <2>6. g[T] = f[First(T)] + g[T \ {First(T)}]
    BY <1>1, <2>2, <2>3, Zenon
  <2> QED
    BY <2>2, <2>5, <2>6
<1>3. g[S] \in Nat
  BY <1>2, Zenon
<1> QED
  BY <1>3, SumDef, Zenon

\* One more in one place is one more in the sum.
LEMMA SumGrows ==
  ASSUME NEW S, IsFiniteSet(S), NEW f \in [S -> Nat], NEW x \in S,
         NEW h \in [S -> Nat], h[x] = f[x] + 1, \A y \in S \ {x} : h[y] = f[y]
  PROVE  SumOver(f, S) \in Nat /\ SumOver(h, S) = SumOver(f, S) + 1
<1> DEFINE a == Sums(f, S)
           b == Sums(h, S)
           B == {T \in SUBSET S : ~(a[T] \in Nat /\ b[T] = a[T] + (IF x \in T THEN 1 ELSE 0))}
<1>f. SumsRecur(f, S)
  BY SumsExist, Zenon
<1>h. SumsRecur(h, S)
  BY SumsExist, Zenon
<1>a. \A T \in SUBSET S : a[T] = IF T = {} THEN 0 ELSE f[First(T)] + a[T \ {First(T)}]
  BY <1>f, Zenon DEF SumsRecur
<1>b. \A T \in SUBSET S : b[T] = IF T = {} THEN 0 ELSE h[First(T)] + b[T \ {First(T)}]
  BY <1>h, Zenon DEF SumsRecur
<1> HIDE DEF a, b
<1>2. B = {}
  <2> SUFFICES ASSUME B # {} PROVE FALSE
    BY Zenon
  <2>0. B \in SUBSET SUBSET S
    BY Zenon
  <2> HIDE DEF B
  <2>1. PICK T \in B : \A y \in T : T \ {y} \notin B
    BY <2>0, LeastSubset, Zenon
  <2>2. T \in SUBSET S /\ ~(a[T] \in Nat /\ b[T] = a[T] + (IF x \in T THEN 1 ELSE 0))
    BY <2>1, Zenon DEF B
  <2>3. CASE T = {}
    <3>1. a[T] = 0 /\ b[T] = 0 /\ x \notin T
      BY <1>a, <1>b, <2>2, <2>3, Zenon
    <3> QED
      BY <2>2, <3>1, SMTT(30)
  <2>4. CASE T # {}
    <3> DEFINE y == First(T)
               U == T \ {y}
    <3>1. y \in T /\ y \in S /\ f[y] \in Nat /\ h[y] = f[y] + (IF x = y THEN 1 ELSE 0)
      BY <2>2, <2>4, FirstOne, SMTT(30)
    <3>2. a[U] \in Nat /\ b[U] = a[U] + (IF x \in U THEN 1 ELSE 0)
      BY <2>1, <2>2, <3>1, Zenon DEF B
    <3>3. a[T] = f[y] + a[U] /\ b[T] = h[y] + b[U]
      BY <1>a, <1>b, <2>2, <2>4, Zenon
    <3>4. x \in T <=> x = y \/ x \in U
      BY <3>1, Zenon
    <3>5. x = y => x \notin U
      BY Zenon
    <3> HIDE DEF y, U
    <3> QED
      BY <2>2, <3>1, <3>2, <3>3, <3>4, <3>5, SMTT(30)
  <2> QED
    BY <2>3, <2>4, Zenon
<1>3. a[S] \in Nat /\ b[S] = a[S] + 1
  BY <1>2, Zenon
<1> QED
  BY <1>3, SumDef, Zenon DEF a, b

-----------------------------------------------------------------------------
(* The counters. *)

\* A set of sessions that changes in one of them.
LEMMA OneChanges ==
  ASSUME NEW A \in SUBSET Sessions, NEW s \in Sessions, NEW B,
         B = A \cup {s} \/ B = A \ {s}
  PROVE  /\ Cardinality(A) \in Nat /\ Cardinality(B) \in Nat
         /\ s \in A => Cardinality(A) > 0
         /\ (s \in A <=> s \in B) => Cardinality(B) = Cardinality(A)
         /\ s \notin A /\ s \in B => Cardinality(B) = Cardinality(A) + 1
         /\ s \in A /\ s \notin B => Cardinality(B) = Cardinality(A) - 1
<1>1. IsFiniteSet(A) /\ IsFiniteSet(B)
  BY AdmissionAssumption, FS_Subset, Zenon
<1>2. Cardinality(A) \in Nat /\ Cardinality(B) \in Nat
  BY <1>1, FS_CardinalityType, Zenon
<1>3. s \in A => Cardinality(A) > 0
  BY <1>1, <1>2, FS_EmptySet
<1>4. CASE s \in A <=> s \in B
  <2>1. A = B
    BY <1>4, Zenon
  <2> QED
    BY <1>2, <1>3, <1>4, <2>1, Zenon
<1>5. CASE s \notin A /\ s \in B
  BY <1>1, <1>2, <1>3, <1>5, FS_AddElement, Zenon
<1>6. CASE s \in A /\ s \notin B
  BY <1>1, <1>2, <1>3, <1>6, FS_RemoveElement, Zenon
<1> QED
  BY <1>4, <1>5, <1>6, Zenon

\* How the counted sets change when s acts.
LEMMA HoldersChange ==
  ASSUME AdmissionTypes, NEW s \in Sessions, SessionNext(s), NEW ip
  PROVE  /\ Cardinality(HoldersOf(ip)) \in Nat /\ Cardinality(HoldersOf(ip)') \in Nat
         /\ Holds(s, ip) => Cardinality(HoldersOf(ip)) > 0
         /\ (Holds(s, ip) <=> Holds(s, ip)') => Cardinality(HoldersOf(ip)') = Cardinality(HoldersOf(ip))
         /\ ~Holds(s, ip) /\ Holds(s, ip)' => Cardinality(HoldersOf(ip)') = Cardinality(HoldersOf(ip)) + 1
         /\ Holds(s, ip) /\ ~Holds(s, ip)' => Cardinality(HoldersOf(ip)') = Cardinality(HoldersOf(ip)) - 1
<1> DEFINE A == HoldersOf(ip)
           B == HoldersOf(ip)'
<1>1. \A t \in Sessions : t # s => (Holds(t, ip)' <=> Holds(t, ip))
  BY OthersKept DEF Local, Holds
<1>2. A \in SUBSET Sessions /\ (s \in A <=> Holds(s, ip)) /\ (s \in B <=> Holds(s, ip)')
  BY Zenon DEF HoldersOf
<1>3. B = A \cup {s} \/ B = A \ {s}
  BY <1>1, Zenon DEF HoldersOf
<1> HIDE DEF A, B
<1>4. /\ Cardinality(A) \in Nat /\ Cardinality(B) \in Nat
      /\ s \in A => Cardinality(A) > 0
      /\ (s \in A <=> s \in B) => Cardinality(B) = Cardinality(A)
      /\ s \notin A /\ s \in B => Cardinality(B) = Cardinality(A) + 1
      /\ s \in A /\ s \notin B => Cardinality(B) = Cardinality(A) - 1
  BY <1>2, <1>3, OneChanges, Zenon
<1> QED
  BY <1>2, <1>4, Zenon DEF A, B

\* A step of one session changes the number of sessions counted by at most its own.
LEMMA CountedChanges ==
  ASSUME AdmissionTypes, NEW s \in Sessions, SessionNext(s)
  PROVE  /\ Cardinality(Counted) \in Nat /\ Cardinality(Counted') \in Nat
         /\ IsCounted(s) => Cardinality(Counted) > 0
         /\ (IsCounted(s) <=> IsCounted(s)') => Cardinality(Counted') = Cardinality(Counted)
         /\ ~IsCounted(s) /\ IsCounted(s)' => Cardinality(Counted') = Cardinality(Counted) + 1
         /\ IsCounted(s) /\ ~IsCounted(s)' => Cardinality(Counted') = Cardinality(Counted) - 1
<1> DEFINE A == Counted
           B == Counted'
<1>1. \A t \in Sessions : t # s => (IsCounted(t)' <=> IsCounted(t))
  BY OthersKept, Zenon DEF Local, IsCounted
<1>2. A \in SUBSET Sessions /\ (s \in A <=> IsCounted(s)) /\ (s \in B <=> IsCounted(s)')
  BY Zenon DEF Counted
<1>3. B = A \cup {s} \/ B = A \ {s}
  BY <1>1, Zenon DEF Counted
<1> HIDE DEF A, B
<1>4. /\ Cardinality(A) \in Nat /\ Cardinality(B) \in Nat
      /\ s \in A => Cardinality(A) > 0
      /\ (s \in A <=> s \in B) => Cardinality(B) = Cardinality(A)
      /\ s \notin A /\ s \in B => Cardinality(B) = Cardinality(A) + 1
      /\ s \in A /\ s \notin B => Cardinality(B) = Cardinality(A) - 1
  BY <1>2, <1>3, OneChanges, Zenon
<1> QED
  BY <1>2, <1>4, Zenon DEF A, B

\* A step of one session changes the number of fallback slots in use by at most its own.
LEMMA OnSlotChanges ==
  ASSUME AdmissionTypes, NEW s \in Sessions, SessionNext(s)
  PROVE  /\ Cardinality(OnSlot) \in Nat /\ Cardinality(OnSlot') \in Nat
         /\ FallsBack(s) => Cardinality(OnSlot) > 0
         /\ (FallsBack(s) <=> FallsBack(s)') => Cardinality(OnSlot') = Cardinality(OnSlot)
         /\ ~FallsBack(s) /\ FallsBack(s)' => Cardinality(OnSlot') = Cardinality(OnSlot) + 1
         /\ FallsBack(s) /\ ~FallsBack(s)' => Cardinality(OnSlot') = Cardinality(OnSlot) - 1
<1> DEFINE A == OnSlot
           B == OnSlot'
<1>1. \A t \in Sessions : t # s => (FallsBack(t)' <=> FallsBack(t))
  BY OthersKept, Zenon DEF Local, FallsBack
<1>2. A \in SUBSET Sessions /\ (s \in A <=> FallsBack(s)) /\ (s \in B <=> FallsBack(s)')
  BY Zenon DEF OnSlot
<1>3. B = A \cup {s} \/ B = A \ {s}
  BY <1>1, Zenon DEF OnSlot
<1> HIDE DEF A, B
<1>4. /\ Cardinality(A) \in Nat /\ Cardinality(B) \in Nat
      /\ s \in A => Cardinality(A) > 0
      /\ (s \in A <=> s \in B) => Cardinality(B) = Cardinality(A)
      /\ s \notin A /\ s \in B => Cardinality(B) = Cardinality(A) + 1
      /\ s \in A /\ s \notin B => Cardinality(B) = Cardinality(A) - 1
  BY <1>2, <1>3, OneChanges, Zenon
<1> QED
  BY <1>2, <1>4, Zenon DEF A, B
=============================================================================
