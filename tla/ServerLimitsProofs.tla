------------------------- MODULE ServerLimitsProofs -------------------------
(***************************************************************************)
(* The limits of a server, for any set of source addresses, any finite set *)
(* of sessions and every configuration: the connection and the fallback    *)
(* slots and the session metric of ServerAdmission (when no two threads    *)
(* run handlers of one session), and the quotas of UsageAccounting, for    *)
(* any users and any quotas.                                               *)
(***************************************************************************)
EXTENDS ServerAdmissionProofs, UsageAccounting

\* The controller's counter of an address that makes no trusted-front connections.
LEMMA SlotStep ==
  ASSUME AdmissionInv, OneThreadPerSession, SlotInv, LimitsConnections,
         NEW s \in Sessions, SessionNext(s), NEW ip \in Ips \ FrontIps
  PROVE  SlotCounts(ip)'
<1> USE AdmissionAssumption, AbuseConfigAssumption
<1>i. /\ AdmissionTypes /\ SessionInv(s) /\ SlotCounts(ip)
      /\ per_ip[ip] \in IpAbuseStats /\ resets[ip] \in Nat /\ PerIpMax \in Int
  BY Zenon DEF AdmissionInv, AllSessions, SlotInv, AdmissionTypes
<1>n. per_ip[ip].active_connections \in Nat
  BY <1>i, Zenon DEF IpAbuseStats
<1>c. /\ Cardinality(HoldersOf(ip)) \in Nat /\ Cardinality(HoldersOf(ip)') \in Nat
      /\ Holds(s, ip) => Cardinality(HoldersOf(ip)) > 0
      /\ (Holds(s, ip) <=> Holds(s, ip)') => Cardinality(HoldersOf(ip)') = Cardinality(HoldersOf(ip))
      /\ ~Holds(s, ip) /\ Holds(s, ip)' => Cardinality(HoldersOf(ip)') = Cardinality(HoldersOf(ip)) + 1
      /\ Holds(s, ip) /\ ~Holds(s, ip)' => Cardinality(HoldersOf(ip)') = Cardinality(HoldersOf(ip)) - 1
  BY <1>i, HoldersChange, Zenon
<1>f. peer[s] = ip => ~front[s]
  BY <1>i, Zenon DEF SessionInv
<1>quiet. ASSUME Holds(s, ip) <=> Holds(s, ip)', resets'[ip] = resets[ip],
                 per_ip'[ip].active_connections = per_ip[ip].active_connections,
                 per_ip[ip].tracked => per_ip'[ip].tracked
          PROVE  SlotCounts(ip)'
  BY <1>i, <1>c, <1>quiet, Zenon DEF SlotCounts
<1>held. Holds(s, ip) => per_ip[ip].active_connections > 0 /\ per_ip[ip].tracked
  BY <1>i, <1>c, <1>n DEF SlotCounts
<1>up. ASSUME ~Holds(s, ip), Holds(s, ip)', resets' = resets,
              per_ip[ip].active_connections < PerIpMax,
              per_ip'[ip].active_connections = per_ip[ip].active_connections + 1,
              per_ip'[ip].tracked
       PROVE  SlotCounts(ip)'
  BY <1>i, <1>c, <1>n, <1>up DEF SlotCounts
<1>down. ASSUME Holds(s, ip), ~Holds(s, ip)', resets' = resets,
                per_ip'[ip].active_connections = per_ip[ip].active_connections - 1,
                per_ip'[ip].active_connections > 0 => per_ip'[ip].tracked
         PROVE  SlotCounts(ip)'
  BY <1>i, <1>c, <1>n, <1>down DEF SlotCounts
<1>lost. ASSUME Holds(s, ip), ~Holds(s, ip)', resets'[ip] = resets[ip] + 1, per_ip' = per_ip
         PROVE  SlotCounts(ip)'
  BY <1>i, <1>c, <1>n, <1>lost DEF SlotCounts
<1> USE DEF Enter, Goto, Forget, Construct, globals, flags
<1> USE DEF AdmissionTypes, Holds, SessionInv, Accepting, Alive, Idle, Leaving, Chains
<1>1. ASSUME NEW jp \in Ips, Accept(s, jp) PROVE SlotCounts(ip)'
  <2>1. ~Holds(s, ip) /\ ~Holds(s, ip)'
    BY <1>1, <1>i, Zenon DEF Accept
  <2> QED
    BY <1>1, <1>quiet, <2>1, Zenon DEF Accept
<1>2. ASSUME NEW jp \in FrontIps, AcceptFront(s, jp) PROVE SlotCounts(ip)'
  <2>1. ~Holds(s, ip) /\ ~Holds(s, ip)'
    BY <1>2, <1>i, Zenon DEF AcceptFront
  <2> QED
    BY <1>2, <1>quiet, <2>1, Zenon DEF AcceptFront
<1>3. CASE CheckCooldown(s)
  <2>1. ~Holds(s, ip) /\ ~Holds(s, ip)'
    BY <1>3, <1>i, Zenon DEF CheckCooldown
  <2> QED
    BY <1>3, <1>quiet, <2>1, Zenon DEF CheckCooldown
<1>4. CASE AcquireConnectionSlot(s)
  <2>1. ~Holds(s, ip) /\ peer[s] \in Ips /\ resets' = resets
    BY <1>4, <1>i, Zenon DEF AcquireConnectionSlot
  <2>2. CASE peer[s] # ip
    <3>1. per_ip'[ip] = per_ip[ip]
      BY <1>4, <1>i, <2>2, Zenon DEF AcquireConnectionSlot
    <3>2. ~Holds(s, ip)'
      BY <1>4, <1>i, <2>2, Zenon DEF AcquireConnectionSlot
    <3> QED
      BY <1>quiet, <2>1, <3>1, <3>2, Zenon
  <2>3. CASE peer[s] = ip /\ SlotAvailable(per_ip[ip])
    <3>1. per_ip'[ip] = [Inserted(per_ip[ip]) EXCEPT !.active_connections = @ + 1]
      BY <1>4, <1>i, <2>3, Zenon DEF AcquireConnectionSlot, AfterAcquire
    <3>2. /\ per_ip'[ip].active_connections = per_ip[ip].active_connections + 1
          /\ per_ip'[ip].tracked /\ per_ip[ip].active_connections < PerIpMax
      BY <1>i, <2>3, <3>1, Zenon DEF Inserted, IpAbuseStats, SlotAvailable
    <3>3. Holds(s, ip)'
      BY <1>4, <1>i, <1>f, <2>3, Zenon DEF AcquireConnectionSlot
    <3> QED
      BY <1>up, <2>1, <3>2, <3>3, Zenon
  <2>4. CASE peer[s] = ip /\ ~SlotAvailable(per_ip[ip])
    <3>1. per_ip'[ip] = Inserted(per_ip[ip])
      BY <1>4, <1>i, <2>4, Zenon DEF AcquireConnectionSlot, AfterAcquire
    <3>2. per_ip'[ip].active_connections = per_ip[ip].active_connections /\ per_ip'[ip].tracked
      BY <1>i, <3>1, Zenon DEF Inserted, IpAbuseStats
    <3>3. ~Holds(s, ip)'
      BY <1>4, <1>i, <2>4, Zenon DEF AcquireConnectionSlot
    <3> QED
      BY <1>quiet, <2>1, <3>2, <3>3, Zenon
  <2> QED
    BY <2>2, <2>3, <2>4, Zenon
<1>5. CASE StartSession(s)
  <2>1. Holds(s, ip) <=> Holds(s, ip)'
    BY <1>5, <1>i, Zenon DEF StartSession
  <2> QED
    BY <1>5, <1>quiet, <2>1, Zenon DEF StartSession
<1>6. CASE StartFails(s)
  <2>1. ~Holds(s, ip)' /\ (Holds(s, ip) <=> peer[s] = ip) /\ per_ip' = per_ip
    BY <1>6, <1>i, <1>f, Zenon DEF StartFails
  <2>2. CASE peer[s] # ip
    <3>1. resets'[ip] = resets[ip]
      BY <1>6, <1>i, <2>2, Zenon DEF StartFails
    <3> QED
      BY <1>quiet, <2>1, <2>2, <3>1, Zenon
  <2>3. CASE peer[s] = ip
    <3>1. resets'[ip] = resets[ip] + 1
      BY <1>6, <1>i, <2>3, Zenon DEF StartFails
    <3> QED
      BY <1>lost, <2>1, <2>3, <3>1, Zenon
  <2> QED
    BY <2>2, <2>3, Zenon
<1>7. CASE Authenticated(s) \/ NotTrojan(s) \/ OutboundOpens(s)
  <2>1. Holds(s, ip) <=> Holds(s, ip)'
    <3>1. CASE Authenticated(s)
      BY <1>i, <3>1, Zenon DEF Authenticated, PayloadArrives
    <3>2. CASE NotTrojan(s)
      BY <1>i, <3>2, Zenon DEF NotTrojan, PayloadArrives
    <3>3. CASE OutboundOpens(s)
      BY <1>i, <3>3, Zenon DEF OutboundOpens
    <3> QED
      BY <1>7, <3>1, <3>2, <3>3, Zenon
  <2> QED
    BY <1>7, <1>quiet, <2>1, Zenon DEF Authenticated, NotTrojan, OutboundOpens
<1>8. CASE BadPassword(s)
  <2>1. Holds(s, ip) <=> Holds(s, ip)'
    BY <1>8, <1>i, Zenon DEF BadPassword, PayloadArrives
  <2>2. /\ AfterAuthFailure(per_ip[ip], now).active_connections = per_ip[ip].active_connections
        /\ per_ip[ip].tracked => AfterAuthFailure(per_ip[ip], now).tracked
    BY Zenon DEF AfterAuthFailure
  <2>3. per_ip'[ip] = per_ip[ip] \/ per_ip'[ip] = AfterAuthFailure(per_ip[ip], now)
    BY <1>8, <1>i, Zenon DEF BadPassword
  <2> QED
    BY <1>8, <1>quiet, <2>1, <2>2, <2>3, Zenon DEF BadPassword
<1>9. CASE TakeFallbackSlot(s)
  <2>1. Holds(s, ip) <=> Holds(s, ip)'
    BY <1>9, <1>i, SMTT(30) DEF TakeFallbackSlot
  <2> QED
    BY <1>9, <1>quiet, <2>1, Zenon DEF TakeFallbackSlot
<1>10. ASSUME NEW c \in Chains, OperationFails(s, c) \/ TestStatus(s, c) \/ SetStatus(s, c)
       PROVE  SlotCounts(ip)'
  <2>1. Holds(s, ip) <=> Holds(s, ip)'
    <3>1. CASE OperationFails(s, c)
      BY <1>i, <3>1, SMTT(30) DEF OperationFails
    <3>2. CASE TestStatus(s, c)
      BY <1>i, <3>2, Zenon DEF TestStatus
    <3>3. CASE SetStatus(s, c)
      BY <1>i, <3>3, Zenon DEF SetStatus
    <3> QED
      BY <1>10, <3>1, <3>2, <3>3, Zenon
  <2> QED
    BY <1>10, <1>quiet, <2>1, Zenon DEF OperationFails, TestStatus, SetStatus
<1>11. ASSUME NEW c \in Chains, LeaveActiveSessions(s, c) \/ ReleaseFallbackSlot(s, c)
       PROVE  SlotCounts(ip)'
  <2>1. Holds(s, ip) <=> Holds(s, ip)'
    <3>1. CASE LeaveActiveSessions(s, c)
      BY <1>i, <3>1, SMTT(30) DEF LeaveActiveSessions
    <3>2. CASE ReleaseFallbackSlot(s, c)
      BY <1>i, <3>2, Zenon DEF ReleaseFallbackSlot
    <3> QED
      BY <1>11, <3>1, <3>2, ZenonT(30)
  <2> QED
    BY <1>11, <1>quiet, <2>1, Zenon DEF LeaveActiveSessions, ReleaseFallbackSlot
<1>12. ASSUME NEW c \in Chains, ReleaseConnectionSlot(s, c) PROVE SlotCounts(ip)'
  <2>1. /\ ~Holds(s, ip)' /\ (Holds(s, ip) <=> peer[s] = ip) /\ resets' = resets
        /\ peer[s] \in Ips
    BY <1>12, <1>i, <1>f, Zenon DEF ReleaseConnectionSlot
  <2>2. CASE peer[s] # ip
    <3>1. per_ip'[ip] = per_ip[ip]
      BY <1>12, <1>i, <2>2, Zenon DEF ReleaseConnectionSlot
    <3> QED
      BY <1>quiet, <2>1, <2>2, <3>1, Zenon
  <2>3. CASE peer[s] = ip
    <3>1. per_ip'[ip] = AfterRelease(per_ip[ip], now)
      BY <1>12, <1>i, <2>3, Zenon DEF ReleaseConnectionSlot
    <3>2. per_ip[ip].active_connections > 0 /\ per_ip[ip].tracked
      BY <1>held, <2>1, <2>3, Zenon
    <3>3. /\ per_ip'[ip].active_connections = per_ip[ip].active_connections - 1
          /\ per_ip'[ip].active_connections > 0 => per_ip'[ip].tracked
      BY <1>i, <1>n, <3>1, <3>2, SMTT(30) DEF AfterRelease, Decremented, Disposable, NoEntry, IpAbuseStats
    <3> QED
      BY <1>down, <2>1, <2>3, <3>3, Zenon
  <2> QED
    BY <2>2, <2>3, Zenon
<1>13. ASSUME NEW c \in Chains, ClearConnectionFlag(s, c) \/ ClearFallbackFlag(s, c)
       PROVE  SlotCounts(ip)'
  <2>1. Holds(s, ip) <=> Holds(s, ip)'
    <3>1. CASE ClearConnectionFlag(s, c)
      BY <1>i, <3>1, Zenon DEF ClearConnectionFlag
    <3>2. CASE ClearFallbackFlag(s, c)
      BY <1>i, <3>2, Zenon DEF ClearFallbackFlag
    <3> QED
      BY <1>13, <3>1, <3>2, Zenon
  <2> QED
    BY <1>13, <1>quiet, <2>1, Zenon DEF ClearConnectionFlag, ClearFallbackFlag
<1>14. CASE Free(s)
  <2>1. ~Holds(s, ip) /\ ~Holds(s, ip)'
    BY <1>14, <1>i, Zenon DEF Free
  <2> QED
    BY <1>14, <1>quiet, <2>1, Zenon DEF Free
<1> QED
  BY <1>1, <1>2, <1>3, <1>4, <1>5, <1>6, <1>7, <1>8, <1>9, <1>10, <1>11, <1>12, <1>13, <1>14, Zenon
  DEF SessionNext, AcceptStep, DestroyStep

\* The metric active_sessions.
LEMMA MetricStep ==
  ASSUME AdmissionInv, OneThreadPerSession, MetricInv, NEW s \in Sessions, SessionNext(s)
  PROVE  MetricInv'
<1> USE AdmissionAssumption
<1>i. AdmissionTypes /\ SessionInv(s) /\ active_sessions = Cardinality(Counted) + SumOver(resets, Ips)
  BY Zenon DEF AdmissionInv, AllSessions, MetricInv
<1>c. /\ Cardinality(Counted) \in Nat /\ Cardinality(Counted') \in Nat
      /\ IsCounted(s) => Cardinality(Counted) > 0
      /\ (IsCounted(s) <=> IsCounted(s)') => Cardinality(Counted') = Cardinality(Counted)
      /\ ~IsCounted(s) /\ IsCounted(s)' => Cardinality(Counted') = Cardinality(Counted) + 1
      /\ IsCounted(s) /\ ~IsCounted(s)' => Cardinality(Counted') = Cardinality(Counted) - 1
  BY <1>i, CountedChanges, Zenon
<1>n. SumOver(resets, Ips) \in Nat /\ active_sessions \in Nat
  BY <1>i, SumNat, Zenon DEF AdmissionTypes
<1>quiet. ASSUME IsCounted(s) <=> IsCounted(s)', resets' = resets, active_sessions' = active_sessions
          PROVE  MetricInv'
  BY <1>i, <1>c, <1>quiet, Zenon DEF MetricInv
<1>up. ASSUME ~IsCounted(s), IsCounted(s)', resets' = resets, active_sessions' = active_sessions + 1
       PROVE  MetricInv'
  BY <1>i, <1>c, <1>n, <1>up DEF MetricInv
<1>down. ASSUME IsCounted(s), ~IsCounted(s)', resets' = resets,
                active_sessions' = IF active_sessions > 0 THEN active_sessions - 1 ELSE 0
         PROVE  MetricInv'
  BY <1>i, <1>c, <1>n, <1>down DEF MetricInv
<1>lost. ASSUME IsCounted(s) <=> IsCounted(s)', NEW ip \in Ips, resets' = [resets EXCEPT ![ip] = @ + 1],
                active_sessions' = active_sessions + 1
         PROVE  MetricInv'
  <2>1. /\ resets \in [Ips -> Nat] /\ resets' \in [Ips -> Nat] /\ resets'[ip] = resets[ip] + 1
        /\ \A x \in Ips \ {ip} : resets'[x] = resets[x]
    BY <1>i, <1>lost DEF AdmissionTypes
  <2>2. SumOver(resets', Ips) = SumOver(resets, Ips) + 1
    BY <2>1, SumGrows
  <2>3. SumOver(resets, Ips)' = SumOver(resets', Ips)
    BY Zenon
  <2> QED
    BY <1>i, <1>c, <1>n, <1>lost, <2>2, <2>3, SMTT(30) DEF MetricInv
<1> USE DEF Enter, Goto, Forget, Construct, globals, flags, AdmissionTypes, IsCounted, SessionInv,
            Accepting, Alive, Idle, Leaving, Chains
<1>1. ASSUME NEW jp \in Ips, Accept(s, jp) PROVE MetricInv'
  BY <1>1, <1>i, <1>quiet, Zenon DEF Accept
<1>2. ASSUME NEW jp \in FrontIps, AcceptFront(s, jp) PROVE MetricInv'
  BY <1>2, <1>i, <1>quiet, Zenon DEF AcceptFront
<1>3. CASE CheckCooldown(s)
  BY <1>3, <1>i, <1>quiet, Zenon DEF CheckCooldown
<1>4. CASE AcquireConnectionSlot(s)
  BY <1>4, <1>i, <1>quiet, Zenon DEF AcquireConnectionSlot
<1>5. CASE StartSession(s)
  <2>1. ~IsCounted(s) /\ IsCounted(s)'
    BY <1>5, <1>i, Zenon DEF StartSession
  <2> QED
    BY <1>5, <1>up, <2>1, Zenon DEF StartSession
<1>6. CASE StartFails(s)
  <2>1. ~IsCounted(s) /\ ~IsCounted(s)' /\ peer[s] \in Ips
    BY <1>6, <1>i, Zenon DEF StartFails
  <2> QED
    BY <1>6, <1>lost, <2>1, ZenonT(30) DEF StartFails
<1>7. CASE Authenticated(s) \/ OutboundOpens(s)
  BY <1>7, <1>i, <1>quiet, SMTT(30) DEF Authenticated, OutboundOpens, PayloadArrives
<1>8. CASE BadPassword(s) \/ NotTrojan(s)
  BY <1>8, <1>i, <1>quiet, SMTT(30) DEF BadPassword, NotTrojan, PayloadArrives
<1>9. CASE TakeFallbackSlot(s)
  <2>1. IsCounted(s) <=> IsCounted(s)'
    BY <1>9, <1>i, SMTT(30) DEF TakeFallbackSlot
  <2> QED
    BY <1>9, <1>quiet, <2>1, Zenon DEF TakeFallbackSlot
<1>10. ASSUME NEW c \in Chains, OperationFails(s, c) PROVE MetricInv'
  BY <1>10, <1>i, <1>quiet, SMTT(30) DEF OperationFails
<1>11. ASSUME NEW c \in Chains, TestStatus(s, c) PROVE MetricInv'
  BY <1>11, <1>i, <1>quiet, Zenon DEF TestStatus
<1>12. ASSUME NEW c \in Chains, SetStatus(s, c) PROVE MetricInv'
  BY <1>12, <1>i, <1>quiet, Zenon DEF SetStatus
<1>13. ASSUME NEW c \in Chains, LeaveActiveSessions(s, c) PROVE MetricInv'
  <2>1. /\ IsCounted(s) /\ ~IsCounted(s)' /\ resets' = resets
        /\ active_sessions' = IF active_sessions > 0 THEN active_sessions - 1 ELSE 0
    BY <1>13, <1>i, SMTT(30) DEF LeaveActiveSessions
  <2> QED
    BY <1>down, <2>1, Zenon
<1>14. ASSUME NEW c \in Chains, ReleaseConnectionSlot(s, c) PROVE MetricInv'
  BY <1>14, <1>i, <1>quiet, SMTT(30) DEF ReleaseConnectionSlot
<1>15. ASSUME NEW c \in Chains, ClearConnectionFlag(s, c) PROVE MetricInv'
  BY <1>15, <1>i, <1>quiet, Zenon DEF ClearConnectionFlag
<1>16. ASSUME NEW c \in Chains, ReleaseFallbackSlot(s, c) PROVE MetricInv'
  BY <1>16, <1>i, <1>quiet, Zenon DEF ReleaseFallbackSlot
<1>17. ASSUME NEW c \in Chains, ClearFallbackFlag(s, c) PROVE MetricInv'
  BY <1>17, <1>i, <1>quiet, Zenon DEF ClearFallbackFlag
<1>18. CASE Free(s)
  BY <1>18, <1>i, <1>quiet, Zenon DEF Free
<1> QED
  BY <1>1, <1>2, <1>3, <1>4, <1>5, <1>6, <1>7, <1>8, <1>9, <1>10, <1>11, <1>12, <1>13, <1>14, <1>15,
     <1>16, <1>17, <1>18, Zenon DEF SessionNext, AcceptStep, DestroyStep

\* FallbackController's counter.
LEMMA FallbackStep ==
  ASSUME AdmissionInv, OneThreadPerSession, FallbackInv, NEW s \in Sessions, SessionNext(s)
  PROVE  FallbackInv'
<1> USE AdmissionAssumption
<1>i. AdmissionTypes /\ SessionInv(s) /\ active_fallback_sessions \in Nat
  BY Zenon DEF AdmissionInv, AllSessions, AdmissionTypes
<1>c. /\ Cardinality(OnSlot) \in Nat /\ Cardinality(OnSlot') \in Nat
      /\ FallsBack(s) => Cardinality(OnSlot) > 0
      /\ (FallsBack(s) <=> FallsBack(s)') => Cardinality(OnSlot') = Cardinality(OnSlot)
      /\ ~FallsBack(s) /\ FallsBack(s)' => Cardinality(OnSlot') = Cardinality(OnSlot) + 1
      /\ FallsBack(s) /\ ~FallsBack(s)' => Cardinality(OnSlot') = Cardinality(OnSlot) - 1
  BY <1>i, OnSlotChanges, Zenon
<1>quiet. ASSUME FallsBack(s) <=> FallsBack(s)', active_fallback_sessions' = active_fallback_sessions
          PROVE  FallbackInv'
  BY <1>c, <1>quiet, Zenon DEF FallbackInv
<1>up. ASSUME ~FallsBack(s), FallsBack(s)', FallbackAvailable,
              active_fallback_sessions' = active_fallback_sessions + 1
       PROVE  FallbackInv'
  BY <1>i, <1>c, <1>up DEF FallbackInv, FallbackAvailable
<1>down. ASSUME FallsBack(s), ~FallsBack(s)',
                active_fallback_sessions' = IF active_fallback_sessions > 0
                                            THEN active_fallback_sessions - 1 ELSE 0
         PROVE  FallbackInv'
  BY <1>i, <1>c, <1>down DEF FallbackInv
<1> USE DEF Enter, Goto, Forget, Construct, globals, flags, AdmissionTypes, FallsBack, SessionInv,
            Accepting, Alive, Idle, Leaving, Chains
<1>1. ASSUME NEW jp \in Ips, Accept(s, jp) PROVE FallbackInv'
  BY <1>1, <1>i, <1>quiet, Zenon DEF Accept
<1>2. ASSUME NEW jp \in FrontIps, AcceptFront(s, jp) PROVE FallbackInv'
  BY <1>2, <1>i, <1>quiet, Zenon DEF AcceptFront
<1>3. CASE CheckCooldown(s) \/ AcquireConnectionSlot(s)
  BY <1>3, <1>i, <1>quiet, Zenon DEF CheckCooldown, AcquireConnectionSlot
<1>4. CASE StartSession(s) \/ StartFails(s)
  BY <1>4, <1>i, <1>quiet, Zenon DEF StartSession, StartFails
<1>5. CASE Authenticated(s) \/ OutboundOpens(s)
  BY <1>5, <1>i, <1>quiet, SMTT(30) DEF Authenticated, OutboundOpens, PayloadArrives
<1>6. CASE BadPassword(s) \/ NotTrojan(s)
  BY <1>6, <1>i, <1>quiet, Zenon DEF BadPassword, NotTrojan, PayloadArrives
<1>7. CASE TakeFallbackSlot(s) /\ FallbackAvailable
  <2>1. ~FallsBack(s) /\ FallsBack(s)'
    BY <1>7, <1>i DEF TakeFallbackSlot
  <2> QED
    BY <1>7, <1>up, <2>1, Zenon DEF TakeFallbackSlot
<1>8. CASE TakeFallbackSlot(s) /\ ~FallbackAvailable
  <2>1. ~FallsBack(s) /\ ~FallsBack(s)'
    BY <1>8, <1>i, Zenon DEF TakeFallbackSlot
  <2> QED
    BY <1>8, <1>quiet, <2>1, Zenon DEF TakeFallbackSlot
<1>9. ASSUME NEW c \in Chains, OperationFails(s, c) \/ TestStatus(s, c) PROVE FallbackInv'
  BY <1>9, <1>i, <1>quiet, SMTT(30) DEF OperationFails, TestStatus
<1>10. ASSUME NEW c \in Chains, SetStatus(s, c) PROVE FallbackInv'
  BY <1>10, <1>i, <1>quiet, Zenon DEF SetStatus
<1>11. ASSUME NEW c \in Chains, LeaveActiveSessions(s, c) PROVE FallbackInv'
  BY <1>11, <1>i, <1>quiet, SMTT(30) DEF LeaveActiveSessions
<1>12. ASSUME NEW c \in Chains, ReleaseConnectionSlot(s, c) PROVE FallbackInv'
  BY <1>12, <1>i, <1>quiet, Zenon DEF ReleaseConnectionSlot
<1>13. ASSUME NEW c \in Chains, ClearConnectionFlag(s, c) PROVE FallbackInv'
  BY <1>13, <1>i, <1>quiet, Zenon DEF ClearConnectionFlag
<1>14. ASSUME NEW c \in Chains, ReleaseFallbackSlot(s, c) PROVE FallbackInv'
  <2>1. CASE fallback_slot_acquired[s]
    <3>1. /\ FallsBack(s) /\ ~FallsBack(s)'
          /\ active_fallback_sessions' = IF active_fallback_sessions > 0
                                          THEN active_fallback_sessions - 1 ELSE 0
      BY <1>14, <1>i, <2>1, SMTT(30) DEF ReleaseFallbackSlot
    <3> QED
      BY <1>down, <3>1, Zenon
  <2>2. CASE ~fallback_slot_acquired[s]
    <3>1. ~FallsBack(s) /\ ~FallsBack(s)' /\ active_fallback_sessions' = active_fallback_sessions
      BY <1>14, <1>i, <2>2, Zenon DEF ReleaseFallbackSlot
    <3> QED
      BY <1>quiet, <3>1, Zenon
  <2> QED
    BY <2>1, <2>2, Zenon
<1>15. ASSUME NEW c \in Chains, ClearFallbackFlag(s, c) PROVE FallbackInv'
  BY <1>15, <1>i, <1>quiet, Zenon DEF ClearFallbackFlag
<1>16. CASE Free(s)
  BY <1>16, <1>i, <1>quiet, Zenon DEF Free
<1> QED
  BY <1>1, <1>2, <1>3, <1>4, <1>5, <1>6, <1>7, <1>8, <1>9, <1>10, <1>11, <1>12, <1>13, <1>14, <1>15,
     <1>16, Zenon DEF SessionNext, AcceptStep, DestroyStep

CountInv == SlotInv /\ MetricInv /\ FallbackInv

\* The counters and what they count agree in every reachable state.
LEMMA CountsHold == ASSUME OneThreadPerSession PROVE Spec => []CountInv
<1>1. Init => CountInv
  <2> SUFFICES ASSUME Init PROVE CountInv
    BY Zenon
  <2>1. (\A ip \in Ips : HoldersOf(ip) = {}) /\ Counted = {} /\ OnSlot = {}
    BY Zenon DEF Init, HoldersOf, Holds, Counted, IsCounted, OnSlot, FallsBack
  <2>2. Cardinality({}) = 0
    BY FS_EmptySet, Zenon
  <2>3. SlotInv
    <3>1. \A ip \in Ips : per_ip[ip].active_connections = 0 /\ resets[ip] = 0
      BY Zenon DEF Init, NoEntry
    <3>2. LimitsConnections => 0 <= PerIpMax
      BY AbuseConfigAssumption DEF LimitsConnections
    <3> QED
      BY <2>1, <2>2, <3>1, <3>2 DEF SlotInv, SlotCounts
  <2>4. FallbackInv
    BY <2>1, <2>2, AdmissionAssumption DEF Init, FallbackInv
  <2>5. SumOver(resets, Ips) = 0
    <3>1. IsFiniteSet(Ips) /\ 0 \in Nat /\ \A x \in Ips : resets[x] \in 0..0
      BY AdmissionAssumption DEF Init
    <3>2. ASSUME NEW m \in Nat, \A x \in Ips : resets[x] \in 0..m
          PROVE  SumOver(resets, Ips) \in Nat /\ SumOver(resets, Ips) <= Cardinality(Ips) * m
      BY <3>1, <3>2, SumBounded, Zenon
    <3>3. SumOver(resets, Ips) \in Nat /\ SumOver(resets, Ips) <= Cardinality(Ips) * 0
      BY <3>1, <3>2, Zenon
    <3>4. Cardinality(Ips) \in Nat
      BY <3>1, FS_CardinalityType, Zenon
    <3>5. Cardinality(Ips) * 0 = 0
      BY <3>4
    <3> QED
      BY <3>3, <3>5
  <2>6. MetricInv
    BY <2>1, <2>2, <2>5, SMTT(30) DEF Init, MetricInv
  <2> QED
    BY <2>3, <2>4, <2>6, Zenon DEF CountInv
<1>2. AdmissionInv /\ CountInv /\ [Next]_vars => CountInv'
  <2> SUFFICES ASSUME AdmissionInv, CountInv, [Next]_vars PROVE CountInv'
    BY Zenon
  <2>1. ASSUME NEW s \in Sessions, SessionNext(s) PROVE CountInv'
    BY <2>1, SlotStep, MetricStep, FallbackStep, Zenon DEF CountInv, SlotInv
  <2>2. CASE UNCHANGED <<per_ip, resets, active_sessions, active_fallback_sessions, phase, peer,
                         front, flags, pc>>
    <3>1. /\ Counted' = Counted /\ OnSlot' = OnSlot
          /\ \A ip \in Ips : HoldersOf(ip)' = HoldersOf(ip)
      BY <2>2, Zenon DEF flags, Counted, IsCounted, OnSlot, FallsBack, HoldersOf, Holds
    <3>2. SlotInv'
      BY <2>2, <3>1, Zenon DEF CountInv, SlotInv, SlotCounts
    <3> QED
      BY <2>2, <3>1, <3>2, Zenon DEF CountInv, MetricInv, FallbackInv
  <2> QED
    BY <2>1, <2>2, Zenon DEF Next, SessionNext, Tick, vars, globals
<1> QED
  BY <1>1, <1>2, AdmissionHolds, PTL DEF Spec

\* per_ip_max_connections: no address that makes no trusted-front connections ever has more
\* sessions in the session flow, whichever threads accept and destroy() them.
THEOREM LimitCorrect == ASSUME OneThreadPerSession PROVE Spec => []DirectLimit
<1>1. AdmissionInv /\ CountInv => DirectLimit
  <2> SUFFICES ASSUME AdmissionInv, CountInv, NEW ip \in Ips \ FrontIps, LimitsConnections
               PROVE  Cardinality(AliveFrom(ip)) <= PerIpMax
    BY Zenon DEF DirectLimit, WithinLimit
  <2>1. AliveFrom(ip) \in SUBSET HoldersOf(ip) /\ IsFiniteSet(HoldersOf(ip))
    BY AdmissionAssumption, FS_Subset, Zenon
    DEF AdmissionInv, AllSessions, SessionInv, AliveFrom, HoldersOf, Holds, Leaving
  <2>2. /\ Cardinality(AliveFrom(ip)) \in Nat /\ Cardinality(HoldersOf(ip)) \in Nat
        /\ Cardinality(AliveFrom(ip)) <= Cardinality(HoldersOf(ip))
    BY <2>1, FS_Subset, FS_CardinalityType, Zenon
  <2>3. /\ per_ip[ip].active_connections = Cardinality(HoldersOf(ip)) + resets[ip]
        /\ per_ip[ip].active_connections <= PerIpMax /\ resets[ip] \in Nat
    BY Zenon DEF AdmissionInv, AdmissionTypes, CountInv, SlotInv, SlotCounts
  <2> QED
    BY <2>2, <2>3, AbuseConfigAssumption
<1> QED
  BY <1>1, AdmissionHolds, CountsHold, PTL

\* Between handlers the three counters are the sessions they stand for, with those that
\* start() lost, and fallback_max_active holds at every moment.
THEOREM CountersCorrect == ASSUME OneThreadPerSession PROVE Spec => []CountersExact
<1>1. AdmissionInv /\ CountInv => CountersExact
  <2> SUFFICES ASSUME AdmissionInv, CountInv PROVE CountersExact
    BY Zenon
  <2>i. \A s \in Sessions : SessionInv(s)
    BY Zenon DEF AdmissionInv, AllSessions
  <2>t. /\ phase \in [Sessions -> {"free", "destroyed"} \cup Accepting \cup Alive]
        /\ pc \in [Sessions -> [Chains -> Idle \cup {"fallback", "test", "mark"} \cup Leaving]]
    BY Zenon DEF AdmissionInv, AdmissionTypes
  <2>1. ASSUME Quiescent
        PROVE  /\ LimitsConnections =>
                    \A ip \in Ips \ FrontIps :
                        per_ip[ip].active_connections = Cardinality(AliveFrom(ip)) + resets[ip]
               /\ active_sessions = Cardinality({s \in Sessions : phase[s] \in Alive})
                                        + MapThenSumSet(LAMBDA ip : resets[ip], Ips)
               /\ active_fallback_sessions = Cardinality(OnFallback)
    <3>1. ASSUME NEW s \in Sessions, NEW c \in Chains PROVE pc[s][c] \in Idle
      <4>1. <<s, c>> \notin RunningChains
        BY <2>1, Zenon DEF Quiescent
      <4> QED
        BY <4>1, Zenon DEF RunningChains
    <3>2. \A s \in Sessions : phase[s] \notin Accepting
      BY <2>1, Zenon DEF Quiescent, RunningAccepts
    <3>3. \A s \in Sessions : /\ connection_slot_acquired[s] <=> phase[s] \in Alive
                              /\ fallback_slot_acquired[s] => phase[s] \in Alive
      BY <2>i, <2>t, <3>1, <3>2, Zenon DEF SessionInv, Idle, Leaving
    <3>4. \A ip \in Ips : HoldersOf(ip) = AliveFrom(ip)
      BY <3>1, <3>2, <3>3, Zenon DEF HoldersOf, Holds, AliveFrom, Idle, Accepting
    <3>5. Counted = {s \in Sessions : phase[s] \in Alive}
      BY <3>1, <3>3, Zenon DEF Counted, IsCounted, Idle
    <3>6. OnSlot = OnFallback
      BY <3>1, <3>3, Zenon DEF OnSlot, FallsBack, OnFallback, Idle
    <3>7. SumOver(resets, Ips) = MapThenSumSet(LAMBDA ip : resets[ip], Ips)
      BY Zenon DEF SumOver
    <3>8. LimitsConnections =>
              \A ip \in Ips \ FrontIps :
                  per_ip[ip].active_connections = Cardinality(AliveFrom(ip)) + resets[ip]
      BY <3>4, Zenon DEF CountInv, SlotInv, SlotCounts
    <3>9. active_sessions = Cardinality(Counted) + SumOver(resets, Ips)
      BY Zenon DEF CountInv, MetricInv
    <3>10. active_fallback_sessions = Cardinality(OnFallback)
      BY <3>6, Zenon DEF CountInv, FallbackInv
    <3> QED
      BY <3>5, <3>7, <3>8, <3>9, <3>10, ZenonT(30)
  <2>2. ASSUME Enabled /\ FallbackMax > 0 PROVE Cardinality(OnFallback) <= FallbackMax
    <3>1. OnFallback \in SUBSET OnSlot /\ IsFiniteSet(OnSlot)
      BY <2>i, AdmissionAssumption, FS_Subset, Zenon
      DEF SessionInv, OnFallback, OnSlot, FallsBack, Leaving
    <3>2. /\ Cardinality(OnFallback) \in Nat /\ Cardinality(OnSlot) \in Nat
          /\ Cardinality(OnFallback) <= Cardinality(OnSlot)
      BY <3>1, FS_Subset, FS_CardinalityType, Zenon
    <3>3. Cardinality(OnSlot) <= FallbackMax
      BY <2>2, Zenon DEF CountInv, FallbackInv
    <3> QED
      BY <3>2, <3>3, AdmissionAssumption, SMTT(30)
  <2> QED
    BY <2>1, <2>2, Zenon DEF CountersExact
<1> QED
  BY <1>1, AdmissionHolds, CountsHold, PTL

-----------------------------------------------------------------------------
(* The quotas.  What a user's open sessions may still move counts in full: *)
(* record() turns some of it into usage, and only auth() adds to it, which *)
(* finds the recorded usage below the quota.                               *)

Reserved(u) == used[u] + Cardinality(OpenSessions(u)) * MaxBytes

UsageInv ==
    /\ used \in [Users -> Nat]
    /\ auth_password \in [UserSessions -> Users \cup {NoUser}]
    /\ bytes \in [UserSessions -> 0..MaxBytes]
    /\ \A u \in Users :
          Quota[u] > 0 => Reserved(u) <= Quota[u] - 1 + Cardinality(UserSessions) * MaxBytes

\* Multiplication keeps the order.
LEMMA TimesMonotone ==
  ASSUME NEW a \in Nat, NEW b \in Nat, NEW m \in Nat, a <= b
  PROVE  a * m \in Nat /\ b * m \in Nat /\ a * m <= b * m
<1>1. b - a \in Nat /\ (b - a) * m \in Nat /\ (b - a) * m = b * m - a * m
  OBVIOUS
<1>2. a * m \in Nat /\ b * m \in Nat
  OBVIOUS
<1> QED
  BY <1>1, <1>2

\* Some of the sessions can move no more than all of them.
LEMMA OpenFew ==
  ASSUME NEW A \in SUBSET UserSessions
  PROVE  /\ IsFiniteSet(A) /\ Cardinality(A) \in Nat /\ Cardinality(UserSessions) \in Nat
         /\ Cardinality(A) * MaxBytes \in Nat /\ Cardinality(UserSessions) * MaxBytes \in Nat
         /\ Cardinality(A) * MaxBytes <= Cardinality(UserSessions) * MaxBytes
<1>1. /\ IsFiniteSet(A) /\ Cardinality(A) \in Nat /\ Cardinality(UserSessions) \in Nat
      /\ Cardinality(A) <= Cardinality(UserSessions)
  BY UsageAssumption, FS_Subset, FS_CardinalityType, Zenon
<1> QED
  BY <1>1, UsageAssumption, TimesMonotone, Zenon

\* auth, transfer and record keep what a user can still reach below the bound.
LEMMA UsageStep == UsageInv /\ [UsageNext]_usageVars => UsageInv'
<1> SUFFICES ASSUME UsageInv, [UsageNext]_usageVars PROVE UsageInv'
  BY Zenon
<1> USE UsageAssumption
<1> DEFINE Open(u) == OpenSessions(u)
           N == Cardinality(UserSessions) * MaxBytes
           Within(u) == Quota[u] > 0 => Reserved(u) <= Quota[u] - 1 + N
<1>t. \A u \in Users : /\ used[u] \in Nat /\ Quota[u] \in Int /\ Open(u) \in SUBSET UserSessions
                       /\ Open(u)' \in SUBSET UserSessions /\ Within(u)
  BY Zenon DEF UsageInv, OpenSessions
<1>n. N \in Nat
  BY OpenFew, Zenon
<1>same. ASSUME NEW u \in Users, used'[u] = used[u], Open(u)' = Open(u) PROVE Within(u)'
  BY <1>t, <1>same, Zenon DEF Reserved
<1>1. ASSUME NEW s \in UserSessions, NEW u \in Users, Auth(s, u) PROVE UsageInv'
  <2>1. /\ auth_password[s] = NoUser /\ auth_password' = [auth_password EXCEPT ![s] = u]
        /\ bytes' = [bytes EXCEPT ![s] = 0] /\ used' = used
        /\ Quota[u] > 0 => used[u] < Quota[u]
    BY <1>1, <1>t DEF Auth, Granted
  <2>2. ASSUME NEW w \in Users PROVE Within(w)'
    <3>1. CASE w # u
      BY <1>same, <2>1, <3>1, ZenonT(30) DEF UsageInv, OpenSessions
    <3>2. CASE w = u
      <4>1. Cardinality(Open(u)') * MaxBytes \in Nat /\ Cardinality(Open(u)') * MaxBytes <= N
        <5>1. Open(u)' \in SUBSET UserSessions
          BY <1>t, Zenon
        <5> HIDE DEF Open
        <5> QED
          BY <5>1, OpenFew, Zenon
      <4> DEFINE k == Cardinality(Open(u)') * MaxBytes
      <4>2. Reserved(u)' = used[u] + k
        BY <2>1, Zenon DEF Reserved
      <4>3. used[u] \in Nat /\ Quota[u] \in Int
        BY <1>t, Zenon
      <4> HIDE DEF k, N
      <4>4. Quota[u] > 0 => used[u] + k <= Quota[u] - 1 + N
        BY <1>n, <2>1, <4>1, <4>3 DEF k
      <4>5. N' = N
        BY Zenon DEF N
      <4> QED
        BY <3>2, <4>2, <4>4, <4>5, Zenon
    <3> QED
      BY <3>1, <3>2, Zenon
  <2> QED
    BY <2>1, <2>2, SMTT(30) DEF UsageInv
<1>2. ASSUME NEW s \in UserSessions, Transfer(s) PROVE UsageInv'
  <2>1. /\ bytes[s] < MaxBytes /\ bytes' = [bytes EXCEPT ![s] = @ + 1]
        /\ used' = used /\ auth_password' = auth_password
    BY <1>2, Zenon DEF Transfer
  <2>2. ASSUME NEW w \in Users PROVE Within(w)'
    BY <1>same, <2>1, Zenon DEF OpenSessions
  <2> QED
    BY <2>1, <2>2 DEF UsageInv
<1>3. ASSUME NEW s \in UserSessions, Destroy(s) \/ RecordFails(s) PROVE UsageInv'
  <2> DEFINE u == auth_password[s]
  <2>1. /\ u \in Users /\ auth_password' = [auth_password EXCEPT ![s] = NoUser] /\ bytes' = bytes
        /\ used' = used \/ used' = [used EXCEPT ![u] = @ + bytes[s]]
        /\ bytes[s] \in 0..MaxBytes
    BY <1>3, Zenon DEF Destroy, RecordFails, Closed, UsageInv
  <2>2. ASSUME NEW w \in Users PROVE Within(w)'
    <3>1. CASE w # u
      BY <1>same, <2>1, <3>1, ZenonT(30) DEF UsageInv, OpenSessions
    <3>2. CASE w = u
      <4>1. Open(w)' = Open(w) \ {s} /\ s \in Open(w)
        BY <2>1, <3>2, Zenon DEF UsageInv, OpenSessions
      <4> DEFINE a == Cardinality(Open(w))
                 b == Cardinality(Open(w)')
      <4>2. IsFiniteSet(Open(w)) /\ a \in Nat /\ b \in Nat
        BY <1>t, OpenFew, Zenon
      <4>3. b = a - 1
        BY <4>1, <4>2, FS_RemoveElement, ZenonT(30)
      <4>4. used'[w] \in Nat /\ used'[w] <= used[w] + MaxBytes
        BY <1>t, <2>1, <3>2 DEF UsageInv
      <4>5. Reserved(w) = used[w] + a * MaxBytes
        BY Zenon DEF Reserved
      <4>6. Reserved(w)' = used'[w] + b * MaxBytes
        BY Zenon DEF Reserved
      <4> HIDE DEF a, b, Open, N
      <4>7. b * MaxBytes = a * MaxBytes - MaxBytes /\ a * MaxBytes \in Int /\ b * MaxBytes \in Int
        BY <4>2, <4>3, SMTT(30)
      <4>8. Reserved(w)' <= Reserved(w) /\ Reserved(w)' \in Int /\ Reserved(w) \in Int
        BY <1>t, <4>4, <4>5, <4>6, <4>7, SMTT(30)
      <4> QED
        BY <1>t, <1>n, <4>8
    <3> QED
      BY <3>1, <3>2, Zenon
  <2> QED
    BY <2>1, <2>2, SMTT(30) DEF UsageInv
<1>4. CASE Stop
  <2>1. auth_password' = [s \in UserSessions |-> NoUser] /\ used' = used /\ bytes' = bytes
    BY <1>4, Zenon DEF Stop
  <2>2. ASSUME NEW w \in Users PROVE Within(w)'
    <3>1. Open(w)' = {}
      BY <2>1, Zenon DEF OpenSessions
    <3>2. Cardinality(Open(w)') = 0
      BY <3>1, FS_EmptySet, Zenon
    <3>3. Cardinality(Open(w)) * MaxBytes \in Nat
      BY <1>t, OpenFew, Zenon
    <3>4. Cardinality(Open(w)') * MaxBytes = 0
      BY <3>2, SMTT(30)
    <3> HIDE DEF N
    <3> QED
      BY <1>t, <1>n, <2>1, <3>3, <3>4 DEF Reserved
  <2> QED
    BY <2>1, <2>2, Zenon DEF UsageInv
<1>5. CASE UNCHANGED usageVars
  <2>1. ASSUME NEW w \in Users PROVE Within(w)'
    BY <1>5, <1>same, Zenon DEF usageVars, OpenSessions
  <2> QED
    BY <1>5, <2>1, Zenon DEF usageVars, UsageInv
<1> QED
  BY <1>1, <1>2, <1>3, <1>4, <1>5, Zenon DEF UsageNext

\* Authenticator::auth and record(): whatever sessions come and go, a user goes over the quota
\* by no more than all the sessions that exist at one time can move.
THEOREM OvershootCorrect == UsageSpec => []OvershootBounded
<1>1. UsageInit => UsageInv
  <2> SUFFICES ASSUME UsageInit PROVE UsageInv
    BY Zenon
  <2>1. /\ used = [u \in Users |-> 0] /\ auth_password = [s \in UserSessions |-> NoUser]
        /\ bytes = [s \in UserSessions |-> 0]
    BY Zenon DEF UsageInit
  <2>2. ASSUME NEW u \in Users, Quota[u] > 0
        PROVE  Reserved(u) <= Quota[u] - 1 + Cardinality(UserSessions) * MaxBytes
    <3>1. OpenSessions(u) = {}
      BY <2>1, UsageAssumption, Zenon DEF OpenSessions
    <3>2. Cardinality(OpenSessions(u)) = 0
      BY <3>1, FS_EmptySet, Zenon
    <3>3. Reserved(u) = 0
      BY <2>1, <3>2, UsageAssumption DEF Reserved
    <3>4. Cardinality(UserSessions) * MaxBytes \in Nat /\ Quota[u] \in Int
      BY OpenFew, UsageAssumption, Zenon
    <3> QED
      BY <2>2, <3>3, <3>4
  <2> QED
    BY <2>1, <2>2, UsageAssumption DEF UsageInv
<1>2. UsageInv => OvershootBounded
  <2> SUFFICES ASSUME UsageInv, NEW u \in Users, Quota[u] > 0
               PROVE  used[u] + OpenBytes(u)
                          <= Quota[u] - 1 + Cardinality(UserSessions) * MaxBytes
    BY Zenon DEF OvershootBounded
  <2> DEFINE A == OpenSessions(u)
             c == Cardinality(A) * MaxBytes
             N == Cardinality(UserSessions) * MaxBytes
  <2>1. A \in SUBSET UserSessions
    BY Zenon DEF OpenSessions
  <2>2. IsFiniteSet(A) /\ c \in Nat /\ N \in Nat
    BY <2>1, OpenFew, Zenon
  <2>3. OpenBytes(u) = SumOver(bytes, A)
    BY Zenon DEF OpenBytes, SumOver
  <2>4. \A x \in A : bytes[x] \in 0..MaxBytes
    BY <2>1, Zenon DEF UsageInv
  <2> HIDE DEF A
  <2>5. SumOver(bytes, A) \in Nat /\ SumOver(bytes, A) <= c
    BY <2>2, <2>4, UsageAssumption, SumBounded, Zenon
  <2>6. used[u] \in Nat /\ Quota[u] \in Int /\ used[u] + c <= Quota[u] - 1 + N
    BY UsageAssumption, Zenon DEF UsageInv, Reserved, A
  <2> HIDE DEF c, N
  <2>7. used[u] + SumOver(bytes, A) <= Quota[u] - 1 + N
    BY <2>2, <2>5, <2>6
  <2> QED
    BY <2>3, <2>7, Zenon DEF N
<1> QED
  BY <1>1, <1>2, UsageStep, PTL DEF UsageSpec
=============================================================================
