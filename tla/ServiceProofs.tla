----------------------------- MODULE ServiceProofs ----------------------------
(* What a Service keeps beside its sessions.  The abuse controller: for every    *)
(* configuration, any set of source addresses and any finite set of connections. *)
(* The budget of fallback connections: for every budget and any finite set of    *)
(* sessions.  The accept chains: for any number of acceptors, connections,       *)
(* signals and certificates, with one thread and with several.                   *)
EXTENDS AbuseController, MCFallbackController, ServiceLifecycle, FiniteSetTheorems,
        TLAPS

-------------------------------------------------------------------------------
(* Sequences.  The provers know these facts as soon as they are stated. *)

\* The empty sequence.
LEMMA EmptySeq ==
    ASSUME NEW S
    PROVE  /\ <<>> \in Seq(S) /\ Len(<<>>) = 0
           /\ \A f \in Seq(S) : f # <<>> => Len(f) \in Nat \ {0}
  OBVIOUS

\* One sequence behind another.
LEMMA ConcatProperties ==
    ASSUME NEW S, NEW f \in Seq(S), NEW h \in Seq(S)
    PROVE  /\ f \o h \in Seq(S) /\ Len(f \o h) = Len(f) + Len(h)
           /\ \A i \in 1..Len(f) + Len(h) :
                 (f \o h)[i] = IF i <= Len(f) THEN f[i] ELSE h[i - Len(f)]
  OBVIOUS

\* What SubSeq cuts out.
LEMMA SubSeqProperties ==
    ASSUME NEW S, NEW f, NEW m \in Int, NEW n \in Int, \A i \in m..n : f[i] \in S
    PROVE  /\ SubSeq(f, m, n) \in Seq(S)
           /\ Len(SubSeq(f, m, n)) = IF m <= n THEN n - m + 1 ELSE 0
           /\ \A i \in 1..n - m + 1 : SubSeq(f, m, n)[i] = f[m + i - 1]
  OBVIOUS

-------------------------------------------------------------------------------
(***************************************************************************)
(* The critical sections keep an entry well formed.                        *)
(***************************************************************************)

\* Every critical section of the controller's mutex maps entries to entries.
LEMMA StatsTyped ==
    ASSUME NEW st \in IpAbuseStats, NEW t \in Nat \ {0}
    PROVE  /\ NoEntry \in IpAbuseStats
           /\ AfterAcquire(st) \in IpAbuseStats
           /\ AfterRelease(st, t) \in IpAbuseStats
           /\ AfterAuthFailure(st, t) \in IpAbuseStats
<1> USE AbuseConfigAssumption DEF AbuseConfigAssumption
<1>1. NoEntry \in IpAbuseStats
  BY DEF NoEntry, IpAbuseStats
<1>2. AfterAcquire(st) \in IpAbuseStats
  <2>1. Inserted(st) \in IpAbuseStats
    BY Zenon DEF Inserted, IpAbuseStats
  <2>2. [Inserted(st) EXCEPT !.active_connections = @ + 1] \in IpAbuseStats
    BY <2>1 DEF IpAbuseStats
  <2> QED
    BY <2>1, <2>2, Zenon DEF AfterAcquire
<1>3. Decremented(st) \in IpAbuseStats
  BY DEF Decremented, IpAbuseStats
<1>4. AfterRelease(st, t) \in IpAbuseStats
  BY <1>1, <1>3, Zenon DEF AfterRelease
<1>5. AfterAuthFailure(st, t) \in IpAbuseStats
  <2>1. FailCount(st, t) \in Nat
    BY DEF FailCount, IpAbuseStats
  <2> QED
    BY <2>1 DEF AfterAuthFailure, IpAbuseStats
<1> QED
  BY <1>1, <1>2, <1>4, <1>5, Zenon

\* TypeOK: every variable keeps its type, whatever the interleaving of the
\* operations of abuse_controller.cpp.
THEOREM TypeCorrect == Spec => []TypeOK
<1>1. Init => TypeOK
  BY StatsTyped
  DEF Init, TypeOK, NoEntry, IpAbuseStats
<1>2. TypeOK /\ [Next]_vars => TypeOK'
  <2> SUFFICES ASSUME TypeOK, [Next]_vars PROVE TypeOK'
    BY Zenon
  <2> USE DEF TypeOK
  <2>1. ASSUME NEW c \in Conns, NEW ip \in Ips, TryAcquire(c, ip) PROVE TypeOK'
    <3>1. per_ip' \in [Ips -> IpAbuseStats]
      BY <2>1, StatsTyped, Zenon DEF TryAcquire
    <3>2. holder' \in [Conns -> Ips \cup {NoIp}]
      BY <2>1, Zenon DEF TryAcquire
    <3> QED
      BY <2>1, <3>1, <3>2, Zenon DEF TryAcquire
  <2>2. ASSUME NEW c \in Conns, Release(c) PROVE TypeOK'
    <3>1. holder[c] \in Ips
      BY <2>2, Zenon DEF Release
    <3>2. per_ip' \in [Ips -> IpAbuseStats]
      BY <2>2, <3>1, StatsTyped, Zenon DEF Release
    <3> QED
      BY <2>2, <3>2, Zenon DEF Release
  <2>3. ASSUME NEW ip \in Ips, RecordAuthFailure(ip) PROVE TypeOK'
    <3>1. per_ip' \in [Ips -> IpAbuseStats]
      BY <2>3, StatsTyped, Zenon DEF RecordAuthFailure
    <3>2. Append(failures[ip], now) \in Seq(Nat) /\ <<>> \in Seq(Nat)
      OBVIOUS
    <3>3. failures' \in [Ips -> Seq(Nat)] /\ triggered' \in [Ips -> Nat]
      <4>1. CASE ReachesThreshold(per_ip[ip], now)
        BY <2>3, <3>2, <4>1, Zenon DEF RecordAuthFailure
      <4>2. CASE ~ReachesThreshold(per_ip[ip], now)
        BY <2>3, <3>2, <4>2, Zenon DEF RecordAuthFailure
      <4> QED
        BY <4>1, <4>2, Zenon
    <3> QED
      BY <2>3, <3>1, <3>3, Zenon DEF RecordAuthFailure
  <2>4. CASE Tick
    BY <2>4 DEF Tick
  <2>5. CASE UNCHANGED vars
    BY <2>5, Zenon DEF vars
  <2> QED
    BY <2>1, <2>2, <2>3, <2>4, <2>5, Zenon DEF Next
<1> QED
  BY <1>1, <1>2, PTL DEF Spec

(***************************************************************************)
(* The slots.  The counter of an entry is only an integer; that it counts  *)
(* the connections inside is inductive together with the fact that a       *)
(* positive counter sits in a tracked entry (a release finds it).          *)
(***************************************************************************)
SlotInv ==
    LimitsConnections =>
        \A ip \in Ips :
            /\ per_ip[ip].active_connections = Cardinality(HoldersOf(ip))
            /\ per_ip[ip].active_connections <= PerIpMax
            /\ per_ip[ip].active_connections > 0 => per_ip[ip].tracked

\* The connections inside, for every IP, are finitely many.
LEMMA HoldersFinite ==
    ASSUME NEW ip
    PROVE  /\ IsFiniteSet(HoldersOf(ip))
           /\ Cardinality(HoldersOf(ip)) \in Nat
<1>1. HoldersOf(ip) \in SUBSET Conns
  BY Zenon DEF HoldersOf
<1>2. IsFiniteSet(HoldersOf(ip))
  BY <1>1, FS_Subset, AbuseClientsAssumption, Zenon DEF AbuseClientsAssumption
<1> QED
  BY <1>2, FS_CardinalityType, Zenon

\* A granted slot adds one connection to one IP, a returned one takes it away.
LEMMA GrantCounts ==
    ASSUME TypeOK, NEW c \in Conns, NEW ip \in Ips, holder[c] = NoIp,
           holder' = [holder EXCEPT ![c] = ip]
    PROVE  /\ Cardinality(HoldersOf(ip)') = Cardinality(HoldersOf(ip)) + 1
           /\ \A other \in Ips \ {ip} : HoldersOf(other)' = HoldersOf(other)
<1>0. NoIp \notin Ips
  BY AbuseClientsAssumption, Zenon DEF AbuseClientsAssumption
<1>1. HoldersOf(ip)' = HoldersOf(ip) \cup {c}
  BY Zenon DEF HoldersOf, TypeOK
<1>2. c \notin HoldersOf(ip)
  BY <1>0, Zenon DEF HoldersOf
<1>3. Cardinality(HoldersOf(ip) \cup {c}) = Cardinality(HoldersOf(ip)) + 1
  BY <1>2, HoldersFinite, FS_AddElement, Zenon
<1>4. \A other \in Ips \ {ip} : HoldersOf(other)' = HoldersOf(other)
  BY <1>0, Zenon DEF HoldersOf, TypeOK
<1> QED
  BY <1>1, <1>3, <1>4, Zenon

\* A connection that returns its slot takes one holder from its address and none elsewhere.
LEMMA ReturnCounts ==
    ASSUME TypeOK, NEW c \in Conns, NEW ip \in Ips, holder[c] = ip,
           holder' = [holder EXCEPT ![c] = NoIp]
    PROVE  /\ Cardinality(HoldersOf(ip)') = Cardinality(HoldersOf(ip)) - 1
           /\ \A other \in Ips \ {ip} : HoldersOf(other)' = HoldersOf(other)
<1>0. NoIp \notin Ips
  BY AbuseClientsAssumption, Zenon DEF AbuseClientsAssumption
<1>1. HoldersOf(ip)' = HoldersOf(ip) \ {c}
  BY <1>0, Zenon DEF HoldersOf, TypeOK
<1>2. c \in HoldersOf(ip)
  BY Zenon DEF HoldersOf
<1>3. Cardinality(HoldersOf(ip) \ {c}) = Cardinality(HoldersOf(ip)) - 1
  BY <1>2, HoldersFinite, FS_RemoveElement, Zenon
<1>4. \A other \in Ips \ {ip} : HoldersOf(other)' = HoldersOf(other)
  BY <1>0, Zenon DEF HoldersOf, TypeOK
<1> QED
  BY <1>1, <1>3, <1>4, Zenon

\* SlotInv is an invariant: each operation that changes a counter changes the
\* set of connections inside by the same amount.
LEMMA SlotInvariant == Spec => []SlotInv
<1>1. Init => SlotInv
  <2> SUFFICES ASSUME Init, LimitsConnections, NEW ip \in Ips
               PROVE  /\ per_ip[ip].active_connections = Cardinality(HoldersOf(ip))
                      /\ per_ip[ip].active_connections <= PerIpMax
                      /\ per_ip[ip].active_connections > 0 => per_ip[ip].tracked
    BY Zenon DEF SlotInv
  <2>1. HoldersOf(ip) = {}
    BY AbuseClientsAssumption, Zenon DEF AbuseClientsAssumption, Init, HoldersOf
  <2>2. Cardinality(HoldersOf(ip)) = 0
    BY <2>1, FS_EmptySet, Zenon
  <2>3. per_ip[ip].active_connections = 0
    BY Zenon DEF Init, NoEntry
  <2> QED
    BY <2>2, <2>3, AbuseConfigAssumption DEF AbuseConfigAssumption, LimitsConnections
<1>2. TypeOK /\ SlotInv /\ [Next]_vars => SlotInv'
  <2> SUFFICES ASSUME TypeOK, SlotInv, [Next]_vars, LimitsConnections
               PROVE  SlotInv'
    BY Zenon DEF SlotInv
  <2>0. PerIpMax \in Nat \ {0}
    BY AbuseConfigAssumption DEF AbuseConfigAssumption, LimitsConnections
  <2>1. ASSUME NEW c \in Conns, NEW ip \in Ips, TryAcquire(c, ip) PROVE SlotInv'
    <3>1. CASE SlotAvailable(per_ip[ip])
      <4>1. holder' = [holder EXCEPT ![c] = ip] /\ holder[c] = NoIp
        BY <2>1, <3>1, Zenon DEF TryAcquire
      <4>2. /\ per_ip'[ip].active_connections = per_ip[ip].active_connections + 1
            /\ per_ip'[ip].tracked
            /\ per_ip[ip].active_connections < PerIpMax
            /\ \A other \in Ips \ {ip} : per_ip'[other] = per_ip[other]
        BY <2>1, <3>1, Zenon DEF TryAcquire, AfterAcquire, Inserted, SlotAvailable, TypeOK, IpAbuseStats
      <4>3. /\ Cardinality(HoldersOf(ip)') = Cardinality(HoldersOf(ip)) + 1
            /\ \A other \in Ips \ {ip} : HoldersOf(other)' = HoldersOf(other)
        BY <4>1, GrantCounts, Zenon
      <4>4. per_ip[ip].active_connections \in Nat
        BY Zenon DEF TypeOK, IpAbuseStats
      <4> QED
        BY <2>0, <4>2, <4>3, <4>4 DEF SlotInv
    <3>2. CASE ~SlotAvailable(per_ip[ip])
      <4>1. holder' = holder
        BY <2>1, <3>2, Zenon DEF TryAcquire, TypeOK
      <4>2. /\ per_ip'[ip].active_connections = per_ip[ip].active_connections
            /\ per_ip'[ip].tracked
            /\ \A other \in Ips \ {ip} : per_ip'[other] = per_ip[other]
        BY <2>1, <3>2, Zenon DEF TryAcquire, AfterAcquire, Inserted, TypeOK, IpAbuseStats
      <4> QED
        BY <4>1, <4>2, Zenon DEF SlotInv, HoldersOf
    <3> QED
      BY <3>1, <3>2, Zenon
  <2>2. ASSUME NEW c \in Conns, Release(c) PROVE SlotInv'
    <3>0. PICK ip \in Ips : holder[c] = ip
      BY <2>2, Zenon DEF Release, TypeOK
    <3>1. holder[c] = ip /\ holder' = [holder EXCEPT ![c] = NoIp]
      BY <2>2, <3>0, Zenon DEF Release
    <3>2. /\ Cardinality(HoldersOf(ip)') = Cardinality(HoldersOf(ip)) - 1
          /\ \A other \in Ips \ {ip} : HoldersOf(other)' = HoldersOf(other)
      BY <3>1, ReturnCounts, Zenon
    <3>3. Cardinality(HoldersOf(ip)) \in Nat /\ Cardinality(HoldersOf(ip)) # 0
      <4>1. c \in HoldersOf(ip)
        BY <3>0, Zenon DEF HoldersOf
      <4>2. HoldersOf(ip) # {}
        BY <4>1, Zenon
      <4> QED
        BY <4>2, HoldersFinite, FS_EmptySet, Zenon
    <3>4. /\ per_ip[ip] \in IpAbuseStats
          /\ per_ip[ip].active_connections = Cardinality(HoldersOf(ip))
          /\ per_ip[ip].active_connections > 0
          /\ per_ip[ip].active_connections <= PerIpMax
          /\ per_ip[ip].tracked
      BY <3>1, <3>3 DEF SlotInv, TypeOK
    <3>5. /\ per_ip'[ip].active_connections = per_ip[ip].active_connections - 1
          /\ per_ip'[ip].active_connections > 0 => per_ip'[ip].tracked
      <4>1. per_ip'[ip] = AfterRelease(per_ip[ip], now)
        BY <2>2, <3>1, Zenon DEF Release, TypeOK
      <4>2. /\ Decremented(per_ip[ip]).active_connections
                   = per_ip[ip].active_connections - 1
            /\ Decremented(per_ip[ip]).tracked
        BY <3>4, Zenon DEF Decremented, IpAbuseStats
      <4>3. CASE Disposable(Decremented(per_ip[ip]), now)
        BY <3>4, <4>1, <4>2, <4>3 DEF AfterRelease, Disposable, NoEntry
      <4>4. CASE ~Disposable(Decremented(per_ip[ip]), now)
        BY <3>4, <4>1, <4>2, <4>4, Zenon DEF AfterRelease
      <4> QED
        BY <4>3, <4>4, Zenon
    <3>6. \A other \in Ips \ {ip} : per_ip'[other] = per_ip[other]
      BY <2>2, <3>1, Zenon DEF Release, TypeOK
    <3> QED
      BY <2>0, <3>1, <3>2, <3>3, <3>4, <3>5, <3>6 DEF SlotInv
  <2>3. ASSUME NEW ip \in Ips, RecordAuthFailure(ip) PROVE SlotInv'
    <3>1. /\ per_ip'[ip].active_connections = per_ip[ip].active_connections
          /\ per_ip'[ip].tracked
          /\ \A other \in Ips \ {ip} : per_ip'[other] = per_ip[other]
      BY <2>3, Zenon DEF RecordAuthFailure, AfterAuthFailure, TypeOK, IpAbuseStats
    <3>2. holder' = holder
      BY <2>3, Zenon DEF RecordAuthFailure
    <3> QED
      BY <3>1, <3>2, Zenon DEF SlotInv, HoldersOf
  <2>4. CASE Tick
    BY <2>4, Zenon DEF Tick, SlotInv, HoldersOf
  <2>5. CASE UNCHANGED vars
    BY <2>5, Zenon DEF vars, SlotInv, HoldersOf
  <2> QED
    BY <2>1, <2>2, <2>3, <2>4, <2>5, Zenon DEF Next
<1> QED
  BY <1>1, <1>2, TypeCorrect, PTL DEF Spec

\* SlotsAccounted and ConnectionLimit, for every limit and every number of
\* connections: per_ip_max_connections is enforced exactly.
THEOREM SlotsCorrect == Spec => [](SlotsAccounted /\ ConnectionLimit)
<1>1. SlotInv => SlotsAccounted /\ ConnectionLimit
  BY Zenon DEF SlotInv, SlotsAccounted, ConnectionLimit
<1> QED
  BY <1>1, SlotInvariant, PTL

(***************************************************************************)
(* The refinement: a granted slot is an Acquire of the pool, a returned    *)
(* one a Release, every other step leaves the pool alone.                  *)
(***************************************************************************)
held == [ip \in Ips |-> HoldersOf(ip)]

\* A connection is granted a slot only while its pool has one.
LEMMA GrantHasRoom ==
    ASSUME TypeOK, SlotInv, NEW c \in Conns, NEW ip \in Ips, holder[c] = NoIp,
           SlotAvailable(per_ip[ip])
    PROVE  Cardinality(HoldersOf(ip)) < PoolCapacity
<1>1. CASE LimitsConnections
  BY <1>1, Zenon DEF SlotAvailable, SlotInv, PoolCapacity
<1>2. CASE ~LimitsConnections
  <2>1. HoldersOf(ip) \in SUBSET Conns /\ c \notin HoldersOf(ip)
    BY AbuseClientsAssumption, Zenon DEF AbuseClientsAssumption, HoldersOf
  <2>2. /\ Cardinality(HoldersOf(ip)) <= Cardinality(Conns)
        /\ Cardinality(HoldersOf(ip)) # Cardinality(Conns)
    BY <2>1, FS_Subset, AbuseClientsAssumption, Zenon DEF AbuseClientsAssumption
  <2>3. Cardinality(HoldersOf(ip)) \in Nat /\ Cardinality(Conns) \in Nat
    BY HoldersFinite, FS_CardinalityType, AbuseClientsAssumption, Zenon
    DEF AbuseClientsAssumption
  <2> QED
    BY <1>2, <2>2, <2>3 DEF PoolCapacity
<1> QED
  BY <1>1, <1>2, Zenon

\* AbuseController implements SlotPool with one pool per source IP: every
\* behaviour of the mutex-protected map is a behaviour of the abstract pools.
THEOREM PoolRefinement == Spec => ImplementsSlotPool
<1>1. Init => Pool!Init
  BY AbuseClientsAssumption DEF AbuseClientsAssumption, Init, Pool!Init, HoldersOf
<1>2. TypeOK /\ SlotInv /\ [Next]_vars => [Pool!Next]_held
  <2> SUFFICES ASSUME TypeOK, SlotInv, [Next]_vars PROVE [Pool!Next]_held
    BY Zenon
  <2>0. NoIp \notin Ips
    BY AbuseClientsAssumption, Zenon DEF AbuseClientsAssumption
  <2>1. ASSUME NEW c \in Conns, NEW ip \in Ips, TryAcquire(c, ip)
        PROVE  [Pool!Next]_held
    <3>1. CASE SlotAvailable(per_ip[ip])
      <4>1. holder[c] = NoIp /\ holder' = [holder EXCEPT ![c] = ip]
        BY <2>1, <3>1, Zenon DEF TryAcquire
      <4>2. held' = [held EXCEPT ![ip] = @ \cup {c}]
        <5>1. holder \in [Conns -> Ips \cup {NoIp}]
          BY Zenon DEF TypeOK
        <5>2. ASSUME NEW i \in Ips
              PROVE  HoldersOf(i)' = IF i = ip THEN HoldersOf(i) \cup {c} ELSE HoldersOf(i)
          BY <2>0, <4>1, <5>1, Zenon DEF HoldersOf
        <5> QED
          BY <5>2, Zenon DEF held
      <4>3. c \notin held[ip] /\ Cardinality(held[ip]) < PoolCapacity
        BY <2>0, <3>1, <4>1, GrantHasRoom, Zenon DEF held, HoldersOf
      <4>4. Pool!Acquire(ip, c)
        BY <4>2, <4>3, Zenon DEF Pool!Acquire, held, Pool!Cardinality, Cardinality
      <4> QED
        BY <4>4, Zenon DEF Pool!Next
    <3>2. CASE ~SlotAvailable(per_ip[ip])
      BY <2>1, <3>2, Zenon DEF TryAcquire, TypeOK, held, HoldersOf
    <3> QED
      BY <3>1, <3>2, Zenon
  <2>2. ASSUME NEW c \in Conns, Release(c) PROVE [Pool!Next]_held
    <3>1. PICK ip \in Ips : holder[c] = ip
      BY <2>2, Zenon DEF Release, TypeOK
    <3>2. held' = [held EXCEPT ![ip] = @ \ {c}]
      <4>1. holder \in [Conns -> Ips \cup {NoIp}] /\ holder' = [holder EXCEPT ![c] = NoIp]
        BY <2>2, Zenon DEF TypeOK, Release
      <4>2. ASSUME NEW i \in Ips
            PROVE  HoldersOf(i)' = IF i = ip THEN HoldersOf(i) \ {c} ELSE HoldersOf(i)
        BY <2>0, <3>1, <4>1, Zenon DEF HoldersOf
      <4> QED
        BY <4>2, Zenon DEF held
    <3>3. c \in held[ip]
      BY <3>1, Zenon DEF held, HoldersOf
    <3> QED
      BY <3>2, <3>3, Zenon DEF Pool!Next, Pool!Release, held
  <2>3. CASE UNCHANGED holder
    BY <2>3, Zenon DEF held, HoldersOf
  <2> QED
    BY <2>1, <2>2, <2>3, Zenon DEF Next, RecordAuthFailure, Tick, vars
<1> QED
  BY <1>1, <1>2, TypeCorrect, SlotInvariant, PTL
  DEF Spec, ImplementsSlotPool, Pool!Spec, held

(***************************************************************************)
(* The cooldown.  While it lasts the entry is there and carries its end:   *)
(* a release erases only entries whose cooldown is over.                   *)
(***************************************************************************)
CooldownInv ==
    ChecksCooldown =>
        \A ip \in Ips :
            triggered[ip] # 0 /\ now < triggered[ip] + CooldownSeconds
                => /\ per_ip[ip].tracked
                   /\ per_ip[ip].cooldown_until = triggered[ip] + CooldownSeconds

\* CooldownKept: an IP that reached the threshold is in cooldown for the whole
\* of cooldown_seconds, whatever is acquired, released or recorded meanwhile.
THEOREM CooldownCorrect == Spec => []CooldownKept
<1>1. Init => CooldownInv
  BY Zenon DEF Init, CooldownInv
<1>2. TypeOK /\ CooldownInv /\ [Next]_vars => CooldownInv'
  <2> SUFFICES ASSUME TypeOK, CooldownInv, [Next]_vars, ChecksCooldown,
                      NEW ip \in Ips,
                      triggered'[ip] # 0,
                      now' < triggered'[ip] + CooldownSeconds
               PROVE  /\ per_ip'[ip].tracked
                      /\ per_ip'[ip].cooldown_until = triggered'[ip] + CooldownSeconds
    BY Zenon DEF CooldownInv
  <2>0. /\ CooldownSeconds \in Nat \ {0}
        /\ per_ip[ip] \in IpAbuseStats /\ triggered[ip] \in Nat /\ now \in Nat
    BY AbuseConfigAssumption DEF AbuseConfigAssumption, ChecksCooldown, TypeOK
  <2>a. triggered[ip] # 0 /\ now < triggered[ip] + CooldownSeconds
            => /\ per_ip[ip].tracked
               /\ per_ip[ip].cooldown_until = triggered[ip] + CooldownSeconds
    BY Zenon DEF CooldownInv
  <2>1. ASSUME NEW c \in Conns, NEW i \in Ips, TryAcquire(c, i)
        PROVE  /\ per_ip'[ip].tracked
               /\ per_ip'[ip].cooldown_until = triggered'[ip] + CooldownSeconds
    <3>1. /\ per_ip[ip].tracked => per_ip'[ip].tracked
          /\ per_ip'[ip].cooldown_until = per_ip[ip].cooldown_until
      BY <2>0, <2>1, Zenon DEF TryAcquire, AfterAcquire, Inserted, TypeOK, IpAbuseStats
    <3> QED
      BY <2>a, <2>1, <3>1, Zenon DEF TryAcquire
  <2>2. ASSUME NEW c \in Conns, Release(c)
        PROVE  /\ per_ip'[ip].tracked
               /\ per_ip'[ip].cooldown_until = triggered'[ip] + CooldownSeconds
    <3>1. /\ per_ip[ip].tracked
          /\ per_ip[ip].cooldown_until = triggered[ip] + CooldownSeconds
          /\ per_ip[ip].cooldown_until > now
      BY <2>0, <2>a, <2>2, Zenon DEF Release
    <3>2. /\ Decremented(per_ip[ip]).tracked
          /\ Decremented(per_ip[ip]).cooldown_until = per_ip[ip].cooldown_until
      BY <2>0, <3>1, Zenon DEF Decremented, IpAbuseStats
    <3>3. ~Disposable(Decremented(per_ip[ip]), now)
      BY <2>0, <3>1, <3>2 DEF Disposable
    <3>4. AfterRelease(per_ip[ip], now).tracked
          /\ AfterRelease(per_ip[ip], now).cooldown_until = per_ip[ip].cooldown_until
      BY <3>1, <3>2, <3>3, Zenon DEF AfterRelease
    <3>5. per_ip'[ip] = per_ip[ip] \/ per_ip'[ip] = AfterRelease(per_ip[ip], now)
      BY <2>2, Zenon DEF Release, TypeOK
    <3> QED
      BY <2>2, <3>1, <3>4, <3>5, Zenon DEF Release
  <2>3. ASSUME NEW i \in Ips, RecordAuthFailure(i)
        PROVE  /\ per_ip'[ip].tracked
               /\ per_ip'[ip].cooldown_until = triggered'[ip] + CooldownSeconds
    <3>1. CASE i # ip
      BY <2>a, <2>3, <3>1, Zenon DEF RecordAuthFailure, TypeOK
    <3>2. CASE i = ip /\ ReachesThreshold(per_ip[ip], now)
      BY <2>3, <3>2, Zenon DEF RecordAuthFailure, AfterAuthFailure, TypeOK
    <3>3. CASE i = ip /\ ~ReachesThreshold(per_ip[ip], now)
      BY <2>a, <2>3, <3>3, Zenon DEF RecordAuthFailure, AfterAuthFailure, TypeOK
    <3> QED
      BY <3>1, <3>2, <3>3, Zenon
  <2>4. CASE Tick
    BY <2>0, <2>a, <2>4 DEF Tick
  <2>5. CASE UNCHANGED vars
    BY <2>a, <2>5, Zenon DEF vars
  <2> QED
    BY <2>1, <2>2, <2>3, <2>4, <2>5, Zenon DEF Next
<1>3. TypeOK /\ CooldownInv => CooldownKept
  BY AbuseConfigAssumption, Zenon
  DEF AbuseConfigAssumption, CooldownInv, CooldownKept, InCooldown, TypeOK, IpAbuseStats
<1> QED
  BY <1>1, <1>2, <1>3, TypeCorrect, PTL DEF Spec

(***************************************************************************)
(* How many failures a cooldown takes.  Of the failures f counted since    *)
(* the last cooldown, the last k are those of the current window, which    *)
(* started at w; the others came before it, and those within one window    *)
(* length of its start are the previous window's, short of the threshold.  *)
(***************************************************************************)
JustBefore(k, w, f) == {i \in 1..(Len(f) - k) : f[i] >= w - AuthFailWindow}

Windows(k, w, f, t) ==
    /\ k < AuthFailMax /\ k <= Len(f) /\ (k = 0 => Len(f) = 0)
    /\ w <= t /\ (w = 0 => k = 0)
    /\ \A i \in 1..Len(f) : /\ f[i] <= t
                            /\ i <= Len(f) - k => f[i] <= w
                            /\ i > Len(f) - k => f[i] >= w
    /\ Cardinality(JustBefore(k, w, f)) < AuthFailMax

RecentOf(f, t) == {i \in 1..Len(f) : t - f[i] <= AuthFailWindow}

WindowInv ==
    CountsAuthFailures =>
        \A ip \in Ips :
            Windows(per_ip[ip].auth_fail_count, per_ip[ip].auth_fail_window_start,
                    failures[ip], now)

\* What the lemmas below need of the configuration.
LEMMA Counting ==
    ASSUME CountsAuthFailures
    PROVE  AuthFailMax \in Nat \ {0} /\ AuthFailWindow \in Nat \ {0}
  BY AbuseConfigAssumption DEF AbuseConfigAssumption, CountsAuthFailures

\* No failure counted: a fresh entry, an erased one or one just punished.
LEMMA NoFailures ==
    ASSUME CountsAuthFailures, NEW w \in Nat, NEW t \in Nat, w <= t
    PROVE  Windows(0, w, <<>>, t)
<1>1. JustBefore(0, w, <<>>) = {}
  BY DEF JustBefore
<1>2. Cardinality(JustBefore(0, w, <<>>)) = 0
  BY <1>1, FS_EmptySet, Zenon
<1> QED
  BY <1>2, Counting DEF Windows

\* The index sets are finite, and the current window's has k elements.
LEMMA IndexSets ==
    ASSUME NEW f \in Seq(Nat), NEW k \in Nat, k <= Len(f), NEW w \in Nat, NEW t \in Nat
    PROVE  /\ IsFiniteSet(JustBefore(k, w, f)) /\ Cardinality(JustBefore(k, w, f)) \in Nat
           /\ IsFiniteSet(RecentOf(f, t)) /\ Cardinality(RecentOf(f, t)) \in Nat
           /\ IsFiniteSet((Len(f) - k + 1)..Len(f)) /\ Cardinality((Len(f) - k + 1)..Len(f)) = k
<1> DEFINE n == Len(f)
           A == (n - k + 1)..n
<1>1. n \in Nat
  OBVIOUS
<1>2. IsFiniteSet(1..n)
  BY <1>1, FS_Interval
<1>3. JustBefore(k, w, f) \in SUBSET (1..n) /\ RecentOf(f, t) \in SUBSET (1..n)
  BY <1>1 DEF JustBefore, RecentOf
<1>4. k <= n
  BY Zenon
<1> HIDE DEF n
<1>5. IsFiniteSet(A) /\ Cardinality(A) = k
  <2>1. n - k + 1 \in Int /\ n \in Int
    BY <1>1
  <2>2. /\ IsFiniteSet(A)
        /\ Cardinality(A) = IF n - k + 1 > n THEN 0 ELSE n - (n - k + 1) + 1
    BY <2>1, FS_Interval, Zenon
  <2> QED
    BY <1>1, <1>4, <2>2
<1> HIDE DEF A
<1>6. /\ IsFiniteSet(JustBefore(k, w, f)) /\ IsFiniteSet(RecentOf(f, t))
  BY <1>2, <1>3, FS_Subset, Zenon
<1>7. Cardinality(JustBefore(k, w, f)) \in Nat /\ Cardinality(RecentOf(f, t)) \in Nat
  BY <1>6, FS_CardinalityType, Zenon
<1> QED
  BY <1>5, <1>6, <1>7, Zenon DEF A, n

\* Two windows cover a window length, so it holds fewer failures than twice the threshold.
LEMMA FewRecent ==
    ASSUME CountsAuthFailures, NEW f \in Seq(Nat), NEW k \in Nat, NEW w \in Nat, NEW t \in Nat,
           Windows(k, w, f, t)
    PROVE  Cardinality(RecentOf(f, t)) <= 2 * AuthFailMax - 2
<1> DEFINE n == Len(f)
           A == (n - k + 1)..n
           J == JustBefore(k, w, f)
<1>1. n \in Nat /\ k <= n /\ w <= t /\ k < AuthFailMax /\ Cardinality(J) < AuthFailMax
  BY DEF Windows
<1>2. AuthFailMax \in Nat \ {0} /\ AuthFailWindow \in Nat \ {0}
  BY Counting, Zenon
<1>3. /\ IsFiniteSet(J) /\ Cardinality(J) \in Nat /\ IsFiniteSet(A) /\ Cardinality(A) = k
      /\ Cardinality(RecentOf(f, t)) \in Nat
  BY <1>1, IndexSets, Zenon
<1>4. RecentOf(f, t) \subseteq A \cup J
  <2> SUFFICES ASSUME NEW i \in 1..n, t - f[i] <= AuthFailWindow PROVE i \in A \cup J
    BY Zenon DEF RecentOf
  <2>1. f[i] \in Nat
    OBVIOUS
  <2>2. CASE i > n - k
    BY <1>1, <2>2
  <2>3. CASE ~(i > n - k)
    <3>1. f[i] >= w - AuthFailWindow
      BY <1>1, <1>2, <2>1
    <3>2. i \in 1..(n - k)
      BY <1>1, <2>3, SMTT(30)
    <3> QED
      BY <3>1, <3>2, Zenon DEF JustBefore
  <2> QED
    BY <2>2, <2>3, Zenon
<1> HIDE DEF A, J, n
<1>5. IsFiniteSet(A \cup J) /\ Cardinality(A \cup J) = Cardinality(A) + Cardinality(J) - Cardinality(A \cap J)
  BY <1>3, FS_Union, Zenon
<1>6. Cardinality(A \cap J) \in Nat
  <2>1. IsFiniteSet(A \cap J)
    BY <1>3, FS_Intersection, Zenon
  <2> QED
    BY <2>1, FS_CardinalityType, Zenon
<1>7. Cardinality(RecentOf(f, t)) <= Cardinality(A \cup J)
  BY <1>4, <1>5, FS_Subset, Zenon
<1> QED
  BY <1>1, <1>2, <1>3, <1>5, <1>6, <1>7, SMTT(30)

\* The failures of the current window are recent while it lasts.
LEMMA WindowRecent ==
    ASSUME CountsAuthFailures, NEW f \in Seq(Nat), NEW k \in Nat, NEW w \in Nat, NEW t \in Nat,
           Windows(k, w, f, t), t - w <= AuthFailWindow
    PROVE  Cardinality(RecentOf(f, t)) >= k
<1> DEFINE n == Len(f)
           A == (n - k + 1)..n
<1>1. n \in Nat /\ k <= n
  BY DEF Windows
<1>2. AuthFailWindow \in Nat
  BY Counting, Zenon
<1>3. /\ IsFiniteSet(RecentOf(f, t)) /\ Cardinality(A) = k
  BY <1>1, IndexSets, Zenon
<1>4. ASSUME NEW i \in A PROVE i \in RecentOf(f, t)
  <2>1. i \in 1..n /\ i > n - k
    BY <1>1
  <2>2. f[i] \in Nat /\ f[i] >= w
    BY <2>1, SMTT(30) DEF Windows
  <2> QED
    BY <1>2, <2>1, <2>2, SMTT(30) DEF RecentOf
<1>5. A \in SUBSET RecentOf(f, t)
  BY <1>4, Zenon
<1> HIDE DEF A
<1>6. Cardinality(A) <= Cardinality(RecentOf(f, t))
  BY <1>3, <1>5, FS_Subset, Zenon
<1>7. Cardinality(RecentOf(f, t)) \in Nat
  BY <1>3, FS_CardinalityType, Zenon
<1> QED
  BY <1>3, <1>6, <1>7, Zenon

\* One more failure in the current window.
LEMMA WindowGrows ==
    ASSUME CountsAuthFailures, NEW f \in Seq(Nat), NEW k \in Nat, NEW w \in Nat, NEW t \in Nat,
           Windows(k, w, f, t), k + 1 < AuthFailMax, w # 0
    PROVE  Windows(k + 1, w, Append(f, t), t)
<1> DEFINE g == Append(f, t)
           n == Len(f)
<1>1. /\ g \in Seq(Nat) /\ Len(g) = n + 1 /\ g[n + 1] = t /\ n \in Nat
      /\ \A i \in 1..n : g[i] = f[i]
  OBVIOUS
<1>2. JustBefore(k + 1, w, g) = JustBefore(k, w, f)
  <2>1. Len(g) - (k + 1) = n - k /\ k <= n
    BY <1>1 DEF Windows
  <2>2. \A i \in 1..(n - k) : g[i] = f[i]
    BY <1>1
  <2> HIDE DEF g
  <2> QED
    BY <2>1, <2>2, Zenon DEF JustBefore
<1> HIDE DEF g
<1>3. \A i \in 1..Len(g) : /\ g[i] <= t
                           /\ i <= Len(g) - (k + 1) => g[i] <= w
                           /\ i > Len(g) - (k + 1) => g[i] >= w
  <2> TAKE i \in 1..Len(g)
  <2>1. CASE i \in 1..n
    <3>1. /\ f[i] <= t /\ (i <= n - k => f[i] <= w) /\ (i > n - k => f[i] >= w)
          /\ k <= n
      BY <2>1, Zenon DEF Windows
    <3>2. g[i] = f[i] /\ Len(g) - (k + 1) = n - k
      BY <1>1, <2>1
    <3> QED
      BY <3>1, <3>2, Zenon
  <2>2. CASE i = n + 1
    <3>1. k <= n /\ w <= t /\ g[i] = t
      BY <1>1, <2>2, Zenon DEF Windows
    <3>2. i > Len(g) - (k + 1) /\ ~(i <= Len(g) - (k + 1))
      BY <1>1, <2>2, <3>1, SMTT(30)
    <3> QED
      BY <3>1, <3>2
  <2> QED
    BY <1>1, <2>1, <2>2, SMTT(30)
<1>4. Windows(k + 1, w, g, t)
  BY <1>1, <1>2, <1>3 DEF Windows
<1> QED
  BY <1>4, Zenon DEF g

\* A failure after the window: what is within a window length of it is the old window's.
LEMMA WindowOpens ==
    ASSUME CountsAuthFailures, NEW f \in Seq(Nat), NEW k \in Nat, NEW w \in Nat,
           NEW t \in Nat \ {0}, Windows(k, w, f, t), 1 < AuthFailMax,
           w = 0 \/ t - w > AuthFailWindow
    PROVE  Windows(1, t, Append(f, t), t)
<1> DEFINE g == Append(f, t)
           n == Len(f)
           A == (n - k + 1)..n
<1>1. /\ g \in Seq(Nat) /\ Len(g) = n + 1 /\ g[n + 1] = t /\ n \in Nat
      /\ \A i \in 1..n : g[i] = f[i]
  OBVIOUS
<1>2. AuthFailWindow \in Nat /\ k <= n /\ k < AuthFailMax /\ AuthFailMax \in Nat
  BY Counting, Zenon DEF Windows
<1> HIDE DEF g
<1>3. JustBefore(1, t, g) \subseteq A
  <2> SUFFICES ASSUME NEW i \in 1..(Len(g) - 1), g[i] >= t - AuthFailWindow PROVE i \in A
    BY Zenon DEF JustBefore
  <2>1. i \in 1..n /\ f[i] \in Nat /\ f[i] >= t - AuthFailWindow
    BY <1>1
  <2>2. w # 0
    BY <2>1, <1>1 DEF Windows
  <2>3. ~(i <= n - k)
    <3>1. i <= n - k => f[i] <= w
      BY <2>1, Zenon DEF Windows
    <3> HIDE DEF n
    <3> QED
      BY <1>1, <1>2, <2>1, <2>2, <3>1, SMTT(30)
  <2> QED
    BY <1>1, <1>2, <2>1, <2>3, SMTT(30)
<1>4. IsFiniteSet(A) /\ Cardinality(A) = k
  BY <1>1, <1>2, IndexSets, Zenon
<1>5. IsFiniteSet(JustBefore(1, t, g)) /\ Cardinality(JustBefore(1, t, g)) \in Nat
  <2>1. 1 \in Nat /\ 1 <= Len(g)
    BY <1>1
  <2> QED
    BY <1>1, <2>1, IndexSets, Zenon
<1> HIDE DEF A
<1>6. Cardinality(JustBefore(1, t, g)) < AuthFailMax
  <2>1. Cardinality(JustBefore(1, t, g)) <= Cardinality(A)
    BY <1>3, <1>4, FS_Subset, Zenon
  <2> QED
    BY <1>2, <1>4, <1>5, <2>1, SMTT(30)
<1>7. \A i \in 1..Len(g) : /\ g[i] <= t
                           /\ i <= Len(g) - 1 => g[i] <= t
                           /\ i > Len(g) - 1 => g[i] >= t
  <2> TAKE i \in 1..Len(g)
  <2>1. CASE i \in 1..n
    <3>1. f[i] <= t
      BY <2>1, Zenon DEF Windows
    <3>2. g[i] = f[i] /\ Len(g) - 1 = n /\ ~(i > n)
      BY <1>1, <2>1
    <3> QED
      BY <3>1, <3>2, Zenon
  <2>2. CASE i = n + 1
    <3>1. g[i] = t
      BY <1>1, <2>2, Zenon
    <3> QED
      BY <3>1
  <2> QED
    BY <1>1, <2>1, <2>2, SMTT(30)
<1>8. Windows(1, t, g, t)
  BY <1>1, <1>6, <1>7, SMTT(30) DEF Windows
<1> QED
  BY <1>8, Zenon DEF g


\* What acquire and release do to the window: nothing, or they erase an entry without failures.
LEMMA WindowUntouched ==
    ASSUME CountsAuthFailures, NEW st \in IpAbuseStats, NEW f \in Seq(Nat), NEW t \in Nat,
           Windows(st.auth_fail_count, st.auth_fail_window_start, f, t)
    PROVE  /\ Windows(AfterAcquire(st).auth_fail_count, AfterAcquire(st).auth_fail_window_start, f, t)
           /\ Windows(AfterRelease(st, t).auth_fail_count,
                      AfterRelease(st, t).auth_fail_window_start, f, t)
<1>1. /\ AfterAcquire(st).auth_fail_count = st.auth_fail_count
      /\ AfterAcquire(st).auth_fail_window_start = st.auth_fail_window_start
  BY Zenon DEF AfterAcquire, Inserted, IpAbuseStats
<1>2. /\ Decremented(st).auth_fail_count = st.auth_fail_count
      /\ Decremented(st).auth_fail_window_start = st.auth_fail_window_start
  BY Zenon DEF Decremented, IpAbuseStats
<1>3. CASE AfterRelease(st, t) \in {st, Decremented(st)}
  BY <1>1, <1>2, <1>3, Zenon
<1>4. CASE AfterRelease(st, t) = NoEntry /\ Disposable(Decremented(st), t)
  <2>1. st.auth_fail_count = 0
    BY <1>2, <1>4, Zenon DEF Disposable
  <2>2. f = <<>>
    BY <2>1, EmptySeq, Zenon DEF Windows
  <2>3. Windows(0, 0, f, t)
    BY <2>2, NoFailures, SMTT(30)
  <2> QED
    BY <1>1, <1>4, <2>3 DEF NoEntry
<1> QED
  BY <1>3, <1>4, Zenon DEF AfterRelease

\* record_auth_failure below the threshold counts in the window or opens one; at the
\* threshold, the failures within a window length are AuthFailMax with this one.
LEMMA WindowFailure ==
    ASSUME CountsAuthFailures, NEW st \in IpAbuseStats, NEW f \in Seq(Nat), NEW t \in Nat \ {0},
           Windows(st.auth_fail_count, st.auth_fail_window_start, f, t)
    PROVE  LET a == AfterAuthFailure(st, t)
           IN  IF ReachesThreshold(st, t)
               THEN /\ Windows(a.auth_fail_count, a.auth_fail_window_start, <<>>, t)
                    /\ Cardinality(RecentOf(f, t)) >= AuthFailMax - 1
               ELSE Windows(a.auth_fail_count, a.auth_fail_window_start, Append(f, t), t)
<1> DEFINE a == AfterAuthFailure(st, t)
           k == st.auth_fail_count
           w == st.auth_fail_window_start
<1>1. k \in Nat /\ w \in Nat /\ k <= Len(f)
  BY Zenon DEF IpAbuseStats, Windows
<1>2. AuthFailMax \in Nat \ {0} /\ AuthFailWindow \in Nat \ {0}
  BY Counting, Zenon
<1>3. CASE ReachesThreshold(st, t)
  <2>1. a.auth_fail_count = 0 /\ a.auth_fail_window_start = t
    BY <1>3, Zenon DEF AfterAuthFailure
  <2>2. Windows(0, t, <<>>, t)
    BY NoFailures, SMTT(30)
  <2>3. Cardinality(RecentOf(f, t)) \in Nat
    BY <1>1, IndexSets, Zenon
  <2>4. CASE OpensWindow(st, t)
    <3>1. AuthFailMax <= 1
      BY <1>3, <2>4, Zenon DEF ReachesThreshold, FailCount
    <3> QED
      BY <1>2, <1>3, <2>1, <2>2, <2>3, <3>1, SMTT(30)
  <2>5. CASE ~OpensWindow(st, t)
    <3>1. k + 1 >= AuthFailMax /\ t - w <= AuthFailWindow
      BY <1>1, <1>2, <1>3, <2>5, SMTT(30) DEF ReachesThreshold, FailCount, OpensWindow
    <3>2. Cardinality(RecentOf(f, t)) >= k
      BY <1>1, <3>1, WindowRecent, Zenon
    <3> QED
      BY <1>1, <1>2, <1>3, <2>1, <2>2, <2>3, <3>1, <3>2
  <2> QED
    BY <2>4, <2>5, ZenonT(30)
<1>4. CASE ~ReachesThreshold(st, t)
  <2>1. CASE OpensWindow(st, t)
    <3>1. a.auth_fail_count = 1 /\ a.auth_fail_window_start = t /\ 1 < AuthFailMax
      BY <1>2, <1>4, <2>1 DEF AfterAuthFailure, ReachesThreshold, FailCount
    <3>2. w = 0 \/ t - w > AuthFailWindow
      BY <2>1, Zenon DEF OpensWindow
    <3>3. Windows(1, t, Append(f, t), t)
      BY <1>1, <3>1, <3>2, WindowOpens, Zenon
    <3> QED
      BY <1>4, <3>1, <3>3, Zenon
  <2>2. CASE ~OpensWindow(st, t)
    <3>1. a.auth_fail_count = k + 1 /\ a.auth_fail_window_start = w /\ k + 1 < AuthFailMax
      BY <1>1, <1>2, <1>4, <2>2, SMTT(30) DEF AfterAuthFailure, ReachesThreshold, FailCount
    <3>2. w # 0
      BY <2>2, Zenon DEF OpensWindow
    <3>3. Windows(k + 1, w, Append(f, t), t)
      BY <1>1, <3>1, <3>2, WindowGrows, Zenon
    <3> QED
      BY <1>4, <3>1, <3>3, Zenon
  <2> QED
    BY <2>1, <2>2, Zenon
<1> QED
  BY <1>3, <1>4, Zenon

\* Time passes.
LEMMA WindowTicks ==
    ASSUME CountsAuthFailures, NEW f \in Seq(Nat), NEW k \in Nat, NEW w \in Nat, NEW t \in Nat,
           Windows(k, w, f, t)
    PROVE  Windows(k, w, f, t + 1)
  BY SMTT(30) DEF Windows

\* The windows of every IP, whatever the interleaving.
LEMMA WindowStep == TypeOK /\ WindowInv /\ [Next]_vars => WindowInv'
<1> SUFFICES ASSUME TypeOK, WindowInv, [Next]_vars, CountsAuthFailures, NEW ip \in Ips
             PROVE  Windows(per_ip'[ip].auth_fail_count, per_ip'[ip].auth_fail_window_start,
                            failures'[ip], now')
  BY Zenon DEF WindowInv
<1> DEFINE st == per_ip[ip]
           f == failures[ip]
<1>1. /\ st \in IpAbuseStats /\ f \in Seq(Nat) /\ now \in Nat \ {0}
      /\ st.auth_fail_count \in Nat /\ st.auth_fail_window_start \in Nat
  BY Zenon DEF TypeOK, IpAbuseStats
<1>2. Windows(st.auth_fail_count, st.auth_fail_window_start, f, now)
  BY Zenon DEF WindowInv
<1>3. ASSUME per_ip'[ip] \in {st, AfterAcquire(st), AfterRelease(st, now)},
             failures'[ip] = f, now' = now
      PROVE  Windows(per_ip'[ip].auth_fail_count, per_ip'[ip].auth_fail_window_start,
                     failures'[ip], now')
  <2> HIDE DEF st, f
  <2>1. /\ Windows(AfterAcquire(st).auth_fail_count, AfterAcquire(st).auth_fail_window_start, f, now)
        /\ Windows(AfterRelease(st, now).auth_fail_count,
                   AfterRelease(st, now).auth_fail_window_start, f, now)
    BY <1>1, <1>2, WindowUntouched, Zenon
  <2> QED
    BY <1>2, <1>3, <2>1, Zenon
<1>4. ASSUME NEW c \in Conns, NEW i \in Ips, TryAcquire(c, i)
      PROVE  Windows(per_ip'[ip].auth_fail_count, per_ip'[ip].auth_fail_window_start,
                     failures'[ip], now')
  BY <1>3, <1>4, Zenon DEF TryAcquire, TypeOK
<1>5. ASSUME NEW c \in Conns, Release(c)
      PROVE  Windows(per_ip'[ip].auth_fail_count, per_ip'[ip].auth_fail_window_start,
                     failures'[ip], now')
  BY <1>3, <1>5, Zenon DEF Release, TypeOK
<1>6. ASSUME NEW i \in Ips, RecordAuthFailure(i)
      PROVE  Windows(per_ip'[ip].auth_fail_count, per_ip'[ip].auth_fail_window_start,
                     failures'[ip], now')
  <2>1. CASE i # ip
    <3>1. per_ip'[ip] = st /\ failures'[ip] = f /\ now' = now
      BY <1>6, <2>1, Zenon DEF RecordAuthFailure, TypeOK
    <3> QED
      BY <1>3, <3>1, Zenon
  <2>2. CASE i = ip
    <3>1. /\ per_ip'[ip] = AfterAuthFailure(st, now) /\ now' = now
          /\ failures'[ip] = IF ReachesThreshold(st, now) THEN <<>> ELSE Append(f, now)
      BY <1>6, <2>2, Zenon DEF RecordAuthFailure, TypeOK
    <3> HIDE DEF st, f
    <3> QED
      BY <1>1, <1>2, <3>1, WindowFailure, Zenon
  <2> QED
    BY <2>1, <2>2, Zenon
<1>7. CASE Tick
  <2>1. per_ip'[ip] = st /\ failures'[ip] = f /\ now' = now + 1
    BY <1>7, Zenon DEF Tick
  <2> HIDE DEF st, f
  <2> QED
    BY <1>1, <1>2, <2>1, WindowTicks, Zenon
<1>8. CASE UNCHANGED vars
  BY <1>3, <1>8, Zenon DEF vars
<1> QED
  BY <1>4, <1>5, <1>6, <1>7, <1>8, Zenon DEF Next

\* CooldownExact: for any thresholds and any interleaving, record_auth_failure punishes an IP
\* on its AuthFailMax-th failure within a window length at the earliest, and no more than
\* twice the threshold less two failures ever fall into a window length without it.
THEOREM CooldownExactly == Spec => CooldownExact
<1>1. Init => WindowInv
  <2> SUFFICES ASSUME Init, CountsAuthFailures, NEW ip \in Ips
               PROVE  Windows(per_ip[ip].auth_fail_count, per_ip[ip].auth_fail_window_start,
                              failures[ip], now)
    BY Zenon DEF WindowInv
  <2>1. /\ per_ip[ip].auth_fail_count = 0 /\ per_ip[ip].auth_fail_window_start = 0
        /\ failures[ip] = <<>> /\ now = 1
    BY Zenon DEF Init, NoEntry
  <2>2. 0 \in Nat /\ 1 \in Nat /\ 0 <= 1
    OBVIOUS
  <2>3. Windows(0, 0, <<>>, 1)
    BY <2>2, NoFailures, Zenon
  <2> QED
    BY <2>1, <2>3, Zenon
<1>2. TypeOK /\ WindowInv => BurstBounded
  <2> SUFFICES ASSUME TypeOK, WindowInv, CountsAuthFailures, NEW ip \in Ips
               PROVE  Cardinality(RecentFailures(ip)) <= 2 * AuthFailMax - 2
    BY Zenon DEF BurstBounded
  <2>1. RecentFailures(ip) = RecentOf(failures[ip], now)
    BY Zenon DEF RecentFailures, RecentOf
  <2>2. /\ per_ip[ip].auth_fail_count \in Nat /\ per_ip[ip].auth_fail_window_start \in Nat
        /\ failures[ip] \in Seq(Nat) /\ now \in Nat
    BY Zenon DEF TypeOK, IpAbuseStats
  <2> QED
    BY <2>1, <2>2, FewRecent, Zenon DEF WindowInv
<1>3. TypeOK /\ WindowInv /\ [Next]_vars =>
        [\A ip \in Ips : triggered'[ip] # triggered[ip]
             => Cardinality(RecentFailures(ip)) >= AuthFailMax - 1]_vars
  <2> SUFFICES ASSUME TypeOK, WindowInv, [Next]_vars, NEW ip \in Ips,
                      triggered'[ip] # triggered[ip]
               PROVE  Cardinality(RecentFailures(ip)) >= AuthFailMax - 1
    BY Zenon
  <2>1. /\ RecordAuthFailure(ip) /\ ReachesThreshold(per_ip[ip], now)
    BY Zenon DEF Next, vars, TryAcquire, Release, RecordAuthFailure, Tick, TypeOK
  <2>2. CountsAuthFailures
    BY <2>1, Zenon DEF RecordAuthFailure
  <2>3. RecentFailures(ip) = RecentOf(failures[ip], now)
    BY Zenon DEF RecentFailures, RecentOf
  <2>4. /\ per_ip[ip] \in IpAbuseStats /\ failures[ip] \in Seq(Nat) /\ now \in Nat \ {0}
    BY Zenon DEF TypeOK
  <2>5. Windows(per_ip[ip].auth_fail_count, per_ip[ip].auth_fail_window_start, failures[ip], now)
    BY <2>2, Zenon DEF WindowInv
  <2>6. Cardinality(RecentOf(failures[ip], now)) >= AuthFailMax - 1
    BY <2>1, <2>2, <2>4, <2>5, WindowFailure, Zenon
  <2> QED
    BY <2>3, <2>6, Zenon
<1> QED
  BY <1>1, <1>2, <1>3, WindowStep, TypeCorrect, PTL
  DEF Spec, CooldownExact, CooldownJustified

-------------------------------------------------------------------------------
(* The budget: the compare-exchange loops keep the counter exact. *)

\* BudgetTypes: the counter of fallback_controller.cpp stays a natural number and
\* every session is at a known place of its call.
THEOREM BudgetTypesCorrect == BudgetSpec => []BudgetTypes
<1>1. BudgetInit => BudgetTypes
  BY SMTT(30) DEF BudgetInit, BudgetTypes, Places
<1>2. BudgetTypes /\ [BudgetNext]_budgetVars => BudgetTypes'
  <2> SUFFICES ASSUME BudgetTypes, [BudgetNext]_budgetVars PROVE BudgetTypes'
    BY Zenon
  <2> USE DEF BudgetTypes, Places
  <2>1. ASSUME NEW s \in Sessions, CountUnlimited(s) PROVE BudgetTypes'
    BY <2>1 DEF CountUnlimited
  <2>2. ASSUME NEW s \in Sessions, EnterUnlimited(s) PROVE BudgetTypes'
    BY <2>2, SMTT(30) DEF EnterUnlimited
  <2>3. ASSUME NEW s \in Sessions, LoadForAcquire(s) PROVE BudgetTypes'
    BY <2>3, Zenon DEF LoadForAcquire
  <2>4. ASSUME NEW s \in Sessions, AcquireExchange(s) PROVE BudgetTypes'
    BY <2>4 DEF AcquireExchange
  <2>5. ASSUME NEW s \in Sessions, AcquireRetry(s) PROVE BudgetTypes'
    BY <2>5, Zenon DEF AcquireRetry
  <2>6. ASSUME NEW s \in Sessions, CountAcquired(s) PROVE BudgetTypes'
    BY <2>6 DEF CountAcquired
  <2>7. ASSUME NEW s \in Sessions, Reject(s) PROVE BudgetTypes'
    BY <2>7 DEF Reject
  <2>8. ASSUME NEW s \in Sessions, LoadForRelease(s) PROVE BudgetTypes'
    BY <2>8, Zenon DEF LoadForRelease
  <2>9. ASSUME NEW s \in Sessions, ReleaseExchange(s) PROVE BudgetTypes'
    BY <2>9 DEF ReleaseExchange
  <2>10. ASSUME NEW s \in Sessions, ReleaseRetry(s) PROVE BudgetTypes'
    BY <2>10, Zenon DEF ReleaseRetry
  <2>11. CASE UNCHANGED budgetVars
    BY <2>11, Zenon DEF budgetVars
  <2> QED
    BY <2>1, <2>2, <2>3, <2>4, <2>5, <2>6, <2>7, <2>8, <2>9, <2>10, <2>11, Zenon
    DEF BudgetNext, Step
<1> QED
  BY <1>1, <1>2, PTL DEF BudgetSpec

(***************************************************************************)
(* The inductive invariant.  The counter is the number of sessions that    *)
(* own a unit; a session in the release loop owns one, so the value it     *)
(* compares with, loaded while it owned it, is positive; and which of the  *)
(* two acquire paths is taken is fixed by the configuration.               *)
(***************************************************************************)
BudgetInv ==
    /\ CounterExact
    /\ ReleaseEffective
    /\ LimitsFallback => active_fallback_sessions <= FallbackMax
    /\ \A s \in Sessions :
          /\ pc[s] = "uncounted" => ~LimitsFallback
          /\ pc[s] = "acquiring" => LimitsFallback

\* The sessions that own a unit are finitely many.
LEMMA HoldingFinite ==
    /\ IsFiniteSet(Holding)
    /\ Cardinality(Holding) \in Nat
    /\ Cardinality(Sessions) \in Nat
<1>1. Holding \in SUBSET Sessions
  BY Zenon DEF Holding
<1>2. IsFiniteSet(Sessions)
  BY FallbackAssumption, Zenon DEF FallbackAssumption
<1>3. IsFiniteSet(Holding)
  BY <1>1, <1>2, FS_Subset, Zenon
<1> QED
  BY <1>2, <1>3, FS_CardinalityType, Zenon

\* A session that comes to own a unit adds one to the number of owners.
LEMMA EnterCounts ==
    ASSUME BudgetTypes, NEW s \in Sessions, s \notin Holding,
           NEW place \in {"acquired", "holding"},
           pc' = [pc EXCEPT ![s] = place]
    PROVE  /\ Holding' = Holding \cup {s}
           /\ Cardinality(Holding') = Cardinality(Holding) + 1
<1>1. Holding' = Holding \cup {s}
  BY Zenon DEF Holding, BudgetTypes
<1> QED
  BY <1>1, HoldingFinite, FS_AddElement, Zenon

\* A session that gives its unit back takes one away.
LEMMA LeaveCounts ==
    ASSUME BudgetTypes, NEW s \in Sessions, s \in Holding,
           pc' = [pc EXCEPT ![s] = "idle"]
    PROVE  /\ Holding' = Holding \ {s}
           /\ Cardinality(Holding') = Cardinality(Holding) - 1
<1>1. Holding' = Holding \ {s}
  BY Zenon DEF Holding, BudgetTypes
<1> QED
  BY <1>1, HoldingFinite, FS_RemoveElement, Zenon

\* While a session owns a unit the number of owners is positive.
LEMMA OwnerCounts ==
    ASSUME NEW s \in Sessions, s \in Holding
    PROVE  Cardinality(Holding) > 0
<1>1. Holding # {}
  BY Zenon
<1>2. Cardinality(Holding) # 0
  BY <1>1, HoldingFinite, FS_EmptySet, Zenon
<1> QED
  BY <1>2, HoldingFinite

\* BudgetInv is an invariant of every interleaving of loads and exchanges.
LEMMA BudgetInvariant == BudgetSpec => []BudgetInv
<1>1. BudgetInit => BudgetInv
  <2> SUFFICES ASSUME BudgetInit PROVE BudgetInv
    BY Zenon
  <2>1. Holding = {}
    BY Zenon DEF BudgetInit, Holding
  <2>2. CounterExact
    BY <2>1, FS_EmptySet, Zenon DEF BudgetInit, CounterExact
  <2> QED
    BY <2>2, FallbackAssumption
    DEF FallbackAssumption, BudgetInit, BudgetInv, ReleaseEffective, LimitsFallback
<1>2. BudgetTypes /\ BudgetInv /\ [BudgetNext]_budgetVars => BudgetInv'
  <2> SUFFICES ASSUME BudgetTypes, BudgetInv, [BudgetNext]_budgetVars PROVE BudgetInv'
    BY Zenon
  <2>0. /\ active_fallback_sessions \in Nat /\ FallbackMax \in Int
        /\ active_fallback_sessions = Cardinality(Holding)
    BY FallbackAssumption, Zenon
    DEF FallbackAssumption, BudgetTypes, BudgetInv, CounterExact
  <2>1. ASSUME NEW s \in Sessions, CountUnlimited(s) PROVE BudgetInv'
    <3>1. Holding' = Holding
      BY <2>1, Zenon DEF CountUnlimited, Holding, BudgetTypes
    <3> QED
      BY <2>1, <3>1, Zenon
      DEF CountUnlimited, BudgetInv, CounterExact, ReleaseEffective, BudgetTypes
  <2>2. ASSUME NEW s \in Sessions, EnterUnlimited(s) PROVE BudgetInv'
    <3>1. s \notin Holding /\ ~LimitsFallback
      BY <2>2, Zenon DEF EnterUnlimited, Holding, BudgetInv
    <3>2. CounterExact'
      BY <2>0, <2>2, <3>1, EnterCounts, Zenon DEF EnterUnlimited, CounterExact
    <3> QED
      BY <2>2, <3>1, <3>2, Zenon DEF EnterUnlimited, BudgetInv, ReleaseEffective, BudgetTypes
  <2>3. ASSUME NEW s \in Sessions, LoadForAcquire(s) PROVE BudgetInv'
    <3>1. Holding' = Holding
      BY <2>3, Zenon DEF LoadForAcquire, Holding, BudgetTypes
    <3> QED
      BY <2>3, <3>1, Zenon
      DEF LoadForAcquire, BudgetInv, CounterExact, ReleaseEffective, BudgetTypes
  <2>4. ASSUME NEW s \in Sessions, AcquireExchange(s) PROVE BudgetInv'
    <3>1. s \notin Holding
      BY <2>4, Zenon DEF AcquireExchange, Holding
    <3>2. CounterExact'
      BY <2>0, <2>4, <3>1, EnterCounts, Zenon DEF AcquireExchange, CounterExact
    <3>3. active_fallback_sessions' <= FallbackMax
      BY <2>0, <2>4 DEF AcquireExchange, BudgetTypes
    <3> QED
      BY <2>4, <3>2, <3>3, Zenon DEF AcquireExchange, BudgetInv, ReleaseEffective, BudgetTypes
  <2>5. ASSUME NEW s \in Sessions, AcquireRetry(s) PROVE BudgetInv'
    BY <2>5, Zenon
    DEF AcquireRetry, BudgetInv, CounterExact, Holding, ReleaseEffective, BudgetTypes
  <2>6. ASSUME NEW s \in Sessions, CountAcquired(s) PROVE BudgetInv'
    <3>1. Holding' = Holding
      BY <2>6, Zenon DEF CountAcquired, Holding, BudgetTypes
    <3> QED
      BY <2>6, <3>1, Zenon
      DEF CountAcquired, BudgetInv, CounterExact, ReleaseEffective, BudgetTypes
  <2>7. ASSUME NEW s \in Sessions, Reject(s) PROVE BudgetInv'
    <3>1. Holding' = Holding
      BY <2>7, Zenon DEF Reject, Holding, BudgetTypes
    <3> QED
      BY <2>7, <3>1, Zenon DEF Reject, BudgetInv, CounterExact, ReleaseEffective, BudgetTypes
  <2>8. ASSUME NEW s \in Sessions, LoadForRelease(s) PROVE BudgetInv'
    <3>1. Holding' = Holding
      BY <2>8, Zenon DEF LoadForRelease, Holding, BudgetTypes
    <3>2. active_fallback_sessions > 0
      BY <2>0, <2>8, OwnerCounts, Zenon DEF LoadForRelease, Holding
    <3> QED
      BY <2>8, <3>1, <3>2, Zenon
      DEF LoadForRelease, BudgetInv, CounterExact, ReleaseEffective, BudgetTypes
  <2>9. ASSUME NEW s \in Sessions, ReleaseExchange(s) PROVE BudgetInv'
    <3>1. s \in Holding /\ current[s] > 0
      BY <2>9, Zenon DEF ReleaseExchange, Holding, BudgetInv, ReleaseEffective
    <3>2. active_fallback_sessions' = active_fallback_sessions - 1
      BY <2>9, <3>1 DEF ReleaseExchange, BudgetTypes
    <3>3. CounterExact'
      BY <2>0, <2>9, <3>1, <3>2, LeaveCounts, Zenon DEF ReleaseExchange, CounterExact
    <3> QED
      BY <2>0, <2>9, <3>2, <3>3, SMTT(30)
      DEF ReleaseExchange, BudgetInv, ReleaseEffective, BudgetTypes
  <2>10. ASSUME NEW s \in Sessions, ReleaseRetry(s) PROVE BudgetInv'
    <3>1. active_fallback_sessions > 0
      BY <2>0, <2>10, OwnerCounts, Zenon DEF ReleaseRetry, Holding
    <3> QED
      BY <2>10, <3>1, Zenon
      DEF ReleaseRetry, BudgetInv, CounterExact, Holding, ReleaseEffective, BudgetTypes
  <2>11. CASE UNCHANGED budgetVars
    BY <2>11, Zenon DEF budgetVars, BudgetInv, CounterExact, Holding, ReleaseEffective
  <2> QED
    BY <2>1, <2>2, <2>3, <2>4, <2>5, <2>6, <2>7, <2>8, <2>9, <2>10, <2>11, Zenon
    DEF BudgetNext, Step
<1> QED
  BY <1>1, <1>2, BudgetTypesCorrect, PTL DEF BudgetSpec

\* CounterExact and BudgetKept for every budget: no lost update, and never more
\* than fallback_max_active sessions own a unit.
THEOREM BudgetCorrect == BudgetSpec => [](CounterExact /\ BudgetKept)
<1>1. BudgetInv => CounterExact /\ BudgetKept
  BY Zenon DEF BudgetInv, CounterExact, BudgetKept
<1> QED
  BY <1>1, BudgetInvariant, PTL

\* ReleaseEffective: release_slot never returns without giving back the unit
\* its caller owns.
THEOREM ReleaseCorrect == BudgetSpec => []ReleaseEffective
<1>1. BudgetInv => ReleaseEffective
  BY Zenon DEF BudgetInv
<1> QED
  BY <1>1, BudgetInvariant, PTL

(***************************************************************************)
(* The controller without a budget.                                        *)
(***************************************************************************)

\* Without a budget no session tests the counter: it adds to it when it enters, and takes from
\* it in the loop of release_slot, which only an owner runs.
FreeInv ==
    /\ free_active \in Nat
    /\ free_pc \in [Sessions -> {"idle", "uncounted", "holding", "releasing"}]
    /\ free_current \in [Sessions -> Nat]
    /\ free_active = Cardinality(Unlimited!Holding)
    /\ \A s \in Sessions : free_pc[s] = "releasing" => free_current[s] > 0

\* The two readings of the same cardinality.
LEMMA FreeCounted == Unlimited!CounterExact <=> free_active = Cardinality(Unlimited!Holding)
  BY Zenon DEF Unlimited!CounterExact, Unlimited!Cardinality, Cardinality

\* The sessions that own a unit without a budget are finitely many.
LEMMA FreeFinite ==
    /\ IsFiniteSet(Unlimited!Holding)
    /\ Cardinality(Unlimited!Holding) \in Nat
<1>1. Unlimited!Holding \in SUBSET Sessions
  BY Zenon DEF Unlimited!Holding
<1>2. IsFiniteSet(Sessions)
  BY FallbackAssumption, Zenon DEF FallbackAssumption
<1> QED
  BY <1>1, <1>2, FS_Subset, FS_CardinalityType, Zenon

\* Entering without a budget adds one owner, whatever the others are doing.
LEMMA FreeEnters ==
    ASSUME FreeInv, NEW s \in Sessions, Unlimited!EnterUnlimited(s)
    PROVE  FreeInv'
<1>1. /\ s \notin Unlimited!Holding
      /\ Unlimited!Holding' = Unlimited!Holding \cup {s}
  BY Zenon DEF FreeInv, Unlimited!EnterUnlimited, Unlimited!Holding
<1>2. Cardinality(Unlimited!Holding') = Cardinality(Unlimited!Holding) + 1
  BY <1>1, FreeFinite, FS_AddElement, Zenon
<1>3. free_active' = free_active + 1
  BY Zenon DEF Unlimited!EnterUnlimited
<1> QED
  BY <1>2, <1>3 DEF FreeInv, Unlimited!EnterUnlimited

\* A successful exchange of release_slot takes one owner away.
LEMMA FreeLeaves ==
    ASSUME FreeInv, NEW s \in Sessions, Unlimited!ReleaseExchange(s)
    PROVE  FreeInv'
<1>1. /\ s \in Unlimited!Holding
      /\ Unlimited!Holding' = Unlimited!Holding \ {s}
  BY Zenon DEF FreeInv, Unlimited!ReleaseExchange, Unlimited!Holding
<1>2. Cardinality(Unlimited!Holding') = Cardinality(Unlimited!Holding) - 1
  BY <1>1, FreeFinite, FS_RemoveElement, Zenon
<1>3. free_active' = free_active - 1 /\ free_active' \in Nat
  BY DEF FreeInv, Unlimited!ReleaseExchange
<1> QED
  BY <1>2, <1>3, Zenon DEF FreeInv, Unlimited!ReleaseExchange

\* A load of release_slot, first or repeated, sees a positive counter: its caller owns a unit.
LEMMA FreeLoads ==
    ASSUME FreeInv, NEW s \in Sessions,
           Unlimited!LoadForRelease(s) \/ Unlimited!ReleaseRetry(s)
    PROVE  FreeInv'
<1>1. /\ s \in Unlimited!Holding
      /\ Unlimited!Holding' = Unlimited!Holding
  BY Zenon DEF FreeInv, Unlimited!LoadForRelease, Unlimited!ReleaseRetry, Unlimited!Holding
<1>2. Cardinality(Unlimited!Holding) # 0
  BY <1>1, FreeFinite, FS_EmptySet, Zenon
<1>3. free_active > 0
  BY <1>2 DEF FreeInv
<1> QED
  BY <1>1, <1>3, Zenon DEF FreeInv, Unlimited!LoadForRelease, Unlimited!ReleaseRetry

\* Every step of the controller without a budget keeps FreeInv.
LEMMA FreeStep == FreeInv /\ [Unlimited!BudgetNext]_freeVars => FreeInv'
<1> SUFFICES ASSUME FreeInv, [Unlimited!BudgetNext]_freeVars PROVE FreeInv'
  BY Zenon
<1>1. ~Unlimited!LimitsFallback
  BY DEF Unlimited!LimitsFallback
<1>2. ASSUME NEW s \in Sessions, Unlimited!CountUnlimited(s) PROVE FreeInv'
  <2>1. Unlimited!Holding' = Unlimited!Holding
    BY <1>2, Zenon DEF FreeInv, Unlimited!CountUnlimited, Unlimited!Holding
  <2> QED
    BY <1>2, <2>1, Zenon DEF FreeInv, Unlimited!CountUnlimited
<1>3. ASSUME NEW s \in Sessions,
             \/ Unlimited!LoadForAcquire(s) \/ Unlimited!AcquireExchange(s)
             \/ Unlimited!AcquireRetry(s) \/ Unlimited!CountAcquired(s) \/ Unlimited!Reject(s)
      PROVE  FALSE
  <2>1. free_pc[s] \notin {"acquiring", "acquired"}
    BY Zenon DEF FreeInv
  <2> QED
    BY <1>1, <1>3, <2>1, Zenon
    DEF Unlimited!LoadForAcquire, Unlimited!AcquireExchange, Unlimited!AcquireRetry,
        Unlimited!CountAcquired, Unlimited!Reject
<1>4. CASE UNCHANGED freeVars
  BY <1>4, Zenon DEF freeVars, FreeInv, Unlimited!Holding
<1>5. CASE Unlimited!BudgetNext
  <2>1. PICK s \in Sessions : Unlimited!Step(s)
    BY <1>5, Zenon DEF Unlimited!BudgetNext
  <2> QED
    BY <2>1, <1>2, <1>3, FreeEnters, FreeLeaves, FreeLoads, Zenon DEF Unlimited!Step
<1> QED
  BY <1>4, <1>5, Zenon

\* CountsExact: with a budget and without one the counter of fallback_controller.cpp is the
\* number of sessions that own a unit, for any finite set of sessions, although without one
\* try_acquire_slot adds with no loop while release_slot compares and exchanges.
THEOREM CountsCorrect == MCSpec => []CountsExact
<1>1. MCInit => BudgetInit
  BY Zenon DEF MCInit
<1>2. [MCNext]_<<budgetVars, freeVars, part>> => [BudgetNext]_budgetVars
  BY Zenon DEF MCNext
<1>3. MCInit => FreeInv
  <2> SUFFICES ASSUME MCInit PROVE FreeInv
    BY Zenon
  <2>1. Unlimited!Holding = {}
    BY Zenon DEF MCInit, Unlimited!BudgetInit, Unlimited!Holding
  <2> QED
    BY <2>1, FS_EmptySet, Zenon DEF MCInit, Unlimited!BudgetInit, FreeInv
<1>4. [MCNext]_<<budgetVars, freeVars, part>> => [Unlimited!BudgetNext]_freeVars
  BY Zenon DEF MCNext
<1>5. FreeInv /\ CounterExact => CountsExact
  BY FreeCounted, Zenon DEF FreeInv, CountsExact
<1> QED
  BY <1>1, <1>2, <1>3, <1>4, <1>5, FreeStep, BudgetCorrect, PTL DEF MCSpec, BudgetSpec

(***************************************************************************)
(* The refinement: a successful exchange is the step of the abstract pool, *)
(* every other atomic access leaves the pool alone.                        *)
(***************************************************************************)
budget == [p \in {"fallback"} |-> Holding]

BudgetCapacity == IF LimitsFallback THEN FallbackMax ELSE Cardinality(Sessions)

\* A session that comes to own a unit is an Acquire of the pool.
LEMMA EnterIsAcquire ==
    ASSUME BudgetTypes, NEW s \in Sessions, s \notin Holding,
           Cardinality(Holding) < BudgetCapacity,
           NEW place \in {"acquired", "holding"},
           pc' = [pc EXCEPT ![s] = place]
    PROVE  Budget!Next
<1>1. budget' = [budget EXCEPT !["fallback"] = @ \cup {s}]
  BY EnterCounts, Zenon DEF budget
<1>2. Budget!Acquire("fallback", s)
  BY <1>1, Zenon DEF budget, BudgetCapacity, Budget!Acquire, Budget!Cardinality, Cardinality
<1> QED
  BY <1>2, Zenon DEF Budget!Next

\* With the budget off the pool is as large as the set of sessions.
LEMMA RoomWhenUnlimited ==
    ASSUME NEW s \in Sessions, s \notin Holding
    PROVE  Cardinality(Holding) < Cardinality(Sessions)
<1>1. Holding \in SUBSET Sessions /\ Holding # Sessions
  BY Zenon DEF Holding
<1>2. IsFiniteSet(Sessions)
  BY FallbackAssumption, Zenon DEF FallbackAssumption
<1>3. /\ Cardinality(Holding) <= Cardinality(Sessions)
      /\ Cardinality(Holding) # Cardinality(Sessions)
  BY <1>1, <1>2, FS_Subset, Zenon
<1> QED
  BY <1>3, HoldingFinite

\* FallbackController implements SlotPool: the lock-free loops behave as one
\* atomic pool of fallback_max_active slots.
THEOREM BudgetRefinement == BudgetSpec => ImplementsBudget
<1>1. BudgetInit => Budget!Init
  BY Zenon DEF BudgetInit, Budget!Init, Holding
<1>2. BudgetTypes /\ BudgetInv /\ [BudgetNext]_budgetVars => [Budget!Next]_budget
  <2> SUFFICES ASSUME BudgetTypes, BudgetInv, [BudgetNext]_budgetVars PROVE [Budget!Next]_budget
    BY Zenon
  <2>0. /\ active_fallback_sessions \in Nat /\ FallbackMax \in Int
        /\ active_fallback_sessions = Cardinality(Holding)
    BY FallbackAssumption, Zenon
    DEF FallbackAssumption, BudgetTypes, BudgetInv, CounterExact
  <2>1. ASSUME NEW s \in Sessions, EnterUnlimited(s) PROVE Budget!Next
    <3>1. s \notin Holding /\ ~LimitsFallback
      BY <2>1, Zenon DEF EnterUnlimited, Holding, BudgetInv
    <3>2. Cardinality(Holding) < BudgetCapacity
      BY <3>1, RoomWhenUnlimited, Zenon DEF BudgetCapacity
    <3> QED
      BY <2>1, <3>1, <3>2, EnterIsAcquire, Zenon DEF EnterUnlimited
  <2>2. ASSUME NEW s \in Sessions, AcquireExchange(s) PROVE Budget!Next
    <3>1. s \notin Holding /\ LimitsFallback
      BY <2>2, Zenon DEF AcquireExchange, Holding, BudgetInv
    <3>2. Cardinality(Holding) < BudgetCapacity
      BY <2>0, <2>2, <3>1, Zenon DEF AcquireExchange, BudgetCapacity
    <3> QED
      BY <2>2, <3>1, <3>2, EnterIsAcquire, Zenon DEF AcquireExchange
  <2>3. ASSUME NEW s \in Sessions, ReleaseExchange(s) PROVE Budget!Next
    <3>1. s \in Holding
      BY <2>3, Zenon DEF ReleaseExchange, Holding
    <3>2. budget' = [budget EXCEPT !["fallback"] = @ \ {s}]
      BY <2>3, <3>1, LeaveCounts, Zenon DEF ReleaseExchange, budget
    <3>3. Budget!Release("fallback", s)
      BY <3>1, <3>2, Zenon DEF budget, Budget!Release
    <3> QED
      BY <3>3, Zenon DEF Budget!Next
  <2>4. ASSUME NEW s \in Sessions,
               \/ CountUnlimited(s) \/ LoadForAcquire(s) \/ AcquireRetry(s)
               \/ CountAcquired(s) \/ Reject(s)
               \/ LoadForRelease(s) \/ ReleaseRetry(s)
        PROVE  UNCHANGED budget
    <3>1. Holding' = Holding
      BY <2>4, Zenon DEF CountUnlimited, LoadForAcquire, AcquireRetry, CountAcquired,
                  Reject, LoadForRelease, ReleaseRetry, Holding, BudgetTypes
    <3> QED
      BY <3>1, Zenon DEF budget
  <2>5. CASE UNCHANGED budgetVars
    BY <2>5, Zenon DEF budgetVars, budget, Holding
  <2> QED
    BY <2>1, <2>2, <2>3, <2>4, <2>5, Zenon DEF BudgetNext, Step
<1> QED
  BY <1>1, <1>2, BudgetTypesCorrect, BudgetInvariant, PTL
  DEF BudgetSpec, ImplementsBudget, Budget!Spec, budget

-------------------------------------------------------------------------------
(* The accept chains. *)

\* A certificate version waits in sequences of natural numbers.
LifecycleTypes ==
    /\ concurrent \in BOOLEAN
    /\ signals \in Seq(Signals)
    /\ disk \in Nat /\ loaded \in Nat
    /\ accepts \in [Acceptors -> Seq(Nat)]
    /\ completed \in [Acceptors -> Seq(Nat)]
    /\ rearming \in [Acceptors -> Seq(Nat)]
    /\ reloading \subseteq Acceptors

\* Only this version waits in the sequence.
AllAre(s, v) == \A i \in 1..Len(s) : s[i] = v

\* With one thread no handler runs inside another: nothing is between making a session and
\* starting its accept while reload_cert walks the acceptors, and what is pending or about to
\* be on an acceptor it has passed, or has not been called for, has the loaded certificate.
OneThreadFresh ==
    /\ phase = "starting" => \A a \in Acceptors : rearming[a] = <<>>
    /\ phase = "running" /\ ~concurrent =>
        /\ reloading # {} => \A a \in Acceptors : rearming[a] = <<>>
        /\ \A a \in Acceptors \ reloading :
              AllAre(accepts[a], loaded) /\ AllAre(rearming[a], loaded)

\* The inductive invariant.
LifecycleInv == LifecycleTypes /\ AcceptorServed /\ OneThreadFresh

\* A sequence of versions with the i-th taken out.
LEMMA TakenOut ==
    ASSUME NEW s \in Seq(Nat), NEW i \in 1..Len(s)
    PROVE  LET t == SubSeq(s, 1, i - 1) \o SubSeq(s, i + 1, Len(s))
           IN  /\ t \in Seq(Nat)
               /\ \A v : AllAre(s, v) => AllAre(t, v)
<1> DEFINE a == SubSeq(s, 1, i - 1)
           b == SubSeq(s, i + 1, Len(s))
<1>1. /\ a \in Seq(Nat) /\ Len(a) = i - 1
      /\ \A j \in 1..i - 1 : a[j] = s[j]
  BY SubSeqProperties, SMTT(30)
<1>2. /\ b \in Seq(Nat) /\ Len(b) = Len(s) - i
      /\ \A j \in 1..Len(s) - i : b[j] = s[i + j]
  <2> DEFINE l == Len(s)
  <2>1. l \in Nat /\ i \in 1..l /\ i + 1 \in Nat
    OBVIOUS
  <2>2. \A k \in i + 1..l : s[k] \in Nat
    OBVIOUS
  <2>3. /\ b \in Seq(Nat)
        /\ Len(b) = IF i + 1 <= l THEN l - (i + 1) + 1 ELSE 0
        /\ \A j \in 1..l - (i + 1) + 1 : b[j] = s[i + 1 + j - 1]
    BY <2>1, <2>2, SubSeqProperties
  <2> HIDE DEF b, l
  <2>4. l - (i + 1) + 1 = l - i /\ \A j \in 1..l - i : i + 1 + j - 1 = i + j
    BY <2>1
  <2>5. Len(b) = l - i
    BY <2>1, <2>3
  <2> QED
    BY <2>3, <2>4, <2>5, Zenon DEF l
<1>3. /\ a \o b \in Seq(Nat) /\ Len(a \o b) = Len(a) + Len(b)
      /\ \A j \in 1..Len(a) + Len(b) :
            (a \o b)[j] = IF j <= Len(a) THEN a[j] ELSE b[j - Len(a)]
  BY <1>1, <1>2, ConcatProperties, ZenonT(30)
<1> HIDE DEF a, b
<1>4. ASSUME NEW v, AllAre(s, v), NEW j \in 1..Len(a \o b)
      PROVE  (a \o b)[j] = v
  <2>a. \A k \in 1..Len(s) : s[k] = v
    BY <1>4, Zenon DEF AllAre
  <2>1. CASE j <= Len(a)
    <3>1. (a \o b)[j] = a[j] /\ j \in 1..i - 1 /\ j \in 1..Len(s)
      BY <1>1, <1>2, <1>3, <2>1
    <3> QED
      BY <1>1, <2>a, <3>1, Zenon
  <2>2. CASE ~(j <= Len(a))
    <3>1. (a \o b)[j] = b[j - Len(a)] /\ j - Len(a) \in 1..Len(s) - i
      BY <1>1, <1>2, <1>3, <2>2
    <3>2. i + (j - Len(a)) \in 1..Len(s)
      BY <1>1, <1>2, <3>1
    <3> QED
      BY <1>2, <2>a, <3>1, <3>2, Zenon
  <2> QED
    BY <2>1, <2>2, Zenon
<1> QED
  BY <1>3, <1>4, Zenon DEF a, b, AllAre

\* A version put at the end of a sequence.
LEMMA PutBehind ==
    ASSUME NEW s \in Seq(Nat), NEW v \in Nat
    PROVE  /\ Append(s, v) \in Seq(Nat) /\ Append(s, v) # <<>>
           /\ AllAre(s, v) => AllAre(Append(s, v), v)
  BY DEF AllAre

\* A version taken from the front of one.
LEMMA TakeFirst ==
    ASSUME NEW s \in Seq(Nat), s # <<>>
    PROVE  /\ Tail(s) \in Seq(Nat) /\ Head(s) \in Nat
           /\ \A v : AllAre(s, v) => Head(s) = v /\ AllAre(Tail(s), v)
  BY DEF AllAre

\* One version alone, and none.
LEMMA FewVersions ==
    ASSUME NEW v \in Nat
    PROVE  /\ <<v>> \in Seq(Nat) /\ <<v>> # <<>> /\ AllAre(<<v>>, v)
           /\ <<>> \in Seq(Nat) /\ AllAre(<<>>, v)
  BY DEF AllAre

\* A process that starts.
LEMMA LifecycleInitially == ServiceInit => LifecycleInv
  BY SMTT(30) DEF ServiceInit, LifecycleInv, LifecycleTypes, AcceptorServed, OneThreadFresh, Empty

\* Every step keeps an accept, or the handler that will start one, on every acceptor.
LEMMA LifecycleStep ==
    LifecycleInv /\ [ServiceNext /\ UNCHANGED concurrent]_<<concurrent, serviceVars>>
        => LifecycleInv'
<1> SUFFICES ASSUME LifecycleInv, [ServiceNext /\ UNCHANGED concurrent]_<<concurrent, serviceVars>>
             PROVE  LifecycleInv'
  BY Zenon
<1> USE LifecycleAssumption
    DEF LifecycleInv, LifecycleTypes, AcceptorServed, OneThreadFresh, Empty
<1>a. UNCHANGED concurrent
  BY Zenon
<1>1. CASE StartService
  <2>1. /\ phase = "starting" /\ phase' = "running" /\ loaded' = disk
        /\ accepts' = [a \in Acceptors |-> <<disk>>]
        /\ UNCHANGED <<signals, disk, completed, rearming, reloading>>
    BY <1>1, Zenon DEF StartService
  <2> QED
    BY <1>a, <2>1, FewVersions, Zenon
<1>2. CASE StartFails
  BY <1>a, <1>2, SMTT(30) DEF StartFails
<1>3. CASE RunReturns
  BY <1>a, <1>3, SMTT(30) DEF RunReturns, Dropped
<1>4. ASSUME NEW a \in Acceptors, Connect(a) PROVE LifecycleInv'
  <2>1. PICK i \in DOMAIN accepts[a] :
            /\ completed' = [completed EXCEPT ![a] = Append(@, accepts[a][i])]
            /\ accepts' = [accepts EXCEPT ![a] = SubSeq(@, 1, i - 1) \o SubSeq(@, i + 1, Len(@))]
    BY <1>4, Zenon DEF Connect
  <2>2. /\ accepts[a] \in Seq(Nat) /\ completed[a] \in Seq(Nat)
        /\ i \in 1..Len(accepts[a]) /\ accepts[a][i] \in Nat
    BY SMTT(30)
  <2>3. /\ accepts'[a] \in Seq(Nat)
        /\ \A v : AllAre(accepts[a], v) => AllAre(accepts'[a], v)
    BY <2>1, <2>2, TakenOut, Zenon
  <2>4. completed'[a] \in Seq(Nat) /\ completed'[a] # <<>>
    BY <2>1, <2>2, PutBehind, ZenonT(30)
  <2>5. \A b \in Acceptors \ {a} : accepts'[b] = accepts[b] /\ completed'[b] = completed[b]
    BY <2>1, Zenon
  <2>6. accepts' \in [Acceptors -> Seq(Nat)] /\ completed' \in [Acceptors -> Seq(Nat)]
    BY <2>1, <2>3, <2>4, ZenonT(30)
  <2>7. UNCHANGED <<phase, signals, disk, loaded, rearming, reloading>>
    BY <1>4, Zenon DEF Connect
  <2> QED
    BY <1>a, <2>3, <2>4, <2>5, <2>6, <2>7, Zenon
<1>5. ASSUME NEW a \in Acceptors, NEW c \in Connections \cup {NoCert}, HandleAccept(a, c)
      PROVE  LifecycleInv'
  <2>1. /\ rearming' = [rearming EXCEPT ![a] = Append(@, loaded)]
        /\ completed' = [completed EXCEPT ![a] = Tail(@)] /\ completed[a] # <<>>
        /\ UNCHANGED <<phase, signals, disk, loaded, accepts, reloading>>
        /\ ~concurrent => reloading = {}
    BY <1>5, Zenon DEF HandleAccept, MayRun
  <2>2. rearming[a] \in Seq(Nat) /\ completed[a] \in Seq(Nat)
    BY Zenon
  <2>3. /\ rearming'[a] \in Seq(Nat) /\ rearming'[a] # <<>>
        /\ AllAre(rearming[a], loaded) => AllAre(rearming'[a], loaded)
    BY <2>1, <2>2, PutBehind, ZenonT(30)
  <2>4. completed'[a] \in Seq(Nat)
    BY <2>1, <2>2, TakeFirst, Zenon
  <2>5. \A b \in Acceptors \ {a} : rearming'[b] = rearming[b] /\ completed'[b] = completed[b]
    BY <2>1, Zenon
  <2>6. rearming' \in [Acceptors -> Seq(Nat)] /\ completed' \in [Acceptors -> Seq(Nat)]
    BY <2>1, <2>3, <2>4, Zenon
  <2>7. LifecycleTypes' /\ AcceptorServed'
    BY <1>a, <2>1, <2>3, <2>5, <2>6, ZenonT(30)
  <2>8. phase = "running" /\ phase' = "running"
    BY <1>5, <2>1, ZenonT(30) DEF HandleAccept
  <2>9. OneThreadFresh'
    BY <1>a, <2>1, <2>3, <2>5, <2>8, Zenon
  <2> QED
    BY <2>7, <2>9, Zenon
<1>6. ASSUME NEW a \in Acceptors, Rearm(a) PROVE LifecycleInv'
  <2>1. /\ accepts' = [accepts EXCEPT ![a] = Append(@, Head(rearming[a]))]
        /\ rearming' = [rearming EXCEPT ![a] = Tail(@)]
        /\ rearming[a] # <<>> /\ phase = "running"
        /\ UNCHANGED <<phase, signals, disk, loaded, completed, reloading>>
    BY <1>6, ZenonT(30) DEF Rearm
  <2>2. rearming[a] \in Seq(Nat) /\ accepts[a] \in Seq(Nat)
    BY Zenon
  <2>3. /\ Head(rearming[a]) \in Nat /\ rearming'[a] \in Seq(Nat)
        /\ AllAre(rearming[a], loaded)
              => Head(rearming[a]) = loaded /\ AllAre(rearming'[a], loaded)
    BY <2>1, <2>2, TakeFirst, Zenon
  <2>4. /\ accepts'[a] \in Seq(Nat) /\ accepts'[a] # <<>>
        /\ AllAre(accepts[a], Head(rearming[a])) => AllAre(accepts'[a], Head(rearming[a]))
    BY <2>1, <2>2, <2>3, PutBehind, ZenonT(30)
  <2>5. \A b \in Acceptors \ {a} : accepts'[b] = accepts[b] /\ rearming'[b] = rearming[b]
    BY <2>1, Zenon
  <2>6. accepts' \in [Acceptors -> Seq(Nat)] /\ rearming' \in [Acceptors -> Seq(Nat)]
    BY <2>1, <2>3, <2>4, Zenon
  <2>7. ~concurrent => reloading = {}
    BY <2>1, Zenon
  <2> QED
    BY <1>a, <2>1, <2>3, <2>4, <2>5, <2>6, <2>7, ZenonT(30)
<1>7. ASSUME NEW a \in Acceptors, ReloadAcceptor(a) PROVE LifecycleInv'
  <2>1. /\ accepts' = [accepts EXCEPT ![a] = <<loaded>>] /\ reloading' = reloading \ {a}
        /\ phase = "running" /\ a \in reloading
        /\ UNCHANGED <<phase, signals, disk, loaded, completed, rearming>>
    BY <1>7, Zenon DEF ReloadAcceptor
  <2>2. ~concurrent => AllAre(rearming[a], loaded)
    BY <2>1, FewVersions, ZenonT(30)
  <2> QED
    BY <1>a, <2>1, <2>2, FewVersions, Zenon
<1>8. ASSUME NEW c \in Connections, SessionEnds(c) PROVE LifecycleInv'
  BY <1>a, <1>8, Zenon DEF SessionEnds
<1>9. ASSUME NEW s \in Signals, Signal(s) PROVE LifecycleInv'
  BY <1>a, <1>9, SMTT(30) DEF Signal
<1>10. ASSUME NEW s \in Signals, HandleStop(s) PROVE LifecycleInv'
  BY <1>a, <1>10 DEF HandleStop, Taken
<1>11. CASE HandleReload
  BY <1>a, <1>11 DEF HandleReload, Taken, MayRun
<1>12. CASE ReloadThrows
  BY <1>a, <1>12 DEF ReloadThrows, Taken
<1>13. CASE Renew
  BY <1>a, <1>13 DEF Renew
<1>14. CASE UdpReceiveFails
  BY <1>a, <1>14, Zenon DEF UdpReceiveFails
<1>15. CASE UNCHANGED <<concurrent, serviceVars>>
  BY <1>15, Zenon DEF serviceVars
<1> QED
  BY <1>1, <1>2, <1>3, <1>4, <1>5, <1>6, <1>7, <1>8, <1>9, <1>10, <1>11, <1>12, <1>13, <1>14,
     <1>15, Zenon
  DEF ServiceNext, HandleSignal

\* AcceptorServed: no acceptor is abandoned, whatever order connections, refusals, reloads
\* and restarts come in, with any number of threads.
THEOREM AcceptorCorrect == ServiceSpec => []AcceptorServed
  BY LifecycleInitially, LifecycleStep, PTL DEF ServiceSpec, LifecycleInv

\* ReloadClean: with one thread every accept that is pending after a reload has the new
\* certificate, and with any number a reload leaves the connections there are alone.
THEOREM ReloadCorrect == ServiceSpec => ReloadClean
<1>1. LifecycleInv => CertFresh
  BY DEF LifecycleInv, LifecycleTypes, OneThreadFresh, AllAre, CertFresh
<1>2. ASSUME LifecycleInv, [ServiceNext /\ UNCHANGED concurrent]_<<concurrent, serviceVars>>,
             phase = "running", signals # <<>>, Head(signals) = "USR1",
             signals' = Tail(signals), phase' # "exited"
      PROVE  UNCHANGED conn
  <2>1. signals \in Seq(Signals)
    BY <1>2, Zenon DEF LifecycleInv, LifecycleTypes
  <2>2. signals' # signals
    BY <1>2, <2>1
  <2>3. ASSUME NEW s \in Signals PROVE Append(signals, s) # Tail(signals)
    BY <1>2, <2>1, SMTT(30)
  <2>4. /\ ~(UNCHANGED <<concurrent, serviceVars>>) /\ ~StartService /\ ~StartFails
        /\ ~RunReturns /\ ~Renew
        /\ ~UdpReceiveFails /\ ~ReloadThrows
    BY <1>2, <2>2, ZenonT(30)
    DEF serviceVars, StartService, StartFails, RunReturns, Renew, UdpReceiveFails, ReloadThrows
  <2>5. \A a \in Acceptors :
            /\ ~Connect(a) /\ ~Rearm(a) /\ ~ReloadAcceptor(a)
            /\ \A c \in Connections \cup {NoCert} : ~HandleAccept(a, c)
    BY <2>2, ZenonT(30) DEF Connect, Rearm, ReloadAcceptor, HandleAccept
  <2>6. (\A c \in Connections : ~SessionEnds(c)) /\ (\A s \in Signals : ~Signal(s))
    BY <1>2, <2>2, <2>3, Zenon DEF SessionEnds, Signal
  <2>7. \A s \in Signals : ~HandleStop(s)
    BY <1>2, Zenon DEF HandleStop, Taken
  <2>8. HandleReload
    BY <1>2, <2>4, <2>5, <2>6, <2>7, Zenon DEF ServiceNext, HandleSignal
  <2> QED
    BY <2>8, Zenon DEF HandleReload
<1>3. LifecycleInv /\ LifecycleInv'
      /\ [ServiceNext /\ UNCHANGED concurrent]_<<concurrent, serviceVars>> =>
        [/\ CertFresh'
         /\ phase = "running" /\ signals # <<>> /\ Head(signals) = "USR1"
                /\ signals' = Tail(signals) /\ phase' # "exited"
            => \A c \in Connections : conn[c] # NoCert => conn'[c] = conn[c]]_serviceVars
  <2> SUFFICES ASSUME LifecycleInv, LifecycleInv',
                      [ServiceNext /\ UNCHANGED concurrent]_<<concurrent, serviceVars>>
               PROVE  /\ CertFresh'
                      /\ phase = "running" /\ signals # <<>> /\ Head(signals) = "USR1"
                             /\ signals' = Tail(signals) /\ phase' # "exited"
                         => UNCHANGED conn
    BY Zenon
  <2>1. CertFresh'
    BY <1>1, PTL
  <2> QED
    BY <1>2, <2>1, Zenon
<1> QED
  BY <1>3, LifecycleInitially, LifecycleStep, PTL DEF ServiceSpec, ReloadClean
===============================================================================
