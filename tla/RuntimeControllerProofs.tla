----------------------- MODULE RuntimeControllerProofs ------------------------
(* The promises of the runtime controller, for every set of profiles and of     *)
(* launches and any number of outstanding snapshot writes; of its routing       *)
(* safety gate, for every rollback window and threshold; and of the guard of    *)
(* the single instance, for any number of copies of the app.  Each part is      *)
(* argued about by itself, as its specification leaves the others alone.        *)
EXTENDS RuntimeController, RoutingSafety, InstanceGuard, FiniteSetTheorems, TLAPS

-------------------------------------------------------------------------------
(* Sequences.  The provers know the first facts as soon as they are stated. *)

\* The empty sequence.
LEMMA EmptySeq == ASSUME NEW S PROVE <<>> \in Seq(S) /\ Len(<<>>) = 0
  OBVIOUS

\* One sequence behind another.
LEMMA ConcatProperties ==
    ASSUME NEW S, NEW f \in Seq(S), NEW h \in Seq(S)
    PROVE  /\ f \o h \in Seq(S) /\ Len(f \o h) = Len(f) + Len(h)
           /\ \A i \in 1..Len(f) + Len(h) :
                 (f \o h)[i] = IF i <= Len(f) THEN f[i] ELSE h[i - Len(f)]
  OBVIOUS

\* What SubSeq cuts out.
LEMMA SubSeqProperties ==
    ASSUME NEW S, NEW f, NEW m \in Nat, NEW n \in Nat, \A i \in m..n : f[i] \in S
    PROVE  /\ SubSeq(f, m, n) \in Seq(S)
           /\ Len(SubSeq(f, m, n)) = IF m <= n THEN n - m + 1 ELSE 0
           /\ \A i \in 1..n - m + 1 : SubSeq(f, m, n)[i] = f[m + i - 1]
  OBVIOUS

\* What landing a write leaves of the writes under way.
RemoveAt(s, i) == SubSeq(s, 1, i - 1) \o SubSeq(s, i + 1, Len(s))

\* A sequence without its i-th element.
LEMMA RemoveAtType ==
    ASSUME NEW S, NEW s \in Seq(S), NEW i \in 1..Len(s)
    PROVE  /\ RemoveAt(s, i) \in Seq(S)
           /\ Len(RemoveAt(s, i)) = Len(s) - 1
           /\ \A j \in 1..Len(s) - 1 : RemoveAt(s, i)[j] = IF j < i THEN s[j] ELSE s[j + 1]
<1> DEFINE a == SubSeq(s, 1, i - 1)
           b == SubSeq(s, i + 1, Len(s))
<1>1. /\ a \in Seq(S) /\ Len(a) = i - 1
      /\ \A j \in 1..i - 1 : a[j] = s[j]
  BY SubSeqProperties
<1>2. /\ b \in Seq(S) /\ Len(b) = Len(s) - i
      /\ \A j \in 1..Len(s) - i : b[j] = s[i + j]
  BY SubSeqProperties
<1>3. /\ a \o b \in Seq(S) /\ Len(a \o b) = Len(a) + Len(b)
      /\ \A j \in 1..Len(a) + Len(b) :
            (a \o b)[j] = IF j <= Len(a) THEN a[j] ELSE b[j - Len(a)]
  BY <1>1, <1>2, ConcatProperties, Zenon
<1>4. RemoveAt(s, i) = a \o b
  BY Zenon DEF RemoveAt
<1> HIDE DEF a, b
<1>5. Len(a) + Len(b) = Len(s) - 1
  BY <1>1, <1>2
<1>6. ASSUME NEW j \in 1..Len(s) - 1
      PROVE  (a \o b)[j] = IF j < i THEN s[j] ELSE s[j + 1]
  <2>1. CASE j < i
    BY <1>1, <1>3, <1>5, <2>1
  <2>2. CASE ~(j < i)
    <3>1. (a \o b)[j] = b[j - Len(a)]
      BY <1>1, <1>3, <1>5, <2>2, SMTT(30)
    <3>2. j - Len(a) \in 1..Len(s) - i /\ i + (j - Len(a)) = j + 1
      BY <1>1, <2>2
    <3> QED
      BY <1>2, <2>2, <3>1, <3>2, Zenon
  <2> QED
    BY <2>1, <2>2, Zenon
<1> QED
  BY <1>3, <1>4, <1>5, <1>6, Zenon

-------------------------------------------------------------------------------
(* The runtime controller. *)

Statuses == [phase : Phases, profile : SomeProfile, rolled_back : BOOLEAN, noted : BOOLEAN]
Operations == [profile : SomeProfile,
               pc : {"idle", "config", "start", "cleanup", "smoke", "stop", "execute", "record",
                     "safety", "persist"}]
Outstanding == [by : {"op", "poll"}, content : Snapshots]

\* The types both arguments need.
RuntimeTypes ==
    /\ status \in Statuses /\ op \in Operations /\ writes \in Seq(Outstanding)
    /\ snapshot \in Snapshots /\ active_config \in SomeProfile
    /\ process \in Launches \cup {None} /\ alive \subseteq Launches
    /\ probe \in [Launches -> {"off", "asked", "open", "fooled"}]
    /\ updated \in BOOLEAN /\ session_ready \in BOOLEAN

\* Of the outstanding writes the operation awaits one at most, and that is where it waits.
OpWrites ==
    /\ \A i \in 1..Len(writes) : writes[i].by = "op" => op.pc \in {"persist", "stop"}
    /\ \A i, j \in 1..Len(writes) : writes[i].by = "op" /\ writes[j].by = "op" => i = j

\* What the controller starts with.
LEMMA DisconnectedType ==
    Disconnected \in Statuses /\ NoOp \in Operations /\ NoSnapshot \in Snapshots
  BY Zenon DEF Disconnected, NoOp, NoSnapshot, Statuses, Operations, Snapshots, Phases, SomeProfile

\* What _persistRuntimeSnapshot writes is a snapshot.
LEMMA SnapshotType ==
    ASSUME NEW st \in Statuses, NEW p, NEW c \in SomeProfile
    PROVE  SnapshotOf(st, p, c) \in Snapshots
  BY DisconnectedType DEF SnapshotOf, Snapshots, Statuses

\* The status of a failure.
LEMMA ErrorType ==
    ASSUME status \in Statuses, NEW p \in SomeProfile
    PROVE  Error(p) \in Statuses /\ Error(p).phase = "error"
  BY Zenon DEF Error, Statuses, Phases

\* The status _reconcileStatusWithSession sets.
LEMMA ReconciledType ==
    ASSUME RuntimeTypes
    PROVE  Reconciled \in Statuses
<1>1. status.profile \in SomeProfile
  BY Zenon DEF RuntimeTypes, Statuses
<1>2. Error(status.profile) \in Statuses
  BY <1>1, ErrorType, Zenon DEF RuntimeTypes
<1>3. Disconnected \in Statuses
  BY Zenon DEF Disconnected, Statuses, Phases, SomeProfile
<1>4. /\ [status EXCEPT !.phase = "connected", !.rolled_back = FALSE] \in Statuses
      /\ [status EXCEPT !.noted = TRUE] \in Statuses
      /\ status \in Statuses
  BY Zenon DEF RuntimeTypes, Statuses, Phases, Active
<1> QED
  BY <1>2, <1>3, <1>4, Zenon DEF Reconciled

\* A write that is started comes behind the outstanding ones.
LEMMA WriteAdds ==
    ASSUME RuntimeTypes, NEW by \in {"op", "poll"}, NEW st \in Statuses, Write(by, st)
    PROVE  /\ writes' \in Seq(Outstanding)
           /\ Len(writes') = Len(writes) + 1
           /\ \A i \in 1..Len(writes) : writes'[i] = writes[i]
           /\ writes'[Len(writes) + 1].by = by
<1>1. SnapshotOf(st, process, active_config) \in Snapshots
  BY SnapshotType, Zenon DEF RuntimeTypes
<1> QED
  BY <1>1 DEF Write, RuntimeTypes, Outstanding

\* An operation that has no write outstanding starts the one it goes on to await.
LEMMA OpWriteAdds ==
    ASSUME RuntimeTypes, OpWrites, op.pc \notin {"persist", "stop"},
           NEW st \in Statuses, Write("op", st), op'.pc \in {"persist", "stop"}
    PROVE  writes' \in Seq(Outstanding) /\ OpWrites'
<1>1. /\ writes' \in Seq(Outstanding) /\ Len(writes') = Len(writes) + 1
      /\ \A i \in 1..Len(writes) : writes'[i] = writes[i]
  BY WriteAdds, Zenon
<1>2. \A i \in 1..Len(writes) : writes[i].by # "op"
  BY Zenon DEF OpWrites
<1>3. Len(writes) \in Nat
  BY DEF RuntimeTypes
<1> QED
  BY <1>1, <1>2, <1>3 DEF OpWrites

\* The poll timer's write disturbs nobody's.
LEMMA PollWriteAdds ==
    ASSUME RuntimeTypes, OpWrites, NEW st \in Statuses, Write("poll", st), UNCHANGED op
    PROVE  writes' \in Seq(Outstanding) /\ OpWrites'
<1>1. /\ writes' \in Seq(Outstanding) /\ Len(writes') = Len(writes) + 1
      /\ \A i \in 1..Len(writes) : writes'[i] = writes[i]
      /\ writes'[Len(writes) + 1].by = "poll"
  BY WriteAdds, Zenon
<1>2. Len(writes) \in Nat
  BY DEF RuntimeTypes
<1>3. \A i \in 1..Len(writes') : writes'[i].by = "op" => i \in 1..Len(writes)
  BY <1>1, <1>2
<1> QED
  BY <1>1, <1>3, Zenon DEF OpWrites

\* A write that lands ends the wait of the operation exactly when it is the operation's.
LEMMA LandWriteStep ==
    ASSUME RuntimeTypes, OpWrites, NEW i \in 1..Len(writes), LandWrite(i)
    PROVE  /\ writes' \in Seq(Outstanding) /\ OpWrites' /\ op' \in Operations
           /\ snapshot' \in Snapshots
           /\ \/ op' = op
              \/ op.pc = "persist" /\ op'.pc = "idle"
              \/ op.pc = "stop" /\ op'.pc = "execute"
<1>1. /\ writes' \in Seq(Outstanding) /\ Len(writes') = Len(writes) - 1
      /\ \A j \in 1..Len(writes) - 1 : writes'[j] = IF j < i THEN writes[j] ELSE writes[j + 1]
  BY RemoveAtType, Zenon DEF LandWrite, RemoveAt, RuntimeTypes
<1>2. writes[i] \in Outstanding /\ Len(writes) \in Nat
  BY DEF RuntimeTypes
<1>3. CASE writes[i].by = "poll"
  <2>1. op' = op
    BY <1>3, Zenon DEF LandWrite
  <2> QED
    <3>1. snapshot' \in Snapshots /\ op' \in Operations
      BY <1>2, <2>1, DisconnectedType, Zenon DEF LandWrite, Outstanding, RuntimeTypes
    <3>2. \A j \in 1..Len(writes) - 1 : writes'[j].by = "op" => op'.pc \in {"persist", "stop"}
      BY <1>1, <1>2, <2>1, SMTT(30) DEF OpWrites
    <3>3. \A j, k \in 1..Len(writes) - 1 :
              writes'[j].by = "op" /\ writes'[k].by = "op" => j = k
      <4> SUFFICES ASSUME NEW j \in 1..Len(writes) - 1, NEW k \in 1..Len(writes) - 1,
                          writes'[j].by = "op", writes'[k].by = "op"
                   PROVE  j = k
        BY Zenon
      <4> DEFINE at(n) == IF n < i THEN n ELSE n + 1
      <4>1. writes[at(j)].by = "op" /\ writes[at(k)].by = "op"
        BY <1>1, Zenon
      <4>2. at(j) \in 1..Len(writes) /\ at(k) \in 1..Len(writes)
        BY <1>2
      <4>3. at(j) = at(k)
        BY <4>1, <4>2, Zenon DEF OpWrites
      <4> QED
        BY <1>2, <4>3
    <3> QED
      BY <1>1, <2>1, <3>1, <3>2, <3>3, Zenon DEF OpWrites
<1>4. CASE writes[i].by = "op"
  <2>1. op.pc \in {"persist", "stop"}
    BY <1>4, Zenon DEF OpWrites
  <2>2. /\ op' \in Operations
        /\ (op.pc = "persist" /\ op'.pc = "idle") \/ (op.pc = "stop" /\ op'.pc = "execute")
    BY <1>4, <2>1, Zenon DEF LandWrite, RuntimeTypes, Operations, NoOp, SomeProfile
  <2>3. \A j \in 1..Len(writes) - 1 : writes'[j].by # "op"
    BY <1>1, <1>2, <1>4 DEF OpWrites
  <2>4. snapshot' \in Snapshots
    BY <1>2, DisconnectedType, Zenon DEF LandWrite, Outstanding, RuntimeTypes
  <2>5. OpWrites'
    BY <1>1, <2>3, Zenon DEF OpWrites
  <2> QED
    BY <1>1, <2>2, <2>4, <2>5, Zenon
<1> QED
  BY <1>2, <1>3, <1>4, Zenon DEF Outstanding

-------------------------------------------------------------------------------
\* What both arguments rest on.
ControllerInv == RuntimeTypes /\ OpWrites

\* A first start of the app.
LEMMA ControllerInitially == RuntimeInit => ControllerInv
<1> SUFFICES ASSUME RuntimeInit PROVE ControllerInv
  BY Zenon
<1>1. status \in Statuses /\ op \in Operations /\ snapshot \in Snapshots
  BY DisconnectedType, Zenon DEF RuntimeInit
<1>2. writes = <<>>
  BY Zenon DEF RuntimeInit
<1>3. /\ active_config \in SomeProfile /\ process \in Launches \cup {None}
      /\ alive \subseteq Launches
      /\ probe \in [Launches -> {"off", "asked", "open", "fooled"}]
      /\ updated \in BOOLEAN /\ session_ready \in BOOLEAN
  BY Zenon DEF RuntimeInit, SomeProfile
<1> QED
  BY <1>1, <1>2, <1>3 DEF ControllerInv, RuntimeTypes, OpWrites

\* Every step keeps the types and the one awaited write.
LEMMA ControllerStep == ControllerInv /\ [RuntimeNext]_vars => ControllerInv'
<1> SUFFICES ASSUME ControllerInv, [RuntimeNext]_vars PROVE ControllerInv'
  BY Zenon
<1> USE ControllerAssumption DEF ControllerInv
<1>a. ASSUME NEW p \in SomeProfile, NEW st \in Statuses, Persist(p, st),
             op.pc \notin {"persist", "stop"}
      PROVE  op' \in Operations /\ writes' \in Seq(Outstanding) /\ OpWrites'
  <2>1. op' \in Operations /\ op'.pc = "persist"
    BY <1>a, Zenon DEF Persist, Operations
  <2> QED
    BY <1>a, <2>1, OpWriteAdds, Zenon DEF Persist
<1>c. ASSUME NEW p \in SomeProfile, Record(p, "record") \/ Record(p, "safety"),
             op.pc \notin {"persist", "stop"}
      PROVE  op' \in Operations /\ writes' \in Seq(Outstanding) /\ OpWrites'
  <2>1. op' \in Operations /\ UNCHANGED writes
    BY <1>c, SMTT(30) DEF Record, Operations, saveVars
  <2> QED
    BY <1>c, <2>1, Zenon DEF RuntimeTypes, OpWrites
<1>b. op.profile \in SomeProfile /\ status.profile \in SomeProfile
  BY Zenon DEF RuntimeTypes, Operations, Statuses
<1>1. ASSUME NEW p \in Profiles, ConnectFails(p) PROVE ControllerInv'
  <2>1. p \in SomeProfile
    BY Zenon DEF SomeProfile
  <2>2. status' \in Statuses /\ (Record(p, "record") \/ Record(p, "safety"))
    BY <1>1, <2>1, ErrorType, Zenon DEF ConnectFails, RuntimeTypes
  <2>3. op.pc \notin {"persist", "stop"}
    BY <1>1, Zenon DEF ConnectFails
  <2>4. op' \in Operations /\ writes' \in Seq(Outstanding) /\ OpWrites'
    BY <1>c, <2>1, <2>2, <2>3, Zenon
  <2> QED
    BY <1>1, <2>2, <2>4, Zenon DEF ConnectFails, RuntimeTypes, sessionVars, machineVars
<1>2. ASSUME NEW p \in Profiles, Connect(p) PROVE ControllerInv'
  BY <1>2, Zenon DEF Connect, RuntimeTypes, OpWrites, Operations, SomeProfile, machineVars, saveVars
<1>3. CASE ConfigWritten
  BY <1>3, Zenon DEF ConfigWritten, RuntimeTypes, OpWrites, Operations, machineVars, saveVars
<1>4. CASE ProcessStarted
  <2>1. PICK l \in FreeLaunches :
            alive' = alive \cup {l} /\ process' = l /\ probe' = [probe EXCEPT ![l] = "asked"]
    BY <1>4, Zenon DEF ProcessStarted
  <2>2. l \in Launches
    BY Zenon DEF FreeLaunches
  <2>3. status' \in Statuses
    BY <1>4, <1>b, Zenon DEF ProcessStarted, RuntimeTypes, Statuses, Phases, Active
  <2>4. op' \in Operations /\ op.pc = "start"
    BY <1>4, Zenon DEF ProcessStarted, RuntimeTypes, Operations
  <2> QED
    BY <1>4, <2>1, <2>2, <2>3, <2>4, Zenon DEF ProcessStarted, RuntimeTypes, OpWrites, saveVars
<1>5. CASE LaunchFails
  BY <1>5, ZenonT(30) DEF LaunchFails, RuntimeTypes, OpWrites, Operations, machineVars, saveVars
<1>6. CASE LaunchCleanedUp
  <2>1. status' \in Statuses
    BY <1>6, <1>b, ErrorType, Zenon DEF LaunchCleanedUp, RuntimeTypes
  <2>2. op' \in Operations /\ writes' \in Seq(Outstanding) /\ OpWrites'
    BY <1>6, <1>b, <1>c, Zenon DEF LaunchCleanedUp
  <2> QED
    BY <1>6, <2>1, <2>2, Zenon DEF LaunchCleanedUp, DeletesConfig, RuntimeTypes, machineVars
<1>7. CASE SmokePasses
  <2>1. op' \in Operations /\ writes' \in Seq(Outstanding) /\ OpWrites'
    BY <1>7, <1>a, <1>b, Zenon DEF SmokePasses, RuntimeTypes
  <2> QED
    BY <1>7, <2>1, Zenon DEF SmokePasses, RuntimeTypes, sessionVars, machineVars
<1>8. CASE SmokeFails
  <2>1. status' \in Statuses
    BY <1>8, <1>b, ErrorType, Zenon DEF SmokeFails, RuntimeTypes, Statuses
  <2>2. op' \in Operations /\ writes' \in Seq(Outstanding) /\ OpWrites'
    BY <1>8, <1>b, <1>c, Zenon DEF SmokeFails
  <2> QED
    BY <1>8, <2>1, <2>2, Zenon DEF SmokeFails, RuntimeTypes, sessionVars, machineVars
<1>9. CASE Disconnect
  <2>1. status' \in Statuses /\ Write("op", status')
    BY <1>9, Zenon DEF Disconnect, RuntimeTypes, Statuses, Phases, Active
  <2>2. op' \in Operations /\ op'.pc = "stop" /\ op.pc = "idle"
    BY <1>9, <1>b, Zenon DEF Disconnect, Operations
  <2>3. writes' \in Seq(Outstanding) /\ OpWrites'
    BY <2>1, <2>2, OpWriteAdds, Zenon
  <2> QED
    BY <1>9, <2>1, <2>2, <2>3, Zenon DEF Disconnect, RuntimeTypes, sessionVars, machineVars
<1>10. CASE DisconnectExecute
  <2>1. status' \in Statuses
    <3>1. CASE status' = Error(op.profile)
      BY <3>1, <1>b, ErrorType, Zenon DEF RuntimeTypes
    <3>2. CASE status' = [status EXCEPT !.phase = "disconnecting", !.profile = op.profile,
                                        !.rolled_back = FALSE, !.noted = TRUE]
      BY <3>2, <1>b, Zenon DEF RuntimeTypes, Statuses, Phases, Active
    <3> QED
      BY <1>10, <3>1, <3>2, Zenon DEF DisconnectExecute
  <2>2. op' \in Operations /\ writes' \in Seq(Outstanding) /\ OpWrites'
    <3>1. op.pc = "execute" /\ (Persist(op.profile, status') \/ Record(op.profile, "record"))
      BY <1>10, Zenon DEF DisconnectExecute
    <3> QED
      BY <3>1, <1>a, <1>b, <1>c, <2>1, Zenon
  <2> QED
    BY <1>10, <2>1, <2>2, Zenon DEF DisconnectExecute, RuntimeTypes, machineVars
<1>11. ASSUME NEW i \in 1..Len(writes), LandWrite(i) PROVE ControllerInv'
  <2>1. /\ writes' \in Seq(Outstanding) /\ OpWrites' /\ op' \in Operations
        /\ snapshot' \in Snapshots
    BY <1>11, LandWriteStep, Zenon
  <2> QED
    BY <1>11, <2>1, Zenon DEF LandWrite, RuntimeTypes, sessionVars, machineVars
<1>12. CASE Poll
  <2>1. status' \in Statuses
    BY <1>12, ReconciledType, Zenon DEF Poll
  <2>2. writes' \in Seq(Outstanding) /\ OpWrites'
    <3>1. CASE UNCHANGED writes
      BY <1>12, <3>1, Zenon DEF Poll, RuntimeTypes, OpWrites
    <3>2. CASE Write("poll", status')
      BY <1>12, <2>1, <3>2, PollWriteAdds, Zenon DEF Poll
    <3> QED
      BY <1>12, <3>1, <3>2, Zenon DEF Poll, saveVars
  <2> QED
    BY <1>12, <2>1, <2>2, Zenon DEF Poll, RuntimeTypes, machineVars
<1>13. ASSUME NEW code, HandleExit(code) PROVE ControllerInv'
  BY <1>13, Zenon DEF HandleExit, RuntimeTypes, OpWrites, SomeProfile, machineVars
<1>14. ASSUME NEW l \in Launches, ProcessListens(l) PROVE ControllerInv'
  BY <1>14, Zenon DEF ProcessListens, RuntimeTypes, OpWrites, sessionVars, saveVars
<1>15. ASSUME NEW l \in Launches, ProcessExits(l) PROVE ControllerInv'
  BY <1>15, Zenon DEF ProcessExits, RuntimeTypes, OpWrites, sessionVars, saveVars
<1>16. ASSUME NEW l \in Launches, CleanupConfig(l) PROVE ControllerInv'
  BY <1>16, Zenon DEF CleanupConfig, DeletesConfig, RuntimeTypes, OpWrites, saveVars
<1>17. ASSUME NEW l \in Launches, ProbeAnswered(l) \/ ProbeStops(l) PROVE ControllerInv'
  BY <1>17, Zenon DEF ProbeAnswered, ProbeStops, RuntimeTypes, OpWrites, sessionVars, machineVars, saveVars
<1>18. ASSUME NEW l \in Launches, ProbeDelivered(l) PROVE ControllerInv'
  BY <1>18, Zenon DEF ProbeDelivered, RuntimeTypes, OpWrites, machineVars, saveVars
<1>19. CASE AppRestarts
  <2>1. PICK s \in SnapshotsLeft :
            \/ /\ status' = [Disconnected EXCEPT !.phase = "error", !.profile = s.profile]
               /\ snapshot' \in {SnapshotOf(status', None, None), s, NoSnapshot}
            \/ status' = Disconnected /\ snapshot' = s
    BY <1>19, Zenon DEF AppRestarts
  <2>2. s \in Snapshots
    <3>1. CASE s = snapshot \/ s = NoSnapshot
      BY <3>1, DisconnectedType, Zenon DEF RuntimeTypes
    <3>2. CASE \E i \in 1..Len(writes) : s = writes[i].content
      <4>1. PICK i \in 1..Len(writes) : s = writes[i].content
        BY <3>2, Zenon
      <4>2. writes[i] \in Outstanding
        BY DEF RuntimeTypes
      <4> QED
        BY <4>1, <4>2, Zenon DEF Outstanding
    <3> QED
      BY <3>1, <3>2, Zenon DEF SnapshotsLeft
  <2>3. status' \in Statuses
    <3>1. s.profile \in SomeProfile
      BY <2>2, Zenon DEF Snapshots
    <3>2. [Disconnected EXCEPT !.phase = "error", !.profile = s.profile] \in Statuses
      BY <3>1, DisconnectedType, Zenon DEF Statuses, Phases
    <3> QED
      BY <2>1, <3>2, DisconnectedType, Zenon
  <2>4. snapshot' \in Snapshots
    <3>1. SnapshotOf(status', None, None) \in Snapshots
      BY <2>3, SnapshotType, Zenon DEF SomeProfile
    <3> QED
      BY <2>1, <2>2, <3>1, DisconnectedType, Zenon
  <2>5. op' \in Operations /\ writes' = <<>>
    BY <1>19, DisconnectedType, Zenon DEF AppRestarts
  <2>6. /\ active_config' = None /\ process' = None /\ UNCHANGED alive
        /\ probe' = [l \in Launches |-> "off"] /\ updated' = FALSE /\ session_ready' = FALSE
    BY <1>19, Zenon DEF AppRestarts
  <2>7. writes' \in Seq(Outstanding) /\ OpWrites'
    BY <2>5, SMTT(30) DEF OpWrites
  <2>8. /\ active_config' \in SomeProfile /\ process' \in Launches \cup {None}
        /\ alive' \subseteq Launches
        /\ probe' \in [Launches -> {"off", "asked", "open", "fooled"}]
        /\ updated' \in BOOLEAN /\ session_ready' \in BOOLEAN
    BY <2>6, Zenon DEF RuntimeTypes, SomeProfile
  <2> QED
    BY <2>3, <2>4, <2>5, <2>7, <2>8, Zenon DEF RuntimeTypes
<1>20. CASE UNCHANGED vars
  BY <1>20, Zenon DEF vars, machineVars, sessionVars, saveVars, RuntimeTypes, OpWrites
<1>21. CASE FailureRecorded
  <2>1. op' \in Operations /\ writes' \in Seq(Outstanding) /\ OpWrites'
    BY <1>21, <1>a, <1>b, Zenon DEF FailureRecorded, RuntimeTypes
  <2> QED
    BY <1>21, <2>1, Zenon DEF FailureRecorded, RuntimeTypes, sessionVars, machineVars
<1>22. CASE SafetyStateThrows
  <2>1. op' \in Operations /\ UNCHANGED writes /\ op.pc \notin {"persist", "stop"}
    BY <1>22, DisconnectedType, Zenon DEF SafetyStateThrows
  <2>2. OpWrites'
    BY <2>1, Zenon DEF OpWrites
  <2> QED
    BY <1>22, <2>1, <2>2, Zenon DEF SafetyStateThrows, RuntimeTypes, sessionVars, machineVars
<1> QED
  BY <1>1, <1>2, <1>3, <1>4, <1>5, <1>6, <1>7, <1>8, <1>9, <1>10, <1>11, <1>12, <1>13, <1>14,
     <1>15, <1>16, <1>17, <1>18, <1>19, <1>20, <1>21, <1>22, Zenon
  DEF RuntimeNext

-------------------------------------------------------------------------------
\* What makes StatusSettled inductive: between the two steps of a disconnect the status may
\* still claim a session that is gone, and nowhere else.
Settled ==
    process = None /\ ~updated /\ op.pc \notin {"stop", "execute"} => status.phase \notin Active

\* A session that ends is always followed by a poll.
LEMMA SettledStep == ControllerInv /\ Settled /\ [RuntimeNext]_vars => Settled'
<1> SUFFICES ASSUME ControllerInv, Settled, [RuntimeNext]_vars PROVE Settled'
  BY Zenon
<1> USE ControllerAssumption DEF Settled, Active
<1>a. status \in Statuses /\ op \in Operations /\ op.profile \in SomeProfile
  BY Zenon DEF ControllerInv, RuntimeTypes, Operations
<1>1. ASSUME NEW p \in Profiles, ConnectFails(p) PROVE Settled'
  BY <1>1, <1>a, ErrorType, Zenon DEF ConnectFails, SomeProfile
<1>2. ASSUME NEW p \in Profiles, Connect(p) PROVE Settled'
  BY <1>2, Zenon DEF Connect
<1>3. CASE ConfigWritten
  BY <1>3, Zenon DEF ConfigWritten
<1>4. CASE ProcessStarted
  BY <1>4, Zenon DEF ProcessStarted
<1>5. CASE LaunchFails
  BY <1>5, Zenon DEF LaunchFails
<1>6. CASE LaunchCleanedUp
  BY <1>6, <1>a, ErrorType, Zenon DEF LaunchCleanedUp, DeletesConfig
<1>7. CASE SmokePasses
  BY <1>7, Zenon DEF SmokePasses, sessionVars
<1>8. CASE SmokeFails
  <2>1. status'.phase = "error"
    BY <1>8, <1>a, ErrorType, Zenon DEF SmokeFails, Statuses
  <2> QED
    BY <2>1, Zenon
<1>9. CASE Disconnect
  BY <1>9, Zenon DEF Disconnect
<1>10. CASE DisconnectExecute
  BY <1>10, <1>a, ErrorType, Zenon DEF DisconnectExecute
<1>11. ASSUME NEW i \in 1..Len(writes), LandWrite(i) PROVE Settled'
  <2>1. \/ op' = op
        \/ op.pc = "persist" /\ op'.pc = "idle"
        \/ op.pc = "stop" /\ op'.pc = "execute"
    BY <1>11, LandWriteStep, Zenon DEF ControllerInv
  <2>2. UNCHANGED <<process, updated, status>>
    BY <1>11, Zenon DEF LandWrite, sessionVars
  <2> QED
    BY <2>1, <2>2, Zenon
<1>12. CASE Poll
  <2>1. ASSUME process = None PROVE Reconciled.phase \notin Active
    BY <1>a, <2>1, ErrorType, Zenon DEF Reconciled, ClaimsSession, Disconnected, Statuses, SomeProfile
  <2> QED
    BY <1>12, <2>1, Zenon DEF Poll
<1>13. ASSUME NEW code, HandleExit(code) PROVE Settled'
  BY <1>13, Zenon DEF HandleExit
<1>14. ASSUME NEW l \in Launches, ProcessListens(l) \/ ProcessExits(l) PROVE Settled'
  BY <1>14, Zenon DEF ProcessListens, ProcessExits, sessionVars
<1>15. ASSUME NEW l \in Launches, CleanupConfig(l) PROVE Settled'
  BY <1>15, SMTT(30) DEF CleanupConfig, DeletesConfig
<1>16. ASSUME NEW l \in Launches, ProbeAnswered(l) \/ ProbeStops(l) PROVE Settled'
  BY <1>16, Zenon DEF ProbeAnswered, ProbeStops, sessionVars
<1>17. ASSUME NEW l \in Launches, ProbeDelivered(l) PROVE Settled'
  BY <1>17, Zenon DEF ProbeDelivered
<1>18. CASE AppRestarts
  <2>1. PICK x : \/ status' = [Disconnected EXCEPT !.phase = "error", !.profile = x]
                 \/ status' = Disconnected
    BY <1>18, Zenon DEF AppRestarts
  <2>2. status'.phase \in {"error", "disconnected"}
    <3>1. [Disconnected EXCEPT !.phase = "error", !.profile = x].phase = "error"
      BY DisconnectedType, Zenon DEF Statuses
    <3>2. Disconnected.phase = "disconnected"
      BY Zenon DEF Disconnected
    <3> QED
      BY <2>1, <3>1, <3>2, Zenon
  <2> QED
    BY <2>2, Zenon
<1>19. CASE UNCHANGED vars
  BY <1>19, Zenon DEF vars, sessionVars
<1>20. CASE FailureRecorded
  BY <1>20, Zenon DEF FailureRecorded, Persist, sessionVars
<1>21. CASE SafetyStateThrows
  BY <1>21, Zenon DEF SafetyStateThrows, sessionVars
<1> QED
  BY <1>1, <1>2, <1>3, <1>4, <1>5, <1>6, <1>7, <1>8, <1>9, <1>10, <1>11, <1>12, <1>13, <1>14,
     <1>15, <1>16, <1>17, <1>18, <1>19, <1>20, <1>21, Zenon
  DEF RuntimeNext

\* StatusSettled: whatever the order of connects, disconnects, exits, probes, polls, landing
\* writes and restarts, a status that claims a session without a process is only seen while
\* an operation or a poll is still to come.
THEOREM StatusCorrect == RuntimeSpec => []StatusSettled
<1>1. RuntimeInit => Settled
  BY DEF RuntimeInit, Settled, Disconnected, Active
<1>2. Settled => StatusSettled
  BY SMTT(30) DEF Settled, StatusSettled, NoOp
<1> QED
  BY <1>1, <1>2, ControllerInitially, ControllerStep, SettledStep, PTL DEF RuntimeSpec

-------------------------------------------------------------------------------
\* What makes ConnectedIsReady inductive: a launch starts only without a session, "connected"
\* is set only on a ready session and survives only with it, and an answer that a probe has
\* yet to deliver came from its own process while that listened.
ReadyInv ==
    /\ op.pc \in {"config", "start"} => process = None
    /\ status.phase = "connected" /\ process # None => session_ready
    /\ session_ready /\ process \in alive => process \in listening \/ mistaken
    /\ \A l \in Launches : probe[l] = "open" /\ l \in alive => l \in listening

\* Readiness is reset with every launch and never outlives the process.
LEMMA ReadyStep == ControllerInv /\ ReadyInv /\ [RuntimeNext]_vars => ReadyInv'
<1> SUFFICES ASSUME ControllerInv, ReadyInv, [RuntimeNext]_vars PROVE ReadyInv'
  BY Zenon
<1> USE ControllerAssumption DEF ReadyInv
<1>a. /\ status \in Statuses /\ op \in Operations /\ op.profile \in SomeProfile
      /\ process \in Launches \cup {None} /\ alive \subseteq Launches
      /\ probe \in [Launches -> {"off", "asked", "open", "fooled"}]
  BY Zenon DEF ControllerInv, RuntimeTypes, Operations
<1>1. ASSUME NEW p \in Profiles, ConnectFails(p) PROVE ReadyInv'
  BY <1>1, <1>a, ErrorType, SMTT(30)
  DEF ConnectFails, Record, SomeProfile, sessionVars, machineVars, historyVars
<1>2. ASSUME NEW p \in Profiles, Connect(p) PROVE ReadyInv'
  BY <1>2, Zenon DEF Connect, PlanAccepted, machineVars, historyVars
<1>3. CASE ConfigWritten
  BY <1>3, <1>a, Zenon DEF ConfigWritten, Operations, machineVars
<1>4. CASE ProcessStarted
  <2>1. PICK l \in FreeLaunches :
            alive' = alive \cup {l} /\ process' = l /\ probe' = [probe EXCEPT ![l] = "asked"]
    BY <1>4, Zenon DEF ProcessStarted
  <2>2. l \in Launches
    BY Zenon DEF FreeLaunches
  <2>3. session_ready' = FALSE /\ UNCHANGED listening
    BY <1>4, Zenon DEF ProcessStarted
  <2>4. status'.phase = "connecting" /\ op'.pc = "smoke"
    BY <1>4, <1>a, Zenon DEF ProcessStarted, Statuses, Operations
  <2> QED
    BY <1>a, <2>1, <2>2, <2>3, <2>4, Zenon
<1>5. CASE LaunchFails
  BY <1>5, <1>a, Zenon DEF LaunchFails, Operations, machineVars, historyVars
<1>6. CASE LaunchCleanedUp
  BY <1>6, <1>a, ErrorType, Zenon DEF LaunchCleanedUp, Record, machineVars
<1>7. CASE SmokePasses
  BY <1>7, Zenon DEF SmokePasses, Persist, sessionVars, machineVars, historyVars
<1>8. CASE SmokeFails
  <2>1. status'.phase = "error"
    BY <1>8, <1>a, ErrorType, Zenon DEF SmokeFails, Statuses
  <2> QED
    BY <1>8, <2>1, Zenon DEF SmokeFails, Record, sessionVars, machineVars, historyVars
<1>9. CASE Disconnect
  BY <1>9, <1>a, Zenon DEF Disconnect, Statuses, sessionVars, machineVars, historyVars
<1>10. CASE DisconnectExecute
  <2>1. status'.phase \in {"disconnecting", "error"}
    BY <1>10, <1>a, ErrorType, Zenon DEF DisconnectExecute, Statuses
  <2> QED
    BY <1>10, <2>1, SMTT(30) DEF DisconnectExecute, Persist, Record, machineVars, historyVars
<1>11. ASSUME NEW i \in 1..Len(writes), LandWrite(i) PROVE ReadyInv'
  <2>1. \/ op' = op
        \/ op.pc = "persist" /\ op'.pc = "idle"
        \/ op.pc = "stop" /\ op'.pc = "execute"
    BY <1>11, LandWriteStep, Zenon DEF ControllerInv
  <2>2. UNCHANGED <<process, session_ready, status, alive, listening, probe, mistaken>>
    BY <1>11, Zenon DEF LandWrite, sessionVars, machineVars, historyVars
  <2> QED
    BY <2>1, <2>2, Zenon
<1>12. CASE Poll
  <2>1. Reconciled.phase = "connected" /\ process # None => status.phase = "connected" \/ session_ready
    BY <1>a, ErrorType, Zenon DEF Reconciled, Ready, Disconnected, Statuses, SomeProfile
  <2> QED
    BY <1>12, <2>1, Zenon DEF Poll, machineVars, historyVars
<1>13. ASSUME NEW code, HandleExit(code) PROVE ReadyInv'
  BY <1>13, <1>a, Zenon DEF HandleExit, machineVars
<1>14. ASSUME NEW l \in Launches, ProcessListens(l) PROVE ReadyInv'
  BY <1>14, <1>a, Zenon DEF ProcessListens, sessionVars, historyVars
<1>15. ASSUME NEW l \in Launches, ProcessExits(l) PROVE ReadyInv'
  BY <1>15, <1>a, Zenon DEF ProcessExits, sessionVars, historyVars
<1>16. ASSUME NEW l \in Launches, CleanupConfig(l) PROVE ReadyInv'
  BY <1>16, Zenon DEF CleanupConfig
<1>17. ASSUME NEW l \in Launches, ProbeAnswered(l) \/ ProbeStops(l) PROVE ReadyInv'
  BY <1>17, <1>a, SMTT(30) DEF ProbeAnswered, ProbeStops, sessionVars, machineVars, historyVars
<1>18. ASSUME NEW l \in Launches, ProbeDelivered(l) PROVE ReadyInv'
  BY <1>18, <1>a, Zenon DEF ProbeDelivered, machineVars
<1>19. CASE AppRestarts
  <2>1. /\ process' = None /\ session_ready' = FALSE /\ op' = NoOp
        /\ probe' = [l \in Launches |-> "off"]
    BY <1>19, Zenon DEF AppRestarts
  <2> QED
    BY <2>1, Zenon DEF NoOp
<1>20. CASE UNCHANGED vars
  BY <1>20, Zenon DEF vars, sessionVars, machineVars, historyVars
<1>21. CASE FailureRecorded
  BY <1>21, Zenon DEF FailureRecorded, Persist, sessionVars, machineVars, historyVars
<1>22. CASE SafetyStateThrows
  BY <1>22, Zenon DEF SafetyStateThrows, NoOp, sessionVars, machineVars, historyVars
<1> QED
  BY <1>1, <1>2, <1>3, <1>4, <1>5, <1>6, <1>7, <1>8, <1>9, <1>10, <1>11, <1>12, <1>13, <1>14,
     <1>15, <1>16, <1>17, <1>18, <1>19, <1>20, <1>21, <1>22, Zenon
  DEF RuntimeNext

\* ConnectedIsReady: for any number of launches, "connected" on a live process means that it
\* listens, unless the probe of another launch or another process's port answered.
THEOREM ReadyCorrect == RuntimeSpec => []ConnectedIsReady
<1>1. RuntimeInit => ReadyInv
  BY Zenon DEF RuntimeInit, ReadyInv, NoOp
<1>2. ControllerInv /\ ReadyInv => ConnectedIsReady
  BY ControllerAssumption, Zenon DEF ControllerInv, RuntimeTypes, ReadyInv, ConnectedIsReady
<1> QED
  BY <1>1, <1>2, ControllerInitially, ControllerStep, ReadyStep, PTL DEF RuntimeSpec

-------------------------------------------------------------------------------
\* What the snapshot on disk says once the write under way, if any, has landed.
Latest == IF writes = <<>> THEN snapshot ELSE writes[1].content

\* An operation that has still to write what it did.
Pending == op.pc \in {"smoke", "record", "safety"}

\* What makes SessionRecovered hold: as long as nothing makes the snapshot doubtful, the last
\* write tells of the process that runs, and of no session when the status claims none.  Only
\* an operation that has still to persist may be ahead of it.
SnapshotInv ==
    /\ ~doubtful => Len(writes) <= 1
    /\ ~doubtful /\ ~Pending /\ process # None =>
          Latest.running /\ Latest.config = active_config
    /\ ~doubtful /\ ~Pending /\ process = None /\ status.phase \notin Active =>
          ~Latest.running /\ ~Latest.active

\* A write that follows alone is the last word.
LEMMA LatestWritten ==
    ASSUME RuntimeTypes, NEW by \in {"op", "poll"}, NEW st \in Statuses, Write(by, st), ~doubtful'
    PROVE  /\ Len(writes') <= 1
           /\ process # None => Latest'.running /\ Latest'.config = active_config
           /\ process = None /\ st.phase \notin Active => ~Latest'.running /\ ~Latest'.active
<1> DEFINE w == [by |-> by, content |-> SnapshotOf(st, process, active_config)]
<1>1. writes = <<>> /\ writes' = Append(writes, w)
  BY Zenon DEF Write
<1> HIDE DEF w
<1>2. Len(writes') = 1 /\ writes'[1] = w
  BY <1>1
<1>3. writes' # <<>>
  BY <1>2
<1>4. Latest' = w.content
  BY <1>2, <1>3, Zenon DEF Latest
<1>5. w.content = SnapshotOf(st, process, active_config)
  BY Zenon DEF w
<1>6. CASE process # None
  <2>1. Latest' = [active |-> st.phase \in Active, profile |-> st.profile,
                   running |-> TRUE, config |-> active_config]
    BY <1>4, <1>5, <1>6, Zenon DEF SnapshotOf
  <2>2. Latest'.running = TRUE /\ Latest'.config = active_config
    BY <2>1, Zenon
  <2> QED
    BY <1>2, <1>6, <2>2, SMTT(30)
<1>7. CASE process = None
  BY <1>2, <1>4, <1>5, <1>7 DEF SnapshotOf, NoSnapshot
<1> QED
  BY <1>6, <1>7, Zenon

\* A write that lands alone changes nothing of it.
LEMMA LatestLands ==
    ASSUME RuntimeTypes, NEW i \in 1..Len(writes), LandWrite(i), Len(writes) <= 1,
           ~doubtful'
    PROVE  Len(writes') <= 1 /\ Latest' = Latest
<1>a. writes \in Seq(Outstanding) /\ Len(writes) \in Nat
  BY DEF RuntimeTypes
<1> DEFINE n == Len(writes)
<1>b1. n \in Nat /\ i \in 1..n /\ n <= 1
  BY <1>a, Zenon
<1> HIDE DEF n
<1>b2. n = 1 /\ i = 1
  BY <1>b1
<1>b. Len(writes) = 1 /\ i = 1
  BY <1>b2, Zenon DEF n
<1>c. writes # <<>>
  BY <1>b
<1>1. Len(writes) = 1 /\ i = 1 /\ writes # <<>>
  BY <1>b, <1>c, Zenon
<1>2. /\ writes' \in Seq(Outstanding) /\ Len(writes') = Len(writes) - 1
  BY RemoveAtType, Zenon DEF LandWrite, RemoveAt, RuntimeTypes
<1>3. writes' = <<>>
  BY <1>1, <1>2, EmptySeq, SMTT(30)
<1>4. snapshot' = writes[1].content
  BY <1>1, Zenon DEF LandWrite
<1> QED
  BY <1>1, <1>2, <1>3, <1>4, SMTT(30) DEF Latest

\* Every step of the controller, the process, the probe and the timer keeps the snapshot true.
LEMMA SnapshotStep == ControllerInv /\ SnapshotInv /\ [RuntimeNext]_vars => SnapshotInv'
<1> SUFFICES ASSUME ControllerInv, SnapshotInv, [RuntimeNext]_vars PROVE SnapshotInv'
  BY Zenon
<1> USE ControllerAssumption
<1>a. /\ RuntimeTypes /\ status \in Statuses /\ op \in Operations
      /\ op.profile \in SomeProfile /\ status.profile \in SomeProfile
      /\ process \in Launches \cup {None} /\ ControllerInv'
  BY ControllerStep, Zenon DEF ControllerInv, RuntimeTypes, Operations, Statuses
<1>s. status' \in Statuses
  BY <1>a, Zenon DEF ControllerInv, RuntimeTypes
\* steps that start no write, and steps that start one
<1>quiet. ASSUME UNCHANGED <<writes, snapshot, doubtful>>,
                 \/ Pending'
                 \/ /\ ~Pending /\ UNCHANGED <<process, status>>
                    /\ process # None => UNCHANGED active_config
          PROVE  SnapshotInv'
  <2>1. Latest' = Latest
    BY <1>quiet, Zenon DEF Latest
  <2> QED
    BY <1>quiet, <2>1, Zenon DEF SnapshotInv
<1>write. ASSUME NEW by \in {"op", "poll"}, Write(by, status'), UNCHANGED <<process, active_config>>
          PROVE  SnapshotInv'
  <2>1. CASE doubtful'
    BY <2>1, Zenon DEF SnapshotInv
  <2>2. CASE ~doubtful'
    <3>1. /\ Len(writes') <= 1
          /\ process # None => Latest'.running /\ Latest'.config = active_config
          /\ process = None /\ status'.phase \notin Active => ~Latest'.running /\ ~Latest'.active
      BY <1>a, <1>s, <1>write, <2>2, LatestWritten, Zenon
    <3> QED
      BY <1>write, <3>1, Zenon DEF SnapshotInv
  <2> QED
    BY <2>1, <2>2, Zenon
<1>1. ASSUME NEW p \in Profiles, ConnectFails(p) PROVE SnapshotInv'
  <2>1. Pending' /\ UNCHANGED <<writes, snapshot, doubtful>>
    BY <1>1, SMTT(30) DEF ConnectFails, Record, Pending, saveVars
  <2> QED
    BY <2>1, <1>quiet, Zenon
<1>2. ASSUME NEW p \in Profiles, Connect(p) PROVE SnapshotInv'
  <2>1. /\ ~Pending /\ process = None
        /\ UNCHANGED <<writes, snapshot, doubtful, process, status>>
    BY <1>2, Zenon DEF Connect, PlanAccepted, Pending, saveVars
  <2> QED
    BY <2>1, <1>quiet, Zenon
<1>3. CASE ConfigWritten
  <2>1. /\ ~Pending
        /\ UNCHANGED <<writes, snapshot, doubtful, process, active_config, status>>
    BY <1>3, Zenon DEF ConfigWritten, Pending, saveVars
  <2> QED
    BY <2>1, <1>quiet, Zenon
<1>4. CASE ProcessStarted
  <2>1. op'.pc = "smoke" /\ UNCHANGED <<writes, snapshot, doubtful>>
    BY <1>4, <1>a, Zenon DEF ProcessStarted, Operations, saveVars
  <2> QED
    BY <2>1, <1>quiet, Zenon DEF Pending
<1>5. CASE LaunchFails
  <2>1. /\ ~Pending
        /\ UNCHANGED <<writes, snapshot, doubtful, process, active_config, status>>
    BY <1>5, Zenon DEF LaunchFails, Pending, saveVars
  <2> QED
    BY <2>1, <1>quiet, Zenon
<1>6. CASE LaunchCleanedUp \/ SmokeFails
  <2>1. Pending' /\ UNCHANGED <<writes, snapshot, doubtful>>
    BY <1>6, SMTT(30) DEF LaunchCleanedUp, SmokeFails, Record, Pending, saveVars
  <2> QED
    BY <2>1, <1>quiet, Zenon
<1>7. CASE SmokePasses \/ FailureRecorded
  <2>1. Write("op", status') /\ UNCHANGED <<process, active_config>>
    BY <1>7, Zenon DEF SmokePasses, FailureRecorded, Persist, sessionVars, Write
  <2> QED
    BY <2>1, <1>write, Zenon
<1>8. CASE SafetyStateThrows
  BY <1>8, Zenon DEF SafetyStateThrows, SnapshotInv
<1>9. CASE Disconnect
  <2>1. Write("op", status') /\ UNCHANGED <<process, active_config>>
    BY <1>9, Zenon DEF Disconnect, sessionVars
  <2> QED
    BY <2>1, <1>write, Zenon
<1>10. CASE DisconnectExecute
  <2>1. UNCHANGED <<process, active_config, snapshot>>
    BY <1>10, Zenon DEF DisconnectExecute
  <2>2. CASE Write("op", status')
    BY <2>1, <2>2, <1>write, Zenon
  <2>3. CASE Record(op.profile, "record")
    <3>1. Pending' /\ UNCHANGED <<writes, doubtful>>
      BY <2>3, Zenon DEF Record, Pending, saveVars
    <3> QED
      BY <2>1, <3>1, <1>quiet, Zenon
  <2> QED
    BY <1>10, <2>2, <2>3, Zenon DEF DisconnectExecute, Persist
<1>11. ASSUME NEW i \in 1..Len(writes), LandWrite(i) PROVE SnapshotInv'
  <2>1. \/ op' = op
        \/ op.pc = "persist" /\ op'.pc = "idle"
        \/ op.pc = "stop" /\ op'.pc = "execute"
    BY <1>11, LandWriteStep, Zenon DEF ControllerInv
  <2>2. ~Pending' => ~Pending
    BY <2>1, Zenon DEF Pending
  <2>3. UNCHANGED <<process, active_config, status>> /\ (~doubtful' => ~doubtful)
    BY <1>11, SMTT(30) DEF LandWrite, sessionVars
  <2>4. ASSUME ~doubtful' PROVE Len(writes') <= 1 /\ Latest' = Latest
    BY <1>11, <1>a, <2>3, <2>4, LatestLands, Zenon DEF SnapshotInv
  <2> QED
    BY <2>2, <2>3, <2>4, Zenon DEF SnapshotInv
<1>12. CASE Poll
  <2>1. UNCHANGED <<process, active_config, op, snapshot>>
    BY <1>12, Zenon DEF Poll
  <2>2. CASE Write("poll", status')
    BY <2>1, <2>2, <1>write, Zenon
  <2>3. CASE status' = status /\ UNCHANGED <<writes, doubtful>>
    BY <2>1, <2>3, <1>quiet, Zenon DEF Pending
  <2> QED
    BY <1>12, <2>2, <2>3, Zenon DEF Poll, saveVars
<1>13. ASSUME NEW code, HandleExit(code) PROVE SnapshotInv'
  <2>1. /\ process' = None /\ UNCHANGED <<writes, snapshot, status>>
        /\ ~doubtful' => ~doubtful /\ status.phase \in Active
    BY <1>13, Zenon DEF HandleExit
  <2> QED
    BY <2>1, Zenon DEF SnapshotInv
<1>14. ASSUME UNCHANGED <<process, active_config, status, op, writes, snapshot, doubtful>>
       PROVE  SnapshotInv'
  BY <1>14, Zenon DEF SnapshotInv, Latest, Pending
<1>15. ASSUME NEW l \in Launches, ProcessListens(l) \/ ProcessExits(l) PROVE SnapshotInv'
  BY <1>15, <1>14, ZenonT(30) DEF ProcessListens, ProcessExits, sessionVars, saveVars
<1>16. ASSUME NEW l \in Launches, CleanupConfig(l) \/ ProbeDelivered(l) PROVE SnapshotInv'
  BY <1>16, <1>14, ZenonT(30) DEF CleanupConfig, ProbeDelivered, saveVars
<1>17. ASSUME NEW l \in Launches, ProbeAnswered(l) \/ ProbeStops(l) PROVE SnapshotInv'
  BY <1>17, <1>14, ZenonT(30) DEF ProbeAnswered, ProbeStops, sessionVars, saveVars
<1>18. CASE AppRestarts
  <2>1. writes' = <<>> /\ process' = None
    BY <1>18, Zenon DEF AppRestarts
  <2>2. Latest' = snapshot' /\ Len(writes') <= 1
    BY <2>1 DEF Latest
  <2>3. ASSUME ~doubtful' PROVE ~snapshot'.running /\ ~snapshot'.active
    <3>1. PICK s \in SnapshotsLeft :
              \/ /\ status' = [Disconnected EXCEPT !.phase = "error", !.profile = s.profile]
                 /\ snapshot' = SnapshotOf(status', None, None)
              \/ ~ShouldRecover(s) /\ snapshot' = s
      BY <1>18, <2>3, Zenon DEF AppRestarts
    <3>2. [Disconnected EXCEPT !.phase = "error", !.profile = s.profile].phase = "error"
      BY DisconnectedType, Zenon DEF Statuses
    <3>3. CASE status'.phase = "error" /\ snapshot' = SnapshotOf(status', None, None)
      BY <3>3, Zenon DEF SnapshotOf, NoSnapshot, Active
    <3> QED
      BY <3>1, <3>2, <3>3, Zenon DEF ShouldRecover
  <2> QED
    BY <2>1, <2>2, <2>3, Zenon DEF SnapshotInv
<1>19. CASE UNCHANGED vars
  BY <1>19, <1>14, Zenon DEF vars, sessionVars, saveVars
<1> QED
  BY <1>1, <1>2, <1>3, <1>4, <1>5, <1>6, <1>7, <1>8, <1>9, <1>10, <1>11, <1>12, <1>13,
     <1>15, <1>16, <1>17, <1>18, <1>19, Zenon
  DEF RuntimeNext

\* A first start finds no snapshot.
LEMMA SnapshotInitially == RuntimeInit => SnapshotInv
<1> SUFFICES ASSUME RuntimeInit PROVE SnapshotInv
  BY Zenon
<1>1. writes = <<>> /\ process = None /\ snapshot = NoSnapshot
  BY Zenon DEF RuntimeInit
<1> QED
  BY <1>1 DEF SnapshotInv, Latest, NoSnapshot

\* What a restart at rest finds on disk is what the last run of the app knew, and what it
\* does with the config file the snapshot names.
LEMMA RestFindsLatest ==
    ASSUME AtRest, ~doubtful, AppRestarts
    PROVE  /\ Latest = snapshot /\ ~Pending
           /\ config' \subseteq config
           /\ \/ /\ ShouldRecover(snapshot) /\ status'.phase = "error"
                 /\ leftover' = config' \cap (leftover \cup {snapshot.config})
              \/ /\ ~ShouldRecover(snapshot) /\ status'.phase = "disconnected"
                 /\ leftover' = config' \cap (leftover \cup {None})
<1>1. writes = <<>> /\ op = NoOp
  BY Zenon DEF AtRest
<1>2. SnapshotsLeft = {snapshot}
  BY <1>1 DEF SnapshotsLeft
<1>3. \A c : LeftBehind(c) = config' \cap (leftover \cup {c})
  BY Zenon DEF LeftBehind
<1>4. /\ config' \subseteq config
      /\ \/ /\ ShouldRecover(snapshot)
            /\ status' = [Disconnected EXCEPT !.phase = "error", !.profile = snapshot.profile]
            /\ leftover' = LeftBehind(snapshot.config)
         \/ ~ShouldRecover(snapshot) /\ status' = Disconnected /\ leftover' = LeftBehind(None)
  BY <1>2, Zenon DEF AppRestarts
<1>5. [Disconnected EXCEPT !.phase = "error", !.profile = snapshot.profile].phase = "error"
  BY DisconnectedType, Zenon DEF Statuses
<1>6. Latest = snapshot /\ ~Pending /\ Disconnected.phase = "disconnected"
  BY <1>1, Zenon DEF Latest, NoOp, Disconnected, Pending
<1> QED
  BY <1>3, <1>4, <1>5, <1>6, Zenon

\* SessionRecovered: whatever happened before an end of the app at rest, unless the snapshot
\* is doubtful, restorePersistedState reports an interrupted session exactly when a process
\* ran, and of that session's config file nothing is left that is not accounted for.
THEOREM RecoveryCorrect == RuntimeSpec => SessionRecovered
<1>1. SnapshotInv /\ StatusSettled /\ AppRestarts /\ AtRest /\ ~doubtful =>
        /\ status'.phase = "error" <=> process # None
        /\ process # None => active_config \notin config' \ leftover'
  <2> SUFFICES ASSUME SnapshotInv, StatusSettled, AppRestarts, AtRest, ~doubtful
               PROVE  /\ status'.phase = "error" <=> process # None
                      /\ process # None => active_config \notin config' \ leftover'
    BY Zenon
  <2>1. /\ Latest = snapshot /\ ~Pending
        /\ \/ /\ ShouldRecover(snapshot) /\ status'.phase = "error"
              /\ leftover' = config' \cap (leftover \cup {snapshot.config})
           \/ ~ShouldRecover(snapshot) /\ status'.phase = "disconnected"
    BY RestFindsLatest, Zenon
  <2>2. CASE process # None
    <3>1. snapshot.running /\ snapshot.config = active_config
      BY <2>1, <2>2, Zenon DEF SnapshotInv
    <3> QED
      BY <2>1, <2>2, <3>1, Zenon DEF ShouldRecover
  <2>3. CASE process = None
    <3>1. status.phase \notin Active
      BY <2>3, Zenon DEF StatusSettled, AtRest
    <3>2. ~snapshot.running /\ ~snapshot.active
      BY <2>1, <2>3, <3>1, Zenon DEF SnapshotInv
    <3> QED
      BY <2>1, <2>3, <3>2, Zenon DEF ShouldRecover
  <2> QED
    BY <2>2, <2>3, Zenon
<1> QED
  BY <1>1, StatusCorrect, ControllerInitially, ControllerStep, SnapshotInitially, SnapshotStep, PTL
  DEF RuntimeSpec, SessionRecovered

-------------------------------------------------------------------------------
\* A launch is under way.
Launching == op.pc \in {"config", "start", "cleanup"}

\* What makes ConfigTied inductive: every config file is owed to a launch under way, to the
\* session, to a cleanup or to history, and a cleanup that can delete the session's file
\* shows in raced.
ConfigInv ==
    /\ profile_of \in [Launches -> SomeProfile] /\ cleanups \subseteq Launches \ alive
    /\ config \subseteq Profiles /\ process \notin cleanups
    /\ Launching => process = None /\ op.profile \in Profiles /\ active_config = op.profile
    /\ process # None => active_config = profile_of[process]
    /\ \A p \in config : \/ p \in leftover
                         \/ Launching /\ p = op.profile
                         \/ process # None /\ p = profile_of[process]
                         \/ \E c \in cleanups : p = profile_of[c]
    /\ op.pc = "start" /\ ~raced =>
          op.profile \in config /\ \A c \in cleanups : profile_of[c] # op.profile
    /\ process # None /\ ~raced =>
          \A c \in cleanups : profile_of[c] # profile_of[process]
    /\ process \in alive \ listening /\ ~raced => profile_of[process] \in config

\* Who owes what changes with the launch, the exit, the cleanup and the restart.
LEMMA ConfigStep ==
    ControllerInv /\ SnapshotInv /\ ConfigInv /\ [RuntimeNext]_vars => ConfigInv'
<1> SUFFICES ASSUME ControllerInv, SnapshotInv, ConfigInv, [RuntimeNext]_vars PROVE ConfigInv'
  BY Zenon
<1> USE ControllerAssumption
<1>a. /\ op \in Operations /\ process \in Launches \cup {None} /\ alive \subseteq Launches
      /\ None \notin Launches /\ None \notin Profiles
  BY Zenon DEF ControllerInv, RuntimeTypes
<1>same. ASSUME UNCHANGED <<profile_of, cleanups, alive, listening, config, process, active_config,
                            leftover, raced>>,
                \/ op' = op
                \/ ~Launching /\ ~Launching'
         PROVE  ConfigInv'
  <2>1. CASE op' = op
    BY <1>same, <2>1, ZenonT(30) DEF ConfigInv, Launching
  <2>2. CASE ~Launching /\ ~Launching'
    <3>1. op.pc # "start" /\ op'.pc # "start"
      BY <2>2, Zenon DEF Launching
    <3> QED
      BY <1>same, <2>2, <3>1, Zenon DEF ConfigInv
  <2> QED
    BY <1>same, <2>1, <2>2, Zenon
<1>1. ASSUME NEW p \in Profiles, ConnectFails(p) PROVE ConfigInv'
  <2>1. ~Launching /\ ~Launching'
    BY <1>1, SMTT(30) DEF ConnectFails, Record, Launching
  <2> QED
    BY <1>1, <2>1, <1>same, Zenon DEF ConnectFails, sessionVars, machineVars, historyVars
<1>2. ASSUME NEW p \in Profiles, Connect(p) PROVE ConfigInv'
  <2>1. /\ op' = [profile |-> p, pc |-> "config"] /\ op.pc = "idle" /\ process = None
        /\ active_config' = p
        /\ UNCHANGED <<profile_of, cleanups, alive, listening, config, process, leftover, raced>>
    BY <1>2, Zenon DEF Connect, PlanAccepted, machineVars, historyVars
  <2>2. op'.pc = "config" /\ op'.profile = p /\ ~Launching /\ Launching'
    BY <2>1, Zenon DEF Launching
  <2> QED
    BY <1>a, <2>1, <2>2, Zenon DEF ConfigInv
<1>3. CASE ConfigWritten
  <2>1. /\ op'.pc = "start" /\ op.pc = "config" /\ op'.profile = op.profile
        /\ config' = config \cup {op.profile}
        /\ raced' = (\E c \in cleanups : profile_of[c] = op.profile)
        /\ UNCHANGED <<profile_of, cleanups, alive, listening, process, active_config, leftover>>
    BY <1>3, <1>a, Zenon DEF ConfigWritten, Operations, machineVars
  <2>2. Launching /\ Launching'
    BY <2>1, ZenonT(30) DEF Launching
  <2> QED
    BY <1>a, <2>1, <2>2, Zenon DEF ConfigInv
<1>4. CASE ProcessStarted
  <2>2. PICK l \in FreeLaunches :
            /\ profile_of' = [profile_of EXCEPT ![l] = op.profile]
            /\ alive' = alive \cup {l} /\ process' = l
    BY <1>4, Zenon DEF ProcessStarted
  <2>1. l \in Launches /\ l \notin alive /\ l \notin cleanups
    BY Zenon DEF FreeLaunches
  <2>3. /\ op.pc = "start" /\ op'.pc = "smoke"
        /\ UNCHANGED <<cleanups, listening, config, active_config, leftover, raced>>
    BY <1>4, <1>a, Zenon DEF ProcessStarted, Operations, historyVars
  <2>4. Launching /\ ~Launching'
    BY <2>3, Zenon DEF Launching
  <2>5. /\ op.profile \in Profiles /\ process = None /\ active_config = op.profile
        /\ profile_of \in [Launches -> SomeProfile] /\ cleanups \subseteq Launches \ alive
        /\ config \subseteq Profiles
    BY <2>4, Zenon DEF ConfigInv
  <2>6. profile_of' \in [Launches -> SomeProfile] /\ profile_of'[l] = op.profile
    BY <2>1, <2>2, <2>5, Zenon DEF SomeProfile
  <2>7. \A c \in cleanups : profile_of'[c] = profile_of[c]
    BY <2>1, <2>2, <2>5, Zenon
  <2>8. \A p \in config : \/ p \in leftover
                          \/ p = op.profile
                          \/ \E c \in cleanups : p = profile_of[c]
    BY <2>4, <2>5, Zenon DEF ConfigInv
  <2>9. ~raced => op.profile \in config /\ \A c \in cleanups : profile_of[c] # op.profile
    BY <2>3, Zenon DEF ConfigInv
  <2>10. /\ process' # None /\ process' \notin cleanups'
         /\ cleanups' \subseteq Launches \ alive'
    BY <1>a, <2>1, <2>2, <2>3, <2>5, Zenon
  <2> QED
    BY <2>2, <2>3, <2>4, <2>5, <2>6, <2>7, <2>8, <2>9, <2>10 DEF ConfigInv
<1>5. CASE LaunchFails
  <2>1. /\ op'.pc = "cleanup" /\ op'.profile = op.profile /\ op.pc \in {"config", "start"}
        /\ config' \in {config, config \cup {op.profile}}
        /\ UNCHANGED <<profile_of, cleanups, alive, listening, process, active_config,
                       leftover, raced>>
    BY <1>5, <1>a, Zenon DEF LaunchFails, Operations, machineVars, historyVars
  <2>2. Launching /\ Launching' /\ op.profile \in Profiles /\ process = None
    BY <2>1, Zenon DEF Launching, ConfigInv
  <2> QED
    BY <1>a, <2>1, <2>2, Zenon DEF ConfigInv
<1>6. CASE LaunchCleanedUp
  <2>1. /\ op'.pc = "record" /\ op.pc = "cleanup"
        /\ \/ config' = config \ {op.profile} /\ leftover' = leftover \ {op.profile}
           \/ config' = config /\ leftover' = leftover \cup {op.profile}
        /\ UNCHANGED <<profile_of, cleanups, alive, listening, process, active_config>>
    BY <1>6, Zenon DEF LaunchCleanedUp, Record, DeletesConfig, CleanedUp, machineVars
  <2>2. Launching /\ ~Launching' /\ process = None
    BY <2>1, Zenon DEF Launching, ConfigInv
  <2> QED
    BY <1>a, <2>1, <2>2, Zenon DEF ConfigInv
<1>7. CASE SmokePasses \/ SmokeFails \/ FailureRecorded \/ SafetyStateThrows
  <2>1. ~Launching /\ ~Launching'
    BY <1>7, SMTT(30)
    DEF SmokePasses, SmokeFails, FailureRecorded, SafetyStateThrows, Record, Persist, NoOp, Launching
  <2> QED
    BY <1>7, <2>1, <1>same, Zenon
    DEF SmokePasses, SmokeFails, FailureRecorded, SafetyStateThrows, sessionVars, machineVars,
        historyVars
<1>8. CASE Disconnect
  <2>1. ~Launching /\ ~Launching'
    BY <1>8, Zenon DEF Disconnect, Launching
  <2> QED
    BY <1>8, <2>1, <1>same, Zenon DEF Disconnect, sessionVars, machineVars, historyVars
<1>9. CASE DisconnectExecute
  <2>1. ~Launching /\ ~Launching'
    BY <1>9 DEF DisconnectExecute, Persist, Record, Launching
  <2> QED
    BY <1>9, <2>1, <1>same, Zenon DEF DisconnectExecute, machineVars, historyVars
<1>10. ASSUME NEW i \in 1..Len(writes), LandWrite(i) PROVE ConfigInv'
  <2>1. \/ op' = op
        \/ op.pc = "persist" /\ op'.pc = "idle"
        \/ op.pc = "stop" /\ op'.pc = "execute"
    BY <1>10, LandWriteStep, Zenon DEF ControllerInv
  <2>2. op' = op \/ (~Launching /\ ~Launching')
    BY <2>1, Zenon DEF Launching
  <2> QED
    BY <1>10, <2>2, <1>same, Zenon DEF LandWrite, sessionVars, machineVars, historyVars
<1>11. CASE Poll
  BY <1>11, <1>same, Zenon DEF Poll, machineVars, historyVars
<1>12. ASSUME NEW code, HandleExit(code) PROVE ConfigInv'
  <2>1. /\ process # None /\ process \notin alive /\ process' = None /\ active_config' = None
        /\ cleanups' = cleanups \cup {process}
        /\ UNCHANGED <<profile_of, alive, listening, config, op, leftover>>
    BY <1>12, Zenon DEF HandleExit, machineVars
  <2>2. ~Launching /\ ~Launching' /\ op'.pc # "start"
    BY <2>1, Zenon DEF ConfigInv, Launching
  <2> QED
    BY <1>a, <2>1, <2>2, ZenonT(30) DEF ConfigInv
<1>13. ASSUME NEW l \in Launches, ProcessListens(l) PROVE ConfigInv'
  <2>1. listening' = {l} /\ listening = {} /\ profile_of[l] \in config
        /\ UNCHANGED <<profile_of, cleanups, alive, config, process, active_config, op,
                       leftover, raced>>
    BY <1>13, Zenon DEF ProcessListens, sessionVars, historyVars
  <2> QED
    BY <2>1, Zenon DEF ConfigInv, Launching
<1>14. ASSUME NEW l \in Launches, ProcessExits(l) PROVE ConfigInv'
  <2>1. /\ l \in alive /\ alive' = alive \ {l} /\ listening' = listening \ {l}
        /\ profile_of' = IF l = process THEN profile_of ELSE [profile_of EXCEPT ![l] = None]
        /\ UNCHANGED <<cleanups, config, process, active_config, op, leftover, raced>>
    BY <1>14, Zenon DEF ProcessExits, sessionVars, historyVars
  <2>2. profile_of \in [Launches -> SomeProfile] /\ cleanups \subseteq Launches \ alive
    BY Zenon DEF ConfigInv
  <2>3. profile_of' \in [Launches -> SomeProfile]
    BY <2>1, <2>2, Zenon DEF SomeProfile
  <2>4. \A c \in cleanups : profile_of'[c] = profile_of[c]
    BY <2>1, <2>2, Zenon
  <2>5. process # None => profile_of'[process] = profile_of[process]
    BY <1>a, <2>1, <2>2, Zenon
  <2>6. process' \in alive' \ listening' => process \in alive \ listening /\ process # None
    BY <1>a, <2>1, Zenon
  <2> QED
    BY <2>1, <2>2, <2>3, <2>4, <2>5, <2>6, SMTT(30) DEF ConfigInv, Launching
<1>15. ASSUME NEW l \in Launches, CleanupConfig(l) PROVE ConfigInv'
  <2>1. /\ l \in cleanups /\ cleanups' = cleanups \ {l}
        /\ profile_of' = [profile_of EXCEPT ![l] = None]
        /\ UNCHANGED <<alive, listening, process, active_config, op, raced>>
    BY <1>15, ZenonT(30) DEF CleanupConfig
  <2>2. /\ profile_of \in [Launches -> SomeProfile] /\ cleanups \subseteq Launches \ alive
        /\ process \notin cleanups /\ config \subseteq Profiles
    BY Zenon DEF ConfigInv
  <2>3. profile_of' \in [Launches -> SomeProfile]
    BY <2>1, <2>2, Zenon DEF SomeProfile
  <2>4. \A c \in cleanups' : profile_of'[c] = profile_of[c] /\ c \in cleanups
    BY <2>1, <2>2, Zenon
  <2>5. process # None => profile_of'[process] = profile_of[process]
    BY <1>a, <2>1, <2>2, Zenon
  <2>6. \/ /\ config' = config \ {profile_of[l]} /\ leftover' = leftover \ {profile_of[l]}
        \/ config' = config /\ leftover' = leftover \cup {profile_of[l]}
    BY <1>15, ZenonT(30) DEF CleanupConfig, DeletesConfig, CleanedUp
  <2>7. (Launching' <=> Launching) /\ config' \subseteq Profiles
    BY <2>1, <2>2, <2>6, Zenon DEF Launching
  <2>8. ASSUME NEW p \in config'
        PROVE  \/ p \in leftover'
               \/ Launching' /\ p = op'.profile
               \/ process' # None /\ p = profile_of'[process']
               \/ \E c \in cleanups' : p = profile_of'[c]
    <3>1. \/ p \in leftover
          \/ Launching /\ p = op.profile
          \/ process # None /\ p = profile_of[process]
          \/ \E c \in cleanups : p = profile_of[c]
      BY <2>6, Zenon DEF ConfigInv
    <3>2. CASE p = profile_of[l]
      BY <2>6, <3>2, ZenonT(30)
    <3>3. CASE p # profile_of[l]
      BY <2>1, <2>2, <2>4, <2>5, <2>6, <2>7, <3>1, <3>3, Zenon
    <3> QED
      BY <3>2, <3>3, Zenon
  <2>9. op'.pc = "start" /\ ~raced' =>
            op'.profile \in config' /\ \A c \in cleanups' : profile_of'[c] # op'.profile
    BY <2>1, <2>4, <2>6, Zenon DEF ConfigInv
  <2>10. process' # None /\ ~raced' =>
            \A c \in cleanups' : profile_of'[c] # profile_of'[process']
    BY <2>1, <2>4, <2>5, Zenon DEF ConfigInv
  <2>11. process' \in alive' \ listening' /\ ~raced' => profile_of'[process'] \in config'
    BY <1>a, <2>1, <2>5, <2>6, Zenon DEF ConfigInv
  <2>12. /\ cleanups' \subseteq Launches \ alive' /\ process' \notin cleanups'
         /\ Launching' => process' = None /\ op'.profile \in Profiles /\ active_config' = op'.profile
         /\ process' # None => active_config' = profile_of'[process']
    BY <2>1, <2>2, <2>5, <2>7, Zenon DEF ConfigInv
  <2> QED
    BY <2>3, <2>7, <2>8, <2>9, <2>10, <2>11, <2>12, Zenon DEF ConfigInv
<1>16. ASSUME NEW l \in Launches, ProbeAnswered(l) \/ ProbeStops(l) PROVE ConfigInv'
  BY <1>16, <1>same, Zenon DEF ProbeAnswered, ProbeStops, sessionVars, machineVars, historyVars
<1>17. ASSUME NEW l \in Launches, ProbeDelivered(l) PROVE ConfigInv'
  BY <1>17, <1>same, Zenon DEF ProbeDelivered, machineVars
<1>18. CASE AppRestarts
  <2>1. /\ process' = None /\ cleanups' = {} /\ op' = NoOp
        /\ profile_of' = [l \in Launches |-> IF l \in alive THEN profile_of[l] ELSE None]
        /\ UNCHANGED <<alive, listening>>
    BY <1>18, Zenon DEF AppRestarts
  <2>2. ~Launching' /\ op'.pc # "start"
    BY <2>1, Zenon DEF NoOp, Launching
  <2>3. config' \subseteq config /\ config \subseteq Profiles
    BY <1>18, Zenon DEF AppRestarts, ConfigInv
  <2>4. ASSUME AtRest /\ ~doubtful PROVE config' \subseteq leftover'
    <3>1. /\ Latest = snapshot /\ ~Pending
          /\ \E c : leftover' = config' \cap (leftover \cup {c})
          /\ ShouldRecover(snapshot) => leftover' = config' \cap (leftover \cup {snapshot.config})
      BY <1>18, <2>4, RestFindsLatest, Zenon
    <3>2. cleanups = {} /\ ~Launching
      BY <2>4, Zenon DEF AtRest, NoOp, Launching
    <3>3. \A p \in config : p \in leftover \/ (process # None /\ p = active_config)
      BY <3>2, Zenon DEF ConfigInv
    <3>4. process # None => ShouldRecover(snapshot) /\ snapshot.config = active_config
      BY <2>4, <3>1, Zenon DEF SnapshotInv, ShouldRecover
    <3> QED
      BY <2>3, <3>1, <3>3, <3>4, Zenon
  <2>5. ASSUME ~(AtRest /\ ~doubtful) PROVE config' \subseteq leftover'
    <3>1. \A c : LeftBehind(c) = config' \cap Profiles
      BY <2>5, Zenon DEF LeftBehind
    <3> QED
      BY <1>18, <2>3, <3>1, Zenon DEF AppRestarts
  <2>6. profile_of' \in [Launches -> SomeProfile]
    BY <2>1, Zenon DEF ConfigInv, SomeProfile
  <2> QED
    BY <1>a, <2>1, <2>2, <2>3, <2>4, <2>5, <2>6, Zenon DEF ConfigInv
<1>19. CASE UNCHANGED vars
  BY <1>19, <1>same, ZenonT(30) DEF vars, sessionVars, machineVars, historyVars
<1> QED
  BY <1>1, <1>2, <1>3, <1>4, <1>5, <1>6, <1>7, <1>8, <1>9, <1>10, <1>11, <1>12, <1>13, <1>14,
     <1>15, <1>16, <1>17, <1>18, <1>19, Zenon
  DEF RuntimeNext

\* ConfigTied: for any number of profiles and launches, the file a starting process has to read
\* is there, and no file outlives its session, outside the races and failures it names.
THEOREM ConfigCorrect == RuntimeSpec => []ConfigTied
<1>1. RuntimeInit => ConfigInv
  BY ControllerAssumption DEF RuntimeInit, ConfigInv, Launching, NoOp, SomeProfile
<1>2. ConfigInv => ConfigTied
  BY DEF ConfigInv, ConfigTied, Launching, NoOp
<1> QED
  BY <1>1, <1>2, ControllerInitially, ControllerStep, SnapshotInitially, SnapshotStep, ConfigStep,
     PTL
  DEF RuntimeSpec

-------------------------------------------------------------------------------
(* The routing safety gate. *)

\* What the status and the file say of the one profile that was quarantined.
Named == {safety_status.key} \ {NoCandidate}
OnFile == {safety_file.key} \ {NoCandidate}

\* The inductive invariant.  As long as one profile at most has been quarantined and no save
\* was cut off, the status names it, and so does the file once no save is awaited, unless
\* the last one failed: what a restart reads is what the registry held.
QuarantineInv ==
    /\ condemned \subseteq Candidates
    /\ quarantined \cup Named \cup OnFile \subseteq condemned
    /\ safety_status \in [safe : BOOLEAN, key : SomeCandidate]
    /\ safety_file \in [safe : BOOLEAN, key : SomeCandidate, lkg : SomeCandidate]
    /\ last_known_good \in SomeCandidate /\ saving \in BOOLEAN
    /\ ~forgetful /\ ~SecondQuarantine =>
          /\ quarantined = condemned
          /\ Named = condemned
          /\ saving \/ unwritten \/ OnFile = condemned

\* Without a file nothing is quarantined.
LEMMA QuarantineInitially == SafetyInit => QuarantineInv
<1> SUFFICES ASSUME SafetyInit PROVE QuarantineInv
  BY Zenon
<1> USE DEF SafetyInit, NoSafety, SomeCandidate
<1>1. condemned \subseteq Candidates
  BY Zenon
<1>2. Named = {} /\ OnFile = {} /\ quarantined = {} /\ condemned = {}
  BY ZenonT(30) DEF Named, OnFile
<1>3. /\ safety_status \in [safe : BOOLEAN, key : SomeCandidate]
      /\ safety_file \in [safe : BOOLEAN, key : SomeCandidate, lkg : SomeCandidate]
      /\ last_known_good \in SomeCandidate /\ saving \in BOOLEAN
  BY Zenon
<1> QED
  BY <1>1, <1>2, <1>3, Zenon DEF QuarantineInv

\* A connect, a mini smoke, a save, done or failed, and a restart keep registry, status and file in step.
LEMMA QuarantineStep == QuarantineInv /\ [SafetyNext]_safetyVars => QuarantineInv'
<1> SUFFICES ASSUME QuarantineInv, [SafetyNext]_safetyVars PROVE QuarantineInv'
  BY Zenon
<1> USE SafetyAssumption DEF QuarantineInv, Named, OnFile, SomeCandidate
<1>1. ASSUME NEW c \in Candidates, ConnectBlocked(c) PROVE QuarantineInv'
  <2>1. ~SecondQuarantine => condemned = {c}
    BY <1>1, SMT DEF ConnectBlocked, SecondQuarantine
  <2>2. SecondQuarantine' <=> SecondQuarantine
    BY <1>1, Zenon DEF ConnectBlocked, SecondQuarantine
  <2> QED
    BY <1>1, <2>1, <2>2, Zenon DEF ConnectBlocked
<1>2. ASSUME NEW c \in Candidates, SmokePassed(c) PROVE QuarantineInv'
  BY <1>2, ZenonT(30) DEF SmokePassed, SecondQuarantine
<1>3. ASSUME NEW c \in Candidates, SmokeFailed(c) PROVE QuarantineInv'
  <2>1. CASE Cardinality(Recorded(c)) >= MaxRollbacks
    <3>1. /\ condemned' = condemned \cup {c} /\ quarantined' = quarantined \cup {c}
          /\ safety_status' = [safe |-> TRUE, key |-> c]
          /\ saving' = TRUE /\ UNCHANGED <<forgetful, unwritten, safety_file, last_known_good>>
      BY <1>3, <2>1, ZenonT(30) DEF SmokeFailed
    <3>2. ~SecondQuarantine' => condemned' = {c} /\ ~SecondQuarantine
      BY <3>1, SMT DEF SecondQuarantine
    <3> QED
      BY <3>1, <3>2, Zenon
  <2>2. CASE ~(Cardinality(Recorded(c)) >= MaxRollbacks)
    <3>1. /\ UNCHANGED <<condemned, quarantined, forgetful, unwritten, safety_file,
                         last_known_good>>
          /\ saving' = TRUE
          /\ safety_status' = [safe |-> TRUE, key |-> safety_status.key]
      BY <1>3, <2>2, ZenonT(30) DEF SmokeFailed
    <3> QED
      BY <3>1, Zenon DEF SecondQuarantine
  <2> QED
    BY <2>1, <2>2, Zenon
<1>4. CASE SafetySaved
  BY <1>4, Zenon DEF SafetySaved, Content, SecondQuarantine
<1>5. CASE SafetyRestart
  <2>1. PICK f \in IF saving THEN {safety_file, Content, NoSafety} ELSE {safety_file} :
            /\ safety_file' = f
            /\ safety_status' = [safe |-> f.safe, key |-> f.key]
            /\ last_known_good' = f.lkg /\ quarantined' = Restored(f)
    BY <1>5, Zenon DEF SafetyRestart
  <2>2. /\ f \in [safe : BOOLEAN, key : SomeCandidate, lkg : SomeCandidate]
        /\ {f.key} \ {NoCandidate} \subseteq condemned
    <3>1. CASE f = safety_file
      BY <3>1, Zenon
    <3>2. CASE f = Content
      BY <3>2, Zenon DEF Content
    <3>3. CASE f = NoSafety
      BY <3>3, Zenon DEF NoSafety
    <3> QED
      BY <3>1, <3>2, <3>3, Zenon
  <2>3. ~saving => f = safety_file
    BY Zenon
  <2>4. /\ saving' = FALSE /\ forgetful' = (forgetful \/ saving \/ unwritten)
        /\ UNCHANGED condemned
    BY <1>5, Zenon DEF SafetyRestart
  <2> QED
    BY <2>1, <2>2, <2>3, <2>4, Zenon DEF Restored, SecondQuarantine
<1>6. CASE SmokeTick
  BY <1>6, Zenon DEF SmokeTick, SecondQuarantine
<1>7. CASE UNCHANGED safetyVars
  BY <1>7, Zenon DEF safetyVars, SecondQuarantine
<1>8. CASE SafetySaveFails
  <2>1. /\ NoSafety \in [safe : BOOLEAN, key : SomeCandidate, lkg : SomeCandidate]
        /\ NoSafety.key = NoCandidate
    BY Zenon DEF NoSafety
  <2>2. /\ safety_file' \in {safety_file, NoSafety} /\ saving' = FALSE /\ unwritten' = TRUE
        /\ UNCHANGED <<quarantined, safety_status, last_known_good, condemned, forgetful>>
    BY <1>8, Zenon DEF SafetySaveFails
  <2>3. SecondQuarantine' <=> SecondQuarantine
    BY <2>2, Zenon DEF SecondQuarantine
  <2> QED
    BY <2>1, <2>2, <2>3, Zenon
<1> QED
  BY <1>1, <1>2, <1>3, <1>4, <1>5, <1>6, <1>7, <1>8, Zenon DEF SafetyNext

\* QuarantineHolds: whatever sessions, failures, rollbacks and restarts come, what
\* _restoreRoutingSafetyState reads back keeps the quarantined profile refused, with the two
\* exceptions the property names.
THEOREM QuarantineCorrect == SafetySpec => []QuarantineHolds
<1>1. QuarantineInv => QuarantineHolds
  BY Zenon DEF QuarantineInv, QuarantineHolds
<1> QED
  BY <1>1, QuarantineInitially, QuarantineStep, PTL DEF SafetySpec

\* What makes QuarantineJustified hold: the history has only failures since the candidate
\* last passed, and of those since the app's start every one within the window.
HistoryInv ==
    /\ smoke_time \in Nat
    /\ history \in [Candidates -> SUBSET Nat] /\ failed_at \in [Candidates -> SUBSET Nat]
    /\ forgotten \in [Candidates -> SUBSET Nat]
    /\ \A c \in Candidates :
          /\ IsFiniteSet(failed_at[c])
          /\ history[c] \subseteq failed_at[c]
          /\ \A t \in failed_at[c] \ forgotten[c] : t + Window >= smoke_time => t \in history[c]

\* The failures that recordFailure counts, from above and from below.
LEMMA RecordedRecent ==
    ASSUME HistoryInv, NEW c \in Candidates
    PROVE  /\ Recorded(c) \in SUBSET Nat
           /\ Recorded(c) \subseteq WithinWindow(failed_at[c] \cup {smoke_time})
           /\ WithinWindow((failed_at[c] \cup {smoke_time}) \ forgotten[c]) \subseteq Recorded(c)
  BY SafetyAssumption, Zenon DEF HistoryInv, Recorded, WithinWindow

\* Pruning, passing, restarting and the clock keep the history complete.
LEMMA HistoryStep == HistoryInv /\ [SafetyNext]_safetyVars => HistoryInv'
<1> SUFFICES ASSUME HistoryInv, [SafetyNext]_safetyVars PROVE HistoryInv'
  BY Zenon
<1> USE SafetyAssumption
<1>1. ASSUME UNCHANGED <<history, failed_at, forgotten, smoke_time>> PROVE HistoryInv'
  BY <1>1, Zenon DEF HistoryInv
<1>2. ASSUME NEW c \in Candidates, ConnectBlocked(c) PROVE HistoryInv'
  BY <1>1, <1>2, Zenon DEF ConnectBlocked
<1>3. ASSUME NEW c \in Candidates, SmokePassed(c) PROVE HistoryInv'
  BY <1>3, FS_EmptySet, Zenon DEF SmokePassed, HistoryInv
<1>4. ASSUME NEW c \in Candidates, SmokeFailed(c) PROVE HistoryInv'
  <2>1. /\ history' = [history EXCEPT ![c] = Recorded(c)]
        /\ failed_at' = [failed_at EXCEPT ![c] = failed_at[c] \cup {smoke_time}]
        /\ UNCHANGED <<smoke_time, forgotten>>
    BY <1>4, Zenon DEF SmokeFailed
  <2>2. IsFiniteSet(failed_at[c] \cup {smoke_time})
    BY FS_AddElement, Zenon DEF HistoryInv
  <2>3. /\ Recorded(c) \in SUBSET Nat /\ Recorded(c) \subseteq failed_at[c] \cup {smoke_time}
        /\ \A t \in (failed_at[c] \cup {smoke_time}) \ forgotten[c] :
              t + Window >= smoke_time => t \in Recorded(c)
    BY RecordedRecent, Zenon DEF WithinWindow
  <2>4. smoke_time \in Nat /\ failed_at[c] \cup {smoke_time} \in SUBSET Nat
    BY Zenon DEF HistoryInv
  <2>5. /\ history' \in [Candidates -> SUBSET Nat] /\ failed_at' \in [Candidates -> SUBSET Nat]
        /\ forgotten' \in [Candidates -> SUBSET Nat] /\ smoke_time' \in Nat
    BY <2>1, <2>3, <2>4, Zenon DEF HistoryInv
  <2>6. ASSUME NEW d \in Candidates
        PROVE  /\ IsFiniteSet(failed_at'[d]) /\ history'[d] \subseteq failed_at'[d]
               /\ \A t \in failed_at'[d] \ forgotten'[d] :
                     t + Window >= smoke_time' => t \in history'[d]
    <3>1. CASE d = c
      BY <2>1, <2>2, <2>3, <3>1, Zenon DEF HistoryInv
    <3>2. CASE d # c
      BY <2>1, <3>2, Zenon DEF HistoryInv
    <3> QED
      BY <3>1, <3>2, Zenon
  <2> QED
    BY <2>5, <2>6, Zenon DEF HistoryInv
<1>5. CASE SafetySaved \/ SafetySaveFails
  BY <1>1, <1>5, Zenon DEF SafetySaved, SafetySaveFails
<1>6. CASE SafetyRestart
  BY <1>6, Zenon DEF SafetyRestart, HistoryInv
<1>7. CASE SmokeTick
  BY <1>7, SMTT(30) DEF SmokeTick, HistoryInv
<1>8. CASE UNCHANGED safetyVars
  BY <1>1, <1>8, Zenon DEF safetyVars
<1> QED
  BY <1>2, <1>3, <1>4, <1>5, <1>6, <1>7, <1>8, Zenon DEF SafetyNext

\* QuarantineJustified, for every threshold, window and history of passes, failures and
\* restarts: recordFailure and its pruning quarantine a profile on no failure that does not
\* make MaxRollbacks of them within the window, and on every one that does since the app's
\* last start.
THEOREM JustifiedCorrect == SafetySpec => QuarantineJustified
<1>1. SafetyInit => HistoryInv
  BY FS_EmptySet, SMTT(30) DEF SafetyInit, HistoryInv
<1>2. HistoryInv /\ [SafetyNext]_safetyVars =>
        [\A c \in Candidates :
            failed_at'[c] \ failed_at[c] # {} =>
               /\ c \in quarantined' => Cardinality(WithinWindow(failed_at'[c])) >= MaxRollbacks
               /\ Cardinality(WithinWindow(failed_at'[c] \ forgotten[c])) >= MaxRollbacks =>
                      c \in quarantined'
        ]_safetyVars
  <2> SUFFICES ASSUME HistoryInv, [SafetyNext]_safetyVars, NEW c \in Candidates,
                      failed_at'[c] \ failed_at[c] # {}
               PROVE  /\ c \in quarantined' =>
                            Cardinality(WithinWindow(failed_at'[c])) >= MaxRollbacks
                      /\ Cardinality(WithinWindow(failed_at'[c] \ forgotten[c])) >= MaxRollbacks =>
                            c \in quarantined'
    BY Zenon
  <2>1. SmokeFailed(c)
    BY Zenon DEF SafetyNext, safetyVars, ConnectBlocked, SmokePassed, SmokeFailed, SafetySaved,
           SafetySaveFails, SafetyRestart, SmokeTick, HistoryInv
  <2>2. failed_at'[c] = failed_at[c] \cup {smoke_time}
    BY <2>1, ZenonT(30) DEF SmokeFailed, HistoryInv
  <2> DEFINE above == WithinWindow(failed_at'[c])
             below == WithinWindow(failed_at'[c] \ forgotten[c])
  <2>3. below \subseteq Recorded(c) /\ Recorded(c) \subseteq above
    BY <2>2, RecordedRecent, Zenon
  <2>4. IsFiniteSet(failed_at'[c]) /\ above \subseteq failed_at'[c]
    <3>1. IsFiniteSet(failed_at[c])
      BY Zenon DEF HistoryInv
    <3> QED
      BY <2>2, <3>1, FS_AddElement, Zenon DEF WithinWindow
  <2> HIDE DEF above, below
  <2>5. /\ IsFiniteSet(above) /\ IsFiniteSet(Recorded(c))
        /\ Cardinality(below) <= Cardinality(Recorded(c))
        /\ Cardinality(Recorded(c)) <= Cardinality(above)
    BY <2>3, <2>4, FS_Subset, Zenon
  <2>6. /\ Cardinality(below) \in Nat /\ Cardinality(Recorded(c)) \in Nat
        /\ Cardinality(above) \in Nat /\ MaxRollbacks \in Nat
    BY <2>3, <2>5, FS_Subset, FS_CardinalityType, SafetyAssumption, Zenon
  <2>7. c \in quarantined' <=> Cardinality(Recorded(c)) >= MaxRollbacks
    BY <2>1, ZenonT(30) DEF SmokeFailed
  <2>8. /\ c \in quarantined' => Cardinality(above) >= MaxRollbacks
        /\ Cardinality(below) >= MaxRollbacks => c \in quarantined'
    BY <2>5, <2>6, <2>7, SMTT(30)
  <2> QED
    BY <2>8, Zenon DEF above, below
<1> QED
  BY <1>1, <1>2, HistoryStep, PTL DEF SafetySpec, QuarantineJustified

-------------------------------------------------------------------------------
(* The guard of the single instance. *)

\* The inductive invariant: a copy between taking and giving up the lock has it, so there is
\* one at most, and what it wrote to the endpoint file stands until it deletes it.
GuardInv ==
    /\ GuardTypeOK
    /\ \A c \in Copies : place[c] \in Guarded => lock = c
    /\ \A c \in Copies : place[c] = "serving" => endpoint = c

\* No copy runs at first.
LEMMA GuardInitially == GuardInit => GuardInv
  BY GuardAssumption, Zenon DEF GuardInit, GuardInv, GuardTypeOK, Guarded, GuardPlaces

\* A step of a copy that holds the lock does not meet another copy that does.
LEMMA GuardStep == GuardInv /\ [GuardNext]_guardVars => GuardInv'
<1> SUFFICES ASSUME GuardInv, [GuardNext]_guardVars PROVE GuardInv'
  BY Zenon
<1> USE GuardAssumption DEF GuardInv, GuardTypeOK, Guarded, GuardPlaces, Move
<1>1. ASSUME NEW c \in Copies, Launch(c) PROVE GuardInv'
  BY <1>1, Zenon DEF Launch
<1>2. ASSUME NEW c \in Copies, LockTaken(c) PROVE GuardInv'
  BY <1>2, Zenon DEF LockTaken
<1>3. ASSUME NEW c \in Copies, LockRefused(c) PROVE GuardInv'
  BY <1>3, Zenon DEF LockRefused
<1>4. ASSUME NEW c \in Copies, NotifyPrimary(c) PROVE GuardInv'
  BY <1>4, Zenon DEF NotifyPrimary
<1>5. ASSUME NEW c \in Copies, FocusServerBound(c) PROVE GuardInv'
  BY <1>5, Zenon DEF FocusServerBound
<1>6. ASSUME NEW c \in Copies, FocusServerFails(c) PROVE GuardInv'
  BY <1>6, Zenon DEF FocusServerFails
<1>7. ASSUME NEW c \in Copies, EndpointWritten(c) PROVE GuardInv'
  BY <1>7, Zenon DEF EndpointWritten
<1>8. ASSUME NEW c \in Copies, Quit(c) PROVE GuardInv'
  BY <1>8, Zenon DEF Quit
<1>9. ASSUME NEW c \in Copies, ServerClosed(c) PROVE GuardInv'
  BY <1>9, Zenon DEF ServerClosed
<1>10. ASSUME NEW c \in Copies, EndpointDeleted(c) PROVE GuardInv'
  BY <1>10, Zenon DEF EndpointDeleted
<1>11. ASSUME NEW c \in Copies, Unlocked(c) PROVE GuardInv'
  BY <1>11, Zenon DEF Unlocked
<1>12. ASSUME NEW c \in Copies, WindowCloses(c) \/ WindowStays(c) \/ QuitAgain(c) PROVE GuardInv'
  BY <1>12, Zenon DEF WindowCloses, WindowStays, QuitAgain
<1>13. ASSUME NEW c \in Copies, Crash(c) PROVE GuardInv'
  BY <1>13, Zenon DEF Crash, Without
<1>14. CASE UNCHANGED guardVars
  BY <1>14, Zenon DEF guardVars
<1> QED
  BY <1>1, <1>2, <1>3, <1>4, <1>5, <1>6, <1>7, <1>8, <1>9, <1>10, <1>11, <1>12, <1>13, <1>14, Zenon
  DEF GuardNext

\* EndpointCurrent, however many copies start, quit and crash: release() of one primary, in
\* its order server, endpoint file, lock, never undoes what the next has published.
THEOREM EndpointCorrect == GuardSpec => []EndpointCurrent
<1>1. GuardInv => EndpointCurrent
  BY Zenon DEF GuardInv, EndpointCurrent, Guarded
<1> QED
  BY <1>1, GuardInitially, GuardStep, PTL DEF GuardSpec
===============================================================================
