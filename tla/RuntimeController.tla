-------------------------- MODULE RuntimeController ---------------------------
(* AdapterBackedClientController over RealShellControllerAdapter: the desktop   *)
(* client starts the proxy as a child process from a config file it writes, and *)
(* keeps a status and a snapshot on disk about it.  Dart runs one event at a    *)
(* time: a step runs from one await to the next.  Several things are in flight  *)
(* at once all the same: one connect or disconnect, the probe of the local      *)
(* port, the exit handler's cleanup, the poll timer and the unawaited writes of *)
(* the snapshot.  What a failed mini smoke does to later connects is in         *)
(* RoutingSafety; of the failure summary, a file of its own, only the wait for  *)
(* its write is kept.                                                           *)
(* (A definition X_Something is X with a plausible mistake in it.)              *)
EXTENDS Naturals, Sequences, FiniteSets

CONSTANTS
    Profiles, None,
    Launches,           \* a launch is reused once nothing of it is left
    MaxPollWrites       \* snapshot writes of the poll timer outstanding at once

ASSUME ControllerAssumption ==
    /\ None \notin Profiles /\ None \notin Launches
    /\ MaxPollWrites \in Nat \ {0}

VARIABLES
    \* the machine
    alive,              \* launches whose process runs
    listening,          \* those that have read their config file and listen on the local port
    profile_of,         \* the profile a launch is for
    config,             \* profiles whose config file, password included, is on disk
    snapshot,           \* controller.runtimeSessionSnapshot
    \* RealShellControllerAdapter
    process,            \* _runningProcess
    session_ready,      \* _runtimePhase is sessionReady
    disconnect_requested, active_config,
    ended_badly,        \* _lastError is set or _lastExitCode is not zero
    updated,            \* _sessionUpdatedAt differs from what the poll timer saw last
    probe,              \* _promoteSessionReadyWhenPortOpens of each launch
    cleanups,           \* launches whose exit handler has yet to delete the config file
    \* AdapterBackedClientController
    status,             \* phase, profile; errorCode is ROUTING_APPLY_ROLLED_BACK; the message
                        \* is the poll timer's
    op,                 \* the connect or disconnect in progress
    writes,             \* snapshot writes under way
    \* history
    doubtful,           \* the snapshot on disk may not show the last state: two writes were
                        \* outstanding, one failed or was left out, or the process exited under
                        \* a status that no poll changes, and no write has followed alone
    raced,              \* this launch's config was written with a cleanup of it pending
    mistaken,           \* this session counts as ready by a port or a probe of another launch
    leftover            \* config files that an unsaved end of the app or an error left

machineVars == <<alive, listening, profile_of>>
sessionVars == <<process, session_ready, disconnect_requested, active_config, ended_badly, updated>>
saveVars == <<writes, doubtful>>
historyVars == <<raced, mistaken, leftover>>
vars == <<machineVars, config, snapshot, sessionVars, probe, cleanups, status, op, saveVars,
          historyVars>>

Active == {"connecting", "connected", "disconnecting"}
Phases == Active \cup {"disconnected", "error"}
SomeProfile == Profiles \cup {None}

Disconnected == [phase |-> "disconnected", profile |-> None,
                 rolled_back |-> FALSE, noted |-> FALSE]
NoOp == [profile |-> None, pc |-> "idle"]
NoSnapshot == [active |-> FALSE, profile |-> None, running |-> FALSE, config |-> None]
Snapshots == [active : BOOLEAN, profile : SomeProfile, running : BOOLEAN, config : SomeProfile]

RuntimeInit ==
    /\ alive = {} /\ listening = {} /\ profile_of = [l \in Launches |-> None]
    /\ config = {} /\ snapshot = NoSnapshot
    /\ process = None /\ session_ready = FALSE /\ disconnect_requested = FALSE
    /\ active_config = None /\ ended_badly = FALSE /\ updated = FALSE
    /\ probe = [l \in Launches |-> "off"] /\ cleanups = {}
    /\ status = Disconnected /\ op = NoOp /\ writes = <<>>
    /\ doubtful = FALSE /\ raced = FALSE /\ mistaken = FALSE /\ leftover = {}

-------------------------------------------------------------------------------
(* Persistence: _persistRuntimeSnapshot takes the snapshot when it is called and *)
(* the file changes when the write lands; nothing orders two writes.             *)

\* Of the saved phase it matters whether it is an active one; a snapshot of no session is
\* passed over by the next start, as an empty or a missing file is, and stands for it.
SnapshotOf(st, proc, cfg) ==
    IF st.phase \in Active \/ proc # None
       THEN [active |-> st.phase \in Active, profile |-> st.profile,
             running |-> proc # None, config |-> cfg]
       ELSE NoSnapshot

Write(by, st) ==
    /\ writes' = Append(writes, [by |-> by, content |-> SnapshotOf(st, process, active_config)])
    /\ doubtful' = (writes # <<>>)

\* The operation ends with this write, which it awaits.
Persist(p, st) ==
    /\ op' = [profile |-> p, pc |-> "persist"]
    /\ Write("op", st)

\* A failure: the operation saves the failure summary before that, and before the summary
\* the safety state when the routing is at fault.
Record(p, what) ==
    /\ op' = [profile |-> p, pc |-> what]
    /\ UNCHANGED saveVars

FailureRecorded ==
    /\ op.pc \in {"record", "safety"}
    /\ Persist(op.profile, status)
    /\ UNCHANGED <<machineVars, config, snapshot, sessionVars, probe, cleanups, status, historyVars>>

\* The write of the safety state throws, after a failure or after a mini smoke that passed,
\* and ends connect() without a snapshot.
SafetyStateThrows ==
    /\ op.pc \in {"smoke", "safety"}
    /\ op' = NoOp
    /\ doubtful' = TRUE
    /\ UNCHANGED <<machineVars, config, snapshot, sessionVars, probe, cleanups, status, writes,
                   historyVars>>

\* A write of the snapshot lands, or fails, which leaves the file as it was or empty; the
\* operation that awaited it returns or goes on, in either case.
LandWrite(i) ==
    /\ i \in 1..Len(writes)
    /\ \/ snapshot' = writes[i].content /\ UNCHANGED doubtful
       \/ snapshot' \in {snapshot, NoSnapshot} /\ doubtful' = TRUE
    /\ writes' = SubSeq(writes, 1, i - 1) \o SubSeq(writes, i + 1, Len(writes))
    /\ op' = IF writes[i].by = "poll" THEN op
             ELSE IF op.pc = "stop" THEN [op EXCEPT !.pc = "execute"] ELSE NoOp
    /\ UNCHANGED <<machineVars, config, sessionVars, probe, cleanups, status, historyVars>>

-------------------------------------------------------------------------------
(* connect. *)

Error(profile) == [status EXCEPT !.phase = "error", !.profile = profile,
                                 !.rolled_back = FALSE, !.noted = FALSE]

\* What parse() requires of a command, what connect() sends and what a rollback sends.
RequiredArguments == {"profileName", "serverHost", "serverPort", "localSocksPort",
                      "configPath", "trojanPassword"}
ConnectArguments == {"profileName", "serverHost", "serverPort", "localSocksPort", "sni",
                     "verifyTls", "configPath", "routing", "trojanPassword"}
RollbackArguments == {"rollback", "reason"}
Parses(arguments) == RequiredArguments \subseteq arguments

\* Whether _planConnect goes on to launch.
PlanAccepted(arguments) == Parses(arguments) /\ process = None

\* A launch of which no process, probe or cleanup is left.
FreeLaunches == {l \in Launches : l \notin alive \cup cleanups /\ l # process /\ probe[l] = "off"}

\* connect() with no other operation in progress: the profile is quarantined, its password
\* is missing, or a process runs already.
ConnectFails(p) ==
    /\ op.pc = "idle"
    /\ status' = Error(p)
    /\ Record(p, "record") \/ Record(p, "safety")
    /\ UNCHANGED <<machineVars, config, snapshot, sessionVars, probe, cleanups, historyVars>>

\* The password is there and _planConnect runs to its first await.  Reading the password
\* takes time, in which nothing of connect() is visible: the step stands for its end.
Connect(p) ==
    /\ op.pc = "idle"
    /\ PlanAccepted(ConnectArguments) /\ FreeLaunches # {}
    /\ op' = [profile |-> p, pc |-> "config"]
    /\ session_ready' = FALSE /\ disconnect_requested' = FALSE /\ ended_badly' = FALSE
    /\ active_config' = p /\ updated' = TRUE
    /\ UNCHANGED <<machineVars, config, snapshot, process, probe, cleanups, status, saveVars,
                   historyVars>>

\* The config file is on disk.
ConfigWritten ==
    /\ op.pc = "config"
    /\ config' = config \cup {op.profile}
    /\ session_ready' = FALSE /\ updated' = TRUE
    /\ op' = [op EXCEPT !.pc = "start"]
    /\ raced' = (\E c \in cleanups : profile_of[c] = op.profile)
    /\ UNCHANGED <<machineVars, snapshot, process, disconnect_requested, active_config,
                   ended_badly, probe, cleanups, status, saveVars, mistaken, leftover>>

\* Process.start returned: the probe starts and the controller shows "connecting".
ProcessStarted ==
    /\ op.pc = "start"
    /\ \E l \in FreeLaunches :
           /\ profile_of' = [profile_of EXCEPT ![l] = op.profile]
           /\ alive' = alive \cup {l}
           /\ process' = l
           /\ probe' = [probe EXCEPT ![l] = "asked"]
    /\ ended_badly' = FALSE /\ session_ready' = FALSE /\ updated' = TRUE
    /\ status' = [status EXCEPT !.phase = "connecting", !.profile = op.profile,
                                !.rolled_back = FALSE, !.noted = FALSE]
    /\ op' = [op EXCEPT !.pc = "smoke"]
    /\ UNCHANGED <<listening, config, snapshot, disconnect_requested, active_config,
                   cleanups, saveVars, historyVars>>

\* Writing the file, which may be there by then, or Process.start threw: the catch block, up
\* to its cleanup.
LaunchFails ==
    /\ op.pc \in {"config", "start"}
    /\ ended_badly' = TRUE /\ session_ready' = FALSE /\ updated' = TRUE
    /\ op' = [op EXCEPT !.pc = "cleanup"]
    /\ config' \in {config} \cup (IF op.pc = "config" THEN {config \cup {op.profile}} ELSE {})
    /\ UNCHANGED <<machineVars, snapshot, process, disconnect_requested, active_config,
                   probe, cleanups, status, saveVars, historyVars>>

\* The config files once _cleanupConfigFile has deleted that of a profile.
CleanedUp_Skipped(p) == config
CleanedUp(p) == config \ {p}

\* _cleanupConfigFile deletes the file of that profile's path, or fails to.
DeletesConfig(p) ==
    \/ /\ config' = CleanedUp(p) /\ leftover' = leftover \ {p}
       /\ UNCHANGED <<ended_badly, updated>>
    \/ /\ p \in config
       /\ ended_badly' = TRUE /\ updated' = TRUE
       /\ leftover' = leftover \cup {p}
       /\ UNCHANGED config

LaunchCleanedUp ==
    /\ op.pc = "cleanup"
    /\ DeletesConfig(op.profile)
    /\ status' = Error(op.profile)
    /\ Record(op.profile, "record")
    /\ raced' = FALSE
    /\ UNCHANGED <<machineVars, snapshot, process, session_ready, disconnect_requested,
                   active_config, probe, cleanups, mistaken>>

SmokePasses ==
    /\ op.pc = "smoke"
    /\ Persist(op.profile, status)
    /\ UNCHANGED <<machineVars, config, snapshot, sessionVars, probe, cleanups, status, historyVars>>

\* The candidate failed its mini smoke.  The rollback asks the adapter to connect the last
\* known good profile, with arguments _planConnect refuses: nothing is stopped or started.
SmokeFails ==
    /\ op.pc = "smoke"
    /\ ~PlanAccepted(RollbackArguments)
    /\ status' = [Error(op.profile) EXCEPT !.rolled_back = TRUE]
    /\ Record(op.profile, "safety")
    /\ UNCHANGED <<machineVars, config, snapshot, sessionVars, probe, cleanups, historyVars>>

-------------------------------------------------------------------------------
(* disconnect. *)

Disconnect ==
    /\ op.pc = "idle"
    /\ status' = [status EXCEPT !.phase = "disconnecting", !.rolled_back = FALSE, !.noted = FALSE]
    /\ op' = [profile |-> status.profile, pc |-> "stop"]
    /\ Write("op", status')
    /\ UNCHANGED <<machineVars, config, snapshot, sessionVars, probe, cleanups, historyVars>>

\* _disconnect: a process that runs is killed and "disconnecting" is shown until its exit is
\* seen; without a process, or with one that has exited already, the command is refused.
DisconnectExecute ==
    /\ op.pc = "execute"
    /\ \/ /\ process # None /\ process \in alive
          /\ disconnect_requested' = TRUE /\ updated' = TRUE
          /\ status' = [status EXCEPT !.phase = "disconnecting", !.profile = op.profile,
                                      !.rolled_back = FALSE, !.noted = TRUE]
          /\ Persist(op.profile, status')
       \/ /\ process = None \/ process \notin alive
          /\ status' = Error(op.profile)
          /\ Record(op.profile, "record")
          /\ UNCHANGED <<disconnect_requested, updated>>
    /\ UNCHANGED <<machineVars, config, snapshot, process, session_ready, active_config,
                   ended_badly, probe, cleanups, historyVars>>

-------------------------------------------------------------------------------
(* The poll timer: _reconcileStatusWithSession. *)

\* The session counts as ready, and a status that an exit ends.
Ready_Alive == TRUE
Ready == session_ready
ClaimsSession_Connected == status.phase = "connected"
ClaimsSession == status.phase \in {"connecting", "connected"}

\* The status the session asks for.
Reconciled ==
    CASE process # None /\ status.phase = "connecting" /\ Ready ->
            [status EXCEPT !.phase = "connected", !.rolled_back = FALSE]
      [] process # None /\ status.phase \in {"connecting", "disconnecting"}
            /\ ~(status.phase = "connecting" /\ Ready) ->
            [status EXCEPT !.noted = TRUE]
      [] process = None /\ status.phase = "disconnecting" ->
            Disconnected
      [] process = None /\ ClaimsSession ->
            IF ended_badly
               THEN Error(status.profile)
               ELSE Disconnected
      [] OTHER -> status

PollWrites == Cardinality({i \in 1..Len(writes) : writes[i].by = "poll"})

Poll ==
    /\ updated
    /\ updated' = FALSE
    /\ status' = Reconciled
    /\ \/ status' = status /\ UNCHANGED saveVars
       \/ status' # status /\ PollWrites < MaxPollWrites /\ Write("poll", status')
    /\ UNCHANGED <<machineVars, config, snapshot, process, session_ready, disconnect_requested,
                   active_config, ended_badly, probe, cleanups, op, historyVars>>

-------------------------------------------------------------------------------
(* The process, the exit handler and the port probe. *)

\* The child reads its config file and binds the local port; without either it exits.
ProcessListens(l) ==
    /\ l \in alive
    /\ profile_of[l] \in config /\ listening = {}
    /\ listening' = {l}
    /\ UNCHANGED <<alive, profile_of, config, snapshot, sessionVars, probe, cleanups, status,
                   op, saveVars, historyVars>>

\* It ends, killed or by itself; an orphan of an earlier run of the app may, too.
ProcessExits(l) ==
    /\ l \in alive
    /\ alive' = alive \ {l} /\ listening' = listening \ {l}
    /\ profile_of' = IF l = process THEN profile_of ELSE [profile_of EXCEPT ![l] = None]
    /\ UNCHANGED <<config, snapshot, sessionVars, probe, cleanups, status, op, saveVars,
                   historyVars>>

\* The exit handler, up to its cleanup.
HandleExit(code) ==
    /\ process # None /\ process \notin alive
    /\ ended_badly' = ((ended_badly /\ ~disconnect_requested) \/ code = "nonzero")
    /\ session_ready' = FALSE
    /\ process' = None /\ active_config' = None /\ disconnect_requested' = FALSE
    /\ updated' = TRUE
    /\ cleanups' = cleanups \cup {process}
    /\ raced' = FALSE /\ mistaken' = FALSE
    /\ doubtful' = (doubtful \/ status.phase \notin Active)
    /\ UNCHANGED <<machineVars, config, snapshot, probe, status, op, writes, leftover>>

\* The rest of the exit handler.
CleanupConfig(l) ==
    /\ l \in cleanups
    /\ cleanups' = cleanups \ {l}
    /\ profile_of' = [profile_of EXCEPT ![l] = None]
    /\ DeletesConfig(profile_of[l])
    /\ UNCHANGED <<alive, listening, snapshot, process, session_ready, disconnect_requested,
                   active_config, probe, status, op, saveVars, raced, mistaken>>

\* A connection attempt of the probe, made only while its process is the session's, finds
\* the port open.
ProbeAnswered(l) ==
    /\ probe[l] = "asked" /\ process = l /\ listening # {}
    /\ probe' = [probe EXCEPT ![l] = IF listening = {l} THEN "open" ELSE "fooled"]
    /\ UNCHANGED <<machineVars, config, snapshot, sessionVars, cleanups, status, op, saveVars,
                   historyVars>>

\* The probe ends after a closed port: its process has gone or its three seconds are over.
ProbeStops(l) ==
    /\ probe[l] = "asked"
    /\ probe' = [probe EXCEPT ![l] = "off"]
    /\ UNCHANGED <<machineVars, config, snapshot, sessionVars, cleanups, status, op, saveVars,
                   historyVars>>

\* The answer arrives: the session is ready, whichever process runs by now.
ProbeDelivered(l) ==
    /\ probe[l] \in {"open", "fooled"}
    /\ probe' = [probe EXCEPT ![l] = "off"]
    /\ session_ready' = TRUE /\ updated' = TRUE
    /\ mistaken' = (mistaken \/ (process # None /\ (process # l \/ probe[l] = "fooled")))
    /\ UNCHANGED <<machineVars, config, snapshot, process, disconnect_requested, active_config,
                   ended_badly, cleanups, status, op, saveVars, raced, leftover>>

-------------------------------------------------------------------------------
(* The end of the app, by a crash or a quit that does not wait, and its next start. *)

\* Nothing of the app is under way and what it knows is saved.
AtRest == op = NoOp /\ writes = <<>> /\ cleanups = {} /\ ~updated

\* _shouldRecoverFromSnapshot, with no process in the new adapter.
ShouldRecover_PhaseOnly(s) == s.active
ShouldRecover(s) == s.running \/ s.active

\* A write under way at the end may have happened, not happened or left an empty file.
SnapshotsLeft ==
    {snapshot} \cup {writes[i].content : i \in 1..Len(writes)}
               \cup (IF writes = <<>> THEN {} ELSE {NoSnapshot})

\* The config files that are nobody's once the app has ended, c among them if it is not None.
LeftBehind(c) == config' \cap (IF AtRest /\ ~doubtful THEN leftover \cup {c} ELSE Profiles)

\* Child processes survive; restorePersistedState runs before anything else can.  Its delete
\* and its write are best effort: either may fail without a trace.
AppRestarts ==
    /\ \E s \in SnapshotsLeft :
          \/ /\ ShouldRecover(s)
             /\ config' \in {config \ {s.config}, config}
             /\ leftover' = LeftBehind(s.config)
             /\ status' = [Disconnected EXCEPT !.phase = "error", !.profile = s.profile]
             /\ \/ snapshot' = SnapshotOf(status', None, None) /\ doubtful' = FALSE
                \/ snapshot' \in {s, NoSnapshot} /\ doubtful' = TRUE
          \/ /\ ~ShouldRecover(s)
             /\ UNCHANGED config
             /\ leftover' = LeftBehind(None)
             /\ status' = Disconnected /\ snapshot' = s /\ doubtful' = FALSE
    /\ process' = None /\ session_ready' = FALSE /\ disconnect_requested' = FALSE
    /\ active_config' = None /\ ended_badly' = FALSE /\ updated' = FALSE
    /\ probe' = [l \in Launches |-> "off"] /\ cleanups' = {}
    /\ op' = NoOp /\ writes' = <<>>
    /\ raced' = FALSE /\ mistaken' = FALSE
    /\ profile_of' = [l \in Launches |-> IF l \in alive THEN profile_of[l] ELSE None]
    /\ UNCHANGED <<alive, listening>>

-------------------------------------------------------------------------------
RuntimeNext ==
    \/ \E p \in Profiles : Connect(p) \/ ConnectFails(p)
    \/ Disconnect \/ FailureRecorded \/ SafetyStateThrows
    \/ ConfigWritten \/ ProcessStarted \/ LaunchFails \/ LaunchCleanedUp
    \/ SmokePasses \/ SmokeFails \/ DisconnectExecute
    \/ \E i \in 1..Len(writes) : LandWrite(i)
    \/ Poll
    \/ \E code \in {"zero", "nonzero"} : HandleExit(code)
    \/ \E l \in Launches : \/ ProcessListens(l) \/ ProcessExits(l)
                           \/ CleanupConfig(l)
                           \/ ProbeAnswered(l) \/ ProbeStops(l) \/ ProbeDelivered(l)
    \/ AppRestarts

RuntimeSpec == RuntimeInit /\ [][RuntimeNext]_vars

-------------------------------------------------------------------------------
\* Every exit reaches the status: with no process, no operation under way and nothing for
\* the poll timer to see, no status claims a session, whichever of connect, disconnect,
\* exit handler, probe and poll came first.
StatusSettled ==
    process = None /\ op = NoOp /\ ~updated => status.phase \notin Active

\* "connected" means that the process of this session has listened on the local port, unless
\* the answer came to the probe of an earlier session or from an orphan's port.
ConnectedIsReady ==
    status.phase = "connected" /\ process \in alive => process \in listening \/ mistaken

\* The config file, password included, is there for the process that must read it and is
\* gone when the session is: except that the cleanup of the last session may delete the file
\* of the next one of the same profile, and that a failed delete or an end of the app that
\* is not on disk yet may leave it behind.
ConfigTied ==
    /\ process \in alive \ listening => profile_of[process] \in config \/ raced
    /\ process = None /\ op = NoOp /\ cleanups = {} => config \subseteq leftover

\* An end of the app at rest is recovered from exactly when a process was running: the
\* interrupted session is reported and its config file deleted, or known as left over when
\* the delete fails, and without a process the app starts disconnected.  The exception is a
\* snapshot on disk that does not show the last state, because two writes overlapped, one
\* failed (which is swallowed), connect() threw before it, or the process exited while the
\* status was an error, which no poll saves; a later write makes up for it.
SessionRecovered ==
    [][AtRest /\ ~doubtful /\ AppRestarts =>
          /\ status'.phase = "error" <=> process # None
          /\ process # None => active_config \notin config' \ leftover']_vars

\* docs/superpowers/specs/2026-04-16-routing-safety-ux-p0-design.md: a failed mini smoke
\* rolls back to the last known good profile.  Once the rollback is reported, the
\* candidate's process does not run.
RollbackStopsCandidate ==
    status.rolled_back /\ op = NoOp /\ process # None => profile_of[process] # status.profile
===============================================================================
