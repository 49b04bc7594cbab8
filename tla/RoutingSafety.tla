---------------------------- MODULE RoutingSafety -----------------------------
(* The safety gate of AdapterBackedClientController: a profile whose mini smoke *)
(* fails too often within a window is quarantined and refused from then on, and *)
(* what is needed to keep refusing it is saved in controller.routingSafetyState.*)
(* RuntimeController models the sessions themselves; here a connect is its mini *)
(* smoke and the save that it awaits.                                           *)
(* (A definition X_Something is X with a plausible mistake in it.)              *)
EXTENDS Naturals, FiniteSets

CONSTANTS
    Candidates,         \* profiles
    NoCandidate,
    MaxRollbacks,       \* RoutingRollbackWindowTracker.maxRollbacks
    Window,             \* its window, in ticks
    MaxSmokeTime        \* bound on the clock

ASSUME SafetyAssumption ==
    /\ NoCandidate \notin Candidates
    /\ MaxRollbacks \in Nat \ {0} /\ Window \in Nat /\ MaxSmokeTime \in Nat

VARIABLES
    smoke_time,         \* DateTime.now()
    history,            \* _historyByCandidate: the times, no two failures share one
    quarantined,        \* _quarantineRegistry
    safety_status,      \* what the status carries: safeModeActive, quarantineKey
    last_known_good,    \* _lastKnownGoodProfileId
    safety_file,        \* controller.routingSafetyState
    saving,             \* an operation awaits _persistRoutingSafetyState
    unwritten,          \* history: the last save failed
    failed_at,          \* history: mini smokes failed since the candidate last passed
    forgotten,          \* history: those of them before the app's last start
    condemned,          \* history: candidates quarantined so far
    forgetful           \* history: the app ended with the file not written

safetyVars == <<smoke_time, history, quarantined, safety_status, last_known_good, safety_file,
                saving, unwritten, failed_at, forgotten, condemned, forgetful>>

SomeCandidate == Candidates \cup {NoCandidate}
NoSafety == [safe |-> FALSE, key |-> NoCandidate, lkg |-> NoCandidate]

SafetyInit ==
    /\ smoke_time = 1
    /\ history = [c \in Candidates |-> {}]
    /\ quarantined = {} /\ safety_status = [safe |-> FALSE, key |-> NoCandidate]
    /\ last_known_good = NoCandidate /\ safety_file = NoSafety
    /\ saving = FALSE /\ unwritten = FALSE
    /\ failed_at = [c \in Candidates |-> {}] /\ forgotten = [c \in Candidates |-> {}]
    /\ condemned = {} /\ forgetful = FALSE

\* connect() of a quarantined candidate.
ConnectBlocked(c) ==
    /\ ~saving /\ c \in quarantined
    /\ safety_status' = [safe |-> TRUE, key |-> c]
    /\ saving' = TRUE
    /\ UNCHANGED <<smoke_time, history, quarantined, last_known_good, safety_file, unwritten,
                   failed_at, forgotten, condemned, forgetful>>

\* The launch was accepted, which leaves safe mode, and the mini smoke passed.
SmokePassed(c) ==
    /\ ~saving /\ c \notin quarantined
    /\ safety_status' = [safety_status EXCEPT !.safe = FALSE]
    /\ last_known_good' = c
    /\ history' = [history EXCEPT ![c] = {}]
    /\ saving' = TRUE
    /\ failed_at' = [failed_at EXCEPT ![c] = {}]
    /\ forgotten' = [forgotten EXCEPT ![c] = {}]
    /\ UNCHANGED <<smoke_time, quarantined, safety_file, unwritten, condemned, forgetful>>

\* recordFailure: what is left of the history with the failure of now.
Recorded_NoPruning(c) == history[c] \cup {smoke_time}

Recorded(c) == {t \in history[c] \cup {smoke_time} : t + Window >= smoke_time}

\* The launch was accepted and the mini smoke failed.
SmokeFailed(c) ==
    /\ ~saving /\ c \notin quarantined
    /\ smoke_time \notin history[c] \cup failed_at[c]
    /\ LET bad == Cardinality(Recorded(c)) >= MaxRollbacks
       IN  /\ quarantined' = IF bad THEN quarantined \cup {c} ELSE quarantined
           /\ condemned' = IF bad THEN condemned \cup {c} ELSE condemned
           /\ safety_status' = [safe |-> TRUE, key |-> IF bad THEN c ELSE safety_status.key]
    /\ history' = [history EXCEPT ![c] = Recorded(c)]
    /\ failed_at' = [failed_at EXCEPT ![c] = @ \cup {smoke_time}]
    /\ saving' = TRUE
    /\ UNCHANGED <<smoke_time, last_known_good, safety_file, unwritten, forgotten, forgetful>>

Content == [safe |-> safety_status.safe, key |-> safety_status.key, lkg |-> last_known_good]

SafetySaved ==
    /\ saving
    /\ safety_file' = Content
    /\ saving' = FALSE /\ unwritten' = FALSE
    /\ UNCHANGED <<smoke_time, history, quarantined, safety_status, last_known_good, failed_at,
                   forgotten, condemned, forgetful>>

\* The write throws, and connect() with it: the file is as it was, or empty.
SafetySaveFails ==
    /\ saving
    /\ safety_file' \in {safety_file, NoSafety}
    /\ saving' = FALSE /\ unwritten' = TRUE
    /\ UNCHANGED <<smoke_time, history, quarantined, safety_status, last_known_good, failed_at,
                   forgotten, condemned, forgetful>>

\* _restoreRoutingSafetyState, what it does to the registry.
Restored_StatusOnly(f) == {}
Restored(f) == {f.key} \ {NoCandidate}

\* The app ends and starts again.  A save under way has happened, not happened or left an
\* empty file; the history of the tracker was never saved.
SafetyRestart ==
    /\ \E f \in IF saving THEN {safety_file, Content, NoSafety} ELSE {safety_file} :
          /\ safety_file' = f
          /\ safety_status' = [safe |-> f.safe, key |-> f.key]
          /\ last_known_good' = f.lkg
          /\ quarantined' = Restored(f)
    /\ history' = [c \in Candidates |-> {}]
    /\ saving' = FALSE /\ unwritten' = FALSE
    /\ forgotten' = failed_at
    /\ forgetful' = (forgetful \/ saving \/ unwritten)
    /\ UNCHANGED <<smoke_time, failed_at, condemned>>

SmokeTick ==
    /\ smoke_time < MaxSmokeTime
    /\ smoke_time' = smoke_time + 1
    /\ UNCHANGED <<history, quarantined, safety_status, last_known_good, safety_file, saving,
                   unwritten, failed_at, forgotten, condemned, forgetful>>

SafetyNext ==
    \/ \E c \in Candidates : ConnectBlocked(c) \/ SmokePassed(c) \/ SmokeFailed(c)
    \/ SafetySaved \/ SafetySaveFails \/ SafetyRestart \/ SmokeTick

SafetySpec == SafetyInit /\ [][SafetyNext]_safetyVars

-------------------------------------------------------------------------------
\* A second profile has been quarantined beside a first.
SecondQuarantine == \E c, d \in condemned : c # d

\* A quarantined profile stays quarantined ("Manual unlock required", and nothing unlocks):
\* through sessions, rollbacks of others and restarts.  Two exceptions: the file names one
\* profile only, so a second quarantine displaces the first at the next start, and an end of
\* the app before the file is written, or after a write of it that threw and before one that
\* did not, forgets the quarantine it was to hold.
QuarantineHolds == condemned = quarantined \/ SecondQuarantine \/ forgetful

WithinWindow(times) == {t \in times : t + Window >= smoke_time}

\* A failure quarantines its profile only if it is the MaxRollbacks-th within the window:
\* failures before the profile last passed, or out of the window, do not count, restarts or
\* no.  And the MaxRollbacks-th does quarantine it: the pruning of the history never drops a
\* failure that counts.  The exception is that the history is not saved: failures before the
\* app's last start do not count, although the design speaks of any 30 minutes.
QuarantineJustified ==
    [][\A c \in Candidates :
          failed_at'[c] \ failed_at[c] # {} =>
             /\ c \in quarantined' => Cardinality(WithinWindow(failed_at'[c])) >= MaxRollbacks
             /\ Cardinality(WithinWindow(failed_at'[c] \ forgotten[c])) >= MaxRollbacks =>
                    c \in quarantined'
      ]_safetyVars
===============================================================================
