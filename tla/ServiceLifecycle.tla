-------------------------- MODULE ServiceLifecycle --------------------------
(***************************************************************************)
(* main()'s loop and the life of a Service (main.cpp, service.cpp):        *)
(* construction, the accept chains, the signals (SIGTERM, SIGHUP, SIGUSR1),*)
(* stop() and the restart.                                                 *)
(*                                                                         *)
(* An accept is started with a session made beforehand, whose TLS object   *)
(* copies the certificate that ssl_context holds at that moment: a pending *)
(* accept is modelled by the version of that certificate.  A completed     *)
(* accept whose handler has not run yet is out of reach of cancel().       *)
(*                                                                         *)
(* Acceptors is the set of listening sockets: one in shared io_context     *)
(* mode, one per worker otherwise.  Unless concurrent, one thread runs     *)
(* every handler; otherwise an accept handler may be between making the    *)
(* next session and starting the accept while a signal is handled.         *)
(*                                                                         *)
(* Definitions named X_Something are deliberately wrong variants of X.     *)
(***************************************************************************)
EXTENDS Integers, Sequences, FiniteSets

CONSTANTS
    Acceptors,
    Connections,    \* connections that may be made
    NoCert,         \* the connection does not exist
    MaxSignals,     \* bound: signals sent
    MaxCert         \* bound: versions of the certificate on disk

ASSUME LifecycleAssumption ==
    /\ IsFiniteSet(Acceptors) /\ Acceptors # {}
    /\ IsFiniteSet(Connections)
    /\ NoCert \notin Nat
    /\ MaxSignals \in Nat /\ MaxCert \in Nat

VARIABLES
    concurrent,     \* more than one thread runs handlers
    phase,          \* of main: starting, running, stopping, exited
    restart,
    waiting,        \* sig.async_wait is armed
    signals,        \* signals sent and not yet handled
    sent,           \* number of signals sent
    disk,           \* version of the certificate on disk
    loaded,         \* version in ssl_context
    accepts,        \* accepts[a]: pending accepts
    completed,      \* completed[a]: accepted, handler not yet run
    rearming,       \* rearming[a]: next session made, its accept not yet started
    reloading,      \* acceptors that reload_cert has still to re-arm
    conn            \* conn[c]: certificate of a connection being served

serviceVars == <<phase, restart, waiting, signals, sent, disk, loaded, accepts, completed,
          rearming, reloading, conn>>

Signals == {"TERM", "HUP", "USR1"}
Empty == [a \in Acceptors |-> <<>>]

\* A handler may start: the only thread is not inside another handler.
MayRun == concurrent \/ (reloading = {} /\ \A a \in Acceptors : rearming[a] = <<>>)

ServiceInit ==
    /\ concurrent \in BOOLEAN
    /\ phase = "starting" /\ restart = FALSE /\ waiting = FALSE
    /\ signals = <<>> /\ sent = 0
    /\ disk = 0 /\ loaded = 0
    /\ accepts = Empty /\ completed = Empty /\ rearming = Empty
    /\ reloading = {}
    /\ conn = [c \in Connections |-> NoCert]
-----------------------------------------------------------------------------
(* The loop of main(). *)

\* Load the config, construct the service, wait for signals, run().
StartService_KeepsFlag ==
    /\ phase = "starting"
    /\ phase' = "running"
    /\ waiting' = TRUE
    /\ loaded' = disk
    /\ accepts' = [a \in Acceptors |-> <<disk>>]
    /\ UNCHANGED <<restart, signals, sent, disk, completed, rearming, reloading, conn>>

StartService ==
    /\ phase = "starting"
    /\ phase' = "running"
    /\ restart' = FALSE
    /\ waiting' = TRUE
    /\ loaded' = disk
    /\ accepts' = [a \in Acceptors |-> <<disk>>]
    /\ UNCHANGED <<signals, sent, disk, completed, rearming, reloading, conn>>

\* A bad config, an unusable certificate or a taken port: main() logs and exits.
StartFails ==
    /\ phase = "starting"
    /\ phase' = "exited"
    /\ restart' = FALSE
    /\ signals' = <<>>
    /\ UNCHANGED <<waiting, sent, disk, loaded, accepts, completed, rearming, reloading, conn>>

\* What is left when run() has returned and the service is destructed.
Dropped ==
    /\ waiting' = FALSE
    /\ signals' = <<>>
    /\ accepts' = Empty /\ completed' = Empty /\ rearming' = Empty
    /\ reloading' = {}
    /\ conn' = [c \in Connections |-> NoCert]

\* run() returns in every thread; the loop goes round if restart was set.
RunReturns ==
    /\ phase = "stopping"
    /\ phase' = IF restart THEN "starting" ELSE "exited"
    /\ Dropped
    /\ UNCHANGED <<restart, sent, disk, loaded>>
-----------------------------------------------------------------------------
(* Accept chains. *)

\* A connection is made, and a pending accept completes.
Connect(a) ==
    /\ phase = "running"
    /\ accepts[a] # <<>>
    /\ \E i \in DOMAIN accepts[a] :
          /\ completed' = [completed EXCEPT ![a] = Append(@, accepts[a][i])]
          /\ accepts' = [accepts EXCEPT ![a] = SubSeq(@, 1, i - 1) \o SubSeq(@, i + 1, Len(@))]
    /\ UNCHANGED <<phase, restart, waiting, signals, sent, disk, loaded, rearming, reloading,
                   conn>>

\* handle_accept_completion starts the session (or, c = NoCert, closes it), and
\* async_accept makes the next one.
HandleAccept_EndsOnError(a, c) ==
    /\ phase = "running"
    /\ MayRun
    /\ completed[a] # <<>>
    /\ completed' = [completed EXCEPT ![a] = Tail(@)]
    /\ \/ /\ c \in Connections /\ conn[c] = NoCert
          /\ conn' = [conn EXCEPT ![c] = Head(completed[a])]
          /\ rearming' = [rearming EXCEPT ![a] = Append(@, loaded)]
       \/ /\ c = NoCert /\ UNCHANGED <<conn, rearming>>
    /\ UNCHANGED <<phase, restart, waiting, signals, sent, disk, loaded, accepts, reloading>>

HandleAccept(a, c) ==
    /\ phase = "running"
    /\ MayRun
    /\ completed[a] # <<>>
    /\ completed' = [completed EXCEPT ![a] = Tail(@)]
    /\ \/ /\ c \in Connections /\ conn[c] = NoCert
          /\ conn' = [conn EXCEPT ![c] = Head(completed[a])]
       \/ /\ c = NoCert /\ UNCHANGED conn
    /\ rearming' = [rearming EXCEPT ![a] = Append(@, loaded)]
    /\ UNCHANGED <<phase, restart, waiting, signals, sent, disk, loaded, accepts, reloading>>

\* The accept of the next session is started.
Rearm(a) ==
    /\ phase = "running"
    /\ rearming[a] # <<>>
    /\ accepts' = [accepts EXCEPT ![a] = Append(@, Head(rearming[a]))]
    /\ rearming' = [rearming EXCEPT ![a] = Tail(@)]
    /\ UNCHANGED <<phase, restart, waiting, signals, sent, disk, loaded, completed, reloading,
                   conn>>

SessionEnds(c) ==
    /\ conn[c] # NoCert /\ phase = "running"
    /\ conn' = [conn EXCEPT ![c] = NoCert]
    /\ UNCHANGED <<phase, restart, waiting, signals, sent, disk, loaded, accepts, completed,
                   rearming, reloading>>
-----------------------------------------------------------------------------
(* Signals. *)

Signal(s) ==
    /\ phase \in {"running", "stopping"}
    /\ sent < MaxSignals
    /\ sent' = sent + 1
    /\ signals' = Append(signals, s)
    /\ UNCHANGED <<phase, restart, waiting, disk, loaded, accepts, completed, rearming,
                   reloading, conn>>

Taken(s) ==
    /\ phase = "running" /\ waiting /\ reloading = {} /\ MayRun
    /\ signals # <<>> /\ Head(signals) = s
    /\ signals' = Tail(signals)

\* SIGINT or SIGTERM: stop().  SIGHUP: stop() and go round the loop.  The wait is not
\* armed again: a signal that comes before the loop goes round is forgotten.
HandleStop(s) ==
    /\ s \in {"TERM", "HUP"}
    /\ Taken(s)
    /\ restart' = (restart \/ s = "HUP")
    /\ phase' = "stopping"
    /\ waiting' = FALSE
    /\ UNCHANGED <<sent, disk, loaded, accepts, completed, rearming, reloading, conn>>

\* SIGUSR1, reload_cert: read the files, then re-arm every acceptor ...
HandleReload_ArmsFirst ==
    /\ Taken("USR1")
    /\ accepts' = [a \in Acceptors |-> <<loaded>>]
    /\ loaded' = disk
    /\ UNCHANGED <<phase, restart, waiting, sent, disk, completed, rearming, reloading, conn>>

HandleReload ==
    /\ Taken("USR1")
    /\ loaded' = disk
    /\ reloading' = Acceptors
    /\ UNCHANGED <<phase, restart, waiting, sent, disk, accepts, completed, rearming, conn>>

\* ... one by one: cancel what is pending, start an accept with a new session.
ReloadAcceptor(a) ==
    /\ phase = "running"
    /\ a \in reloading
    /\ accepts' = [accepts EXCEPT ![a] = <<loaded>>]
    /\ reloading' = reloading \ {a}
    /\ UNCHANGED <<phase, restart, waiting, signals, sent, disk, loaded, completed, rearming,
                   conn>>

\* reload_cert throws when a file is unusable; nothing between the handler and main()
\* (or the thread's end) catches it, and the process ends.
ReloadThrows ==
    /\ Taken("USR1")
    /\ phase' = "exited"
    /\ restart' = FALSE
    /\ waiting' = FALSE
    /\ accepts' = Empty /\ completed' = Empty /\ rearming' = Empty
    /\ conn' = [c \in Connections |-> NoCert]
    /\ UNCHANGED <<sent, disk, loaded, reloading>>

\* The certificate is renewed on disk.
Renew ==
    /\ disk < MaxCert
    /\ disk' = disk + 1
    /\ UNCHANGED <<phase, restart, waiting, signals, sent, loaded, accepts, completed, rearming,
                   reloading, conn>>

\* udp_async_read (forward mode) stops the whole service on an error.
UdpReceiveFails ==
    /\ phase = "running" /\ MayRun
    /\ phase' = "stopping"
    /\ UNCHANGED <<restart, waiting, signals, sent, disk, loaded, accepts, completed, rearming,
                   reloading, conn>>

HandleSignal == (\E s \in Signals : HandleStop(s)) \/ HandleReload \/ ReloadThrows

ServiceNext ==
    \/ StartService \/ StartFails \/ RunReturns
    \/ \E a \in Acceptors :
          \/ Connect(a) \/ Rearm(a) \/ ReloadAcceptor(a)
          \/ \E c \in Connections \cup {NoCert} : HandleAccept(a, c)
    \/ \E c \in Connections : SessionEnds(c)
    \/ \E s \in Signals : Signal(s)
    \/ HandleSignal \/ Renew \/ UdpReceiveFails

ServiceSpec == ServiceInit /\ [][ServiceNext /\ UNCHANGED concurrent]_<<concurrent, serviceVars>>

\* Handlers that are ready are run, threads return once stopped, main() goes on.
ServiceFairness ==
    /\ WF_serviceVars(StartService \/ StartFails)
    /\ WF_serviceVars(RunReturns)
    /\ \A a \in Acceptors :
          WF_serviceVars(Rearm(a)) /\ WF_serviceVars(ReloadAcceptor(a))
    /\ SF_serviceVars(HandleSignal)

ServiceFairSpec == ServiceSpec /\ ServiceFairness
-----------------------------------------------------------------------------
\* No acceptor is ever abandoned: while the service runs it has an accept pending, or
\* the handler that will start one has still to run, whatever the order in which
\* connections, rejections and reloads come.
AcceptorServed ==
    phase = "running" =>
        \A a \in Acceptors :
            a \in reloading \/ accepts[a] # <<>> \/ completed[a] # <<>> \/ rearming[a] # <<>>

\* Every connection still to be accepted gets the loaded certificate, once reload_cert is
\* through: it cancels the accepts made with the old one.  With several threads an accept
\* handler can start one behind its back.
CertFresh ==
    phase = "running" /\ reloading = {} /\ ~concurrent =>
        \A a \in Acceptors : \A i \in DOMAIN accepts[a] : accepts[a][i] = loaded

\* A reload of the certificate is complete for what is still to be accepted, and SIGUSR1 drops
\* no connection and changes no connection's certificate, unless the certificate is unusable,
\* which ends the process.
ReloadClean ==
    [][ /\ CertFresh'
        /\ phase = "running" /\ signals # <<>> /\ Head(signals) = "USR1"
               /\ signals' = Tail(signals) /\ phase' # "exited"
           => \A c \in Connections : conn[c] # NoCert => conn'[c] = conn[c] ]_serviceVars

\* docs/usage.md: on SIGUSR1 "No existing connections are dropped, and the new
\* certificate doesn't affect these connections."
ReloadDropsNothing ==
    [][ phase = "running" /\ signals # <<>> /\ Head(signals) = "USR1"
            /\ signals' = Tail(signals)
        => \A c \in Connections : conn[c] # NoCert => conn'[c] = conn[c] ]_serviceVars

\* A SIGTERM that has reached the head of the queue of a running service ends the
\* process, however many reloads and restarts came before; and a restart that SIGHUP
\* asked for comes to its end, once: the service runs again with the flag cleared, or
\* the process has ended.
SignalsObeyed ==
    /\ (phase = "running" /\ signals # <<>> /\ Head(signals) = "TERM") ~> (phase = "exited")
    /\ restart ~> (~restart /\ phase \in {"running", "exited"})
=============================================================================
