# Trojan-Pro: a TLA+ model of the proxy and its desktop client

The repository holds a C++ proxy built on boost::asio (`src/src`), a Flutter desktop
client (`src/client`), and installer and release scripts (`src/scripts`).  This
directory models the proxy and the parts of the client that keep state: TLC checks every
module on small instances, and TLAPS proves the central results for every value of the
constants.  `PROJECT.json` maps
each definition to the lines it models and lists runs, mutants, hazards, findings and
theorems.

## The system

| Part | State | Operations | What makes it hard |
|---|---|---|---|
| Abuse control (`core/abuse_controller`) | per-address slots, failure window, cooldown | acquire, release, record failure, ask for cooldown | entries are erased while other facts about the address must survive |
| Fallback budget (`core/fallback_controller`) | one atomic counter and two totals | acquire, release | compare-exchange loops of several threads |
| Admission (`core/service`, `session_admission_runtime`, `session_lifecycle_runtime`) | both of the above, metrics, the flags of each session | accept, start, authenticate, fall back, destroy | three thread layouts; a slot is taken in one place and given back in another |
| Server session (`session/serversession`) | status, pending operations, buffers, counters | one completion handler per operation | handlers that run after destroy(), payload held over a connect, UDP packets cut into reads |
| UDP forwarding (`session/udpforwardsession`) | map of weak pointers, idle timer, tunnel | datagram, dial, write, read, expire | a queued expiry cannot be cancelled; a late lookup |
| Forward and NAT sessions | tunnel, first packet, buffers | start, dial, relay, destroy | the first local read races the handshake |
| SOCKS5 client session | the tunnel, greeting and request, UDP socket | greet, request, relay, associate | control connection and payload on one socket |
| Life cycle (`main.cpp`, `core/service`) | accept chains, signals, certificate | accept, reload, stop, restart | reload beside accepts under way |
| Ingress decision (about 15 files of `core/`) | metadata sources, configuration, frame | accept, read, parse, select, plan | several sources may speak for one connection; frames cut anywhere |
| Usage (`core/authenticator`) | database totals, open sessions | auth, transfer, record | the quota is read at the start and charged at the end |
| Wire formats (`proto/`) | bytes sent and read | generate, parse | packets cut anywhere, lengths over several bytes |
| Configuration, log, version, TLS session cache | | | not modelled, see below |
| Client: runtime controller (`client/lib/features/controller`) | the child process, its config file, the status, a snapshot on disk | connect, disconnect, poll, exit handler, probe, restart | state read before an `await` and used after it; writes nobody awaits |
| Client: routing safety | failures per profile, quarantine, a file | mini smoke, rollback, restart | one file that names one profile |
| Client: secure storage | a keychain and a store in memory | read, write, delete, list, promote | calls overlap a promotion; the keychain fails |
| Client: profile and settings stores | profiles, selection, files | edit, debounced save, exit, restart | a save timer and writes that do not wait for one another |
| Client: single instance | file lock, endpoint file | start, notify, quit, crash | files left by the copy before |
| Client: readiness, updates, diagnostics, pages | | | not modelled, see below |
| Installer, release scripts | files, services | sequential steps | one step of several failing |

How the parts meet: `main` creates a `Service`, which accepts connections and asks
abuse control before a `ServerSession` starts.  The session's first payload goes
through the ingress decision and the gate, which authenticates it; a request is
relayed to its target, anything else to the fallback server within the budget.
destroy() gives back the slots and records the usage.  The client modes reach a server
through the tunnel that `ClientSession`, `ForwardSession`, `NATSession` and
`UDPForwardSession` each open.  The desktop client starts the proxy as a child process from
a config file it writes, and keeps its own view of that process; its other parts meet
through the controller's status only.

Threads: by default all `thread_num` threads run one io_context and no strand is used,
so two handlers of one session may run at once.  With `tcp.reuse_port` each worker has
its own io_context, thread and acceptor.  Every model says which layout it covers.  The
client is one Dart isolate: a step runs from one `await` to the next, and everything else
may happen in between.

## Modules

| Module | Models | State and actions |
|---|---|---|
| `AbuseStats` | the arithmetic of one address's entry | pure operators, shared by the next two |
| `AbuseController` | abuse control | `per_ip`; one action per public method, each atomic under its mutex; `Tick` is the clock |
| `SlotPool` | what both limiters promise | abstract: acquire while there is room, release what is held |
| `FallbackController` | the budget | one action per atomic access; `pc` and `current` are a call's place and local |
| `ServerAdmission` | composition of the limiters with sessions | `phase` and `pc` follow the accept handler and destroy() statement by statement; `layout` is how threads and io_contexts are arranged |
| `ServerSession` | one server session | `pending` counts operations by kind; an action is a completion handler with all it calls |
| `UdpForward` | UDP forwarding | the session map, `gc_timer` with its queued expiries, the tunnel |
| `Tunnel` | what client-side sessions share | dialling, writes as TLS records, destroy() |
| `ForwardSession`, `ClientSession` | the sessions on top of it | their handlers |
| `ClientModes` | which of the two `create_session` makes | `run_type` |
| `ServiceLifecycle` | main() and the accept chains | `accepts`, `completed`, `rearming`: the places an accept can be |
| `IngressDecision` | metadata, selection, gate, plan | one connection of either listener |
| `UsageAccounting` | quota and record | sessions of several users |
| `Wire` | addresses, requests, packets | a sender, a stream cut anywhere, a parser |
| `RuntimeController` | `AdapterBackedClientController` over `RealShellControllerAdapter` | `op` is the connect or disconnect under way and the await it is at; `probe`, `cleanups`, `writes` and the poll run beside it; `AppRestarts` is a crash and the restore after it |
| `RoutingSafety` | rollback window and quarantine | the history of each profile, the status, the file and the save that is awaited |
| `SecretStore` | `FallbackSecureStorage` | `call`: where each outstanding call is; one action per answer or exception of the keychain |
| `StateStores` | `ProfileStore` | edits, the save timer, file writes that land in any order, exit and restart |
| `InstanceGuard` | `DesktopInstanceGuard`, `requestQuit` | `place` of each copy of the app, the lock, the endpoint file |

`MC*` modules give values to constants; `*Proofs` hold theorems:

| Theorems | About |
|---|---|
| `ServiceProofs` | `AbuseController`, `MCFallbackController`, `ServiceLifecycle` |
| `ServerAdmissionProofs` | `ServerAdmission`: what slips into a cooldown, and who holds what |
| `ServerLimitsProofs` | `ServerAdmission`: the limit and the counters; `UsageAccounting` |
| `ServerSessionProofs` | `ServerSession` |
| `IngressProofs` | `IngressDecision`, `Wire` |
| `ClientModesProofs` | `ClientModes` |
| `ClientStateProofs` | `UdpForward`, `SecretStore`, `StateStores` |
| `RuntimeControllerProofs` | `RuntimeController`, `RoutingSafety`, `InstanceGuard` |

An `MC*` module may put components side by side: a variable (`part`, `run_type`) picks the
component a behaviour is about, and the others keep their first state.
`MCServerAdmission` holds `ServerAdmission` and `UsageAccounting`, `MCServerIngress`
`IngressDecision` and `Wire`, `MCClientModes` `ClientModes` and `UdpForward`,
`MCDesktopClient` the five modules of the client, and `MCFallbackController`
a budget and none.  What a deployment or a peer
fixes once is in the same way a variable that `Init` chooses and no action changes:
`layout` of the threads, `concurrent` handlers, the listener's `bootstrap_mode`, where
packets end (`packet_ends`, `packet_cells`).

Payload is abstracted
to numbered cells, so that order, loss and repetition show; addresses, users, sessions
and certificates are model values or small numbers.  `Wire` alone keeps bytes, over
base 16 instead of 256, because its properties are about lengths and byte order.

Fields that do not change behaviour (logging, most metrics) are left out.  The clocks,
the TLS library, weak pointers and pending operations of asio are marked external in
the map: they are modelled from how the code uses them.

## Runs

| Run | Checks |
|---|---|
| `abuse_controller` | `SlotsAccounted`: counts are exact; `CooldownKept`: no cooldown is shortened; `CooldownExact`: it has a cause and bounds the failures of an address; `ImplementsSlotPool` |
| `fallback` | `CountsExact`, `BudgetKept` with threads anywhere in their loops, limited or not; `ImplementsBudget`; `CallsReturn` |
| `admission` | one thread, and a worker per io_context: `DirectLimit` for addresses without a front, `CountersExact` (slots, sessions, fallback) whenever no call is under way, `SlipsBounded`: of n threads fewer than n let a connection into a cooldown that starts behind its check; `OvershootBounded` for quotas |
| `server_session` | `SingleOperation` per direction; `StreamsConserved`; `UsageLag` is one write; `UdpLimitExact`: the limit ends no good stream and leaves no bad one; `DestroyIsFinal`; `OperationsDrain`: a destroyed session closes and every operation ends |
| `client_modes` | `PayloadConserved`: payload arrives once and in order; `RelaysServed`: each direction, and the control connection of an associate, has its operation; for UDP forwarding `DatagramsConserved`, one session per sender that loses and reorders nothing, and `IdleTimed`; `SessionsFreed` for all, however silent the peers are |
| `lifecycle` | `AcceptorServed`; `ReloadClean`: new sessions get the new certificate and no connection is dropped; `SignalsObeyed`: SIGTERM ends and SIGHUP restarts |
| `server_ingress` | `SourcePrecedence`: who is believed, a front included; `PlanExact`: the payload passed on and the fallback port; `GoodFrameServed`; `ParsersExact` for bytes cut anywhere |
| `desktop_client` | runtime: `StatusSettled`, `ConnectedIsReady`, `ConfigTied`, `SessionRecovered`; routing: `QuarantineHolds`, `QuarantineJustified`; secrets: `SecretsKept`, `FallbackShown`; stores: `EditsSurvive`; single instance: `EndpointCurrent` |

All of them pass.  Four more end in a counterexample, where a document says what does not
hold of the code in a corner case:

| Run | What the counterexample shows |
|---|---|
| `admission_trusted_front` | a trusted-front session releases a slot it never took (`ConnectionLimit`) |
| `forward_late_read` | a late first read makes two writes overlap on one stream (`StreamIntact`) |
| `lifecycle_bad_cert` | an unreadable certificate ends the process on SIGUSR1 (`ReloadDropsNothing`) |
| `desktop_rollback` | a rollback refused for want of arguments leaves the rejected profile's process running (`RollbackStopsCandidate`) |

Other corner cases are inside the passing runs, and the property states the exception:

- `resets`, in `CountersExact`: a peer gone before start() leaves its slot and the session
  metric counted.
- `revived`, in `IdleTimed`: a lookup that succeeds after destroy() brings up a tunnel
  whose session has no idle timer.
- A lookup that succeeds after destroy(), in `SessionsFreed`: it opens the tunnel of a
  destroyed session again, which nothing cancels and no timeout ends; the session stays for as
  long as the server likes.
- `concurrent`, in `ReloadClean`: with several threads an accept under way during a reload
  keeps the old certificate.
- `late_read`, in `PayloadConserved` and `RelaysServed`: the case of `forward_late_read`.
- `stray`, in `PayloadConserved` and `RelaysServed`: data on the control
  connection of an associate while the tunnel connects is taken for payload.
- `empty_recv`, in `RelaysServed`: after an empty datagram an associate reads no more.
- `ReloadClean` excepts the reload that throws.
- `mistaken`, in `ConnectedIsReady`: the probe of an earlier launch, or a port that an orphan
  of an earlier run holds, answers for this one.
- `raced`, in `ConfigTied`: the exit handler of one session deletes the config file that the
  next session of the same profile has just written.
- `leftover`, in `ConfigTied`: a failed delete, or an end of the app before the snapshot is
  written, leaves a config file behind.
- `doubtful`, in `SessionRecovered`: the snapshot on disk is not the last state, because two
  writes were under way and landed in either order, one failed, the write of the safety state
  threw before it, or the process exited while the status was an error, which no poll saves.  A
  later write makes up for it.
- `forgetful`, and more than one profile `condemned`, in `QuarantineHolds`: the file names one
  profile, and is not there before its write, nor after one that threw.
- `forgotten`, in `QuarantineJustified`: the failures before the app's last start are in no file
  and do not count, although the design speaks of any 30 minutes.
- `excused`, in `SecretsKept`: a promotion's cleanup drops what the keychain never took, a
  write or delete overlaps another call's promotion, or the keychain refused a delete.
- `hidden`, in `FallbackShown`: the status is set healthy with secrets still in memory.
- `reordered`, `unsaved_profiles` and `unsaved_selection`, in `EditsSurvive`: two writes of one
  file overlap; the last write of a file failed, which save() swallows and no timer repeats; an
  edit moves the selection and does not save it.  Nothing is claimed of an end of the app with
  a save timer running or a write under way.

The client's storage may fail wherever the code catches it or lets it through: writes of the
snapshot, of the profiles and of the selection are swallowed, as are deletes of a config file
(`LandWrite`, `StoreWriteFails`, `DeletesConfig`, `AppRestarts`), and a write of the safety
state throws through connect() (`SafetyStateThrows`, `SafetySaveFails`).  A write that fails or
is cut off leaves its file as it was or empty.  Half of a snapshot's JSON is read as none, like
the empty file; half of that of the profiles or the safety state makes their load throw, which
is not modelled.

Three facts of the code are in the models and no property claims otherwise.  An expiry
already queued ends a UDP session that a datagram has just re-armed.  stop() frees sessions
without recording their usage.  With several threads on one io_context
destroy() may run on two of them and release one slot twice (`Layouts` can name that
layout; no run does).

### Bounds

- Two or three sessions or connections against a limit of one or two: some hold, one is refused, one comes or goes meanwhile.  Two addresses, so that one's entry cannot stand for another's; in `admission` one of them is a front's.
- A threshold of two failures; a clock of five ticks in `abuse_controller`, so that a window closes, a cooldown ends and another begins, and of two in `admission`, where one cooldown begins and ends.
- Two to six payload cells with reads of at most two or three: every stream is cut in several ways, and more than one read is buffered.  UDP packets of one to three cells against a limit of two.
- Two UDP session objects, three datagrams and two timeouts' worth of clock: expiry, reuse of the sender's entry and a successor.
- Two signals, two acceptors and two certificate versions.
- `Wire`: a 17-byte payload needs both bytes of its length in base 16; hosts and payloads contain CR LF.
- Client: two launches of one profile, so that what is left of one meets the next; one poll write beside the operation's own.  A snapshot that tells of no session stands for any such snapshot and for a missing file, which the next start passes over alike.  Two profiles against a threshold of two rollbacks in a window of two, over five ticks: a failure leaves the window, and a second quarantine displaces the first.  Two keys, values and overlapping calls, four calls in all, two failures of the keychain and one restart.  Two profiles of two versions and two file writes under way.  Three copies of the app: one leaves, one serves, one asks.
- Symmetry is used for the sessions of the admission runs and for the launches of the client's runs, which check no liveness.

No run checks deadlock: sessions and copies of the app end, and bounded inputs run out.

### Fairness

Fairness is given only to what the scheduler or the operating system completes: a thread
inside a call or handler goes on; cancelled operations and operations on closed sockets
complete; timers expire; a lookup ends one way or the other; a pending
signal is delivered.  No peer is assumed to send, to accept a connection, to finish a handshake
or a write, to answer a TLS shutdown, or to close: what only a peer can complete is fair once
destroy() has cancelled it, and an operation started after destroy() is not.
Fairness is weak, except for `HandleSignal`, which competes with the accept handlers.  In
`FallbackController` the calls are bounded by `MaxCalls`; `compare_exchange_weak` fails
spuriously only finitely often.  `abuse_controller`, the admission runs, `server_ingress`,
`lifecycle_bad_cert` and the two runs of the client check safety only.

## Proofs

Thirty-nine theorems, in eight modules.  Each safety argument is an inductive invariant that
holds at the start, is kept by every action and implies the property; it is stated in front
of its proof.  Sets of sessions, connections, keys and copies, lengths of streams, limits,
windows and the bounds of the runs are arbitrary.

`ServiceProofs`, the abuse controller, for every integer configuration value, negative ones
included:

- `TypeCorrect`: the type invariant, which no run repeats.
- `SlotsCorrect`: the count of an address equals the slots held for it and keeps the
  limit.  `SlotInv` adds that an entry with a count is tracked: release erases entries, and
  without this an erased entry could lose slots.  Counting rests on `GrantCounts` and
  `ReturnCounts`, about cardinalities.
- `CooldownCorrect`: no operation shortens a cooldown.  `CooldownInv` ties
  `cooldown_until` to the moment the threshold was last reached.
- `CooldownExactly`: a cooldown comes no earlier and no later than documented.  `WindowInv`
  splits the failures since the last cooldown into those of the current window and those
  before it, of which fewer than the threshold are within one window length of its start;
  that gives the bound of twice the threshold less two.
- `PoolRefinement`: the controller implements `SlotPool`, the slots held being the abstract
  state.

`ServiceProofs`, the fallback budget and the life cycle:

- `BudgetTypesCorrect`, `BudgetCorrect`, `ReleaseCorrect`: the counter is exact and the budget kept,
  with any number of callers anywhere in their loops.  `BudgetInv` adds which loop a caller can
  be in, and that a caller about to release saw a positive counter.
- `CountsCorrect`: `CountsExact` of the run, a controller with a budget and one without side by
  side.  A step of the pair is a step of one and leaves the other alone, so the first half is
  `BudgetCorrect`; `FreeInv` is the invariant of the second, where no caller ever tests the
  counter and an owner that releases has loaded a positive one.
- `BudgetRefinement`: the compare-exchange loops implement `SlotPool`.
- `AcceptorCorrect`, `ReloadCorrect`: `LifecycleInv` is `AcceptorServed`, types and
  `OneThreadFresh`: with one thread no handler is halfway through re-arming while reload_cert
  walks the acceptors, and what waits on an acceptor it has passed has the loaded certificate.

`ServerAdmissionProofs` and `ServerLimitsProofs`, for any finite set of sessions and addresses:

- `LimitCorrect`, `CountersCorrect`: `AdmissionInv` says where destroy() of each session is and
  what the session holds there; `CountInv` says which sessions each of the three counters
  stands for while calls are under way (`HoldersOf`, `Counted`, `OnSlot`), so that each
  statement of the accept handler and of destroy() moves one session into or out of one set.
- These two assume `OneThreadPerSession`, that the layouts are one thread or an io_context
  per worker.  Without it they are false: see `Layouts` above.
- `SlipsCorrect`, for every layout: `SlipInv` adds to the slots granted in a cooldown the
  connections that are past the check and have none yet.  Their accept handlers and the one that
  records the failure each occupy a thread when the cooldown starts, and none joins them later.
- `OvershootCorrect`: `UsageInv` charges every open session its maximum.  auth() adds a session
  only when the recorded usage is below the quota, and record() turns part of a charge into
  usage.  Each user has any quota, or none.

`IngressProofs`, for any metadata and envelopes of any length, any base of the two-byte numbers
above 13, and any passwords, targets and payloads that can be written:

- `PrecedenceCorrect`, `PlanCorrect`, `FrameCorrect`: the three properties of the ingress
  decision are inductive once it is said which listener a session at each stage came from
  (`StagesInv`).  They rest on `BuiltTrusted` (what the envelope's contract accepts the trust
  policy believes), `ParsedFrame` and `PlanSays`.
- `ParsersCorrect`: `WireInv` says that what was read and not parsed, with what is still on the
  way, is what generate wrote for the packets not returned yet.  `RequestParsed` and
  `PacketParsed` say what parse makes of bytes that begin as a request or a packet does: nothing
  until it is whole, and then the request or packet itself and how long it is.  They rest on
  what generate writes byte by byte (`AddressBytes`, `PacketBytes`, `RequestBytes`), on the two
  bytes of a number giving it back (`Carry`), and on `CrLfFound`: no CR LF comes before the one
  behind the password.  `FlattenAppend` and `FlattenFirst`, about streams of any number of
  packets, are inductions; they take a least counterexample, since the prover has no induction
  rule.  The byte that parse reads past a one-byte view may have any value.

`ServerSessionProofs`, for streams of every length, framing and read size:

- `SingleOperationCorrect`, `DestroyFinalCorrect`: `ChainInv` says that a session is driven by
  an upward and a downward chain of operations and that neither forks.
- `StreamsCorrect`: `FlowInv` says, for the operation each chain is at, which buffer holds the
  cells not yet delivered.
- `UsageCorrect`: after destroy() the recorded total lags only while the write that was under
  way may still complete.
- `UdpLimitCorrect`: `LimitInv` says that the UDP buffer begins where a packet ended and that
  a read is awaited only while the buffer is short; a packet of a well-framed stream is
  therefore complete before the buffer is too long.

`ClientModesProofs`, for every number of cells and packet size:

- `PayloadCorrect`, `RelaysCorrect`: `ModesInv` follows a session from the
  greeting (`EarlyInv`) through the dialling, a lookup that succeeds after destroy() included
  (`DialInv`), into the relay (`RelayInv`), and says for each place which buffer holds what was
  read and not delivered, upward (`UpInv`) and downward, there cut into packets (`DownInv`).
  `ClientStep` proves it of a `ClientSession`; a `ForwardSession` takes the steps of a
  CONNECT but for its start (`ForwardStep`), so one invariant covers both.

`RuntimeControllerProofs`, for every set of profiles, launches and copies of the app:

- `StatusCorrect`: `ControllerInv` holds types and that the one awaited snapshot write belongs
  to the operation at that await; `Settled` says that a session that is gone is still claimed
  only between the steps of a disconnect or with a poll to come.
- `ReadyCorrect`: `ReadyInv` follows readiness from the probe's answer through
  `session_ready` to the status.
- `RecoveryCorrect`: `SnapshotInv` says that the last snapshot, written or on its way, tells of
  the process that runs, except at the awaits where an operation has yet to persist, and unless
  a write failed or was left out (`doubtful`).
- `ConfigCorrect`: `ConfigInv` says to whom each config file is owed: a launch, the session, a
  cleanup, or one of the exceptions.
- `QuarantineCorrect`: `QuarantineInv` adds that status and file name the quarantined profile
  too, or a save that will is under way, or the last one threw.
- `JustifiedCorrect`: `HistoryInv` says that the pruned history of a profile has all of its
  failures within the window since the app started, and none that it did not have.
- `EndpointCorrect`: `GuardInv` adds that a copy has the lock from binding its socket until
  after it deletes the endpoint file, so no one deletes a successor's.

`ClientStateProofs`, UDP forwarding for every set of senders and session objects, then the
secure storage and the profile store:

- `DatagramsCorrect`: `CarriedInv` says, for each status, which buffers hold what was accepted
  and not yet sent; `OwnersInv` says that a session object in use is the one its sender's
  entry points to, and that a free one has nothing pending that could wake it.
- `TimerCorrect`: `TimedInv` says that an armed timer is due one timeout after the last traffic
  of its session, and that a live session has it armed or its expiry queued.
- `FallbackCorrect`: `FallbackShown` is inductive with the type of the fallback.
- `SecretsCorrect`: `SecretInv` adds that a promoting call has the lock and that the key it is
  about to copy is still in the fallback, unless excused.
- `EditsCorrect`: `StoresInv` says that the last write under way of each file, or the file,
  holds what the store holds unless the timer runs or that write failed, and that loading a selection the store has
  gives that selection back.

The assumptions on constants are those named in the modules, each evaluated by the runs:
`AbuseConfigAssumption`, `AbuseClientsAssumption`, `FallbackAssumption`, `LifecycleAssumption`,
`AdmissionAssumption`, `UsageAssumption`, `IngressAssumption`, `ServerSessionAssumption`,
`TunnelAssumption`, `ClientSessionAssumption`, `UdpForwardAssumption`, `ControllerAssumption`,
`SafetyAssumption`, `SecretAssumption`, `StoresAssumption`, `GuardAssumption`,
`WireAssumption`.  They say that bounds are numbers, that sets whose members are counted are
finite, and that the value for "none" is none of the others.  `WireAssumption` says what can be
written: a password has no CR LF (it is a hash in hexadecimal), a domain name has one byte for
its length, ports and payload lengths have two.

Model-checked only:

- all liveness (`CallsReturn`, `OperationsDrain`, `SignalsObeyed`, `SessionsFreed`), which is
  outside the prover's reach;
- the four counterexamples.

## Not modelled

- `config`, `log`, `version`: read once, or write only.  A failed load is part of
  `ServiceLifecycle`.
- TLS session cache: callbacks of the TLS library.
- MySQL itself: a statement succeeds or fails.
- Unsynchronised access to the members of one session by two threads, except for
  destroy() in `ServerAdmission`.
- `UdpForward` runs the receiving handler and the sessions on one thread; with workers a
  datagram may meet its session in the middle of a handler.
- Of the runtime controller: health checks, diagnostics, recovery hints, and the content of the
  failure summary (the wait for its write is modelled).
- `SettingsStore`: one record, saved by the timer that `StateStores` models for profiles.
- Routing rules, guardrails and their codec, and the readiness report: values computed from
  their arguments, with no state between two calls.
- Updates, diagnostics exports, analytics, pages, tray and platform runners: calls of plugins
  and layout.
- Installer and release scripts: sequential steps over files and systemd.

## Plan

1. `UdpForward` with the receiving thread beside a worker; the TLS session cache.
2. Client: the update workflow; routing rules against a reference definition; the runtime
   controller and `RoutingSafety` in one composition.
3. Installer: the order of its steps when one fails.
