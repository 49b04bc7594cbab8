--------------------------- MODULE IngressDecision --------------------------
(***************************************************************************)
(* From an accepted connection of the server to the plan its first payload *)
(* gets: which external-front metadata a session carries (the config's     *)
(* trusted-internal source, the config's test metadata, or the envelope    *)
(* that a trusted front sends ahead of the payload), whether it is         *)
(* believed, how the payload is classified and where it goes.              *)
(*                                                                         *)
(* Strings are modelled by whether they are empty, optional values by a    *)
(* set with at most one element.  The bytes of a trusted-front connection  *)
(* are counted in cells: cell 1 is the length line, then come the cells of *)
(* the envelope, then the payload.                                         *)
(*                                                                         *)
(* Definitions named X_Something are deliberately wrong variants of X.     *)
(***************************************************************************)
EXTENDS Integers, FiniteSets

CONSTANTS
    Inputs,         \* metadata that may be configured or sent
    Configs,        \* configurations
    Alpns,          \* ALPN values other than the empty one
    NoAlpn,
    Overrides,      \* the ALPN values that alpn_port_override has a port for
    EnvelopeCells,  \* cells of an envelope
    MaxCells        \* bound: cells a front sends

Bools == {TRUE, FALSE}

Contexts ==
    [trusted_front_id : Bools, original_client_ip : Bools, negotiated_alpn : Alpns \cup {NoAlpn},
     tls_terminated_by_front : Bools, metadata_verified : Bools]

\* TrustedInternalHandoffInput: a context and the name of its source.
AllInputs == [source_name : Bools, context : Contexts]

\* An envelope is JSON text (or not) that holds an input.
Envelopes == [json : Bools, input : Inputs]

ConfigType ==
    [enabled : Bools, stub : Bools, envelope : SUBSET Envelopes, stub_input : Inputs,
     inject : Bools, test_context : {i.context : i \in Inputs}, loopback_only : Bools,
     mtls : Bools]

ASSUME IngressAssumption ==
    /\ Inputs \subseteq AllInputs
    /\ Configs \subseteq ConfigType
    /\ NoAlpn \notin Alpns
    /\ Overrides \subseteq Alpns
    /\ EnvelopeCells \in Nat \ {0} /\ MaxCells \in Nat
-----------------------------------------------------------------------------
(* Metadata and whether it is believed. *)

\* TrustedInternalHandoffInputContract::evaluate
ContractAccepts(i) ==
    /\ i.source_name
    /\ i.context.trusted_front_id
    /\ i.context.original_client_ip
    /\ i.context.metadata_verified /\ i.context.tls_terminated_by_front

\* ExternalFrontTrustPolicy::validate
Trusted(context) ==
    /\ context.trusted_front_id
    /\ context.original_client_ip
    /\ context.metadata_verified /\ context.tls_terminated_by_front

\* TrustedFrontEnvelopeParser::parse_json
ParseEnvelope(e) == {i \in {e.input} : e.json /\ ContractAccepts(i)}

\* ExternalFrontHandoffBuilder::build_trusted_internal_handoff
BuildTrustedInternal(inputs) ==
    {[source_kind |-> "trusted_internal", context |-> i.context] :
        i \in {j \in inputs : ContractAccepts(j)}}

\* ConfigTrustedInternalHandoffSourceStub: active, and the input it offers.
StubActive(c) == c.enabled /\ c.stub
StubInput(c) ==
    IF c.envelope # {} THEN UNION {ParseEnvelope(e) : e \in c.envelope} ELSE {c.stub_input}

\* ConfigExternalFrontMetadataProvider and build_test_injected_handoff
TestInjected(c) ==
    {[source_kind |-> "test_injected", context |-> c.test_context] :
        x \in {y \in {c} : y.enabled /\ y.inject}}

\* Service::maybe_build_external_front_handoff: an active source that offers nothing
\* does not give way to the test metadata.
MaybeBuildHandoff_FallsThrough(c) ==
    LET built == BuildTrustedInternal(StubInput(c))
    IN  IF StubActive(c) /\ built # {} THEN built ELSE TestInjected(c)

MaybeBuildHandoff(c) ==
    IF StubActive(c) THEN BuildTrustedInternal(StubInput(c)) ELSE TestInjected(c)

\* ExternalFrontHandoffContract::evaluate, in maybe_apply_external_front_handoff
ApplyHandoff(handoffs) ==
    {h \in handoffs : h.source_kind \in {"test_injected", "trusted_internal"}}

\* ServerSession::select_ingress and ServerIngressSelector: the context that is used,
\* or none for an embedded-TLS session.
SelectIngress(c, handoffs) ==
    {h.context : h \in {x \in handoffs : c.enabled /\ Trusted(x.context)}}
-----------------------------------------------------------------------------
(* Classifying the first payload, and the plan. *)

Requests == {"tcp", "udp", "bad_password", "not_trojan"}

\* The ALPN that counts: the front's, or that of the session's own TLS.
SelectedAlpn(contexts, alpn) ==
    IF contexts # {} THEN (CHOOSE x \in contexts : TRUE).negotiated_alpn ELSE alpn

\* The port of the fallback: an override for the ALPN, or remote_port.
FallbackPort(alpn) == IF alpn \in Overrides THEN alpn ELSE NoAlpn

\* SessionGate::evaluate and RelayExecutor::build_execution_plan: relay mode, where to,
\* what is sent on (cells first..last of the connection) and whether a fallback slot is
\* needed.  An authenticated request is one cell, which is not sent on.
BuildPlan_KeepsRequest(request, alpn, first, last) ==
    [mode |-> IF request = "udp" THEN "udp" ELSE "tcp",
     port |-> IF request \in {"tcp", "udp"} THEN NoAlpn ELSE FallbackPort(alpn),
     first |-> first, last |-> last, fallback |-> request \notin {"tcp", "udp"}]

BuildPlan(request, alpn, first, last) ==
    IF request \in {"tcp", "udp"}
    THEN [mode |-> request, port |-> NoAlpn, first |-> first + 1, last |-> last,
          fallback |-> FALSE]
    ELSE [mode |-> "tcp", port |-> FallbackPort(alpn), first |-> first, last |-> last,
          fallback |-> TRUE]

\* TrustedFrontIngressParser::parse of the first n cells of a connection whose length
\* line says length (-1: not a number).
ParseIngress_CountsLine(f, n) ==
    IF n = 0 THEN "incomplete"
    ELSE IF f.length = -1 THEN "invalid_length"
    ELSE IF n < f.length THEN "incomplete"
    ELSE IF n - 1 <= f.length THEN "missing_payload"
    ELSE IF f.length = EnvelopeCells /\ BuildTrustedInternal(ParseEnvelope(f.envelope)) # {}
         THEN "parsed"
    ELSE "invalid_envelope"

ParseIngress(f, n) ==
    IF n = 0 THEN "incomplete"
    ELSE IF f.length = -1 THEN "invalid_length"
    ELSE IF n - 1 < f.length THEN "incomplete"
    ELSE IF n - 1 = f.length THEN "missing_payload"
    ELSE IF f.length = EnvelopeCells /\ BuildTrustedInternal(ParseEnvelope(f.envelope)) # {}
         THEN "parsed"
    ELSE "invalid_envelope"

\* TrustedFrontAdmissionPolicy::evaluate
FrontAdmitted(c, loopback) == ~c.loopback_only \/ loopback
-----------------------------------------------------------------------------
VARIABLES
    config,
    listener,       \* which listener accepted: none, public, front
    stage,          \* of the session: new, handshake, bootstrap, planned, closed
    handoff,        \* external_front_handoff
    frame,          \* length line, envelope and request that a front will send
    received,       \* cells received
    plan

ingressVars == <<config, listener, stage, handoff, frame, received, plan>>

NoPlan == [mode |-> "none", port |-> NoAlpn, first |-> 0, last |-> 0, fallback |-> FALSE]
Frames == [length : -1..EnvelopeCells + 1, envelope : Envelopes, request : Requests]
AnyFrame == CHOOSE f \in Frames : TRUE

IngressInit ==
    /\ config \in Configs
    /\ listener = "none" /\ stage = "new"
    /\ handoff = {}
    /\ frame = AnyFrame
    /\ received = 0
    /\ plan = NoPlan

\* create_server_session, accepted.
AcceptPublic ==
    /\ stage = "new"
    /\ listener' = "public" /\ stage' = "handshake"
    /\ handoff' = ApplyHandoff(MaybeBuildHandoff(config))
    /\ UNCHANGED <<config, frame, received, plan>>

\* The trusted-front listener accepts, and admits by source address.
AcceptFromFront(loopback, f) ==
    /\ stage = "new" /\ config.enabled
    /\ listener' = "front"
    /\ stage' = IF FrontAdmitted(config, loopback) THEN "bootstrap" ELSE "closed"
    /\ frame' = f
    /\ UNCHANGED <<config, handoff, received, plan>>

\* handle_handshake_payload
HandlePayload(request, alpn, handoffs, first, last) ==
    /\ plan' = BuildPlan(request, SelectedAlpn(SelectIngress(config, handoffs), alpn), first, last)
    /\ stage' = "planned"

PublicPayload(request, alpn, n) ==
    /\ stage = "handshake"
    /\ HandlePayload(request, alpn, handoff, 1, n)
    /\ received' = n
    /\ UNCHANGED <<config, listener, handoff, frame>>

\* trusted_front_ingress_async_read: n more cells.  The TLS stream of a plain front
\* connection has negotiated no ALPN.
BootstrapRead(n, alpn) ==
    LET total == received + n
        result == ParseIngress(frame, total)
    IN  /\ stage = "bootstrap" /\ total <= MaxCells
        /\ alpn # NoAlpn => config.mtls
        /\ received' = total
        /\ \/ /\ result = "parsed"
              /\ handoff' = BuildTrustedInternal(ParseEnvelope(frame.envelope))
              /\ HandlePayload(frame.request, alpn, handoff', frame.length + 2, total)
           \/ /\ result = "incomplete"
              /\ UNCHANGED <<stage, handoff, plan>>
           \/ /\ result \notin {"parsed", "incomplete"}
              /\ stage' = "closed"
              /\ UNCHANGED <<handoff, plan>>
        /\ UNCHANGED <<config, listener, frame>>

IngressNext ==
    \/ AcceptPublic
    \/ \E loopback \in Bools, f \in Frames : AcceptFromFront(loopback, f)
    \/ \E request \in Requests, alpn \in Alpns \cup {NoAlpn}, n \in 1..2 :
          PublicPayload(request, alpn, n)
    \/ \E n \in 1..MaxCells, alpn \in Alpns \cup {NoAlpn} : BootstrapRead(n, alpn)

IngressSpec == IngressInit /\ [][IngressNext]_ingressVars
-----------------------------------------------------------------------------
\* The source that speaks for a connection decides alone.  On the public listener an active
\* one that is not believed leaves no metadata at all, whatever test metadata is configured.
\* A session of the trusted-front listener is served as an external-front session: what the
\* envelope's contract lets through the trust policy, which is written separately, believes.
SourcePrecedence ==
    /\ listener = "public" /\ StubActive(config) =>
        \A h \in handoff : h.source_kind = "trusted_internal" /\ Trusted(h.context)
    /\ listener = "front" /\ stage = "planned" => SelectIngress(config, handoff) # {}

\* Of a front's connection exactly what follows the envelope is passed on, and of a
\* fallback everything (the fallback server sees what the client sent); a fallback's port
\* other than the default has an override, and is that of the front's ALPN when the front is
\* believed.
PlanExact ==
    stage = "planned" =>
        /\ plan.last = received
        /\ plan.first = (IF listener = "front" THEN EnvelopeCells + 2 ELSE 1)
                          + (IF plan.fallback THEN 0 ELSE 1)
        /\ plan.fallback /\ plan.port # NoAlpn =>
              /\ plan.port \in Overrides
              /\ SelectIngress(config, handoff) # {} =>
                    \E h \in handoff : h.context.negotiated_alpn = plan.port

\* A good frame from an admitted front is refused in one case only: its envelope came
\* complete before the first byte of the payload did.
GoodFrameServed ==
    LET good == frame.length = EnvelopeCells /\ frame.envelope.json
                    /\ ContractAccepts(frame.envelope.input)
    IN  listener = "front" /\ good /\ received > 0 /\ stage = "closed"
            => received = EnvelopeCells + 1
=============================================================================
