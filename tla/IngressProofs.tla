----------------------------- MODULE IngressProofs -----------------------------
(* What a server makes of a connection it has let in.  The ingress decision: for any set   *)
(* of metadata and of configurations, any ALPN values and envelopes of any length.  The    *)
(* parsers of the wire format: for any base of the two-byte numbers, any passwords,        *)
(* targets and payloads that can be written, any number of packets, and any cut of the     *)
(* stream into reads, what the other end wrote is what is parsed.                          *)
EXTENDS IngressDecision, Wire, WellFoundedInduction, TLAPS

--------------------------------------------------------------------------------
(* Sequences.  The provers know these facts as soon as they are stated. *)

\* Sequences with the same elements are equal.
LEMMA SeqEqual ==
  ASSUME NEW S, NEW f \in Seq(S), NEW h \in Seq(S), Len(f) = Len(h), \A i \in 1..Len(f) : f[i] = h[i]
  PROVE  f = h
  OBVIOUS

\* What one sequence behind another is.
LEMMA ConcatProperties ==
  ASSUME NEW S, NEW f \in Seq(S), NEW h \in Seq(S)
  PROVE  /\ f \o h \in Seq(S) /\ Len(f \o h) = Len(f) + Len(h)
         /\ \A i \in 1..Len(f) + Len(h) : (f \o h)[i] = IF i <= Len(f) THEN f[i] ELSE h[i - Len(f)]
  OBVIOUS

\* The empty sequence adds nothing.
LEMMA ConcatEmptySeq ==
  ASSUME NEW S, NEW f \in Seq(S) PROVE f \o <<>> = f /\ <<>> \o f = f
  OBVIOUS

\* Concatenation is associative.
LEMMA ConcatAssociative ==
  ASSUME NEW S, NEW f \in Seq(S), NEW h \in Seq(S), NEW k \in Seq(S)
  PROVE  (f \o h) \o k = f \o (h \o k)
  OBVIOUS

\* What SubSeq cuts out.
LEMMA SubSeqProperties ==
  ASSUME NEW S, NEW f, NEW m \in Int, NEW n \in Int, \A i \in m..n : f[i] \in S
  PROVE  /\ SubSeq(f, m, n) \in Seq(S) /\ Len(SubSeq(f, m, n)) = IF m <= n THEN n - m + 1 ELSE 0
         /\ \A i \in 1..n - m + 1 : SubSeq(f, m, n)[i] = f[m + i - 1]
  OBVIOUS

--------------------------------------------------------------------------------
(* The ingress decision: for any set of metadata and of configurations, any  *)
(* ALPN values and envelopes of any length.                                  *)

\* What the envelope's contract accepts, the trust policy believes.
LEMMA ContractTrusted == ASSUME NEW i, ContractAccepts(i) PROVE Trusted(i.context)
  BY Zenon DEF ContractAccepts, Trusted

\* A handoff built from trusted-internal metadata names its source and is believed.
LEMMA BuiltTrusted ==
  ASSUME NEW inputs, NEW h \in BuildTrustedInternal(inputs)
  PROVE  h.source_kind = "trusted_internal" /\ Trusted(h.context)
<1>1. PICK i \in inputs : ContractAccepts(i)
                          /\ h = [source_kind |-> "trusted_internal", context |-> i.context]
  BY Zenon DEF BuildTrustedInternal
<1> QED
  BY <1>1, ContractTrusted, Zenon

\* The parser of a front's first bytes accepts exactly a whole envelope that is followed by
\* payload.
LEMMA ParsedFrame ==
  ASSUME NEW f \in Frames, NEW n \in Nat
  PROVE  /\ ParseIngress(f, n) = "parsed" =>
                f.length = EnvelopeCells /\ BuildTrustedInternal(ParseEnvelope(f.envelope)) # {}
         /\ /\ f.length = EnvelopeCells /\ f.envelope.json /\ ContractAccepts(f.envelope.input)
            /\ ParseIngress(f, n) \notin {"parsed", "incomplete"}
            => n = EnvelopeCells + 1
<1>1. f.length \in Int /\ EnvelopeCells \in Nat \ {0}
  BY IngressAssumption DEF Frames
<1>2. ParseIngress(f, n) = "parsed" =>
          f.length = EnvelopeCells /\ BuildTrustedInternal(ParseEnvelope(f.envelope)) # {}
  BY Zenon DEF ParseIngress
<1>3. ASSUME f.length = EnvelopeCells, f.envelope.json, ContractAccepts(f.envelope.input),
             ParseIngress(f, n) \notin {"parsed", "incomplete"}
      PROVE  n = EnvelopeCells + 1
  <2>1. f.envelope.input \in ParseEnvelope(f.envelope)
    BY <1>3, Zenon DEF ParseEnvelope
  <2>2. BuildTrustedInternal(ParseEnvelope(f.envelope)) # {}
    BY <1>3, <2>1, Zenon DEF BuildTrustedInternal
  <2> QED
    BY <1>1, <1>3, <2>2, SMTT(30) DEF ParseIngress
<1> QED
  BY <1>2, <1>3, Zenon

\* Which listener a session at each stage came from, and that the front's listener exists only
\* when external fronts are enabled.
StagesInv ==
    /\ received \in Nat
    /\ stage \in {"new", "handshake", "bootstrap", "planned", "closed"}
    /\ stage = "new" => listener = "none" /\ received = 0
    /\ stage = "handshake" => listener = "public"
    /\ stage = "bootstrap" => listener = "front"
    /\ listener = "front" => config.enabled /\ frame \in Frames

\* The inductive invariant.
IngressInv == StagesInv /\ SourcePrecedence /\ PlanExact /\ GoodFrameServed

\* SessionGate and RelayExecutor: what plan p says of a first payload in cells first..last,
\* with these handoffs.
Says(p, c, handoffs, first, last) ==
    /\ p.last = last /\ p.first = IF p.fallback THEN first ELSE first + 1
    /\ p.fallback /\ p.port # NoAlpn =>
          /\ p.port \in Overrides
          /\ SelectIngress(c, handoffs) # {} =>
                \E h \in handoffs : h.context.negotiated_alpn = p.port

\* The plan of SessionGate and RelayExecutor says so.
LEMMA PlanSays ==
  ASSUME NEW req, NEW alpn, NEW handoffs, NEW c, NEW first, NEW last
  PROVE  Says(BuildPlan(req, SelectedAlpn(SelectIngress(c, handoffs), alpn), first, last),
              c, handoffs, first, last)
<1> DEFINE contexts == SelectIngress(c, handoffs)
           p == BuildPlan(req, SelectedAlpn(contexts, alpn), first, last)
<1>1. ASSUME contexts # {}
      PROVE  \E h \in handoffs : h.context.negotiated_alpn = SelectedAlpn(contexts, alpn)
  <2>1. (CHOOSE x \in contexts : TRUE) \in contexts
    BY <1>1, Zenon
  <2>2. PICK h \in handoffs : h.context = CHOOSE x \in contexts : TRUE
    BY <2>1, Zenon DEF SelectIngress
  <2> QED
    BY <1>1, <2>2, Zenon DEF SelectedAlpn
<1> HIDE DEF contexts
<1>2. p.last = last /\ p.first = IF p.fallback THEN first ELSE first + 1
  BY ZenonT(30) DEF BuildPlan
<1>3. ASSUME p.fallback, p.port # NoAlpn
      PROVE  p.port \in Overrides /\ p.port = SelectedAlpn(contexts, alpn)
  BY <1>3, Zenon DEF BuildPlan, FallbackPort
<1> HIDE DEF p
<1>4. Says(p, c, handoffs, first, last)
  BY <1>1, <1>2, <1>3, ZenonT(30) DEF contexts, Says
<1> QED
  BY <1>4, Zenon DEF p, contexts

\* PlanExact of the next state, from what its plan says.
LEMMA PlanIs ==
  ASSUME NEW first \in Nat, first = IF listener' = "front" THEN EnvelopeCells + 2 ELSE 1,
         SelectIngress(config, handoff)' = SelectIngress(config', handoff'),
         Says(plan', config', handoff', first, received')
  PROVE  PlanExact'
<1>1. plan'.last = received' /\ plan'.first = IF plan'.fallback THEN first ELSE first + 1
  BY Zenon DEF Says
<1>2. plan'.first = first + (IF plan'.fallback THEN 0 ELSE 1)
  BY <1>1
<1>3. plan'.fallback /\ plan'.port # NoAlpn =>
          /\ plan'.port \in Overrides
          /\ SelectIngress(config, handoff)' # {} =>
                \E h \in handoff' : h.context.negotiated_alpn = plan'.port
  BY Zenon DEF Says
<1> QED
  BY <1>1, <1>2, <1>3, Zenon DEF PlanExact

\* Accepting, the first payload and every read of a bootstrap keep the invariant.
LEMMA IngressStep == IngressInv /\ [IngressNext]_ingressVars => IngressInv'
<1> SUFFICES ASSUME IngressInv, [IngressNext]_ingressVars PROVE IngressInv'
  BY Zenon
<1> USE IngressAssumption DEF IngressInv
<1>1. CASE AcceptPublic
  <2>1. ASSUME StubActive(config), NEW h \in handoff'
        PROVE  h.source_kind = "trusted_internal" /\ Trusted(h.context)
    <3>1. h \in BuildTrustedInternal(StubInput(config))
      BY <1>1, <2>1, Zenon DEF AcceptPublic, ApplyHandoff, MaybeBuildHandoff
    <3> QED
      BY <3>1, BuiltTrusted, Zenon
  <2>2. listener' = "public" /\ stage' = "handshake" /\ UNCHANGED <<config, frame, received, plan>>
    BY <1>1, Zenon DEF AcceptPublic
  <2>3. SourcePrecedence'
    BY <2>1, <2>2, Zenon DEF SourcePrecedence, StubActive
  <2> QED
    BY <2>2, <2>3, Zenon DEF StagesInv, PlanExact, GoodFrameServed
<1>2. ASSUME NEW loopback \in Bools, NEW f \in Frames, AcceptFromFront(loopback, f)
      PROVE  IngressInv'
  <2>1. /\ listener' = "front" /\ stage' \in {"bootstrap", "closed"} /\ frame' = f
        /\ stage = "new" /\ config.enabled /\ UNCHANGED <<config, handoff, received, plan>>
    BY <1>2, Zenon DEF AcceptFromFront
  <2> QED
    BY <2>1 DEF StagesInv, SourcePrecedence, PlanExact, GoodFrameServed
<1>3. ASSUME NEW req \in Requests, NEW alpn \in Alpns \cup {NoAlpn}, NEW n \in 1..2,
             PublicPayload(req, alpn, n)
      PROVE  IngressInv'
  <2>1. /\ stage = "handshake" /\ stage' = "planned" /\ received' = n /\ listener = "public"
        /\ plan' = BuildPlan(req, SelectedAlpn(SelectIngress(config, handoff), alpn), 1, n)
        /\ UNCHANGED <<config, listener, handoff, frame>>
    BY <1>3, Zenon DEF PublicPayload, HandlePayload, StagesInv
  <2>2. StagesInv' /\ SourcePrecedence' /\ GoodFrameServed'
    BY <2>1, SMTT(30) DEF StagesInv, SourcePrecedence, GoodFrameServed, StubActive
  <2>3. PlanExact'
    <3>1. Says(plan', config, handoff, 1, n)
      BY <2>1, PlanSays, Zenon
    <3>2. SelectIngress(config, handoff)' = SelectIngress(config, handoff)
      BY <2>1, Zenon DEF SelectIngress
    <3>3. /\ 1 \in Nat /\ listener' # "front" /\ received' = n
          /\ SelectIngress(config, handoff)' = SelectIngress(config', handoff')
      BY <2>1, <3>2, Zenon
    <3>4. Says(plan', config', handoff', 1, received')
      BY <2>1, <3>1, Zenon
    <3> QED
      BY <3>3, <3>4, PlanIs, Zenon
  <2> QED
    BY <2>2, <2>3, Zenon
<1>4. ASSUME NEW n \in 1..MaxCells, NEW alpn \in Alpns \cup {NoAlpn}, BootstrapRead(n, alpn)
      PROVE  IngressInv'
  <2> DEFINE total == received + n
             result == ParseIngress(frame, total)
  <2>1. /\ stage = "bootstrap" /\ listener = "front" /\ config.enabled /\ frame \in Frames
        /\ total \in Nat /\ received' = total /\ UNCHANGED <<config, listener, frame>>
    BY <1>4, SMTT(30) DEF BootstrapRead, StagesInv
  <2>2. CASE result = "parsed" /\ stage' = "planned"
             /\ handoff' = BuildTrustedInternal(ParseEnvelope(frame.envelope))
             /\ HandlePayload(frame.request, alpn, handoff', frame.length + 2, total)
    <3>1. frame.length = EnvelopeCells /\ handoff' # {}
      BY <2>1, <2>2, ParsedFrame, Zenon
    <3>2. PICK h \in handoff' : Trusted(h.context)
      BY <2>2, <3>1, BuiltTrusted, Zenon
    <3>3. SelectIngress(config, handoff') # {}
      BY <2>1, <3>2, Zenon DEF SelectIngress
    <3>4. SelectIngress(config, handoff)' = SelectIngress(config, handoff')
      BY <2>1, Zenon DEF SelectIngress
    <3>5. plan' = BuildPlan(frame.request, SelectedAlpn(SelectIngress(config, handoff'), alpn),
                            EnvelopeCells + 2, total)
      BY <2>2, <3>1, Zenon DEF HandlePayload
    <3>6. Says(plan', config, handoff', EnvelopeCells + 2, total)
      BY <3>5, PlanSays, ZenonT(30)
    <3>7. PlanExact'
      <4>1. /\ EnvelopeCells + 2 \in Nat /\ listener' = "front"
            /\ SelectIngress(config, handoff)' = SelectIngress(config', handoff')
        BY <2>1, <3>4
      <4>2. Says(plan', config', handoff', EnvelopeCells + 2, received')
        BY <2>1, <3>6, Zenon
      <4> QED
        BY <4>1, <4>2, PlanIs, Zenon
    <3>8. SourcePrecedence'
      BY <2>1, <3>3, <3>4, Zenon DEF SourcePrecedence
    <3> QED
      BY <2>1, <2>2, <3>7, <3>8, Zenon DEF StagesInv, GoodFrameServed
  <2>3. CASE result = "incomplete" /\ UNCHANGED <<stage, handoff, plan>>
    BY <2>1, <2>3, ZenonT(30) DEF StagesInv, SourcePrecedence, PlanExact, GoodFrameServed
  <2>4. CASE result \notin {"parsed", "incomplete"} /\ stage' = "closed" /\ UNCHANGED <<handoff, plan>>
    <3>1. frame.length = EnvelopeCells /\ frame.envelope.json
              /\ ContractAccepts(frame.envelope.input) => total = EnvelopeCells + 1
      BY <2>1, <2>4, ParsedFrame, Zenon
    <3> QED
      BY <2>1, <2>4, <3>1, ZenonT(30) DEF StagesInv, SourcePrecedence, PlanExact, GoodFrameServed
  <2> QED
    BY <1>4, <2>2, <2>3, <2>4, Zenon DEF BootstrapRead, HandlePayload
<1>5. CASE UNCHANGED ingressVars
  BY <1>5, ZenonT(30) DEF ingressVars, StagesInv, SourcePrecedence, PlanExact, GoodFrameServed, SelectIngress
<1> QED
  BY <1>1, <1>2, <1>3, <1>4, <1>5, Zenon DEF IngressNext

\* IngressInv is an invariant.
LEMMA IngressHolds == IngressSpec => []IngressInv
<1>1. IngressInit => IngressInv
  <2>1. IngressInit => listener = "none" /\ stage = "new" /\ received = 0
    BY Zenon DEF IngressInit
  <2>2. listener = "none" /\ stage = "new" /\ received = 0 => IngressInv
    BY DEF IngressInv, StagesInv, SourcePrecedence, PlanExact, GoodFrameServed
  <2> QED
    BY <2>1, <2>2, Zenon
<1> QED
  BY <1>1, IngressStep, PTL DEF IngressSpec

\* SourcePrecedence, for Service::maybe_build_external_front_handoff and the trusted-front
\* bootstrap: whatever is configured and whatever a front sends, one source speaks for a
\* connection, and what the envelope's contract accepts is believed.
THEOREM PrecedenceCorrect == IngressSpec => []SourcePrecedence
  BY IngressHolds, PTL DEF IngressInv

\* PlanExact, for SessionGate and RelayExecutor: for envelopes of any length and any ALPN
\* override, the plan passes on what follows the envelope, and a fallback's port follows the
\* ALPN of the front when the front is believed.
THEOREM PlanCorrect == IngressSpec => []PlanExact
  BY IngressHolds, PTL DEF IngressInv

\* GoodFrameServed, for TrustedFrontIngressParser: however its bytes are cut into reads, a good
\* frame of an admitted front is refused only when the read that completes it has no payload.
THEOREM FrameCorrect == IngressSpec => []GoodFrameServed
  BY IngressHolds, PTL DEF IngressInv

--------------------------------------------------------------------------------
\* Every nonempty set of natural numbers has a least element: inductions over data below take a
\* least counterexample.
LEMMA WireLeast ==
    ASSUME NEW T \in SUBSET Nat, T # {}
    PROVE  Min(T) \in T /\ \A y \in T : Min(T) <= y
<1> DEFINE R == {ss \in Nat \X Nat : ss[1] < ss[2]}
<1>1. IsWellFoundedOn(R, Nat)
  BY NatLessThanWellFounded, Zenon DEF OpToRel
<1>2. PICK x \in T : \A y \in T : ~(<<y, x>> \in R)
  BY <1>1, WFMin, Zenon
<1>3. ASSUME NEW y \in T PROVE x <= y
  <2>1. x \in Nat /\ y \in Nat /\ ~(<<y, x>> \in R)
    BY <1>2, Zenon
  <2>2. ~(y < x)
    BY <2>1, Zenon
  <2> QED
    BY <2>1, <2>2
<1> QED
  BY <1>3, Zenon DEF Min

--------------------------------------------------------------------------------
(* Sequences *)

\* c is f, then h.
Joined(c, f, h) ==
    /\ Len(c) = Len(f) + Len(h)
    /\ \A i \in 1..Len(f) : c[i] = f[i]
    /\ \A i \in 1..Len(h) : c[Len(f) + i] = h[i]

\* What \o builds is its operands, one behind the other.
LEMMA Concatenated ==
    ASSUME NEW S, NEW f \in Seq(S), NEW h \in Seq(S)
    PROVE  f \o h \in Seq(S) /\ Joined(f \o h, f, h)
<1>1. Len(f) \in Nat /\ Len(h) \in Nat
  OBVIOUS
<1>2. /\ f \o h \in Seq(S) /\ Len(f \o h) = Len(f) + Len(h)
      /\ \A i \in 1..Len(f) + Len(h) : (f \o h)[i] = IF i <= Len(f) THEN f[i] ELSE h[i - Len(f)]
  BY ConcatProperties, Zenon
<1>3. ASSUME NEW i \in 1..Len(f) PROVE (f \o h)[i] = f[i]
  BY <1>1, <1>2
<1>4. ASSUME NEW i \in 1..Len(h) PROVE (f \o h)[Len(f) + i] = h[i]
  <2>1. Len(f) + i \in 1..Len(f) + Len(h) /\ ~(Len(f) + i <= Len(f)) /\ Len(f) + i - Len(f) = i
    BY <1>1
  <2> QED
    BY <1>2, <2>1
<1> QED
  BY <1>2, <1>3, <1>4, Zenon DEF Joined

\* What SubSeq cuts out.
LEMMA Sliced ==
    ASSUME NEW S, NEW d \in Seq(S), NEW m \in Nat, m > 0, NEW n \in Nat, n <= Len(d)
    PROVE  /\ SubSeq(d, m, n) \in Seq(S)
           /\ Len(SubSeq(d, m, n)) = IF m <= n THEN n - m + 1 ELSE 0
           /\ \A i \in 1..Len(SubSeq(d, m, n)) : SubSeq(d, m, n)[i] = d[m + i - 1]
<1>1. \A i \in m..n : d[i] \in S
  OBVIOUS
<1>2. /\ SubSeq(d, m, n) \in Seq(S)
      /\ Len(SubSeq(d, m, n)) = IF m <= n THEN n - m + 1 ELSE 0
      /\ \A i \in 1..n - m + 1 : SubSeq(d, m, n)[i] = d[m + i - 1]
  BY <1>1, SubSeqProperties
<1>3. \A i \in 1..Len(SubSeq(d, m, n)) : i \in 1..n - m + 1
  BY <1>2
<1> QED
  BY <1>2, <1>3, Zenon

\* The slice of d in which the bytes of h are is h.
LEMMA SliceIs ==
    ASSUME NEW S, NEW d \in Seq(S), NEW h \in Seq(S), NEW o \in Nat, o + Len(h) <= Len(d),
           \A i \in 1..Len(h) : d[o + i] = h[i]
    PROVE  SubSeq(d, o + 1, o + Len(h)) = h
<1> DEFINE s == SubSeq(d, o + 1, o + Len(h))
<1>1. Len(h) \in Nat /\ o + 1 \in Nat /\ o + 1 > 0 /\ o + Len(h) \in Nat
  OBVIOUS
<1>2. /\ s \in Seq(S) /\ Len(s) = IF o + 1 <= o + Len(h) THEN o + Len(h) - (o + 1) + 1 ELSE 0
      /\ \A i \in 1..Len(s) : s[i] = d[o + 1 + i - 1]
  BY <1>1, Sliced
<1> HIDE DEF s
<1>3. Len(s) = Len(h)
  BY <1>1, <1>2
<1>4. ASSUME NEW i \in 1..Len(s) PROVE s[i] = h[i]
  <2>1. o + 1 + i - 1 = o + i
    BY <1>1
  <2> QED
    BY <1>2, <1>3, <2>1, Zenon
<1>5. s = h
  BY <1>2, <1>3, <1>4, SeqEqual, Zenon
<1> QED
  BY <1>5, Zenon DEF s

\* What is left of a string from an index on.
LEMMA FromIs ==
    ASSUME NEW S, NEW d \in Seq(S), NEW m \in Nat, m > 0
    PROVE  /\ From(d, m) \in Seq(S)
           /\ Len(From(d, m)) = IF m <= Len(d) THEN Len(d) - m + 1 ELSE 0
           /\ \A i \in 1..Len(From(d, m)) : From(d, m)[i] = d[m + i - 1]
<1>1. Len(d) \in Nat /\ Len(d) <= Len(d)
  OBVIOUS
<1> QED
  BY <1>1, Sliced, Zenon DEF From

--------------------------------------------------------------------------------
(* Bytes *)

\* The addresses that can be written: Targets, and 0.0.0.0:0.
Addresses ==
    {a \in [type : {IPv4, DOMAINNAME, IPv6}, host : Seq(Bytes), port : 0..Base * Base - 1] :
        /\ a.type = IPv4 => Len(a.host) = 4
        /\ a.type = IPv6 => Len(a.host) = 16
        /\ a.type = DOMAINNAME => Len(a.host) \in 1..Base - 1}

Writable == [address : Addresses, payload : {d \in Seq(Bytes) : Len(d) < Base * Base}]

\* Every target of a request is an address that can be written.
LEMMA TargetsAreAddresses == Targets \subseteq Addresses
<1> SUFFICES ASSUME NEW t \in Targets PROVE t \in Addresses
  BY Zenon
<1> DEFINE type == t.type
           host == t.host
           port == t.port
<1>1. t = [type |-> type, host |-> host, port |-> port]
  BY WireAssumption, Zenon
<1>2. host \in Seq(Bytes) /\ port \in 0..Base * Base - 1
  BY WireAssumption, Zenon
<1>3. <<type, Len(host)>> \in ({1} \X {4}) \cup ({4} \X {16}) \cup ({3} \X (1..Base - 1))
  BY WireAssumption, Zenon DEF IPv4, IPv6, DOMAINNAME
<1> HIDE DEF type, host, port
<1>4. \/ type = 1 /\ Len(host) = 4
      \/ type = 4 /\ Len(host) = 16
      \/ type = 3 /\ Len(host) \in 1..Base - 1
  BY <1>3, Zenon
<1> QED
  BY <1>1, <1>2, <1>4 DEF Addresses, IPv4, IPv6, DOMAINNAME

\* The high and the low byte of a number below B * B give it back.
LEMMA Carry ==
    ASSUME NEW B \in Nat, B > 0, NEW n \in Nat, n < B * B
    PROVE  /\ n \div B \in 0..B - 1 /\ n % B \in 0..B - 1 /\ (n \div B) % B = n \div B
           /\ (n \div B) * B + (n % B) = n
<1>1. n \div B \in Int /\ n % B \in 0..B - 1 /\ n = B * (n \div B) + (n % B)
  OBVIOUS
<1> DEFINE q == n \div B
<1> HIDE DEF q
<1>2. q >= 0
  <2>1. q \in Int /\ (q < 0 => B * q <= 0 - B)
    BY <1>1 DEF q
  <2> QED
    BY <1>1, <2>1 DEF q
<1>3. q < B
  <2>1. q \in Int /\ (q >= B => B * q >= B * B)
    BY <1>1 DEF q
  <2> QED
    BY <1>1, <2>1 DEF q
<1>4. q % B = q
  BY <1>1, <1>2, <1>3 DEF q
<1>5. B * q = q * B
  BY <1>1 DEF q
<1> QED
  BY <1>1, <1>2, <1>3, <1>4, <1>5 DEF q

\* A byte holds a length below Base.
LEMMA SmallMod == ASSUME NEW B \in Nat, NEW n \in 1..B - 1 PROVE n % B = n
  OBVIOUS

\* Two bytes hold a number below Base * Base, high byte first.
LEMMA TwoBytesOf ==
    ASSUME NEW n \in Nat, n < Base * Base
    PROVE  /\ TwoBytes(n) \in Seq(Bytes) /\ Len(TwoBytes(n)) = 2
           /\ TwoBytes(n)[1] * Base + TwoBytes(n)[2] = n
<1>1. Base \in Nat /\ Base > 0
  BY WireAssumption
<1>2. /\ n \div Base \in 0..Base - 1 /\ n % Base \in 0..Base - 1
      /\ (n \div Base) % Base = n \div Base /\ (n \div Base) * Base + (n % Base) = n
  BY <1>1, Carry, Zenon
<1> DEFINE q == n \div Base
           r == n % Base
<1>3. TwoBytes(n) = <<q, r>>
  BY <1>2, Zenon DEF TwoBytes
<1> HIDE DEF q, r
<1>4. q \in Bytes /\ r \in Bytes /\ q * Base + r = n
  BY <1>2, Zenon DEF q, r, Bytes
<1> QED
  BY <1>3, <1>4

\* d and g are the same bytes, as far as both go.
Agree(d, g) == \A i \in 1..Len(g) : i <= Len(d) => d[i] = g[i]

--------------------------------------------------------------------------------
(* Addresses *)

\* Where the bytes of an address are.
HostOffset(a) == IF a.type = DOMAINNAME THEN 2 ELSE 1

\* What SOCKS5Address::generate writes, byte by byte.
LEMMA AddressBytes ==
    ASSUME NEW a \in Addresses
    PROVE  LET g == GenerateAddress(a)
               o == HostOffset(a)
               n == Len(a.host)
           IN  /\ g \in Seq(Bytes) /\ Len(g) = o + n + 2
               /\ g[1] = a.type /\ (a.type = DOMAINNAME => g[2] = n)
               /\ \A i \in 1..n : g[o + i] = a.host[i]
               /\ g[o + n + 1] * Base + g[o + n + 2] = a.port
<1> DEFINE g == GenerateAddress(a)
           o == HostOffset(a)
           host == a.host
           n == Len(a.host)
           t == TwoBytes(a.port)
           first == IF a.type = DOMAINNAME THEN <<3, n>> ELSE <<a.type>>
<1>1. Base \in Nat /\ Base > 13 /\ 13 < Base
  BY WireAssumption, Zenon
<1>2. /\ host \in Seq(Bytes) /\ n \in Nat /\ a.port \in 0..Base * Base - 1
      /\ a.type \in {1, 3, 4} /\ (a.type = 3 => n \in 1..Base - 1)
  BY DEF Addresses, IPv4, IPv6, DOMAINNAME
<1>3. t \in Seq(Bytes) /\ Len(t) = 2 /\ t[1] * Base + t[2] = a.port
  <2>1. a.port \in Nat /\ a.port < Base * Base
    <3> DEFINE m == Base * Base
    <3>1. m \in Nat
      BY <1>1
    <3>2. a.port \in 0..m - 1
      BY <1>2, Zenon
    <3> HIDE DEF m
    <3>3. a.port \in Nat /\ a.port < m
      BY <3>1, <3>2
    <3> QED
      BY <3>3, Zenon DEF m
  <2> QED
    BY <2>1, TwoBytesOf, Zenon
<1>4. /\ first \in Seq(Bytes) /\ Len(first) = o /\ first[1] = a.type
      /\ a.type = DOMAINNAME => first[2] = n
  <2>1. CASE a.type = 3
    <3>1. n \in Bytes /\ 3 \in Bytes
      BY <1>1, <1>2, <2>1 DEF Bytes
    <3> QED
      BY <2>1, <3>1 DEF HostOffset, DOMAINNAME
  <2>2. CASE a.type # 3
    <3>1. a.type \in Bytes
      BY <1>1, <1>2 DEF Bytes
    <3> QED
      BY <2>2, <3>1 DEF HostOffset, DOMAINNAME
  <2> QED
    BY <2>1, <2>2, Zenon
<1>5. g = first \o host \o t
  <2>1. CASE a.type = 3
    <3>1. n % Base = n
      BY <1>1, <1>2, <2>1, SmallMod, Zenon
    <3> QED
      BY <2>1, <3>1, Zenon DEF GenerateAddress, DOMAINNAME
  <2>2. CASE a.type # 3
    BY <2>2, Zenon DEF GenerateAddress, DOMAINNAME
  <2> QED
    BY <2>1, <2>2, Zenon
<1> HIDE DEF g, o, host, n, t, first
<1>6. /\ g \in Seq(Bytes) /\ Len(g) = o + n + 2
      /\ \A i \in 1..o : g[i] = first[i]
      /\ \A i \in 1..n : g[o + i] = host[i]
      /\ g[o + n + 1] = t[1] /\ g[o + n + 2] = t[2]
  <2>1. n = Len(host) /\ n \in Nat /\ o = Len(first) /\ o \in Nat
    BY <1>2, <1>4 DEF n, host
  <2> DEFINE fh == first \o host
  <2>2. /\ fh \in Seq(Bytes) /\ Len(fh) = o + n
        /\ \A i \in 1..o : fh[i] = first[i]
        /\ \A i \in 1..n : fh[o + i] = host[i]
    <3>1. fh \in Seq(Bytes) /\ Joined(fh, first, host)
      BY <1>2, <1>4, Concatenated, Zenon
    <3> HIDE DEF fh
    <3> QED
      BY <2>1, <3>1, Zenon DEF Joined
  <2> HIDE DEF fh
  <2>3. /\ fh \o t \in Seq(Bytes) /\ Len(fh \o t) = (o + n) + 2
        /\ \A i \in 1..(o + n) : (fh \o t)[i] = fh[i]
        /\ \A i \in 1..2 : (fh \o t)[(o + n) + i] = t[i]
    <3>1. fh \o t \in Seq(Bytes) /\ Joined(fh \o t, fh, t)
      BY <1>3, <2>2, Concatenated, Zenon
    <3> QED
      BY <1>3, <2>2, <3>1, Zenon DEF Joined
  <2>4. g = fh \o t
    BY <1>5, Zenon DEF fh
  <2>5. ASSUME NEW i \in 1..o PROVE g[i] = first[i]
    <3>1. i \in 1..(o + n)
      BY <2>1
    <3> QED
      BY <2>2, <2>3, <2>4, <3>1, Zenon
  <2>6. ASSUME NEW i \in 1..n PROVE g[o + i] = host[i]
    <3>1. o + i \in 1..(o + n)
      BY <2>1
    <3> QED
      BY <2>2, <2>3, <2>4, <3>1, Zenon
  <2>7. g[o + n + 1] = t[1] /\ g[o + n + 2] = t[2]
    <3>1. (fh \o t)[(o + n) + 1] = t[1] /\ (fh \o t)[(o + n) + 2] = t[2]
      <4>1. 1 \in 1..2 /\ 2 \in 1..2
        OBVIOUS
      <4> QED
        BY <2>3, <4>1, Zenon
    <3> QED
      BY <2>4, <3>1, Zenon
  <2> QED
    BY <2>3, <2>4, <2>5, <2>6, <2>7, Zenon
<1>7. o \in 1..2 /\ (a.type = DOMAINNAME => o = 2)
  BY DEF o, HostOffset
<1> QED
  BY <1>3, <1>4, <1>6, <1>7 DEF g, o, n, host

\* SOCKS5Address::parse of bytes that begin as an address does, or are the beginning of one.
LEMMA AddressParsed ==
    ASSUME NEW a \in Addresses, NEW d \in Seq(Bytes), NEW stray \in Bytes,
           Agree(d, GenerateAddress(a))
    PROVE  ParseAddress(d, stray) =
              IF Len(d) < Len(GenerateAddress(a)) THEN Invalid
              ELSE [valid |-> TRUE, len |-> Len(GenerateAddress(a)), address |-> a]
<1> DEFINE g == GenerateAddress(a)
           o == HostOffset(a)
           host == a.host
           n == Len(a.host)
<1>1. Base \in Nat /\ Base > 13
  BY WireAssumption, Zenon
<1>2. /\ a = [type |-> a.type, host |-> host, port |-> a.port]
      /\ host \in Seq(Bytes) /\ n \in Nat /\ n > 0 /\ n = Len(host)
      /\ \/ a.type = 1 /\ n = 4 /\ o = 1
         \/ a.type = 4 /\ n = 16 /\ o = 1
         \/ a.type = 3 /\ n \in 1..Base - 1 /\ o = 2
  <2>1. /\ a \in [type : {1, 3, 4}, host : Seq(Bytes), port : 0..Base * Base - 1]
        /\ a.type = 1 => n = 4
        /\ a.type = 4 => n = 16
        /\ a.type = 3 => n \in 1..Base - 1
    BY Zenon DEF Addresses, IPv4, IPv6, DOMAINNAME
  <2>2. a = [type |-> a.type, host |-> a.host, port |-> a.port] /\ host \in Seq(Bytes)
    BY <2>1, Zenon
  <2>3. a.type \in {1, 3, 4} /\ (a.type = 3 => o = 2) /\ (a.type # 3 => o = 1)
    BY <2>1, Zenon DEF HostOffset, DOMAINNAME
  <2>4. n \in Nat
    BY <2>2
  <2> HIDE DEF n, o
  <2>5. n > 0
    BY <1>1, <2>1, <2>3, <2>4
  <2> QED
    BY <2>1, <2>2, <2>3, <2>4, <2>5, Zenon DEF n, host
<1>3. /\ g \in Seq(Bytes) /\ Len(g) = o + n + 2
      /\ g[1] = a.type /\ (a.type = 3 => g[2] = n)
      /\ \A i \in 1..n : g[o + i] = host[i]
      /\ g[o + n + 1] * Base + g[o + n + 2] = a.port
  BY AddressBytes, Zenon DEF DOMAINNAME
<1>4. \A i \in 1..Len(g) : i <= Len(d) => d[i] = g[i]
  BY Zenon DEF Agree
<1>5. stray \in Nat
  BY <1>1 DEF Bytes
<1> HIDE DEF g, o, host, n
<1>6. CASE d = <<>>
  <2>1. ParseAddress(d, stray) = Invalid
    BY <1>6, Zenon DEF ParseAddress
  <2>2. Len(d) < Len(g)
    BY <1>2, <1>3, <1>6
  <2> QED
    BY <2>1, <2>2, Zenon DEF g
<1>7. CASE d # <<>>
  <2>1. d[1] = a.type /\ Len(d) \in Nat /\ Len(d) > 0
    <3>1. Len(d) \in Nat /\ Len(d) > 0
      BY <1>7
    <3>2. 1 \in 1..Len(g) /\ 1 <= Len(d)
      BY <1>2, <1>3, <3>1
    <3> QED
      BY <1>3, <1>4, <3>1, <3>2, Zenon
  <2>2. HostAt(d, o + 1, n) = IF Len(d) < Len(g) THEN Invalid
                              ELSE [valid |-> TRUE, len |-> Len(g), address |-> a]
    <3>1. CASE Len(d) < Len(g)
      BY <1>2, <1>3, <2>1, <3>1 DEF HostAt
    <3>2. CASE ~(Len(d) < Len(g))
      <4>1. SubSeq(d, o + 1, o + n) = host
        <5>1. ASSUME NEW i \in 1..n PROVE d[o + i] = host[i]
          <6>1. o + i \in 1..Len(g) /\ o + i <= Len(d)
            <7> DEFINE k == Len(d)
                       l == Len(g)
            <7>1. k \in Nat /\ l = o + n + 2 /\ ~(k < l) /\ o \in Nat /\ n \in Nat
              <8>1. o \in Nat /\ n \in Nat
                BY <1>2
              <8> QED
                BY <1>3, <2>1, <3>2, <8>1, Zenon
            <7> HIDE DEF k, l
            <7>2. o + i \in 1..l /\ o + i <= k
              BY <7>1
            <7> QED
              BY <7>2, Zenon DEF k, l
          <6> QED
            BY <1>3, <1>4, <6>1, Zenon
        <5>2. o \in Nat /\ o + n <= Len(d)
          BY <1>2, <1>3, <2>1, <3>2
        <5> QED
          BY <1>2, <5>1, <5>2, SliceIs, Zenon
      <4>2. Number(d, o + 1 + n) = a.port
        <5>1. d[o + n + 1] = g[o + n + 1] /\ d[o + n + 2] = g[o + n + 2]
          BY <1>2, <1>3, <1>4, <2>1, <3>2
        <5>2. o + 1 + n = o + n + 1 /\ o + 1 + n + 1 = o + n + 2
          BY <1>2
        <5> QED
          BY <1>3, <5>1, <5>2, Zenon DEF Number
      <4>3. /\ Len(d) >= o + 1 + n + 1 /\ o + 1 + n + 1 = Len(g) /\ o + 1 + n - 1 = o + n
        BY <1>2, <1>3, <2>1, <3>2
      <4> QED
        BY <1>2, <2>1, <3>2, <4>1, <4>2, <4>3, Zenon DEF HostAt
    <3> QED
      BY <3>1, <3>2, Zenon
  <2>3. CASE a.type = 1
    <3>1. ParseAddress(d, stray) = HostAt(d, 2, 4) /\ o + 1 = 2 /\ n = 4
      BY <1>2, <1>7, <2>1, <2>3 DEF ParseAddress, IPv4, IPv6, DOMAINNAME
    <3> QED
      BY <2>2, <3>1, Zenon DEF g
  <2>4. CASE a.type = 4
    <3>1. ParseAddress(d, stray) = HostAt(d, 2, 16) /\ o + 1 = 2 /\ n = 16
      BY <1>2, <1>7, <2>1, <2>4 DEF ParseAddress, IPv4, IPv6, DOMAINNAME
    <3> QED
      BY <2>2, <3>1, Zenon DEF g
  <2>5. CASE a.type = 3
    <3> DEFINE m == IF Len(d) > 1 THEN d[2] ELSE stray
    <3>1. ParseAddress(d, stray) = IF m = 0 THEN Invalid ELSE HostAt(d, 3, m)
      BY <1>7, <2>1, <2>5 DEF ParseAddress, IPv4, IPv6, DOMAINNAME
    <3>2. CASE Len(d) > 1
      <4>1. m = n /\ o + 1 = 3
        <5>1. o = 2 /\ 2 \in 1..Len(g) /\ 2 <= Len(d)
          BY <1>2, <1>3, <2>1, <2>5, <3>2
        <5>2. d[2] = g[2]
          BY <1>4, <5>1, Zenon
        <5> QED
          BY <1>3, <2>5, <3>2, <5>1, <5>2
      <4> QED
        BY <1>2, <2>2, <3>1, <4>1 DEF g
    <3>3. CASE ~(Len(d) > 1)
      <4>1. m = stray /\ Len(d) = 1 /\ Len(d) < Len(g)
        <5>1. m = stray
          BY <3>3, Zenon
        <5>2. Len(d) = 1
          <6> DEFINE k == Len(d)
          <6>1. k \in Nat /\ k > 0 /\ ~(k > 1)
            BY <2>1, <3>3, Zenon
          <6> HIDE DEF k
          <6>2. k = 1
            BY <6>1
          <6> QED
            BY <6>2, Zenon DEF k
        <5>3. o \in Nat /\ Len(g) = o + n + 2
          BY <1>2, <1>3
        <5> QED
          BY <1>2, <5>1, <5>2, <5>3
      <4>2. HostAt(d, 3, m) = Invalid
        BY <1>5, <4>1 DEF HostAt
      <4> QED
        BY <3>1, <4>1, <4>2, Zenon DEF g
    <3> QED
      BY <3>2, <3>3, Zenon
  <2> QED
    BY <1>2, <2>3, <2>4, <2>5, Zenon
<1> QED
  BY <1>6, <1>7, Zenon

--------------------------------------------------------------------------------
(* Packets *)

\* The line end.
LEMMA CrLfBytes == CRLF \in Seq(Bytes) /\ Len(CRLF) = 2 /\ CRLF[1] = 13 /\ CRLF[2] = 10
<1>1. 13 \in Bytes /\ 10 \in Bytes
  BY WireAssumption DEF Bytes
<1> QED
  BY <1>1 DEF CRLF

\* What UDPPacket::generate writes, byte by byte.
LEMMA PacketBytes ==
    ASSUME NEW p \in Writable
    PROVE  LET g == GeneratePacket(p, FALSE)
               a == GenerateAddress(p.address)
               h == Len(a)
               n == Len(p.payload)
           IN  /\ g \in Seq(Bytes) /\ Len(g) = h + 4 + n
               /\ \A i \in 1..h : g[i] = a[i]
               /\ g[h + 1] * Base + g[h + 2] = n
               /\ g[h + 3] = 13 /\ g[h + 4] = 10
               /\ \A i \in 1..n : g[h + 4 + i] = p.payload[i]
<1> DEFINE g == GeneratePacket(p, FALSE)
           a == GenerateAddress(p.address)
           h == Len(a)
           d == p.payload
           n == Len(d)
           t == TwoBytes(n)
           at == a \o t
           atc == at \o CRLF
<1>1. p.address \in Addresses /\ d \in Seq(Bytes) /\ n < Base * Base
  BY Zenon DEF Writable
<1>2. a \in Seq(Bytes)
  BY <1>1, AddressBytes, Zenon
<1>3. t \in Seq(Bytes) /\ Len(t) = 2 /\ t[1] * Base + t[2] = n
  BY <1>1, TwoBytesOf
<1>4. g = atc \o d
  BY Zenon DEF GeneratePacket
<1> HIDE DEF g, a, d, t
<1>5. at \in Seq(Bytes) /\ Joined(at, a, t)
  BY <1>2, <1>3, Concatenated, Zenon
<1> HIDE DEF at
<1>6. atc \in Seq(Bytes) /\ Joined(atc, at, CRLF)
  BY <1>5, CrLfBytes, Concatenated, Zenon
<1> HIDE DEF atc
<1>7. g \in Seq(Bytes) /\ Joined(g, atc, d)
  BY <1>1, <1>4, <1>6, Concatenated, Zenon
<1>8. h \in Nat /\ n \in Nat
  BY <1>1, <1>2
<1> HIDE DEF h, n
<1>9. /\ Len(at) = h + 2
      /\ \A i \in 1..h : at[i] = a[i]
      /\ at[h + 1] = t[1] /\ at[h + 2] = t[2]
  BY <1>3, <1>5, <1>8 DEF Joined, h
<1>10. /\ Len(atc) = h + 4
       /\ \A i \in 1..(h + 2) : atc[i] = at[i]
       /\ atc[h + 3] = 13 /\ atc[h + 4] = 10
  <2>1. Len(atc) = (h + 2) + 2 /\ \A i \in 1..(h + 2) : atc[i] = at[i]
    BY <1>6, <1>9, CrLfBytes, Zenon DEF Joined
  <2>2. \A i \in 1..2 : atc[(h + 2) + i] = CRLF[i]
    BY <1>6, <1>9, CrLfBytes, Zenon DEF Joined
  <2>3. atc[(h + 2) + 1] = 13 /\ atc[(h + 2) + 2] = 10
    BY <2>2, CrLfBytes
  <2>4. (h + 2) + 1 = h + 3 /\ (h + 2) + 2 = h + 4
    BY <1>8
  <2> QED
    BY <2>1, <2>3, <2>4, Zenon
<1>11. /\ Len(g) = h + 4 + n
       /\ \A i \in 1..(h + 4) : g[i] = atc[i]
       /\ \A i \in 1..n : g[h + 4 + i] = d[i]
  <2>1. n = Len(d)
    BY Zenon DEF n
  <2> QED
    BY <1>7, <1>10, <2>1, Zenon DEF Joined
<1>12. ASSUME NEW i \in 1..h PROVE g[i] = a[i]
  <2>1. i \in 1..(h + 2) /\ i \in 1..(h + 4)
    BY <1>8
  <2> QED
    BY <1>9, <1>10, <1>11, <2>1, Zenon
<1>13. /\ g[h + 1] = t[1] /\ g[h + 2] = t[2]
       /\ g[h + 3] = 13 /\ g[h + 4] = 10
  <2>1. /\ h + 1 \in 1..(h + 2) /\ h + 2 \in 1..(h + 2)
        /\ h + 1 \in 1..(h + 4) /\ h + 2 \in 1..(h + 4)
        /\ h + 3 \in 1..(h + 4) /\ h + 4 \in 1..(h + 4)
    BY <1>8
  <2> QED
    BY <1>9, <1>10, <1>11, <2>1, Zenon
<1> QED
  BY <1>3, <1>7, <1>11, <1>12, <1>13, Zenon DEF g, a, h, d, n

\* UDPPacket::parse of bytes that begin as a packet does, or are the beginning of one.
LEMMA PacketParsed ==
    ASSUME NEW p \in Writable, NEW d \in Seq(Bytes), NEW stray \in Bytes,
           Agree(d, GeneratePacket(p, FALSE))
    PROVE  ParsePacket(d, stray) =
              IF Len(d) < Len(GeneratePacket(p, FALSE)) THEN Invalid
              ELSE [valid |-> TRUE, len |-> Len(GeneratePacket(p, FALSE)), packet |-> p]
<1> DEFINE g == GeneratePacket(p, FALSE)
           a == GenerateAddress(p.address)
           h == Len(a)
           n == Len(p.payload)
           l == Len(d)
           r == ParseAddress(d, stray)
<1>1. /\ g \in Seq(Bytes) /\ Len(g) = h + 4 + n
      /\ \A i \in 1..h : g[i] = a[i]
      /\ g[h + 1] * Base + g[h + 2] = n
      /\ g[h + 3] = 13 /\ g[h + 4] = 10
      /\ \A i \in 1..n : g[h + 4 + i] = p.payload[i]
  BY PacketBytes, Zenon
<1>2. \A i \in 1..Len(g) : i <= l => d[i] = g[i]
  BY Zenon DEF Agree
<1>3. /\ p.address \in Addresses /\ p.payload \in Seq(Bytes)
      /\ p = [address |-> p.address, payload |-> p.payload]
  BY Zenon DEF Writable
<1>4. h \in Nat /\ n \in Nat /\ l \in Nat
  BY <1>3, AddressBytes
<1>5. r = IF l < h THEN Invalid ELSE [valid |-> TRUE, len |-> h, address |-> p.address]
  <2>1. Agree(d, a)
    <3> SUFFICES ASSUME NEW i \in 1..h, i <= l PROVE d[i] = a[i]
      BY Zenon DEF Agree
    <3> HIDE DEF g, a, h, n, l
    <3>1. i \in 1..Len(g)
      BY <1>1, <1>4
    <3> QED
      BY <1>1, <1>2, <3>1, Zenon
  <2> QED
    BY <1>3, <2>1, AddressParsed, Zenon
<1> HIDE DEF g, a, h, n, l, r
<1>6. CASE l < h
  <2>1. ~r.valid
    BY <1>5, <1>6, Zenon DEF Invalid
  <2>2. ParsePacket(d, stray) = Invalid
    BY <2>1, Zenon DEF ParsePacket, r
  <2>3. l < Len(g)
    BY <1>1, <1>4, <1>6
  <2> QED
    BY <2>2, <2>3, Zenon DEF l, g
<1>7. CASE ~(l < h)
  <2>1. r.valid = TRUE /\ r.len = h /\ r.address = p.address
    BY <1>5, <1>7, Zenon
  <2>2. CASE l < h + 2
    <3>1. ParsePacket(d, stray) = Invalid
      BY <2>1, <2>2, Zenon DEF ParsePacket, r, l
    <3>2. l < Len(g)
      BY <1>1, <1>4, <2>2
    <3> QED
      BY <3>1, <3>2, Zenon DEF l, g
  <2>3. CASE ~(l < h + 2)
    <3>1. Number(d, h + 1) = n
      <4>1. h + 1 \in 1..Len(g) /\ h + 2 \in 1..Len(g) /\ h + 1 <= l /\ h + 2 <= l
        BY <1>1, <1>4, <2>3
      <4>2. d[h + 1] = g[h + 1] /\ d[h + 2] = g[h + 2]
        BY <1>2, <4>1, Zenon
      <4>3. h + 1 + 1 = h + 2
        BY <1>4
      <4> QED
        BY <1>1, <4>2, <4>3, Zenon DEF Number
    <3>2. CASE l < Len(g)
      <4>1. l < h + 4 + n
        BY <1>1, <3>2, Zenon
      <4>2. ParsePacket(d, stray) = Invalid
        BY <2>1, <2>3, <3>1, <4>1, Zenon DEF ParsePacket, r, l
      <4> QED
        BY <3>2, <4>2, Zenon DEF l, g
    <3>3. CASE ~(l < Len(g))
      <4>1. ~(l < h + 4 + n) /\ h + 4 + n <= l
        BY <1>1, <1>4, <3>3
      <4>2. ASSUME NEW i \in 1..(4 + n) PROVE d[h + i] = g[h + i]
        <5>1. h + i \in 1..Len(g) /\ h + i <= l
          BY <1>1, <1>4, <4>1
        <5> QED
          BY <1>2, <5>1, Zenon
      <4>3. SubSeq(d, h + 3, h + 4) = CRLF
        <5> DEFINE o == h + 2
        <5>1. 3 \in 1..(4 + n) /\ 4 \in 1..(4 + n)
          BY <1>4
        <5>2. d[h + 3] = 13 /\ d[h + 4] = 10
          BY <1>1, <4>2, <5>1, Zenon
        <5>3. o \in Nat /\ o + 1 = h + 3 /\ o + 2 = h + 4 /\ o + 2 <= l
          BY <1>4, <4>1
        <5> HIDE DEF o
        <5>4. \A i \in 1..2 : d[o + i] = CRLF[i]
          BY <5>2, <5>3, CrLfBytes
        <5>5. SubSeq(d, o + 1, o + 2) = CRLF
          BY <5>3, <5>4, CrLfBytes, SliceIs, Zenon DEF l
        <5> QED
          BY <5>3, <5>5, Zenon
      <4>4. SubSeq(d, h + 5, h + 4 + n) = p.payload
        <5> DEFINE o == h + 4
        <5>1. ASSUME NEW i \in 1..n PROVE d[o + i] = p.payload[i]
          <6>1. 4 + i \in 1..(4 + n) /\ h + (4 + i) = h + 4 + i
            BY <1>4
          <6> QED
            BY <1>1, <4>2, <6>1, Zenon
        <5>2. o \in Nat /\ o + 1 = h + 5 /\ o + n <= l
          BY <1>4, <4>1
        <5> HIDE DEF o
        <5>3. n = Len(p.payload) /\ l = Len(d)
          BY Zenon DEF n, l
        <5>4. SubSeq(d, o + 1, o + n) = p.payload
          BY <1>3, <5>1, <5>2, <5>3, SliceIs, Zenon
        <5> QED
          BY <5>2, <5>4, Zenon DEF o
      <4>5. ParsePacket(d, stray) =
                [valid |-> TRUE, len |-> h + 4 + n,
                 packet |-> [address |-> p.address, payload |-> p.payload]]
        <5>1. ~(Len(d) < r.len + 2) /\ ~(Len(d) < r.len + 4 + n)
          BY <2>1, <2>3, <4>1, Zenon DEF l
        <5> QED
          BY <2>1, <3>1, <4>3, <4>4, <5>1, Zenon DEF ParsePacket, r
      <4> QED
        BY <1>1, <1>3, <3>3, <4>5, Zenon DEF g, l
    <3> QED
      BY <3>2, <3>3, Zenon
  <2> QED
    BY <2>2, <2>3, Zenon
<1> QED
  BY <1>6, <1>7, Zenon

--------------------------------------------------------------------------------
(* FlattenSeq *)

FlatStep(F, i, ss) == IF i = 1 THEN ss[i] ELSE F[i - 1] \o ss[i]

FlatOf(ss) ==
    CHOOSE F : F = [i \in 1..Len(ss) |-> IF i = 1 THEN ss[i] ELSE F[i - 1] \o ss[i]]

\* FlattenSeq, with its local function named.
LEMMA FlattenIs ==
    ASSUME NEW ss PROVE FlattenSeq(ss) = IF Len(ss) = 0 THEN ss ELSE FlatOf(ss)[Len(ss)]
  BY Zenon DEF FlattenSeq, FlatOf

\* F gives what the first i elements of ss flatten to, for every i up to n.
IsFlat(F, n, ss) == \A i \in 1..n : F[i] = FlatStep(F, i, ss)

\* There is a function as FlattenSeq chooses one.
LEMMA FlatExists ==
    ASSUME NEW S, NEW ss \in Seq(Seq(S))
    PROVE  \E F \in [1..Len(ss) -> Seq(S)] : IsFlat(F, Len(ss), ss)
<1> DEFINE N == Len(ss)
           Bad == {m \in 0..N : ~\E F \in [1..m -> Seq(S)] : IsFlat(F, m, ss)}
           m == Min(Bad)
<1>1. N \in Nat /\ \A i \in 1..N : ss[i] \in Seq(S)
  OBVIOUS
<1> HIDE DEF N
<1>2. Bad = {}
  <2> SUFFICES ASSUME Bad # {} PROVE FALSE
    BY Zenon
  <2>1. m \in Bad /\ \A y \in Bad : m <= y
    <3>1. Bad \in SUBSET Nat
      BY <1>1
    <3> HIDE DEF Bad
    <3> QED
      BY <3>1, WireLeast, Zenon
  <2>2. m \in 0..N /\ ~\E F \in [1..m -> Seq(S)] : IsFlat(F, m, ss)
    BY <2>1, Zenon
  <2> HIDE DEF m
  <2>3. m # 0
    <3> SUFFICES ASSUME m = 0 PROVE FALSE
      BY Zenon
    <3> DEFINE F == [i \in 1..m |-> <<>>]
    <3>1. 1..m = {}
      OBVIOUS
    <3>2. F \in [1..m -> Seq(S)] /\ IsFlat(F, m, ss)
      BY <3>1, Zenon DEF IsFlat
    <3> QED
      BY <2>2, <3>2, Zenon
  <2>4. m \in 1..N /\ m - 1 \in 0..N /\ m \in Nat /\ m - 1 < m
    BY <1>1, <2>2, <2>3
  <2>5. m - 1 \notin Bad
    <3> HIDE DEF Bad
    <3>1. m - 1 \in Bad => m <= m - 1
      BY <2>1, Zenon
    <3> QED
      BY <2>4, <3>1
  <2>6. PICK G \in [1..(m - 1) -> Seq(S)] : IsFlat(G, m - 1, ss)
    BY <2>4, <2>5, Zenon
  <2> DEFINE F == [i \in 1..m |-> FlatStep(G, i, ss)]
  <2>7. ASSUME NEW i \in 1..m PROVE FlatStep(G, i, ss) \in Seq(S)
    <3>1. i \in 1..N
      BY <1>1, <2>4
    <3>2. ss[i] \in Seq(S)
      BY <1>1, <3>1, Zenon
    <3>3. CASE i # 1
      <4>1. i - 1 \in 1..(m - 1)
        BY <2>4, <3>3
      <4>2. G[i - 1] \in Seq(S)
        BY <2>6, <4>1, Zenon
      <4>3. G[i - 1] \o ss[i] \in Seq(S)
        BY <3>2, <4>2, Concatenated, Zenon
      <4> QED
        BY <3>3, <4>3, Zenon DEF FlatStep
    <3> QED
      BY <3>2, <3>3, Zenon DEF FlatStep
  <2>8. F \in [1..m -> Seq(S)]
    BY <2>7, Zenon
  <2>9. ASSUME NEW i \in 1..m PROVE F[i] = FlatStep(F, i, ss)
    <3>1. F[i] = FlatStep(G, i, ss)
      BY Zenon
    <3>2. CASE i # 1
      <4>1. i - 1 \in 1..(m - 1) /\ i - 1 \in 1..m
        BY <2>4, <3>2
      <4>2. F[i - 1] = FlatStep(G, i - 1, ss)
        BY <4>1, Zenon
      <4>3. G[i - 1] = FlatStep(G, i - 1, ss)
        BY <2>6, <4>1, Zenon DEF IsFlat
      <4>4. F[i - 1] = G[i - 1]
        BY <4>2, <4>3, Zenon
      <4> HIDE DEF F
      <4> QED
        BY <3>1, <3>2, <4>4, Zenon DEF FlatStep
    <3> HIDE DEF F
    <3> QED
      BY <3>1, <3>2, Zenon DEF FlatStep
  <2> HIDE DEF F
  <2>10. IsFlat(F, m, ss)
    BY <2>9, Zenon DEF IsFlat
  <2> QED
    BY <2>2, <2>8, <2>10, Zenon
<1>3. N \in 0..N
  BY <1>1
<1> QED
  BY <1>2, <1>3, Zenon DEF N

\* Two such functions agree.
LEMMA FlatUnique ==
    ASSUME NEW S, NEW ss \in Seq(Seq(S)), Len(ss) > 0,
           NEW F \in [1..Len(ss) -> Seq(S)], IsFlat(F, Len(ss), ss)
    PROVE  FlattenSeq(ss) = F[Len(ss)]
<1> DEFINE N == Len(ss)
           C == FlatOf(ss)
           Bad == {i \in 1..N : C[i] # F[i]}
           m == Min(Bad)
<1>1. N \in Nat /\ N > 0
  OBVIOUS
<1>2. F = [i \in 1..N |-> FlatStep(F, i, ss)]
  BY Zenon DEF IsFlat
<1>3. F = [i \in 1..N |-> IF i = 1 THEN ss[i] ELSE F[i - 1] \o ss[i]]
  BY <1>2, Zenon DEF FlatStep
<1>4. C = [i \in 1..N |-> IF i = 1 THEN ss[i] ELSE C[i - 1] \o ss[i]]
  BY <1>3, Zenon DEF FlatOf
<1> HIDE DEF C
<1>5. \A i \in 1..N : C[i] = IF i = 1 THEN ss[i] ELSE C[i - 1] \o ss[i]
  BY <1>4, Zenon
<1>6. \A i \in 1..N : F[i] = IF i = 1 THEN ss[i] ELSE F[i - 1] \o ss[i]
  BY <1>3, Zenon
<1> HIDE DEF N
<1>7. Bad = {}
  <2> SUFFICES ASSUME Bad # {} PROVE FALSE
    BY Zenon
  <2>1. m \in Bad /\ \A y \in Bad : m <= y
    <3>1. Bad \in SUBSET Nat
      BY <1>1
    <3> HIDE DEF Bad
    <3> QED
      BY <3>1, WireLeast, Zenon
  <2>2. m \in 1..N /\ C[m] # F[m]
    BY <2>1, Zenon
  <2> HIDE DEF m
  <2>3. m # 1
    BY <1>5, <1>6, <2>2, Zenon
  <2>4. m - 1 \in 1..N /\ m \in Nat /\ ~(m <= m - 1)
    BY <1>1, <2>2, <2>3
  <2>5. m - 1 \notin Bad
    <3> HIDE DEF Bad
    <3> QED
      BY <2>1, <2>4, Zenon
  <2>6. C[m - 1] = F[m - 1]
    BY <2>4, <2>5, Zenon
  <2> QED
    BY <1>5, <1>6, <2>2, <2>3, <2>6, Zenon
<1>8. N \in 1..N /\ N # 0
  BY <1>1
<1>9. C[N] = F[N]
  BY <1>7, <1>8, Zenon
<1> QED
  BY <1>8, <1>9, FlattenIs, Zenon DEF C, N

\* Flattening a sequence that was appended to.
LEMMA FlattenAppend ==
    ASSUME NEW S, NEW ss \in Seq(Seq(S)), NEW x \in Seq(S)
    PROVE  FlattenSeq(ss) \in Seq(S) /\ FlattenSeq(Append(ss, x)) = FlattenSeq(ss) \o x
<1> DEFINE N == Len(ss)
           tt == Append(ss, x)
<1>1. N \in Nat
  OBVIOUS
<1>2. tt \in Seq(Seq(S)) /\ Len(tt) = N + 1 /\ tt[N + 1] = x /\ \A i \in 1..N : tt[i] = ss[i]
  OBVIOUS
<1>3. PICK F \in [1..N -> Seq(S)] : IsFlat(F, N, ss)
  BY FlatExists, Zenon
<1>4. FlattenSeq(ss) = IF N = 0 THEN <<>> ELSE F[N]
  <2>1. CASE N = 0
    <3>1. ss = <<>>
      BY <2>1
    <3> QED
      BY <2>1, <3>1, FlattenIs, Zenon
  <2>2. CASE N # 0
    <3>1. N > 0
      BY <1>1, <2>2
    <3> QED
      BY <1>3, <2>2, <3>1, FlatUnique, Zenon
  <2> QED
    BY <2>1, <2>2, Zenon
<1>5. FlattenSeq(ss) \in Seq(S)
  <2>1. <<>> \in Seq(S)
    OBVIOUS
  <2>2. N # 0 => N \in 1..N
    BY <1>1
  <2> QED
    BY <1>3, <1>4, <2>1, <2>2, Zenon
<1> DEFINE y == FlattenSeq(ss)
           G == [i \in 1..(N + 1) |-> IF i = N + 1 THEN y \o x ELSE F[i]]
<1> HIDE DEF tt, N
<1>6. y \o x \in Seq(S)
  BY <1>5, Concatenated, Zenon
<1>7. ASSUME NEW i \in 1..(N + 1) PROVE i = N + 1 \/ (i \in 1..N /\ i # N + 1)
  BY <1>1
<1>8. G \in [1..(N + 1) -> Seq(S)]
  <2> HIDE DEF y
  <2> QED
    BY <1>3, <1>6, <1>7, Zenon
<1>9. ASSUME NEW i \in 1..(N + 1) PROVE G[i] = FlatStep(G, i, tt)
  <2>1. CASE i = N + 1
    <3>1. G[i] = y \o x
      BY <2>1, Zenon
    <3>2. CASE N = 0
      <4>1. y = <<>> /\ i = 1
        BY <1>4, <2>1, <3>2
      <4>2. y \o x = x
        BY <4>1, ConcatEmptySeq, Zenon
      <4>3. tt[i] = x
        BY <1>2, <2>1, Zenon
      <4> QED
        BY <3>1, <4>1, <4>2, <4>3, Zenon DEF FlatStep
    <3>3. CASE N # 0
      <4>1. i # 1 /\ i - 1 = N /\ N \in 1..(N + 1) /\ N # N + 1
        BY <1>1, <2>1, <3>3
      <4>2. G[i - 1] = F[N] /\ y = F[N]
        BY <1>4, <3>3, <4>1, Zenon
      <4>3. tt[i] = x
        BY <1>2, <2>1, Zenon
      <4> HIDE DEF G, y
      <4> QED
        BY <3>1, <4>1, <4>2, <4>3, Zenon DEF FlatStep
    <3> QED
      BY <3>2, <3>3, Zenon
  <2>2. CASE i # N + 1
    <3>1. i \in 1..N
      BY <1>7, <2>2, Zenon
    <3>2. G[i] = F[i] /\ F[i] = FlatStep(F, i, ss) /\ tt[i] = ss[i]
      BY <1>2, <1>3, <2>2, <3>1, Zenon DEF IsFlat
    <3>3. CASE i # 1
      <4>1. i - 1 \in 1..(N + 1) /\ i - 1 # N + 1
        BY <1>1, <3>1, <3>3
      <4>2. G[i - 1] = F[i - 1]
        BY <4>1, Zenon
      <4> HIDE DEF G
      <4> QED
        BY <3>2, <3>3, <4>2, Zenon DEF FlatStep
    <3> HIDE DEF G
    <3> QED
      BY <3>2, <3>3, Zenon DEF FlatStep
  <2> QED
    BY <2>1, <2>2, Zenon
<1>10. G[N + 1] = y \o x
  <2>1. N + 1 \in 1..(N + 1)
    BY <1>1
  <2> QED
    BY <2>1, Zenon
<1> HIDE DEF G
<1>11. IsFlat(G, N + 1, tt) /\ N + 1 > 0
  BY <1>1, <1>9 DEF IsFlat
<1>12. FlattenSeq(tt) = G[N + 1]
  BY <1>2, <1>8, <1>11, FlatUnique, Zenon
<1> QED
  BY <1>5, <1>10, <1>12, Zenon DEF tt, y

Regrouped(x, u, v) == x \o (u \o v) = (x \o u) \o v

\* Concatenation is associative.
LEMMA Regroup ==
    ASSUME NEW S, NEW x \in Seq(S), NEW u \in Seq(S), NEW v \in Seq(S)
    PROVE  Regrouped(x, u, v)
  BY ConcatAssociative DEF Regrouped

\* The natural number before one above zero.
LEMMA Predecessor ==
    ASSUME NEW n \in Nat, NEW i \in 1..(n + 1), i # 1
    PROVE  i - 1 \in 1..n /\ i - 1 + 1 = i
  OBVIOUS

\* Flattening a sequence, its first element first.
LEMMA FlattenFirst ==
    ASSUME NEW S, NEW ss \in Seq(Seq(S)), NEW uu \in Seq(Seq(S)), Len(ss) = Len(uu) + 1,
           \A i \in 1..Len(uu) : uu[i] = ss[i + 1]
    PROVE  FlattenSeq(uu) \in Seq(S) /\ FlattenSeq(ss) = ss[1] \o FlattenSeq(uu)
<1> DEFINE N == Len(uu)
           x == ss[1]
<1>1. N \in Nat /\ x \in Seq(S) /\ Len(ss) = N + 1
  OBVIOUS
<1>2. PICK F \in [1..N -> Seq(S)] : IsFlat(F, N, uu)
  BY FlatExists, Zenon
<1>3. FlattenSeq(uu) = IF N = 0 THEN <<>> ELSE F[N]
  <2>1. CASE N = 0
    <3>1. uu = <<>>
      BY <2>1
    <3> QED
      BY <2>1, <3>1, FlattenIs, Zenon
  <2>2. CASE N # 0
    <3>1. N > 0
      BY <1>1, <2>2
    <3> QED
      BY <1>2, <2>2, <3>1, FlatUnique, Zenon
  <2> QED
    BY <2>1, <2>2, Zenon
<1>4. FlattenSeq(uu) \in Seq(S)
  <2>1. <<>> \in Seq(S)
    OBVIOUS
  <2>2. N # 0 => N \in 1..N
    BY <1>1
  <2> QED
    BY <1>2, <1>3, <2>1, <2>2, Zenon
<1> DEFINE G == [i \in 1..(N + 1) |-> IF i = 1 THEN x ELSE x \o F[i - 1]]
<1>5. \A i \in 1..N : uu[i] = ss[i + 1] /\ uu[i] \in Seq(S)
  OBVIOUS
<1>6. x = ss[1]
  BY Zenon
<1> HIDE DEF N, x
<1>7. ASSUME NEW i \in 1..(N + 1), i # 1 PROVE i - 1 \in 1..N /\ i - 1 + 1 = i
  BY <1>1, <1>7, Predecessor, Zenon
<1>8. G \in [1..(N + 1) -> Seq(S)]
  <2>1. ASSUME NEW i \in 1..(N + 1) PROVE (IF i = 1 THEN x ELSE x \o F[i - 1]) \in Seq(S)
    <3>1. CASE i # 1
      <4>1. F[i - 1] \in Seq(S)
        BY <1>2, <1>7, <3>1, Zenon
      <4>2. x \o F[i - 1] \in Seq(S)
        BY <1>1, <4>1, Concatenated, Zenon
      <4> QED
        BY <3>1, <4>2, Zenon
    <3> QED
      BY <1>1, <3>1, Zenon
  <2> QED
    BY <2>1, Zenon
<1>9. ASSUME NEW i \in 1..(N + 1) PROVE G[i] = FlatStep(G, i, ss)
  <2>1. CASE i = 1
    <3>1. G[i] = x
      BY <2>1, Zenon
    <3> QED
      BY <1>6, <2>1, <3>1, Zenon DEF FlatStep
  <2>2. CASE i # 1
    <3>1. /\ G[i] = x \o F[i - 1] /\ i - 1 \in 1..N
          /\ F[i - 1] = FlatStep(F, i - 1, uu) /\ uu[i - 1] = ss[i] /\ uu[i - 1] \in Seq(S)
      <4>1. i - 1 \in 1..N /\ i - 1 + 1 = i
        BY <1>7, <2>2, Zenon
      <4>2. uu[i - 1] = ss[i - 1 + 1] /\ uu[i - 1] \in Seq(S)
        BY <1>5, <4>1, Zenon
      <4>3. G[i] = x \o F[i - 1]
        BY <2>2, Zenon
      <4> QED
        BY <1>2, <4>1, <4>2, <4>3, Zenon DEF IsFlat
    <3>2. i - 1 \in 1..(N + 1)
      BY <1>1, <3>1
    <3>3. CASE i - 1 = 1
      <4>1. G[i - 1] = x
        BY <3>2, <3>3, Zenon
      <4>2. F[i - 1] = ss[i]
        BY <3>1, <3>3, Zenon DEF FlatStep
      <4> HIDE DEF G
      <4> QED
        BY <2>2, <3>1, <4>1, <4>2, Zenon DEF FlatStep
    <3>4. CASE i - 1 # 1
      <4>1. G[i - 1] = x \o F[i - 1 - 1]
        BY <3>2, <3>4, Zenon
      <4>2. F[i - 1] = F[i - 1 - 1] \o ss[i]
        BY <3>1, <3>4, Zenon DEF FlatStep
      <4>3. i - 1 - 1 \in 1..N
        BY <1>1, <3>1, <3>4
      <4>4. F[i - 1 - 1] \in Seq(S)
        BY <1>2, <4>3, Zenon
      <4> DEFINE u == F[i - 1 - 1]
                 v == ss[i]
                 f == F[i - 1]
                 w == G[i - 1]
      <4>5. u \in Seq(S) /\ v \in Seq(S) /\ f = u \o v /\ w = x \o u
        BY <3>1, <4>1, <4>2, <4>4, Zenon
      <4> HIDE DEF G, u, v, f, w
      <4>6. x \o f = w \o v
        <5>1. Regrouped(x, u, v)
          BY <1>1, <4>5, Regroup, Zenon
        <5> QED
          BY <4>5, <5>1, Zenon DEF Regrouped
      <4> QED
        BY <2>2, <3>1, <4>6, Zenon DEF FlatStep, f, w, v
    <3> QED
      BY <3>3, <3>4, Zenon
  <2> QED
    BY <2>1, <2>2, Zenon
<1>10. G[N + 1] = x \o FlattenSeq(uu)
  <2>1. N + 1 \in 1..(N + 1) /\ (N = 0 => N + 1 = 1) /\ (N # 0 => N + 1 # 1) /\ N + 1 - 1 = N
    BY <1>1
  <2>2. CASE N = 0
    <3>1. G[N + 1] = x
      BY <2>1, <2>2, Zenon
    <3>2. x \o <<>> = x
      BY <1>1, ConcatEmptySeq, Zenon
    <3> QED
      BY <1>3, <2>2, <3>1, <3>2, Zenon
  <2>3. CASE N # 0
    <3>1. \A j \in 1..(N + 1) : j # 1 => G[j] = x \o F[j - 1]
      BY Zenon
    <3> HIDE DEF G
    <3> DEFINE k == N + 1
    <3>2. k \in 1..(N + 1) /\ k # 1 /\ k - 1 = N
      BY <1>1, <2>1, <2>3
    <3> HIDE DEF k
    <3>3. G[k] = x \o F[k - 1]
      BY <3>1, <3>2, Zenon
    <3>4. G[k] = x \o F[N]
      BY <3>2, <3>3, Zenon
    <3> QED
      BY <1>3, <2>3, <3>4, Zenon DEF k
  <2> QED
    BY <2>2, <2>3, Zenon
<1> HIDE DEF G
<1>11. IsFlat(G, N + 1, ss) /\ N + 1 > 0
  BY <1>1, <1>9 DEF IsFlat
<1>12. FlattenSeq(ss) = G[N + 1]
  BY <1>1, <1>8, <1>11, FlatUnique, Zenon
<1> QED
  BY <1>4, <1>10, <1>12, Zenon DEF x

--------------------------------------------------------------------------------
(* Requests *)

\* A two-byte slice is CR LF when its bytes are.
LEMMA PairIs ==
    ASSUME NEW d \in Seq(Bytes), NEW i \in Nat, i > 0, i + 1 <= Len(d)
    PROVE  SubSeq(d, i, i + 1) = CRLF <=> d[i] = 13 /\ d[i + 1] = 10
<1> DEFINE s == SubSeq(d, i, i + 1)
<1>1. /\ s \in Seq(Bytes)
      /\ Len(s) = IF i <= i + 1 THEN i + 1 - i + 1 ELSE 0
      /\ \A j \in 1..Len(s) : s[j] = d[i + j - 1]
  <2>1. i + 1 \in Nat
    OBVIOUS
  <2> QED
    BY <2>1, Sliced
<1> HIDE DEF s
<1>2. Len(s) = 2
  BY <1>1
<1>3. s[1] = d[i] /\ s[2] = d[i + 1]
  <2>1. 1 \in 1..2 /\ 2 \in 1..2 /\ i + 1 - 1 = i /\ i + 2 - 1 = i + 1
    OBVIOUS
  <2>2. s[1] = d[i + 1 - 1] /\ s[2] = d[i + 2 - 1]
    BY <1>1, <1>2, <2>1, Zenon
  <2> QED
    BY <2>1, <2>2, Zenon
<1>4. s = CRLF <=> s[1] = 13 /\ s[2] = 10
  <2>1. ASSUME s[1] = 13, s[2] = 10 PROVE s = CRLF
    <3>1. \A j \in 1..Len(s) : s[j] = CRLF[j]
      BY <1>2, <2>1, CrLfBytes
    <3> QED
      BY <1>1, <1>2, <3>1, CrLfBytes, SeqEqual, Zenon
  <2> QED
    BY <2>1, CrLfBytes, Zenon
<1> QED
  BY <1>3, <1>4, Zenon DEF s

\* data.find finds the first CR LF, if there is one.
LEMMA FirstPair ==
    ASSUME NEW d \in Seq(Bytes)
    PROVE  /\ FirstCrLf(d) = 0 =>
                \A i \in 1..Len(d) - 1 : ~(d[i] = 13 /\ d[i + 1] = 10)
           /\ \A m \in 1..Len(d) - 1 :
                /\ d[m] = 13 /\ d[m + 1] = 10
                /\ \A i \in 1..m - 1 : ~(d[i] = 13 /\ d[i + 1] = 10)
                => FirstCrLf(d) = m
           /\ (\A i \in 1..Len(d) - 1 : ~(d[i] = 13 /\ d[i + 1] = 10)) => FirstCrLf(d) = 0
<1> DEFINE at == {i \in 1..Len(d) - 1 : SubSeq(d, i, i + 1) = CRLF}
           N == Len(d) - 1
<1>1. N \in Int /\ at \in SUBSET Nat
  OBVIOUS
<1>2. FirstCrLf(d) = IF at = {} THEN 0 ELSE Min(at)
  BY Zenon DEF FirstCrLf
<1>3. ASSUME NEW i \in 1..N PROVE i \in at <=> d[i] = 13 /\ d[i + 1] = 10
  <2>1. i \in Nat /\ i > 0 /\ i + 1 <= Len(d)
    OBVIOUS
  <2>2. SubSeq(d, i, i + 1) = CRLF <=> d[i] = 13 /\ d[i + 1] = 10
    BY <2>1, PairIs, Zenon
  <2> QED
    BY <2>2, Zenon
<1>4. \A i \in at : i \in 1..N /\ i # 0
  OBVIOUS
<1> HIDE DEF at
<1>5. at # {} => Min(at) \in at /\ \A y \in at : Min(at) <= y
  BY <1>1, WireLeast, Zenon
<1> HIDE DEF N
<1>6. ASSUME FirstCrLf(d) = 0, NEW i \in 1..N PROVE ~(d[i] = 13 /\ d[i + 1] = 10)
  <2>1. at = {}
    BY <1>2, <1>4, <1>5, <1>6, Zenon
  <2> QED
    BY <1>3, <2>1, Zenon
<1>7. ASSUME NEW m \in 1..N, d[m] = 13, d[m + 1] = 10,
             \A i \in 1..m - 1 : ~(d[i] = 13 /\ d[i + 1] = 10)
      PROVE  FirstCrLf(d) = m
  <2>1. m \in at
    BY <1>3, <1>7, Zenon
  <2> DEFINE k == Min(at)
  <2>2. k \in at /\ k <= m /\ k \in 1..N
    BY <1>4, <1>5, <2>1, Zenon
  <2> HIDE DEF k
  <2>3. ~(k \in 1..m - 1)
    BY <1>3, <1>7, <2>2, Zenon
  <2>4. k = m
    BY <1>1, <2>2, <2>3
  <2> QED
    BY <1>2, <2>1, <2>4, Zenon DEF k
<1>8. ASSUME \A i \in 1..N : ~(d[i] = 13 /\ d[i + 1] = 10) PROVE FirstCrLf(d) = 0
  <2>1. at = {}
    BY <1>3, <1>4, <1>8, Zenon
  <2> QED
    BY <1>2, <2>1, Zenon
<1> QED
  BY <1>6, <1>7, <1>8, Zenon DEF N

\* What TrojanRequest::generate writes, byte by byte.
LEMMA RequestBytes ==
    ASSUME NEW r \in TrojanRequests
    PROVE  LET g == GenerateRequest(r)
               a == GenerateAddress(r.address)
               w == Len(r.password)
               h == Len(a)
           IN  /\ g \in Seq(Bytes) /\ Len(g) = w + h + 5
               /\ \A i \in 1..w : g[i] = r.password[i]
               /\ g[w + 1] = 13 /\ g[w + 2] = 10 /\ g[w + 3] = r.command
               /\ \A i \in 1..h : g[w + 3 + i] = a[i]
               /\ g[w + h + 4] = 13 /\ g[w + h + 5] = 10
<1> DEFINE g == GenerateRequest(r)
           a == GenerateAddress(r.address)
           p == r.password
           w == Len(p)
           h == Len(a)
           c == <<r.command>>
           pl == p \o CRLF
           plc == pl \o c
           plca == plc \o a
<1>1. p \in Seq(Bytes) /\ r.address \in Addresses /\ r.command \in {1, 3}
  <2>1. p \in Passwords /\ r.address \in Targets
    BY Zenon DEF TrojanRequests
  <2>2. r.command \in {1, 3}
    BY Zenon DEF TrojanRequests, CONNECT, UDP_ASSOCIATE
  <2> QED
    BY <2>1, <2>2, TargetsAreAddresses, WireAssumption, Zenon
<1>2. a \in Seq(Bytes)
  BY <1>1, AddressBytes, Zenon
<1>3. c \in Seq(Bytes) /\ Len(c) = 1 /\ c[1] = r.command
  <2>1. r.command \in Bytes
    BY <1>1, WireAssumption DEF Bytes
  <2> QED
    BY <2>1
<1>4. g = plca \o CRLF
  BY Zenon DEF GenerateRequest
<1> HIDE DEF g, a, p, c
<1>5. pl \in Seq(Bytes) /\ Joined(pl, p, CRLF)
  BY <1>1, CrLfBytes, Concatenated, Zenon
<1> HIDE DEF pl
<1>6. plc \in Seq(Bytes) /\ Joined(plc, pl, c)
  BY <1>3, <1>5, Concatenated, Zenon
<1> HIDE DEF plc
<1>7. plca \in Seq(Bytes) /\ Joined(plca, plc, a)
  BY <1>2, <1>6, Concatenated, Zenon
<1> HIDE DEF plca
<1>8. g \in Seq(Bytes) /\ Joined(g, plca, CRLF)
  BY <1>4, <1>7, CrLfBytes, Concatenated, Zenon
<1>9. w \in Nat /\ h \in Nat /\ w = Len(p) /\ h = Len(a)
  BY <1>1, <1>2
<1> HIDE DEF w, h
<1>10. /\ Len(pl) = w + 2
       /\ \A i \in 1..w : pl[i] = p[i]
       /\ pl[w + 1] = 13 /\ pl[w + 2] = 10
  <2>1. /\ Len(pl) = w + 2 /\ \A i \in 1..w : pl[i] = p[i]
        /\ \A i \in 1..2 : pl[w + i] = CRLF[i]
    BY <1>5, <1>9, CrLfBytes, Zenon DEF Joined
  <2> QED
    BY <2>1, CrLfBytes
<1>11. /\ Len(plc) = w + 3
       /\ \A i \in 1..(w + 2) : plc[i] = pl[i]
       /\ plc[w + 3] = r.command
  <2>1. /\ Len(plc) = (w + 2) + 1 /\ \A i \in 1..(w + 2) : plc[i] = pl[i]
        /\ \A i \in 1..1 : plc[(w + 2) + i] = c[i]
    BY <1>3, <1>6, <1>10, Zenon DEF Joined
  <2>2. plc[(w + 2) + 1] = c[1]
    BY <2>1
  <2>3. (w + 2) + 1 = w + 3
    BY <1>9
  <2> QED
    BY <1>3, <2>1, <2>2, <2>3, Zenon
<1>12. /\ Len(plca) = w + 3 + h
       /\ \A i \in 1..(w + 3) : plca[i] = plc[i]
       /\ \A i \in 1..h : plca[w + 3 + i] = a[i]
  BY <1>7, <1>9, <1>11, Zenon DEF Joined
<1>13. /\ Len(g) = w + h + 5
       /\ \A i \in 1..(w + 3 + h) : g[i] = plca[i]
       /\ g[w + h + 4] = 13 /\ g[w + h + 5] = 10
  <2>1. /\ Len(g) = (w + 3 + h) + 2 /\ \A i \in 1..(w + 3 + h) : g[i] = plca[i]
        /\ \A i \in 1..2 : g[(w + 3 + h) + i] = CRLF[i]
    BY <1>8, <1>12, CrLfBytes, Zenon DEF Joined
  <2>2. g[(w + 3 + h) + 1] = 13 /\ g[(w + 3 + h) + 2] = 10
    BY <2>1, CrLfBytes
  <2>3. (w + 3 + h) + 1 = w + h + 4 /\ (w + 3 + h) + 2 = w + h + 5
    BY <1>9
  <2> QED
    BY <2>1, <2>2, <2>3, Zenon
<1>14. ASSUME NEW i \in 1..w PROVE g[i] = p[i]
  <2>1. i \in 1..(w + 2) /\ i \in 1..(w + 3) /\ i \in 1..(w + 3 + h)
    BY <1>9
  <2>2. g[i] = plca[i] /\ plca[i] = plc[i]
    BY <1>12, <1>13, <2>1, Zenon
  <2>3. plc[i] = pl[i] /\ pl[i] = p[i]
    BY <1>10, <1>11, <2>1, Zenon
  <2> QED
    BY <2>2, <2>3, Zenon
<1>15. g[w + 1] = 13 /\ g[w + 2] = 10 /\ g[w + 3] = r.command
  <2>1. /\ w + 1 \in 1..(w + 2) /\ w + 1 \in 1..(w + 3) /\ w + 1 \in 1..(w + 3 + h)
        /\ w + 2 \in 1..(w + 2) /\ w + 2 \in 1..(w + 3) /\ w + 2 \in 1..(w + 3 + h)
        /\ w + 3 \in 1..(w + 3) /\ w + 3 \in 1..(w + 3 + h)
    BY <1>9
  <2> QED
    BY <1>10, <1>11, <1>12, <1>13, <2>1, Zenon
<1>16. ASSUME NEW i \in 1..h PROVE g[w + 3 + i] = a[i]
  <2>1. w + 3 + i \in 1..(w + 3 + h)
    BY <1>9
  <2> QED
    BY <1>12, <1>13, <2>1, Zenon
<1> QED
  BY <1>8, <1>13, <1>14, <1>15, <1>16, Zenon DEF g, a, h, p, w

\* In the bytes of a request the first CR LF is the one behind the password.
LEMMA CrLfFound ==
    ASSUME NEW r \in TrojanRequests, NEW d \in Seq(Bytes), Agree(d, GenerateRequest(r))
    PROVE  FirstCrLf(d) = IF Len(d) < Len(r.password) + 2 THEN 0 ELSE Len(r.password) + 1
<1> DEFINE g == GenerateRequest(r)
           p == r.password
           w == Len(p)
           h == Len(GenerateAddress(r.address))
           l == Len(d)
<1>1. /\ Len(g) = w + h + 5
      /\ \A i \in 1..w : g[i] = p[i]
      /\ g[w + 1] = 13 /\ g[w + 2] = 10
  BY RequestBytes, Zenon
<1>2. p \in Seq(Bytes) /\ FirstCrLf(p) = 0 /\ r.address \in Addresses
  <2>1. p \in Passwords /\ r.address \in Targets
    BY Zenon DEF TrojanRequests
  <2> QED
    BY <2>1, TargetsAreAddresses, WireAssumption, Zenon
<1>3. \A i \in 1..w - 1 : ~(p[i] = 13 /\ p[i + 1] = 10)
  BY <1>2, FirstPair, Zenon
<1>4. \A i \in 1..Len(g) : i <= l => d[i] = g[i]
  BY Zenon DEF Agree
<1>5. w \in Nat /\ h \in Nat /\ l \in Nat
  BY <1>2, AddressBytes
<1> HIDE DEF g, p, w, h, l
<1>6. ASSUME NEW i \in Nat, i > 0, i <= w, i + 1 <= l PROVE ~(d[i] = 13 /\ d[i + 1] = 10)
  <2>1. i \in 1..Len(g) /\ i <= l /\ i + 1 \in 1..Len(g) /\ i \in 1..w
    BY <1>1, <1>5, <1>6
  <2>2. d[i] = p[i] /\ d[i + 1] = g[i + 1]
    BY <1>1, <1>4, <1>6, <2>1, Zenon
  <2>3. CASE i = w
    BY <1>1, <2>2, <2>3
  <2>4. CASE i # w
    <3>1. i + 1 \in 1..w /\ i \in 1..w - 1
      BY <1>5, <1>6, <2>4
    <3>2. g[i + 1] = p[i + 1]
      BY <1>1, <3>1, Zenon
    <3> QED
      BY <1>3, <2>2, <3>1, <3>2, Zenon
  <2> QED
    BY <2>3, <2>4, Zenon
<1>7. CASE l < w + 2
  <2>1. ASSUME NEW i \in 1..l - 1 PROVE ~(d[i] = 13 /\ d[i + 1] = 10)
    <3>1. i \in Nat /\ i > 0 /\ i <= w /\ i + 1 <= l
      BY <1>5, <1>7
    <3> QED
      BY <1>6, <3>1, Zenon
  <2>2. FirstCrLf(d) = 0
    BY <2>1, FirstPair, Zenon DEF l
  <2> QED
    BY <1>7, <2>2, Zenon DEF l, w, p
<1>8. CASE ~(l < w + 2)
  <2> DEFINE m == w + 1
  <2>1. /\ m \in 1..l - 1 /\ m - 1 = w /\ m + 1 = w + 2
        /\ m \in 1..Len(g) /\ m <= l /\ m + 1 \in 1..Len(g) /\ m + 1 <= l
    BY <1>1, <1>5, <1>8
  <2>2. d[m] = 13 /\ d[m + 1] = 10
    BY <1>1, <1>4, <2>1, Zenon
  <2> HIDE DEF m
  <2>3. ASSUME NEW i \in 1..m - 1 PROVE ~(d[i] = 13 /\ d[i + 1] = 10)
    <3>1. i \in Nat /\ i > 0 /\ i <= w /\ i + 1 <= l
      BY <1>5, <2>1
    <3> QED
      BY <1>6, <3>1, Zenon
  <2>4. FirstCrLf(d) = m
    BY <2>1, <2>2, <2>3, FirstPair, Zenon DEF l
  <2> QED
    BY <1>8, <2>4, Zenon DEF l, w, p, m
<1> QED
  BY <1>7, <1>8, Zenon

\* TrojanRequest::parse of bytes that begin as a request does, or are the beginning of one.
LEMMA RequestParsed ==
    ASSUME NEW r \in TrojanRequests, NEW d \in Seq(Bytes), NEW stray \in Bytes,
           Agree(d, GenerateRequest(r))
    PROVE  ParseRequest(d, stray) =
              IF Len(d) < Len(GenerateRequest(r)) THEN Invalid
              ELSE [valid |-> TRUE, payload |-> From(d, Len(GenerateRequest(r)) + 1), request |-> r]
<1> DEFINE g == GenerateRequest(r)
           ga == GenerateAddress(r.address)
           p == r.password
           w == Len(p)
           h == Len(ga)
           l == Len(d)
           first == FirstCrLf(d)
           rest == From(d, first + 2)
           a == ParseAddress(From(rest, 2), stray)
           bad == \/ first = 0
                  \/ rest = <<>> \/ rest[1] \notin {CONNECT, UDP_ASSOCIATE}
                  \/ ~a.valid
                  \/ Len(rest) < a.len + 3 \/ SubSeq(rest, a.len + 2, a.len + 3) # CRLF
<1>1. /\ Len(g) = w + h + 5
      /\ \A i \in 1..w : g[i] = p[i]
      /\ g[w + 3] = r.command
      /\ \A i \in 1..h : g[w + 3 + i] = ga[i]
      /\ g[w + h + 4] = 13 /\ g[w + h + 5] = 10
  BY RequestBytes, Zenon
<1>2. /\ p \in Seq(Bytes) /\ r.address \in Addresses /\ r.command \in {CONNECT, UDP_ASSOCIATE}
      /\ r = [password |-> p, command |-> r.command, address |-> r.address]
  <2>1. /\ p \in Passwords /\ r.address \in Targets /\ r.command \in {CONNECT, UDP_ASSOCIATE}
        /\ r = [password |-> p, command |-> r.command, address |-> r.address]
    BY Zenon DEF TrojanRequests
  <2> QED
    BY <2>1, TargetsAreAddresses, WireAssumption, Zenon
<1>3. first = IF l < w + 2 THEN 0 ELSE w + 1
  BY CrLfFound, Zenon
<1>4. \A i \in 1..Len(g) : i <= l => d[i] = g[i]
  BY Zenon DEF Agree
<1>5. w \in Nat /\ h \in Nat /\ l \in Nat
  BY <1>2, AddressBytes
<1>6. ParseRequest(d, stray) =
        IF bad THEN Invalid
        ELSE [valid |-> TRUE, payload |-> From(rest, a.len + 4),
              request |-> [password |-> SubSeq(d, 1, first - 1), command |-> rest[1],
                           address |-> a.address]]
  BY Zenon DEF ParseRequest
<1> HIDE DEF g, ga, p, w, h, l, first
<1>7. CASE l < w + 2
  <2>1. first = 0 /\ l < Len(g)
    BY <1>1, <1>3, <1>5, <1>7
  <2> QED
    BY <1>6, <2>1, Zenon DEF l, g
<1>8. CASE ~(l < w + 2)
  <2>1. first = w + 1 /\ first + 2 = w + 3 /\ first - 1 = w /\ w + 2 <= l /\ first # 0
    BY <1>3, <1>5, <1>8
  <2>2. rest = From(d, w + 3)
    BY <2>1, Zenon
  <2>3. /\ rest \in Seq(Bytes) /\ Len(rest) = l - w - 2
        /\ \A i \in 1..Len(rest) : rest[i] = d[w + 2 + i]
    <3> DEFINE k == w + 3
               f == From(d, k)
    <3>1. k \in Nat /\ k > 0
      BY <1>5
    <3> HIDE DEF k
    <3>2. /\ f \in Seq(Bytes) /\ Len(f) = IF k <= l THEN l - k + 1 ELSE 0
          /\ \A i \in 1..Len(f) : f[i] = d[k + i - 1]
      BY <3>1, FromIs, Zenon DEF l
    <3> HIDE DEF f
    <3>3. Len(f) = l - w - 2 /\ Len(f) \in Nat
      BY <1>5, <2>1, <3>2 DEF k
    <3>4. ASSUME NEW i \in 1..Len(f) PROVE f[i] = d[w + 2 + i]
      <4>1. k + i - 1 = w + 2 + i
        BY <1>5, <3>3 DEF k
      <4> QED
        BY <3>2, <4>1, Zenon
    <3>5. rest = f
      BY <2>2, Zenon DEF f, k
    <3> HIDE DEF rest
    <3> QED
      BY <3>2, <3>3, <3>4, <3>5, Zenon
  <2> DEFINE n == Len(rest)
             tail == From(rest, 2)
  <2> HIDE DEF rest
  <2>4. n \in Nat /\ n = l - w - 2
    BY <1>5, <2>1, <2>3
  <2> HIDE DEF n
  <2>5. ASSUME NEW i \in 1..n, i <= h + 3 PROVE rest[i] = g[w + 2 + i]
    <3>1. w + 2 + i \in 1..Len(g) /\ w + 2 + i <= l
      BY <1>1, <1>5, <2>4, <2>5
    <3> QED
      BY <1>4, <2>3, <3>1, Zenon DEF n
  <2>6. CASE n = 0
    <3>1. rest = <<>>
      BY <2>3, <2>6 DEF n
    <3>2. l < Len(g)
      BY <1>1, <1>5, <2>4, <2>6
    <3> QED
      BY <1>6, <3>1, <3>2, Zenon DEF l, g
  <2>7. CASE n # 0
    <3>1. rest[1] = r.command /\ rest # <<>>
      <4>1. 1 \in 1..n /\ 1 <= h + 3 /\ w + 2 + 1 = w + 3
        BY <1>5, <2>4, <2>7
      <4>2. rest[1] = g[w + 2 + 1]
        BY <2>5, <4>1, Zenon
      <4>3. rest # <<>>
        BY <2>7 DEF n
      <4> QED
        BY <1>1, <4>1, <4>2, <4>3, Zenon
    <3>2. /\ tail \in Seq(Bytes) /\ Len(tail) = n - 1
          /\ \A i \in 1..Len(tail) : tail[i] = rest[i + 1]
      <4>1. /\ tail \in Seq(Bytes) /\ Len(tail) = IF 2 <= n THEN n - 2 + 1 ELSE 0
            /\ \A i \in 1..Len(tail) : tail[i] = rest[2 + i - 1]
        <5>1. 2 \in Nat /\ 2 > 0
          OBVIOUS
        <5> QED
          BY <2>3, <5>1, FromIs, Zenon DEF n
      <4> HIDE DEF tail
      <4>2. Len(tail) = n - 1 /\ Len(tail) \in Nat
        <5> DEFINE k == Len(tail)
        <5>1. k = IF 2 <= n THEN n - 2 + 1 ELSE 0
          BY <4>1, Zenon
        <5> HIDE DEF k
        <5>2. k = n - 1 /\ k \in Nat
          <6>1. n \in Nat /\ n # 0
            BY <2>4, <2>7, Zenon
          <6>2. CASE 2 <= n
            BY <5>1, <6>1, <6>2
          <6>3. CASE ~(2 <= n)
            BY <5>1, <6>1, <6>3
          <6> QED
            BY <6>2, <6>3, Zenon
        <5> QED
          BY <5>2, Zenon DEF k
      <4>3. ASSUME NEW i \in 1..Len(tail) PROVE tail[i] = rest[i + 1]
        <5>1. 2 + i - 1 = i + 1
          BY <4>2
        <5> QED
          BY <4>1, <5>1, Zenon
      <4> QED
        BY <4>1, <4>2, <4>3, Zenon
    <3> HIDE DEF tail
    <3>3. Agree(tail, ga)
      <4> SUFFICES ASSUME NEW i \in 1..h, i <= Len(tail) PROVE tail[i] = ga[i]
        BY Zenon DEF Agree, h
      <4>1. i \in 1..Len(tail) /\ i + 1 \in 1..n /\ i + 1 <= h + 3 /\ w + 2 + (i + 1) = w + 3 + i
        BY <1>5, <2>4, <3>2
      <4>2. rest[i + 1] = g[w + 2 + (i + 1)]
        BY <2>5, <4>1, Zenon
      <4>3. g[w + 3 + i] = ga[i]
        BY <1>1, Zenon
      <4>4. tail[i] = rest[i + 1]
        BY <3>2, <4>1, Zenon
      <4> QED
        BY <4>1, <4>2, <4>3, <4>4, Zenon
    <3>4. a = IF Len(tail) < h THEN Invalid
              ELSE [valid |-> TRUE, len |-> h, address |-> r.address]
      BY <1>2, <3>2, <3>3, AddressParsed, Zenon DEF h, ga, tail
    <3> HIDE DEF a
    <3>5. CASE Len(tail) < h
      <4>1. ~a.valid
        BY <3>4, <3>5, Zenon DEF Invalid
      <4>2. l < Len(g)
        BY <1>1, <1>5, <2>4, <3>2, <3>5
      <4> QED
        BY <1>6, <4>1, <4>2, Zenon DEF l, g
    <3>6. CASE ~(Len(tail) < h)
      <4>1. a.valid = TRUE /\ a.len = h /\ a.address = r.address
        BY <3>4, <3>6, Zenon
      <4>2. CASE n < h + 3
        <5>1. Len(rest) < a.len + 3
          BY <4>1, <4>2, Zenon DEF n
        <5>2. l < Len(g)
          BY <1>1, <1>5, <2>4, <4>2
        <5> QED
          BY <1>6, <5>1, <5>2, Zenon DEF l, g
      <4>3. CASE ~(n < h + 3)
        <5>1. ~(l < Len(g)) /\ Len(g) <= l
          BY <1>1, <1>5, <2>4, <4>3
        <5>2. SubSeq(rest, h + 2, h + 3) = CRLF
          <6>1. /\ h + 2 \in 1..n /\ h + 3 \in 1..n /\ h + 2 <= h + 3 /\ h + 3 <= h + 3
                /\ w + 2 + (h + 2) = w + h + 4 /\ w + 2 + (h + 3) = w + h + 5
            BY <1>5, <2>4, <4>3
          <6>2. rest[h + 2] = 13 /\ rest[h + 3] = 10
            BY <1>1, <2>5, <6>1, Zenon
          <6> DEFINE i == h + 2
          <6>3. i \in Nat /\ i > 0 /\ i + 1 = h + 3 /\ i + 1 <= n
            BY <1>5, <6>1
          <6> HIDE DEF i
          <6>4. SubSeq(rest, i, i + 1) = CRLF <=> rest[i] = 13 /\ rest[i + 1] = 10
            BY <2>3, <6>3, PairIs, Zenon DEF n
          <6> QED
            BY <6>2, <6>3, <6>4, Zenon DEF i
        <5>3. SubSeq(d, 1, w) = p
          <6>1. ASSUME NEW i \in 1..w PROVE d[0 + i] = p[i]
            <7>1. i \in 1..Len(g) /\ i <= l /\ 0 + i = i
              BY <1>1, <1>5, <5>1
            <7> QED
              BY <1>1, <1>4, <7>1, Zenon
          <6>2. 0 \in Nat /\ 0 + w <= l /\ 0 + w = w /\ 0 + 1 = 1
            BY <1>1, <1>5, <5>1
          <6>3. SubSeq(d, 0 + 1, 0 + w) = p
            BY <1>2, <6>1, <6>2, SliceIs, Zenon DEF w, l
          <6> QED
            BY <6>2, <6>3, Zenon
        <5>4. From(rest, h + 4) = From(d, Len(g) + 1)
          <6> DEFINE u == h + 4
                     v == Len(g) + 1
                     s == From(rest, u)
                     t == From(d, v)
          <6>1. u \in Nat /\ u > 0 /\ v \in Nat /\ v > 0 /\ v = w + 2 + u
            BY <1>1, <1>5
          <6> HIDE DEF u, v
          <6>2. /\ s \in Seq(Bytes) /\ Len(s) = IF u <= n THEN n - u + 1 ELSE 0
                /\ \A i \in 1..Len(s) : s[i] = rest[u + i - 1]
            BY <2>3, <6>1, FromIs, Zenon DEF n
          <6>3. /\ t \in Seq(Bytes) /\ Len(t) = IF v <= l THEN l - v + 1 ELSE 0
                /\ \A i \in 1..Len(t) : t[i] = d[v + i - 1]
            BY <6>1, FromIs, Zenon DEF l
          <6> HIDE DEF s, t
          <6>4. Len(s) = Len(t) /\ Len(s) \in Nat
            BY <1>5, <2>4, <6>1, <6>2, <6>3
          <6>5. ASSUME NEW i \in 1..Len(s) PROVE s[i] = t[i]
            <7>1. u + i - 1 \in 1..n /\ w + 2 + (u + i - 1) = v + i - 1 /\ i \in 1..Len(t)
              BY <1>5, <2>4, <6>1, <6>2, <6>4
            <7>2. rest[u + i - 1] = d[w + 2 + (u + i - 1)]
              BY <2>3, <7>1, Zenon DEF n
            <7> QED
              BY <6>2, <6>3, <7>1, <7>2, Zenon
          <6>6. s = t
            BY <6>2, <6>3, <6>4, <6>5, SeqEqual, Zenon
          <6> QED
            BY <6>6, Zenon DEF s, t, u, v
        <5>5. ~bad
          <6>1. ~(Len(rest) < a.len + 3)
            BY <4>1, <4>3, Zenon DEF n
          <6>2. SubSeq(rest, a.len + 2, a.len + 3) = CRLF
            BY <4>1, <5>2, Zenon
          <6> QED
            BY <1>2, <2>1, <3>1, <4>1, <6>1, <6>2, Zenon
        <5> HIDE DEF bad
        <5>6. ParseRequest(d, stray) =
                [valid |-> TRUE, payload |-> From(rest, a.len + 4),
                 request |-> [password |-> SubSeq(d, 1, first - 1), command |-> rest[1],
                              address |-> a.address]]
          BY <1>6, <5>5, Zenon
        <5>7. ParseRequest(d, stray) = [valid |-> TRUE, payload |-> From(d, Len(g) + 1), request |-> r]
          BY <1>2, <2>1, <3>1, <4>1, <5>3, <5>4, <5>6, Zenon
        <5> QED
          BY <5>1, <5>7, Zenon DEF l, g
      <4> QED
        BY <4>2, <4>3, Zenon
    <3> QED
      BY <3>5, <3>6, Zenon
  <2> QED
    BY <2>6, <2>7, Zenon
<1> QED
  BY <1>7, <1>8, Zenon

--------------------------------------------------------------------------------
(* Streams *)

\* The front of a stream is cut where its first message ends.
LEMMA CutFront ==
    ASSUME NEW S, NEW d \in Seq(S), NEW more \in Seq(S), NEW g \in Seq(S), NEW T \in Seq(S),
           d \o more = g \o T
    PROVE  Agree(d, g) /\ (Len(g) <= Len(d) => From(d, Len(g) + 1) \o more = T)
<1> DEFINE c == d \o more
           l == Len(d)
           k == Len(g)
<1>1. c \in Seq(S) /\ Joined(c, d, more)
  BY Concatenated, Zenon
<1>2. c = g \o T
  BY Zenon
<1>3. Joined(c, g, T)
  <2>1. Joined(g \o T, g, T)
    BY Concatenated, Zenon
  <2> HIDE DEF c
  <2> QED
    BY <1>2, <2>1, Zenon
<1> HIDE DEF c
<1>4. l \in Nat /\ k \in Nat /\ Len(more) \in Nat /\ Len(T) \in Nat
  OBVIOUS
<1>5. /\ Len(c) = l + Len(more) /\ Len(c) = k + Len(T)
      /\ \A i \in 1..l : c[i] = d[i]
      /\ \A i \in 1..Len(more) : c[l + i] = more[i]
      /\ \A i \in 1..k : c[i] = g[i]
      /\ \A i \in 1..Len(T) : c[k + i] = T[i]
  BY <1>1, <1>3, Zenon DEF Joined
<1> DEFINE e == Len(more)
           u == Len(T)
<1> HIDE DEF e, u
<1>6. l + e = k + u /\ e \in Nat /\ u \in Nat
  BY <1>4, <1>5, Zenon DEF e, u
<1> HIDE DEF l, k
<1>7. Agree(d, g)
  <2> SUFFICES ASSUME NEW i \in 1..k, i <= l PROVE d[i] = g[i]
    BY Zenon DEF Agree, k, l
  <2>1. i \in 1..l
    BY <1>4
  <2> QED
    BY <1>5, <2>1, Zenon
<1>8. ASSUME k <= l PROVE From(d, k + 1) \o more = T
  <2> DEFINE f == From(d, k + 1)
             b == f \o more
  <2>1. /\ f \in Seq(S) /\ Len(f) = l - k
        /\ \A i \in 1..Len(f) : f[i] = d[k + i]
    <3>1. k + 1 \in Nat /\ k + 1 > 0
      BY <1>4
    <3>2. /\ f \in Seq(S) /\ Len(f) = IF k + 1 <= l THEN l - (k + 1) + 1 ELSE 0
          /\ \A i \in 1..Len(f) : f[i] = d[k + 1 + i - 1]
      BY <3>1, FromIs, Zenon DEF l
    <3> HIDE DEF f
    <3> DEFINE n == Len(f)
    <3>3. n = IF k + 1 <= l THEN l - (k + 1) + 1 ELSE 0
      BY <3>2, Zenon
    <3> HIDE DEF n
    <3>4. n = l - k /\ n \in Nat
      <4>1. CASE k + 1 <= l
        BY <1>4, <3>3, <4>1
      <4>2. CASE ~(k + 1 <= l)
        BY <1>4, <1>8, <3>3, <4>2
      <4> QED
        BY <4>1, <4>2, Zenon
    <3>5. ASSUME NEW i \in 1..n PROVE f[i] = d[k + i]
      <4>1. k + 1 + i - 1 = k + i
        BY <1>4, <3>4
      <4> QED
        BY <3>2, <4>1, Zenon DEF n
    <3> QED
      BY <3>2, <3>4, <3>5, Zenon DEF n
  <2> HIDE DEF f
  <2>2. b \in Seq(S) /\ Joined(b, f, more)
    BY <2>1, Concatenated, Zenon
  <2> HIDE DEF b
  <2> DEFINE n == Len(f)
  <2>3. n = l - k /\ n \in Nat
    BY <1>4, <1>8, <2>1
  <2>4. /\ Len(b) = n + e
        /\ \A i \in 1..n : b[i] = f[i]
        /\ \A i \in 1..e : b[n + i] = more[i]
    BY <2>2, Zenon DEF Joined, e
  <2>5. \A i \in 1..n : f[i] = d[k + i]
    BY <2>1, Zenon
  <2> HIDE DEF n
  <2>6. Len(b) = u
    BY <1>4, <1>6, <2>3, <2>4
  <2>7. ASSUME NEW i \in 1..u PROVE b[i] = T[i]
    <3>1. c[k + i] = T[i]
      BY <1>5, Zenon DEF u
    <3>2. CASE i <= n
      <4>1. i \in 1..n /\ k + i \in 1..l
        BY <1>4, <1>6, <2>3, <3>2
      <4> QED
        BY <1>5, <2>4, <2>5, <3>1, <4>1, Zenon
    <3>3. CASE ~(i <= n)
      <4> DEFINE j == i - n
      <4>1. j \in 1..e /\ n + j = i /\ l + j = k + i
        BY <1>4, <1>6, <2>3, <3>3
      <4> HIDE DEF j
      <4>2. b[n + j] = more[j] /\ c[l + j] = more[j]
        BY <1>5, <2>4, <4>1, Zenon DEF e
      <4> QED
        BY <3>1, <4>1, <4>2, Zenon
    <3> QED
      BY <3>2, <3>3, Zenon
  <2>8. b = T
    <3>1. Len(b) = Len(T) /\ \A i \in 1..Len(b) : b[i] = T[i]
      BY <2>6, <2>7, Zenon DEF u
    <3> QED
      BY <2>2, <3>1, SeqEqual, Zenon
  <2> QED
    BY <2>8, Zenon DEF b, f
<1> QED
  BY <1>7, <1>8, Zenon DEF k, l

\* A read moves bytes and loses none.
LEMMA ReadSplits ==
    ASSUME NEW S, NEW n \in Seq(S), NEW k \in 1..Len(n)
    PROVE  /\ SubSeq(n, 1, k) \in Seq(S) /\ Len(SubSeq(n, 1, k)) = k
           /\ From(n, k + 1) \in Seq(S)
           /\ SubSeq(n, 1, k) \o From(n, k + 1) = n
<1>1. Len(n) \in Nat /\ k \in Nat /\ k + 1 \in Nat /\ k + 1 > 0 /\ 1 \in Nat /\ 1 > 0 /\ k <= Len(n)
  OBVIOUS
<1> DEFINE s == SubSeq(n, 1, k)
           f == From(n, k + 1)
           l == Len(n)
<1>2. /\ s \in Seq(S) /\ Len(s) = IF 1 <= k THEN k - 1 + 1 ELSE 0
      /\ \A i \in 1..Len(s) : s[i] = n[1 + i - 1]
  BY <1>1, Sliced
<1>3. /\ f \in Seq(S) /\ Len(f) = IF k + 1 <= l THEN l - (k + 1) + 1 ELSE 0
      /\ \A i \in 1..Len(f) : f[i] = n[k + 1 + i - 1]
  BY <1>1, FromIs, Zenon
<1>4. s \o f \in Seq(S) /\ Joined(s \o f, s, f)
  BY <1>2, <1>3, Concatenated, Zenon
<1> DEFINE b == s \o f
           v == Len(f)
<1> HIDE DEF s, f
<1>5. Len(s) = k
  BY <1>1, <1>2
<1>6. v = l - k /\ v \in Nat
  <2>1. v = IF k + 1 <= l THEN l - (k + 1) + 1 ELSE 0
    BY <1>3, Zenon
  <2>2. l \in Nat /\ k \in Nat /\ k <= l
    BY <1>1, Zenon
  <2> HIDE DEF v, l
  <2>3. CASE k + 1 <= l
    BY <2>1, <2>2, <2>3
  <2>4. CASE ~(k + 1 <= l)
    BY <2>1, <2>2, <2>4
  <2> QED
    BY <2>3, <2>4, Zenon
<1>7. /\ Len(b) = k + v
      /\ \A i \in 1..k : b[i] = s[i]
      /\ \A i \in 1..v : b[k + i] = f[i]
  BY <1>4, <1>5, Zenon DEF Joined
<1>8. \A i \in 1..k : s[i] = n[1 + i - 1]
  BY <1>2, <1>5, Zenon
<1>9. \A i \in 1..v : f[i] = n[k + 1 + i - 1]
  BY <1>3, Zenon
<1>10. l \in Nat /\ b \in Seq(S)
  BY <1>1, <1>4, Zenon
<1> HIDE DEF b, v, l
<1>11. Len(b) = l
  BY <1>1, <1>6, <1>7, <1>10
<1>12. ASSUME NEW i \in 1..l PROVE b[i] = n[i]
  <2>1. CASE i <= k
    <3>1. i \in 1..k /\ 1 + i - 1 = i
      BY <1>10, <2>1
    <3> QED
      BY <1>7, <1>8, <3>1, Zenon
  <2>2. CASE ~(i <= k)
    <3> DEFINE j == i - k
    <3>1. j \in 1..v /\ k + j = i /\ k + 1 + j - 1 = i
      BY <1>1, <1>6, <1>10, <2>2
    <3> HIDE DEF j
    <3> QED
      BY <1>7, <1>9, <3>1, Zenon
  <2> QED
    BY <2>1, <2>2, Zenon
<1>13. b = n
  <2>1. Len(b) = Len(n) /\ \A i \in 1..Len(b) : b[i] = n[i]
    BY <1>11, <1>12, Zenon DEF l
  <2> QED
    BY <1>10, <2>1, SeqEqual, Zenon
<1> QED
  BY <1>2, <1>3, <1>5, <1>13, Zenon DEF b, s, f

--------------------------------------------------------------------------------
(* The packets of a stream *)

\* Every packet of a session can be written.
LEMMA PacketsWritable == Packets \subseteq Writable
<1> SUFFICES ASSUME NEW p \in Packets PROVE p \in Writable
  BY Zenon
<1>1. /\ p.address \in Targets /\ p.payload \in Payloads
      /\ p = [address |-> p.address, payload |-> p.payload]
  BY Zenon DEF Packets
<1>2. p.address \in Addresses
  BY <1>1, TargetsAreAddresses, Zenon
<1>3. p.payload \in Seq(Bytes) /\ Len(p.payload) < Base * Base
  BY <1>1, WireAssumption, Zenon
<1> QED
  BY <1>1, <1>2, <1>3, Zenon DEF Writable

Nowhere == [type |-> IPv4, host |-> <<0, 0, 0, 0>>, port |-> 0]

\* What generate writes for an unspecified endpoint is the address 0.0.0.0:0.
LEMMA NowhereWritten ==
    Nowhere \in Addresses /\ GenerateAddress(Nowhere) = <<IPv4, 0, 0, 0, 0, 0, 0>>
<1> DEFINE g == GenerateAddress(Nowhere)
           z == <<1, 0, 0, 0, 0, 0, 0>>
<1>1. 0 \in Bytes /\ 1 \in Bytes /\ Base \in Nat /\ Base > 0
  BY WireAssumption DEF Bytes
<1>2. Nowhere \in Addresses
  <2>1. <<0, 0, 0, 0>> \in Seq(Bytes) /\ Len(<<0, 0, 0, 0>>) = 4
    BY <1>1
  <2>2. 0 \in 0..Base * Base - 1
    <3> DEFINE m == Base * Base
    <3>1. m \in Nat /\ m > 0
      BY <1>1
    <3> HIDE DEF m
    <3>2. 0 \in 0..m - 1
      BY <3>1
    <3> QED
      BY <3>2, Zenon DEF m
  <2> QED
    BY <2>1, <2>2 DEF Nowhere, Addresses, IPv4, IPv6, DOMAINNAME
<1>3. TwoBytes(0) = <<0, 0>>
  <2>1. 0 \div Base = 0 /\ 0 % Base = 0
    BY <1>1
  <2> QED
    BY <2>1, Zenon DEF TwoBytes
<1>4. /\ g \in Seq(Bytes) /\ Len(g) = 1 + 4 + 2 /\ g[1] = 1
      /\ \A i \in 1..4 : g[1 + i] = <<0, 0, 0, 0>>[i]
  <2>1. HostOffset(Nowhere) = 1 /\ Len(Nowhere.host) = 4 /\ Nowhere.type = 1
    BY DEF HostOffset, Nowhere, IPv4, DOMAINNAME
  <2>2. Nowhere.host = <<0, 0, 0, 0>>
    BY Zenon DEF Nowhere
  <2> QED
    BY <1>2, <2>1, <2>2, AddressBytes, Zenon
<1>5. g[6] = 0 /\ g[7] = 0
  <2> DEFINE f == <<1>> \o <<0, 0, 0, 0>>
  <2>1. g = f \o <<0, 0>>
    <3>1. /\ Nowhere.type = 1 /\ Nowhere.type # DOMAINNAME
          /\ Nowhere.host = <<0, 0, 0, 0>> /\ Nowhere.port = 0
      BY DEF Nowhere, IPv4, DOMAINNAME
    <3> QED
      BY <1>3, <3>1, Zenon DEF GenerateAddress
  <2>2. <<1>> \in Seq(Bytes) /\ <<0, 0, 0, 0>> \in Seq(Bytes) /\ <<0, 0>> \in Seq(Bytes)
    BY <1>1
  <2>3. f \in Seq(Bytes) /\ Joined(f, <<1>>, <<0, 0, 0, 0>>)
    BY <2>2, Concatenated, Zenon
  <2> HIDE DEF f
  <2>4. Len(f) = 5
    BY <2>3 DEF Joined
  <2>5. Joined(g, f, <<0, 0>>)
    BY <2>1, <2>2, <2>3, Concatenated, Zenon
  <2> HIDE DEF g
  <2>6. \A i \in 1..2 : g[5 + i] = <<0, 0>>[i]
    BY <2>4, <2>5, Zenon DEF Joined
  <2> QED
    BY <2>6
<1> HIDE DEF g
<1>6. Len(g) = 7 /\ g[2] = 0 /\ g[3] = 0 /\ g[4] = 0 /\ g[5] = 0
  BY <1>4
<1>7. g = z
  <2>1. z \in Seq(Bytes) /\ Len(z) = 7
    BY <1>1
  <2>2. \A i \in 1..Len(g) : g[i] = z[i]
    BY <1>4, <1>5, <1>6
  <2> QED
    BY <1>4, <1>6, <2>1, <2>2, SeqEqual, Zenon
<1> QED
  BY <1>2, <1>7, Zenon DEF g, IPv4

\* generate writes what the other side is told.
LEMMA ToldWritten ==
    ASSUME NEW p \in Packets, NEW answer \in BOOLEAN
    PROVE  /\ Told(p, answer) \in Writable
           /\ GeneratePacket(p, answer) = GeneratePacket(Told(p, answer), FALSE)
<1>1. p \in Writable
  BY PacketsWritable, Zenon
<1>2. CASE answer /\ Unspecified(p.address)
  <2> DEFINE q == [address |-> Nowhere, payload |-> p.payload]
  <2>1. Told(p, answer) = q
    BY <1>2, Zenon DEF Told, Packets, Nowhere
  <2>2. q \in Writable
    BY <1>1, NowhereWritten, Zenon DEF Writable
  <2>3. GeneratePacket(p, answer)
          = <<IPv4, 0, 0, 0, 0, 0, 0>> \o TwoBytes(Len(p.payload)) \o CRLF \o p.payload
    BY <1>2, Zenon DEF GeneratePacket, GenerateEndpoint
  <2>4. GeneratePacket(q, FALSE)
          = GenerateAddress(Nowhere) \o TwoBytes(Len(p.payload)) \o CRLF \o p.payload
    BY Zenon DEF GeneratePacket
  <2> HIDE DEF q
  <2> QED
    BY <2>1, <2>2, <2>3, <2>4, NowhereWritten, Zenon
<1>3. CASE ~(answer /\ Unspecified(p.address))
  <2>1. Told(p, answer) = p
    BY <1>3, Zenon DEF Told
  <2>2. GeneratePacket(p, answer) = GeneratePacket(p, FALSE)
    BY <1>3, Zenon DEF GeneratePacket, GenerateEndpoint
  <2> QED
    BY <1>1, <2>1, <2>2, Zenon
<1> QED
  BY <1>2, <1>3, Zenon

\* The packets of ss after the first n, as they are written.
Written(ss, n, answer) == [i \in 1..Len(ss) - n |-> GeneratePacket(ss[n + i], answer)]

\* generate writes bytes.
LEMMA PacketIsBytes ==
    ASSUME NEW p \in Packets, NEW answer \in BOOLEAN
    PROVE  GeneratePacket(p, answer) \in Seq(Bytes)
<1>1. GeneratePacket(Told(p, answer), FALSE) \in Seq(Bytes)
  BY ToldWritten, PacketBytes, Zenon
<1> QED
  BY <1>1, ToldWritten, Zenon

\* The packets as they are written are one byte string each.
LEMMA WrittenTyped ==
    ASSUME NEW ss \in Seq(Packets), NEW n \in 0..Len(ss), NEW answer \in BOOLEAN
    PROVE  /\ Written(ss, n, answer) \in Seq(Seq(Bytes))
           /\ Len(Written(ss, n, answer)) = Len(ss) - n
<1> DEFINE N == Len(ss) - n
           f == Written(ss, n, answer)
<1>1. N \in Nat /\ Len(ss) \in Nat
  OBVIOUS
<1>2. ASSUME NEW i \in 1..N PROVE GeneratePacket(ss[n + i], answer) \in Seq(Bytes)
  <2>1. n + i \in 1..Len(ss)
    OBVIOUS
  <2>2. ss[n + i] \in Packets
    BY <2>1
  <2> QED
    BY <2>2, PacketIsBytes, Zenon
<1>3. f = [i \in 1..N |-> GeneratePacket(ss[n + i], answer)]
  BY Zenon DEF Written
<1> HIDE DEF N, f
<1>4. f \in [1..N -> Seq(Bytes)]
  BY <1>2, <1>3, Zenon
<1> QED
  BY <1>1, <1>4 DEF N, f

\* One more packet adds its bytes at the end of the stream.
LEMMA WrittenAppend ==
    ASSUME NEW ss \in Seq(Packets), NEW n \in 0..Len(ss), NEW answer \in BOOLEAN,
           NEW p \in Packets
    PROVE  FlattenSeq(Written(Append(ss, p), n, answer))
              = FlattenSeq(Written(ss, n, answer)) \o GeneratePacket(p, answer)
<1> DEFINE tt == Append(ss, p)
           f == Written(ss, n, answer)
           h == Written(tt, n, answer)
           x == GeneratePacket(p, answer)
           N == Len(ss) - n
<1>1. /\ tt \in Seq(Packets) /\ Len(tt) = Len(ss) + 1 /\ tt[Len(ss) + 1] = p
      /\ \A i \in 1..Len(ss) : tt[i] = ss[i]
  OBVIOUS
<1>2. N \in Nat /\ Len(ss) \in Nat /\ n \in 0..Len(ss) + 1 /\ Len(tt) - n = N + 1
  BY <1>1
<1> HIDE DEF tt
<1>3. f \in Seq(Seq(Bytes)) /\ Len(f) = N
  BY WrittenTyped, Zenon
<1>4. h \in Seq(Seq(Bytes)) /\ Len(h) = N + 1
  BY <1>1, <1>2, WrittenTyped, Zenon
<1>5. x \in Seq(Bytes)
  BY PacketIsBytes, Zenon
<1>6. \A i \in 1..N : f[i] = GeneratePacket(ss[n + i], answer)
  BY Zenon DEF Written
<1>7. \A i \in 1..(N + 1) : h[i] = GeneratePacket(tt[n + i], answer)
  BY <1>2, Zenon DEF Written
<1> DEFINE a == Append(f, x)
<1>8. a \in Seq(Seq(Bytes)) /\ Len(a) = N + 1 /\ a[N + 1] = x /\ \A i \in 1..N : a[i] = f[i]
  <2> HIDE DEF f, x
  <2> QED
    BY <1>3, <1>5
<1>9. ASSUME NEW i \in 1..(N + 1) PROVE h[i] = a[i]
  <2> HIDE DEF h, f, a
  <2>1. CASE i = N + 1
    <3>1. n + i = Len(ss) + 1
      BY <1>2, <2>1
    <3>2. h[i] = x
      BY <1>1, <1>7, <3>1, Zenon
    <3> QED
      BY <1>8, <2>1, <3>2, Zenon
  <2>2. CASE i # N + 1
    <3>1. i \in 1..N /\ n + i \in 1..Len(ss)
      BY <1>2, <2>2
    <3>2. tt[n + i] = ss[n + i]
      BY <1>1, <3>1, Zenon
    <3> QED
      BY <1>6, <1>7, <1>8, <3>1, <3>2, Zenon
  <2> QED
    BY <2>1, <2>2, Zenon
<1> HIDE DEF h, f, a, x
<1>10. h = a
  <2>1. Len(h) = Len(a) /\ \A i \in 1..Len(h) : h[i] = a[i]
    BY <1>4, <1>8, <1>9, Zenon
  <2> QED
    BY <1>4, <1>8, <2>1, SeqEqual, Zenon
<1>11. FlattenSeq(a) = FlattenSeq(f) \o x
  BY <1>3, <1>5, FlattenAppend, Zenon DEF a
<1>12. FlattenSeq(h) = FlattenSeq(f) \o x
  BY <1>10, <1>11, Zenon
<1> QED
  BY <1>12, Zenon DEF h, f, x, tt

\* The stream begins with the bytes of the packet that is parsed next.
LEMMA WrittenFirst ==
    ASSUME NEW ss \in Seq(Packets), NEW n \in 0..Len(ss), n # Len(ss), NEW answer \in BOOLEAN
    PROVE  /\ FlattenSeq(Written(ss, n + 1, answer)) \in Seq(Bytes)
           /\ FlattenSeq(Written(ss, n, answer))
                = GeneratePacket(ss[n + 1], answer) \o FlattenSeq(Written(ss, n + 1, answer))
<1> DEFINE f == Written(ss, n, answer)
           u == Written(ss, n + 1, answer)
           N == Len(ss) - (n + 1)
<1>1. N \in Nat /\ Len(ss) \in Nat /\ n + 1 \in 0..Len(ss) /\ Len(ss) - n = N + 1 /\ n \in Nat
  BY SMTT(30)
<1>2. f \in Seq(Seq(Bytes)) /\ Len(f) = N + 1
  BY <1>1, WrittenTyped, ZenonT(30)
<1>3. u \in Seq(Seq(Bytes)) /\ Len(u) = N
  BY <1>1, WrittenTyped, Zenon
<1>4. \A i \in 1..(N + 1) : f[i] = GeneratePacket(ss[n + i], answer)
  BY <1>1, Zenon DEF Written
<1>5. \A i \in 1..N : u[i] = GeneratePacket(ss[n + 1 + i], answer)
  BY Zenon DEF Written
<1> HIDE DEF f, u, N
<1>6. ASSUME NEW i \in 1..N PROVE u[i] = f[i + 1]
  <2> DEFINE j == i + 1
  <2>1. j \in 1..(N + 1) /\ n + j = n + 1 + i
    BY <1>1
  <2> HIDE DEF j
  <2>2. f[j] = GeneratePacket(ss[n + j], answer)
    BY <1>4, <2>1, Zenon
  <2>3. u[i] = f[j]
    BY <1>5, <2>1, <2>2, Zenon
  <2> QED
    BY <2>3, Zenon DEF j
<1>7. f[1] = GeneratePacket(ss[n + 1], answer)
  <2>1. 1 \in 1..(N + 1)
    BY <1>1
  <2> QED
    BY <1>4, <2>1, Zenon
<1>8. FlattenSeq(u) \in Seq(Bytes) /\ FlattenSeq(f) = f[1] \o FlattenSeq(u)
  <2>1. Len(f) = Len(u) + 1 /\ \A i \in 1..Len(u) : u[i] = f[i + 1]
    BY <1>2, <1>3, <1>6, Zenon
  <2> QED
    BY <1>2, <1>3, <2>1, FlattenFirst, Zenon
<1> QED
  BY <1>7, <1>8, Zenon DEF f, u

\* When every packet is parsed no bytes are left.
LEMMA WrittenAll ==
    ASSUME NEW ss \in Seq(Packets), NEW answer \in BOOLEAN
    PROVE  FlattenSeq(Written(ss, Len(ss), answer)) = <<>>
<1> DEFINE f == Written(ss, Len(ss), answer)
<1>1. f \in Seq(Seq(Bytes)) /\ Len(f) = 0
  <2>1. Len(ss) \in 0..Len(ss) /\ Len(ss) - Len(ss) = 0
    OBVIOUS
  <2> QED
    BY <2>1, WrittenTyped, Zenon
<1> HIDE DEF f
<1>2. f = <<>>
  BY <1>1
<1>3. FlattenSeq(f) = f
  BY <1>1, FlattenIs, Zenon
<1> QED
  BY <1>2, <1>3, Zenon DEF f

--------------------------------------------------------------------------------
(* The invariant *)

WireTypes ==
    /\ exchange \in {"request", "udp", "tcp", "fallback", "answer"}
    /\ request \in [sent : TrojanRequests, got : {Invalid} \cup TrojanRequests]
    /\ sent \in Seq(Packets) /\ got \in Seq(Writable)
    /\ net \in Seq(Bytes) /\ buf \in Seq(Bytes)

\* Before the first read, the stream is the request and the packets sent after it; then it
\* is the packets that were not parsed yet.
StreamInv ==
    /\ exchange = "request" =>
        /\ got = <<>> /\ buf = <<>>
        /\ net = GenerateRequest(request.sent) \o FlattenSeq(Written(sent, 0, FALSE))
        /\ request.sent.command = CONNECT => sent = <<>>
    /\ exchange \in {"udp", "answer"} =>
        /\ Len(got) <= Len(sent)
        /\ \A i \in 1..Len(got) : got[i] = Told(sent[i], exchange = "answer")
        /\ buf \o net = FlattenSeq(Written(sent, Len(got), exchange = "answer"))

WireInv == WireTypes /\ StreamInv /\ RequestExact

\* The invariant holds before anything is sent.
LEMMA WireInitially == WireInit => WireInv
<1> SUFFICES ASSUME WireInit PROVE WireInv
  BY Zenon
<1>1. /\ exchange \in {"request", "answer"}
      /\ request \in [sent : TrojanRequests, got : {Invalid}]
      /\ sent = <<>> /\ got = <<>> /\ buf = <<>>
      /\ net = IF exchange = "request" THEN GenerateRequest(request.sent) ELSE <<>>
  BY Zenon DEF WireInit
<1>2. <<>> \in Seq(Packets) /\ <<>> \in Seq(Writable) /\ <<>> \in Seq(Bytes) /\ Len(<<>>) = 0
  OBVIOUS
<1>3. request.sent \in TrojanRequests
  BY <1>1, Zenon
<1>4. GenerateRequest(request.sent) \in Seq(Bytes)
  BY <1>3, RequestBytes, Zenon
<1>5. WireTypes
  <2>1. request \in [sent : TrojanRequests, got : {Invalid} \cup TrojanRequests]
    BY <1>1, Zenon
  <2> QED
    BY <1>1, <1>2, <1>4, <2>1, Zenon DEF WireTypes
<1>6. \A answer \in BOOLEAN : FlattenSeq(Written(sent, 0, answer)) = <<>>
  BY <1>1, <1>2, WrittenAll, Zenon
<1>7. GenerateRequest(request.sent) \o <<>> = GenerateRequest(request.sent)
  BY <1>4, ConcatEmptySeq, Zenon
<1>8. CASE exchange = "request"
  <2>1. net = GenerateRequest(request.sent) \o FlattenSeq(Written(sent, 0, FALSE))
    BY <1>1, <1>6, <1>7, <1>8, Zenon
  <2>2. StreamInv
    BY <1>1, <1>8, <2>1, Zenon DEF StreamInv
  <2>3. RequestExact
    BY <1>8, Zenon DEF RequestExact
  <2> QED
    BY <1>5, <2>2, <2>3, Zenon DEF WireInv
<1>9. CASE exchange = "answer"
  <2>1. buf \o net = <<>>
    BY <1>1, <1>9
  <2>2. Len(got) = 0 /\ Len(sent) = 0
    BY <1>1, Zenon
  <2>3. FlattenSeq(Written(sent, Len(got), exchange = "answer")) = <<>>
    BY <1>6, <1>9, <2>2, Zenon
  <2>4. StreamInv
    BY <1>9, <2>1, <2>2, <2>3 DEF StreamInv
  <2>5. RequestExact
    BY <1>9, Zenon DEF RequestExact
  <2> QED
    BY <1>5, <2>4, <2>5, Zenon DEF WireInv
<1> QED
  BY <1>1, <1>8, <1>9, Zenon

\* A datagram that enters the tunnel is written behind what is on the way.
LEMMA SendKeeps ==
    ASSUME WireInv, NEW p \in Packets, Send(p)
    PROVE  WireInv'
<1> DEFINE answer == exchange = "answer"
           x == GeneratePacket(p, answer)
<1>1. WireTypes /\ StreamInv /\ RequestExact
  BY Zenon DEF WireInv
<1>2. /\ exchange \in {"request", "udp", "answer"}
      /\ exchange \in {"request", "udp"} => request.sent.command = UDP_ASSOCIATE
      /\ sent' = Append(sent, p) /\ net' = net \o x
      /\ exchange' = exchange /\ request' = request /\ got' = got /\ buf' = buf
  BY <1>1, Zenon DEF Send, WireTypes
<1>3. x \in Seq(Bytes) /\ answer \in BOOLEAN
  BY PacketIsBytes, Zenon
<1> HIDE DEF x
<1>4. /\ sent \in Seq(Packets) /\ got \in Seq(Writable) /\ net \in Seq(Bytes) /\ buf \in Seq(Bytes)
      /\ Len(sent) \in Nat /\ Len(got) \in Nat /\ request.sent \in TrojanRequests
  BY <1>1 DEF WireTypes
<1>5. /\ sent' \in Seq(Packets) /\ Len(sent') = Len(sent) + 1
      /\ \A i \in 1..Len(sent) : sent'[i] = sent[i]
  BY <1>2, <1>4
<1>6. WireTypes'
  <2>1. net' \in Seq(Bytes)
    BY <1>2, <1>3, <1>4, Concatenated, Zenon
  <2> QED
    BY <1>1, <1>2, <1>4, <1>5, <2>1, Zenon DEF WireTypes
<1>7. RequestExact'
  <2>1. exchange' \notin {"tcp", "fallback"}
    BY <1>2, Zenon
  <2> QED
    BY <1>1, <1>2, <2>1, Zenon DEF RequestExact
<1>8. CASE exchange = "request"
  <2> DEFINE g == GenerateRequest(request.sent)
             F == FlattenSeq(Written(sent, 0, FALSE))
             y == GeneratePacket(p, FALSE)
  <2>1. got = <<>> /\ buf = <<>> /\ net = g \o F
    BY <1>1, <1>8, Zenon DEF StreamInv
  <2>2. F \in Seq(Bytes) /\ FlattenSeq(Written(sent', 0, FALSE)) = F \o y
    <3>1. 0 \in 0..Len(sent)
      BY <1>4
    <3>2. Written(sent, 0, FALSE) \in Seq(Seq(Bytes))
      BY <1>4, <3>1, WrittenTyped, Zenon
    <3>3. y \in Seq(Bytes)
      BY PacketIsBytes, Zenon
    <3>4. F \in Seq(Bytes)
      BY <3>2, <3>3, FlattenAppend, Zenon
    <3>5. FlattenSeq(Written(Append(sent, p), 0, FALSE)) = F \o y
      BY <1>4, <3>1, WrittenAppend, Zenon
    <3> QED
      BY <1>2, <3>4, <3>5, Zenon
  <2>3. g \in Seq(Bytes)
    BY <1>4, RequestBytes, Zenon
  <2>4. x = y
    BY <1>8, Zenon DEF x
  <2>5. net' = g \o (F \o y)
    <3> HIDE DEF g, F, y
    <3>1. Regrouped(g, F, x)
      BY <1>3, <2>2, <2>3, Regroup, Zenon
    <3>2. net' = (g \o F) \o x
      BY <1>2, <2>1, Zenon
    <3> QED
      BY <2>4, <3>1, <3>2, Zenon DEF Regrouped
  <2>6. request.sent.command # CONNECT
    BY <1>2, <1>8 DEF CONNECT, UDP_ASSOCIATE
  <2>7. net' = GenerateRequest(request'.sent) \o FlattenSeq(Written(sent', 0, FALSE))
    BY <1>2, <2>2, <2>5, Zenon
  <2>8. StreamInv'
    BY <1>2, <1>8, <2>1, <2>6, <2>7, Zenon DEF StreamInv
  <2> QED
    BY <1>6, <1>7, <2>8, Zenon DEF WireInv
<1>9. CASE exchange \in {"udp", "answer"}
  <2> DEFINE n == Len(got)
             F == FlattenSeq(Written(sent, n, answer))
  <2>1. /\ n <= Len(sent) /\ \A i \in 1..n : got[i] = Told(sent[i], answer)
        /\ buf \o net = F
    BY <1>1, <1>9, Zenon DEF StreamInv
  <2>2. n \in 0..Len(sent)
    BY <1>4, <2>1
  <2>3. FlattenSeq(Written(sent', n, answer)) = F \o x
    <3>1. FlattenSeq(Written(Append(sent, p), n, answer)) = F \o GeneratePacket(p, answer)
      BY <1>3, <1>4, <2>2, WrittenAppend, Zenon
    <3> QED
      BY <1>2, <3>1, Zenon DEF x
  <2>4. buf \o net' = F \o x
    <3>1. Regrouped(buf, net, x)
      BY <1>3, <1>4, Regroup, Zenon
    <3> HIDE DEF F
    <3> QED
      BY <1>2, <2>1, <3>1, Zenon DEF Regrouped
  <2>5. ASSUME NEW i \in 1..n PROVE got[i] = Told(sent'[i], answer)
    <3>1. i \in 1..Len(sent)
      BY <1>4, <2>1
    <3> QED
      BY <1>5, <2>1, <3>1, Zenon
  <2>6. n <= Len(sent')
    BY <1>4, <1>5, <2>1
  <2>7. buf' \o net' = FlattenSeq(Written(sent', n, answer))
    BY <1>2, <2>3, <2>4, Zenon
  <2>8. Len(got') = n /\ (exchange' = "answer") = answer /\ exchange' # "request"
    BY <1>2, <1>9, Zenon
  <2> HIDE DEF n, F
  <2>9. StreamInv'
    <3>1. \A i \in 1..Len(got') : got'[i] = Told(sent'[i], exchange' = "answer")
      BY <1>2, <2>5, <2>8, Zenon
    <3>2. buf' \o net' = FlattenSeq(Written(sent', Len(got'), exchange' = "answer"))
      BY <2>7, <2>8, Zenon
    <3> QED
      BY <2>6, <2>8, <3>1, <3>2, Zenon DEF StreamInv
  <2> QED
    BY <1>6, <1>7, <2>9, Zenon DEF WireInv
<1> QED
  BY <1>2, <1>8, <1>9, Zenon

\* However the first read cuts the stream, a whole request is accepted as generated and what
\* follows it is left for the packet parser; a cut one goes to the fallback.
LEMMA FirstReadKeeps ==
    ASSUME WireInv, NEW k \in 1..Len(net), NEW stray \in Strays, FirstRead(k, stray)
    PROVE  WireInv'
<1> DEFINE d == SubSeq(net, 1, k)
           g == GenerateRequest(request.sent)
           F == FlattenSeq(Written(sent, 0, FALSE))
           r == ParseRequest(d, stray)
<1>1. WireTypes /\ StreamInv
  BY Zenon DEF WireInv
<1>2. /\ exchange = "request"
      /\ exchange' = IF ~r.valid THEN "fallback"
                     ELSE IF r.request.command = UDP_ASSOCIATE THEN "udp" ELSE "tcp"
      /\ request' = IF r.valid THEN [request EXCEPT !.got = r.request] ELSE request
      /\ buf' = IF r.valid THEN r.payload ELSE d
      /\ net' = From(net, k + 1) /\ sent' = sent /\ got' = got
  BY Zenon DEF FirstRead
<1>3. /\ got = <<>> /\ buf = <<>> /\ net = g \o F
      /\ request.sent.command = CONNECT => sent = <<>>
  BY <1>1, <1>2, Zenon DEF StreamInv
<1>4. /\ sent \in Seq(Packets) /\ got \in Seq(Writable) /\ net \in Seq(Bytes)
      /\ request \in [sent : TrojanRequests, got : {Invalid} \cup TrojanRequests]
      /\ request.sent \in TrojanRequests /\ Len(sent) \in Nat
  BY <1>1 DEF WireTypes
<1>5. stray \in Bytes
  BY WireAssumption, Zenon
<1>6. d \in Seq(Bytes) /\ Len(d) = k /\ net' \in Seq(Bytes) /\ d \o net' = net
  BY <1>2, <1>4, ReadSplits, Zenon
<1>7. g \in Seq(Bytes)
  BY <1>4, RequestBytes, Zenon
<1>8. F \in Seq(Bytes)
  <2>1. 0 \in 0..Len(sent)
    BY <1>4
  <2>2. Written(sent, 0, FALSE) \in Seq(Seq(Bytes))
    BY <1>4, <2>1, WrittenTyped, Zenon
  <2> QED
    BY <2>2, <1>7, FlattenAppend, Zenon
<1> HIDE DEF d, g, F
<1>9. Agree(d, g) /\ (Len(g) <= Len(d) => From(d, Len(g) + 1) \o net' = F)
  <2>1. d \o net' = g \o F
    BY <1>3, <1>6, Zenon
  <2> QED
    BY <1>6, <1>7, <1>8, <2>1, CutFront, Zenon
<1>10. r = IF Len(d) < Len(g) THEN Invalid
           ELSE [valid |-> TRUE, payload |-> From(d, Len(g) + 1), request |-> request.sent]
  BY <1>4, <1>5, <1>6, <1>9, RequestParsed, Zenon DEF g
<1> HIDE DEF r
<1>11. CASE Len(d) < Len(g)
  <2>1. ~r.valid
    BY <1>10, <1>11, Zenon DEF Invalid
  <2>2. exchange' = "fallback" /\ request' = request /\ buf' = d
    BY <1>2, <2>1, Zenon
  <2>3. WireTypes'
    BY <1>2, <1>4, <1>6, <2>2, Zenon DEF WireTypes
  <2>4. StreamInv'
    BY <2>2, Zenon DEF StreamInv
  <2>5. Len(buf') < Len(GenerateRequest(request'.sent))
    BY <1>11, <2>2, Zenon DEF g
  <2>6. RequestExact'
    BY <2>2, <2>5, Zenon DEF RequestExact
  <2> QED
    BY <2>3, <2>4, <2>6, Zenon DEF WireInv
<1>12. CASE ~(Len(d) < Len(g))
  <2>1. r.valid = TRUE /\ r.payload = From(d, Len(g) + 1) /\ r.request = request.sent
    BY <1>10, <1>12, Zenon
  <2>2. /\ exchange' = IF request.sent.command = UDP_ASSOCIATE THEN "udp" ELSE "tcp"
        /\ request' = [request EXCEPT !.got = request.sent]
        /\ buf' = From(d, Len(g) + 1)
    BY <1>2, <2>1, Zenon
  <2>3. request'.sent = request.sent /\ request'.got = request.sent
    BY <1>4, <2>2, Zenon
  <2>4. Len(g) <= Len(d) /\ Len(g) + 1 \in Nat /\ Len(g) + 1 > 0
    BY <1>6, <1>7, <1>12
  <2>5. buf' \in Seq(Bytes) /\ buf' \o net' = F
    <3>1. From(d, Len(g) + 1) \in Seq(Bytes)
      BY <1>6, <2>4, FromIs, Zenon
    <3> QED
      BY <1>9, <2>2, <2>4, <3>1, Zenon
  <2>6. WireTypes'
    <3>1. request' \in [sent : TrojanRequests, got : {Invalid} \cup TrojanRequests]
      BY <1>4, <2>2, Zenon
    <3>2. exchange' \in {"udp", "tcp"}
      BY <2>2, Zenon
    <3> QED
      BY <1>2, <1>4, <1>6, <2>5, <3>1, <3>2, Zenon DEF WireTypes
  <2>7. CASE request.sent.command = UDP_ASSOCIATE
    <3>1. exchange' = "udp" /\ ~(exchange' = "answer")
      BY <2>2, <2>7, Zenon
    <3>2. Len(got') = 0 /\ 0 <= Len(sent') /\ \A i \in 1..Len(got') : FALSE
      BY <1>2, <1>3, <1>4
    <3>3. buf' \o net' = FlattenSeq(Written(sent', Len(got'), exchange' = "answer"))
      <4>1. (exchange' = "answer") = FALSE
        BY <3>1, Zenon
      <4> QED
        BY <1>2, <2>5, <3>2, <4>1, Zenon DEF F
    <3>4. StreamInv'
      <4>1. exchange' # "request" /\ Len(got') <= Len(sent')
        BY <3>1, <3>2, Zenon
      <4> QED
        BY <3>2, <3>3, <4>1, Zenon DEF StreamInv
    <3>5. RequestExact'
      BY <2>3, <3>1, Zenon DEF RequestExact
    <3> QED
      BY <2>6, <3>4, <3>5, Zenon DEF WireInv
  <2>8. CASE request.sent.command # UDP_ASSOCIATE
    <3>1. exchange' = "tcp"
      BY <2>2, <2>8, Zenon
    <3>2. request.sent.command = CONNECT
      BY <1>4, <2>8, Zenon DEF TrojanRequests
    <3>3. sent = <<>> /\ Len(sent) = 0
      BY <1>3, <3>2, Zenon
    <3>4. F = <<>>
      <4>1. FlattenSeq(Written(sent, Len(sent), FALSE)) = <<>>
        BY <1>4, WrittenAll, Zenon
      <4> QED
        BY <3>3, <4>1, Zenon DEF F
    <3>5. StreamInv'
      BY <3>1, Zenon DEF StreamInv
    <3>6. RequestExact'
      BY <2>3, <2>5, <3>1, <3>4, Zenon DEF RequestExact
    <3> QED
      BY <2>6, <3>5, <3>6, Zenon DEF WireInv
  <2> QED
    BY <2>7, <2>8, Zenon
<1> QED
  BY <1>11, <1>12, Zenon

\* A later read moves bytes from the network to udp_data_buf.
LEMMA ReadKeeps ==
    ASSUME WireInv, NEW k \in 1..Len(net), Read(k)
    PROVE  WireInv'
<1> DEFINE d == SubSeq(net, 1, k)
<1>1. WireTypes /\ StreamInv /\ RequestExact
  BY Zenon DEF WireInv
<1>2. /\ exchange \in {"udp", "answer"} /\ buf' = buf \o d /\ net' = From(net, k + 1)
      /\ exchange' = exchange /\ request' = request /\ sent' = sent /\ got' = got
  BY Zenon DEF Read
<1>3. net \in Seq(Bytes) /\ buf \in Seq(Bytes)
  BY <1>1, Zenon DEF WireTypes
<1>4. d \in Seq(Bytes) /\ net' \in Seq(Bytes) /\ d \o net' = net
  BY <1>2, <1>3, ReadSplits, Zenon
<1> HIDE DEF d
<1>5. buf' \in Seq(Bytes)
  BY <1>2, <1>3, <1>4, Concatenated, Zenon
<1>6. buf' \o net' = buf \o net
  <2>1. Regrouped(buf, d, net')
    BY <1>3, <1>4, Regroup, Zenon
  <2> QED
    BY <1>2, <1>4, <2>1, Zenon DEF Regrouped
<1>7. WireTypes'
  BY <1>1, <1>2, <1>4, <1>5, Zenon DEF WireTypes
<1>8. StreamInv'
  <2>1. /\ Len(got) <= Len(sent)
        /\ \A i \in 1..Len(got) : got[i] = Told(sent[i], exchange = "answer")
        /\ buf \o net = FlattenSeq(Written(sent, Len(got), exchange = "answer"))
    BY <1>1, <1>2, Zenon DEF StreamInv
  <2>2. exchange' # "request"
    BY <1>2, Zenon
  <2> QED
    BY <1>2, <1>6, <2>1, <2>2, Zenon DEF StreamInv
<1>9. RequestExact'
  <2>1. exchange' \notin {"tcp", "fallback"}
    BY <1>2, Zenon
  <2> QED
    BY <1>1, <1>2, <2>1, Zenon DEF RequestExact
<1> QED
  BY <1>7, <1>8, <1>9, Zenon DEF WireInv

\* What parse makes of the bytes that were read, when a packet was not returned yet.
LEMMA NextPacket ==
    ASSUME WireInv, exchange \in {"udp", "answer"}, NEW stray \in Bytes, Len(got) # Len(sent)
    PROVE  LET answer == exchange = "answer"
               n == Len(got)
               g == GeneratePacket(sent[n + 1], answer)
           IN  /\ g \in Seq(Bytes) /\ Told(sent[n + 1], answer) \in Writable
               /\ n \in 0..Len(sent) /\ n + 1 \in 1..Len(sent)
               /\ ParsePacket(buf, stray) =
                      IF Len(buf) < Len(g) THEN Invalid
                      ELSE [valid |-> TRUE, len |-> Len(g), packet |-> Told(sent[n + 1], answer)]
               /\ Len(g) <= Len(buf) =>
                      From(buf, Len(g) + 1) \o net = FlattenSeq(Written(sent, n + 1, answer))
               /\ Len(g) <= Len(buf \o net)
<1> DEFINE answer == exchange = "answer"
           n == Len(got)
           p == sent[n + 1]
           g == GeneratePacket(p, answer)
           T == FlattenSeq(Written(sent, n + 1, answer))
<1>1. WireTypes /\ StreamInv
  BY Zenon DEF WireInv
<1>2. n <= Len(sent) /\ buf \o net = FlattenSeq(Written(sent, n, answer))
  BY <1>1, Zenon DEF StreamInv
<1>3. /\ sent \in Seq(Packets) /\ net \in Seq(Bytes) /\ buf \in Seq(Bytes)
      /\ Len(sent) \in Nat /\ n \in Nat /\ answer \in BOOLEAN
  BY <1>1 DEF WireTypes
<1>4. n \in 0..Len(sent) /\ n + 1 \in 1..Len(sent)
  BY <1>2, <1>3
<1>5. p \in Packets
  BY <1>3, <1>4
<1>6. g \in Seq(Bytes) /\ T \in Seq(Bytes) /\ buf \o net = g \o T
  <2>1. /\ T \in Seq(Bytes)
        /\ FlattenSeq(Written(sent, n, answer)) = g \o T
    BY <1>3, <1>4, WrittenFirst, Zenon
  <2>2. g \in Seq(Bytes)
    BY <1>3, <1>5, PacketIsBytes, Zenon
  <2> QED
    BY <1>2, <2>1, <2>2, Zenon
<1>7. Told(p, answer) \in Writable /\ g = GeneratePacket(Told(p, answer), FALSE)
  BY <1>3, <1>5, ToldWritten, Zenon
<1> HIDE DEF g, T, p, n, answer
<1>8. Agree(buf, g) /\ (Len(g) <= Len(buf) => From(buf, Len(g) + 1) \o net = T)
  BY <1>3, <1>6, CutFront, Zenon
<1>9. ParsePacket(buf, stray) =
        IF Len(buf) < Len(g) THEN Invalid
        ELSE [valid |-> TRUE, len |-> Len(g), packet |-> Told(p, answer)]
  <2> DEFINE q == Told(p, answer)
  <2>1. q \in Writable /\ Agree(buf, GeneratePacket(q, FALSE))
    BY <1>7, <1>8, Zenon
  <2> HIDE DEF q
  <2>2. ParsePacket(buf, stray) =
            IF Len(buf) < Len(GeneratePacket(q, FALSE)) THEN Invalid
            ELSE [valid |-> TRUE, len |-> Len(GeneratePacket(q, FALSE)), packet |-> q]
    BY <1>3, <2>1, PacketParsed, Zenon
  <2> QED
    BY <1>7, <2>2, Zenon DEF q
<1>10. Len(g) <= Len(buf \o net)
  <2>1. Joined(g \o T, g, T)
    BY <1>6, Concatenated, Zenon
  <2>2. Len(buf \o net) = Len(g) + Len(T)
    BY <1>6, <2>1, Zenon DEF Joined
  <2>3. Len(g) \in Nat /\ Len(T) \in Nat
    BY <1>6
  <2> QED
    BY <2>2, <2>3
<1> QED
  BY <1>4, <1>6, <1>7, <1>8, <1>9, <1>10, Zenon DEF g, T, p, n, answer

\* No packet is parsed from an empty buffer.
LEMMA NothingParsed == ASSUME NEW stray PROVE ~ParsePacket(<<>>, stray).valid
<1>1. ParseAddress(<<>>, stray) = Invalid
  BY Zenon DEF ParseAddress
<1> QED
  BY <1>1 DEF ParsePacket, Invalid

\* The packet cut off the front is the next one that was sent, and the bytes behind it stay.
LEMMA CutKeeps ==
    ASSUME WireInv, NEW stray \in Strays, CutPacket(stray)
    PROVE  WireInv'
<1> DEFINE answer == exchange = "answer"
           n == Len(got)
           p == sent[n + 1]
           g == GeneratePacket(p, answer)
           r == ParsePacket(buf, stray)
<1>1. WireTypes /\ StreamInv /\ RequestExact
  BY Zenon DEF WireInv
<1>2. /\ exchange \in {"udp", "answer"} /\ r.valid
      /\ got' = Append(got, r.packet) /\ buf' = From(buf, r.len + 1)
      /\ exchange' = exchange /\ request' = request /\ sent' = sent /\ net' = net
  BY Zenon DEF CutPacket
<1>3. /\ sent \in Seq(Packets) /\ net \in Seq(Bytes) /\ buf \in Seq(Bytes) /\ got \in Seq(Writable)
      /\ Len(sent) \in Nat /\ n \in Nat
  BY <1>1 DEF WireTypes
<1>4. stray \in Bytes
  BY WireAssumption, Zenon
<1>5. /\ n <= Len(sent) /\ \A i \in 1..n : got[i] = Told(sent[i], answer)
      /\ buf \o net = FlattenSeq(Written(sent, n, answer))
  BY <1>1, <1>2, Zenon DEF StreamInv
<1>6. n # Len(sent)
  <2> SUFFICES ASSUME n = Len(sent) PROVE FALSE
    BY Zenon
  <2>1. FlattenSeq(Written(sent, Len(sent), answer)) = <<>>
    BY <1>3, WrittenAll, Zenon
  <2>2. buf \o net = <<>>
    BY <1>5, <2>1, Zenon
  <2>3. buf = <<>>
    BY <1>3, <2>2
  <2> QED
    BY <1>2, <2>3, NothingParsed, Zenon
<1>7. /\ g \in Seq(Bytes) /\ Told(p, answer) \in Writable
      /\ n \in 0..Len(sent) /\ n + 1 \in 1..Len(sent)
      /\ r = IF Len(buf) < Len(g) THEN Invalid
             ELSE [valid |-> TRUE, len |-> Len(g), packet |-> Told(p, answer)]
      /\ Len(g) <= Len(buf) =>
            From(buf, Len(g) + 1) \o net = FlattenSeq(Written(sent, n + 1, answer))
  BY <1>2, <1>4, <1>6, NextPacket, Zenon
<1> HIDE DEF g, r
<1>8. ~(Len(buf) < Len(g))
  BY <1>2, <1>7, Zenon DEF Invalid
<1>9. r.len = Len(g) /\ r.packet = Told(p, answer)
  BY <1>7, <1>8, Zenon
<1>10. Len(g) <= Len(buf) /\ Len(g) + 1 \in Nat /\ Len(g) + 1 > 0
  BY <1>3, <1>7, <1>8
<1> DEFINE q == Told(p, answer)
<1> HIDE DEF q, p
<1>11. got' = Append(got, q) /\ buf' = From(buf, Len(g) + 1)
  BY <1>2, <1>9, Zenon DEF q
<1>12. /\ got' \in Seq(Writable) /\ Len(got') = n + 1
       /\ got'[n + 1] = q /\ \A i \in 1..n : got'[i] = got[i]
  <2>1. q \in Writable
    BY <1>7, Zenon DEF q
  <2> QED
    BY <1>3, <1>11, <2>1
<1>13. buf' \in Seq(Bytes)
  BY <1>3, <1>10, <1>11, FromIs, Zenon
<1>14. buf' \o net' = FlattenSeq(Written(sent, n + 1, answer))
  BY <1>2, <1>7, <1>10, <1>11, Zenon
<1>15. ASSUME NEW i \in 1..(n + 1) PROVE got'[i] = Told(sent[i], answer)
  <2>1. CASE i = n + 1
    BY <1>12, <2>1, Zenon DEF q, p
  <2>2. CASE i # n + 1
    <3>1. i \in 1..n
      BY <1>3, <2>2
    <3> QED
      BY <1>5, <1>12, <3>1, Zenon
  <2> QED
    BY <2>1, <2>2, Zenon
<1>16. WireTypes'
  BY <1>1, <1>2, <1>3, <1>12, <1>13, Zenon DEF WireTypes
<1>17. StreamInv'
  <2>1. exchange' # "request" /\ n + 1 <= Len(sent)
    BY <1>2, <1>7
  <2>2. Len(got') <= Len(sent')
    BY <1>2, <1>12, <2>1, Zenon
  <2>3. \A i \in 1..Len(got') : got'[i] = Told(sent'[i], exchange' = "answer")
    BY <1>2, <1>12, <1>15, Zenon
  <2>4. buf' \o net' = FlattenSeq(Written(sent', Len(got'), exchange' = "answer"))
    BY <1>2, <1>12, <1>14, Zenon
  <2> QED
    BY <2>1, <2>2, <2>3, <2>4, Zenon DEF StreamInv
<1>18. RequestExact'
  <2>1. exchange' \notin {"tcp", "fallback"}
    BY <1>2, Zenon
  <2> QED
    BY <1>1, <1>2, <2>1, Zenon DEF RequestExact
<1> QED
  BY <1>16, <1>17, <1>18, Zenon DEF WireInv

\* WireInv is inductive.
LEMMA WireStep == WireInv /\ [WireNext]_wireVars => WireInv'
<1> SUFFICES ASSUME WireInv, [WireNext]_wireVars PROVE WireInv'
  BY Zenon
<1>1. ASSUME NEW p \in Packets, Send(p) PROVE WireInv'
  BY <1>1, SendKeeps, Zenon
<1>2. ASSUME NEW k \in 1..Len(net), NEW stray \in Strays, FirstRead(k, stray) PROVE WireInv'
  BY <1>2, FirstReadKeeps, Zenon
<1>3. ASSUME NEW k \in 1..Len(net), Read(k) PROVE WireInv'
  BY <1>3, ReadKeeps, Zenon
<1>4. ASSUME NEW stray \in Strays, CutPacket(stray) PROVE WireInv'
  BY <1>4, CutKeeps, Zenon
<1>5. CASE UNCHANGED wireVars
  BY <1>5, Zenon DEF wireVars, WireInv, WireTypes, StreamInv, RequestExact
<1> QED
  BY <1>1, <1>2, <1>3, <1>4, <1>5, Zenon DEF WireNext

\* WireInv gives ParsersExact: bytes that hold a whole packet are never refused.
LEMMA WireInvMeans == WireInv => ParsersExact
<1> SUFFICES ASSUME WireInv PROVE PacketsExact
  BY Zenon DEF WireInv, ParsersExact
<1> SUFFICES ASSUME exchange \in {"udp", "answer"}
             PROVE  /\ Len(got) <= Len(sent)
                    /\ got = [i \in 1..Len(got) |-> Told(sent[i], exchange = "answer")]
                    /\ buf \o net = FlattenSeq(Written(sent, Len(got), exchange = "answer"))
                    /\ net = <<>> /\ (\A stray \in Strays : ~ParsePacket(buf, stray).valid)
                          => Len(got) = Len(sent)
  BY Zenon DEF PacketsExact, Written
<1> DEFINE answer == exchange = "answer"
<1>1. /\ Len(got) <= Len(sent)
      /\ \A i \in 1..Len(got) : got[i] = Told(sent[i], answer)
      /\ buf \o net = FlattenSeq(Written(sent, Len(got), answer))
  BY Zenon DEF WireInv, StreamInv
<1>2. got \in Seq(Writable) /\ buf \in Seq(Bytes)
  BY Zenon DEF WireInv, WireTypes
<1>3. got = [i \in 1..Len(got) |-> Told(sent[i], answer)]
  <2>1. got = [i \in 1..Len(got) |-> got[i]]
    BY <1>2
  <2> QED
    BY <1>1, <2>1, Zenon
<1>4. ASSUME net = <<>>, \A stray \in Strays : ~ParsePacket(buf, stray).valid,
             Len(got) # Len(sent)
      PROVE  FALSE
  <2> DEFINE g == GeneratePacket(sent[Len(got) + 1], answer)
  <2>1. PICK stray \in Strays : stray \in Bytes
    BY WireAssumption, Zenon
  <2>2. /\ ParsePacket(buf, stray) =
              IF Len(buf) < Len(g) THEN Invalid
              ELSE [valid |-> TRUE, len |-> Len(g), packet |-> Told(sent[Len(got) + 1], answer)]
        /\ g \in Seq(Bytes) /\ Len(g) <= Len(buf \o net)
    BY <1>4, <2>1, NextPacket, Zenon
  <2>3. buf \o net = buf
    BY <1>2, <1>4, ConcatEmptySeq, Zenon
  <2> HIDE DEF g
  <2>4. ~(Len(buf) < Len(g))
    BY <1>2, <2>2, <2>3
  <2>5. ParsePacket(buf, stray).valid
    BY <2>2, <2>4
  <2> QED
    BY <1>4, <2>1, <2>5, Zenon
<1> QED
  BY <1>1, <1>3, <1>4, Zenon

\* Whatever requests and packets are generated, and however the stream is cut into reads,
\* UDPPacket::parse returns exactly the packets, in order, and holds none back, and
\* TrojanRequest::parse accepts a request only whole and as it was generated.
THEOREM ParsersCorrect == WireSpec => []ParsersExact
  BY WireInitially, WireStep, WireInvMeans, PTL DEF WireSpec
===============================================================================
