-------------------------------- MODULE Wire --------------------------------
(***************************************************************************)
(* The trojan wire format (proto/): a request, then for UDP ASSOCIATE a    *)
(* stream of packets, written by the generate functions and read back by   *)
(* the parse functions from whatever pieces the stream is delivered in.    *)
(* A byte is a number below Base, so that the two-byte lengths and ports   *)
(* carry within short sequences.  The text of an address is a function of  *)
(* its bytes and is left out.  parse reads a byte past the end of a        *)
(* one-byte view; stray stands for it.                                     *)
(*                                                                         *)
(* Definitions named X_Something are deliberately wrong variants of X.     *)
(***************************************************************************)
EXTENDS Integers, Sequences, FiniteSetsExt

CONSTANTS
    Base,           \* number of byte values
    Passwords,      \* byte sequences without CRLF
    Targets,        \* addresses: [type, host (bytes), port]
    Payloads,       \* byte sequences
    Strays,         \* values of the byte past the end
    MaxPackets      \* bound: packets of a session

IPv4 == 1
DOMAINNAME == 3
IPv6 == 4
CONNECT == 1
UDP_ASSOCIATE == 3
CRLF == <<13, 10>>

\* data.find("\r\n"): the first position, or 0
FirstCrLf(d) ==
    LET at == {i \in 1..Len(d) - 1 : SubSeq(d, i, i + 1) = CRLF}
    IN  IF at = {} THEN 0 ELSE Min(at)

Packets == [address : Targets, payload : Payloads]
TrojanRequests == [password : Passwords, command : {CONNECT, UDP_ASSOCIATE}, address : Targets]

Bytes == 0..Base - 1

ASSUME WireAssumption ==
    /\ Base \in Nat /\ Base > 13
    /\ Passwords \subseteq {p \in Seq(Bytes) : FirstCrLf(p) = 0}
    /\ \A t \in Targets :
        /\ t = [type |-> t.type, host |-> t.host, port |-> t.port]
        /\ <<t.type, Len(t.host)>> \in ({IPv4} \X {4}) \cup ({IPv6} \X {16})
                                           \cup ({DOMAINNAME} \X (1..Base - 1))
        /\ t.host \in Seq(Bytes) /\ t.port \in 0..Base * Base - 1
    /\ \A d \in Payloads : d \in Seq(Bytes) /\ Len(d) < Base * Base
    /\ Strays \subseteq Bytes /\ Strays # {}
    /\ MaxPackets \in Nat
-----------------------------------------------------------------------------
(* generate *)

TwoBytes(n) == <<(n \div Base) % Base, n % Base>>

\* The address of a domain name, or the bytes a SOCKS5 client sent.
GenerateAddress(a) ==
    (IF a.type = DOMAINNAME THEN <<a.type, Len(a.host) % Base>> ELSE <<a.type>>)
        \o a.host \o TwoBytes(a.port)

Unspecified(e) == \A i \in DOMAIN e.host : e.host[i] = 0

\* SOCKS5Address::generate
GenerateEndpoint(e) ==
    IF Unspecified(e) THEN <<IPv4, 0, 0, 0, 0, 0, 0>> ELSE GenerateAddress(e)

\* TrojanRequest::generate, and the request that ClientSession makes of a SOCKS5 request.
GenerateRequest(r) ==
    r.password \o CRLF \o <<r.command>> \o GenerateAddress(r.address) \o CRLF

\* UDPPacket::generate, from an endpoint when the server answers, and the packet that
\* ClientSession::udp_recv makes of a datagram.
GeneratePacket(p, answer) ==
    (IF answer THEN GenerateEndpoint(p.address) ELSE GenerateAddress(p.address))
        \o TwoBytes(Len(p.payload)) \o CRLF \o p.payload
-----------------------------------------------------------------------------
(* parse *)

From(d, i) == SubSeq(d, i, Len(d))
Number(d, i) == d[i] * Base + d[i + 1]
Invalid == [valid |-> FALSE]

\* An address of n host bytes that start at position i.
HostAt(d, i, n) ==
    IF Len(d) >= i + n + 1
    THEN [valid |-> TRUE, len |-> i + n + 1,
          address |-> [type |-> d[1], host |-> SubSeq(d, i, i + n - 1),
                       port |-> Number(d, i + n)]]
    ELSE Invalid

\* SOCKS5Address::parse
ParseAddress(d, stray) ==
    CASE d = <<>>              -> Invalid
      [] d # <<>> /\ d[1] = IPv4 -> HostAt(d, 2, 4)
      [] d # <<>> /\ d[1] = IPv6 -> HostAt(d, 2, 16)
      [] d # <<>> /\ d[1] = DOMAINNAME ->
            LET domain_len == IF Len(d) > 1 THEN d[2] ELSE stray IN
            IF domain_len = 0 THEN Invalid ELSE HostAt(d, 3, domain_len)
      [] OTHER                 -> Invalid

\* TrojanRequest::parse
ParseRequest(d, stray) ==
    LET first == FirstCrLf(d)
        rest == From(d, first + 2)
        a == ParseAddress(From(rest, 2), stray)
    IN  IF \/ first = 0
           \/ rest = <<>> \/ rest[1] \notin {CONNECT, UDP_ASSOCIATE}
           \/ ~a.valid
           \/ Len(rest) < a.len + 3 \/ SubSeq(rest, a.len + 2, a.len + 3) # CRLF
        THEN Invalid
        ELSE [valid |-> TRUE, payload |-> From(rest, a.len + 4),
              request |-> [password |-> SubSeq(d, 1, first - 1), command |-> rest[1],
                           address |-> a.address]]

\* UDPPacket::parse
ParsePacket_Eager(d, stray) ==
    LET a == ParseAddress(d, stray) IN
    IF \/ ~a.valid \/ Len(d) < a.len + 4
       \/ SubSeq(d, a.len + 3, a.len + 4) # CRLF
    THEN Invalid
    ELSE LET end == Min({Len(d), a.len + 4 + Number(d, a.len + 1)}) IN
         [valid |-> TRUE, len |-> end,
          packet |-> [address |-> a.address,
                      payload |-> IF end = a.len + 4 THEN <<>>
                                  ELSE SubSeq(d, a.len + 5, end)]]

ParsePacket(d, stray) ==
    LET a == ParseAddress(d, stray) IN
    IF ~a.valid \/ Len(d) < a.len + 2 THEN Invalid
    ELSE LET length == Number(d, a.len + 1) IN
         IF \/ Len(d) < a.len + 4 + length
            \/ SubSeq(d, a.len + 3, a.len + 4) # CRLF
         THEN Invalid
         ELSE [valid |-> TRUE, len |-> a.len + 4 + length,
               packet |-> [address |-> a.address,
                           payload |-> SubSeq(d, a.len + 5, a.len + 4 + length)]]
-----------------------------------------------------------------------------
(* A session's stream in one direction *)

VARIABLES
    exchange,       \* "request", "udp", "tcp", "fallback"; "answer" is server to client
    request,        \* the request, and the one that was parsed
    sent, got,      \* packets given to generate, and returned by parse
    net,            \* bytes on the way
    buf             \* udp_data_buf, or the payload of a TCP request

wireVars == <<exchange, request, sent, got, net, buf>>

WireInit ==
    /\ exchange \in {"request", "answer"}
    /\ request \in [sent : TrojanRequests, got : {Invalid}]
    /\ exchange = "answer" => request.sent = CHOOSE r \in TrojanRequests : TRUE
    /\ sent = <<>> /\ got = <<>> /\ buf = <<>>
    /\ net = IF exchange = "request" THEN GenerateRequest(request.sent) ELSE <<>>

\* A datagram enters the tunnel.
Send(p) ==
    /\ Len(sent) < MaxPackets
    /\ exchange \in {"request", "udp"} => request.sent.command = UDP_ASSOCIATE
    /\ exchange \notin {"tcp", "fallback"}
    /\ exchange = "answer" => p.address.type # DOMAINNAME
    /\ sent' = Append(sent, p)
    /\ net' = net \o GeneratePacket(p, exchange = "answer")
    /\ UNCHANGED <<exchange, request, got, buf>>

\* The first read of the server, which may end anywhere: SessionGate parses it as a
\* request.
FirstRead(k, stray) ==
    /\ exchange = "request"
    /\ LET r == ParseRequest(SubSeq(net, 1, k), stray) IN
        /\ exchange' = IF ~r.valid THEN "fallback"
                       ELSE IF r.request.command = UDP_ASSOCIATE THEN "udp" ELSE "tcp"
        /\ request' = IF r.valid THEN [request EXCEPT !.got = r.request] ELSE request
        /\ buf' = IF r.valid THEN r.payload ELSE SubSeq(net, 1, k)
    /\ net' = From(net, k + 1)
    /\ UNCHANGED <<sent, got>>

\* A later read: the data is appended to udp_data_buf ...
Read(k) ==
    /\ exchange \in {"udp", "answer"}
    /\ buf' = buf \o SubSeq(net, 1, k)
    /\ net' = From(net, k + 1)
    /\ UNCHANGED <<exchange, request, sent, got>>

\* ... and packets are cut off its front.
CutPacket(stray) ==
    /\ exchange \in {"udp", "answer"}
    /\ LET r == ParsePacket(buf, stray) IN
        /\ r.valid
        /\ got' = Append(got, r.packet)
        /\ buf' = From(buf, r.len + 1)
    /\ UNCHANGED <<exchange, request, sent, net>>

WireNext ==
    \/ \E p \in Packets : Send(p)
    \/ \E k \in 1..Len(net), stray \in Strays : FirstRead(k, stray)
    \/ \E k \in 1..Len(net) : Read(k)
    \/ \E stray \in Strays : CutPacket(stray)

WireSpec == WireInit /\ [][WireNext]_wireVars
-----------------------------------------------------------------------------
\* What the other side is told: an unspecified endpoint becomes 0.0.0.0:0.
Told(p, answer) ==
    IF answer /\ Unspecified(p.address)
    THEN [p EXCEPT !.address = [type |-> IPv4, host |-> <<0, 0, 0, 0>>, port |-> 0]]
    ELSE p

\* The sequences in ss, one behind the other: FlattenSeq of SequencesExt, written here since
\* the Bags that module brings along slow every proof about this one.
FlattenSeq(ss) ==
    LET upTo[i \in 1..Len(ss)] == IF i = 1 THEN ss[i] ELSE upTo[i - 1] \o ss[i]
    IN  IF Len(ss) = 0 THEN ss ELSE upTo[Len(ss)]

\* However the stream is cut into reads, parse returns the packets that were given to
\* generate, in their order, and the bytes not parsed yet are those of the other packets.
\* None is held back: when parse wants more data and the stream is empty, every packet
\* has been returned.
PacketsExact ==
    exchange \in {"udp", "answer"} =>
        /\ Len(got) <= Len(sent)
        /\ got = [i \in 1..Len(got) |-> Told(sent[i], exchange = "answer")]
        /\ buf \o net = FlattenSeq([i \in 1..Len(sent) - Len(got) |->
                            GeneratePacket(sent[Len(got) + i], exchange = "answer")])
        /\ net = <<>> /\ (\A stray \in Strays : ~ParsePacket(buf, stray).valid)
              => Len(got) = Len(sent)

\* A request is accepted only whole, and with the password, command and target it was
\* generated from; a first read that cuts it goes to the fallback with all its bytes.
RequestExact ==
    /\ exchange \in {"udp", "tcp"} => request.got = request.sent
    /\ exchange = "tcp" => buf \o net = <<>>
    /\ exchange = "fallback" => Len(buf) < Len(GenerateRequest(request.sent))

\* However the stream is cut into reads, UDPPacket::parse returns exactly the packets that
\* were generated and holds none back, and TrojanRequest::parse accepts a request only whole
\* and as it was generated.
ParsersExact == PacketsExact /\ RequestExact
=============================================================================
