------------------------- MODULE ServerSessionProofs --------------------------
(* What ServerSession promises, for every length of the two streams, every way  *)
(* of framing packets, every read size and every limit.                         *)
EXTENDS ServerSession, WellFoundedInduction, TLAPS

-------------------------------------------------------------------------------
(* Sequences.  The provers know these facts as soon as they are stated. *)

\* Sequences with the same elements are equal.
LEMMA SeqEqual ==
  ASSUME NEW S, NEW f \in Seq(S), NEW h \in Seq(S), Len(f) = Len(h), \A i \in 1..Len(f) : f[i] = h[i]
  PROVE  f = h
  OBVIOUS

\* What one sequence behind another is.
LEMMA ConcatProperties ==
  ASSUME NEW S, NEW f \in Seq(S), NEW h \in Seq(S)
  PROVE  /\ f \o h \in Seq(S) /\ Len(f \o h) = Len(f) + Len(h)
         /\ \A i \in 1..Len(f) + Len(h) : (f \o h)[i] = IF i <= Len(f) THEN f[i] ELSE h[i - Len(f)]
  OBVIOUS

\* The empty sequence adds nothing.
LEMMA ConcatEmptySeq ==
  ASSUME NEW S, NEW f \in Seq(S) PROVE f \o <<>> = f /\ <<>> \o f = f
  OBVIOUS

-------------------------------------------------------------------------------
Statuses == {"HANDSHAKE", "FORWARD", "UDP_FORWARD", "DESTROY"}

-------------------------------------------------------------------------------
(* The chains of operations.  A session is driven by two chains: the upward one *)
(* from the handshake to the reads from the client and the writes to the        *)
(* target, and the downward one back.  Each handler ends one operation of a     *)
(* chain and starts the next.                                                   *)

OpeningOps == {"handshake", "plain_write", "resolve", "connect"}
UpOps == OpeningOps \cup {"in_read", "out_write", "udp_resolve", "udp_write"}
DownOps == {"out_read", "in_write", "udp_read"}
EndOps == {"shutdown", "timer"}

Running == {op \in Ops : pending[op] > 0}

\* The inductive invariant of the chains: neither ever forks, the downward one starts when
\* the target is connected or the UDP socket is opened, and what destroy() finds in flight
\* is at most one operation besides the one whose handler calls it.
ChainInv ==
    /\ status \in Statuses /\ pending \in [Ops -> {0, 1}]
    /\ \A a, b \in Running \cap UpOps : a = b
    /\ \A a, b \in Running \cap DownOps : a = b
    /\ status # "DESTROY" => Running \cap UpOps # {} /\ Running \cap EndOps = {}
    /\ Running \cap OpeningOps # {} => status = "HANDSHAKE"
    /\ status = "HANDSHAKE" => Running \cap DownOps = {}
    /\ Running \cap {"out_write", "out_read"} # {} => status \in {"FORWARD", "DESTROY"}
    /\ Running \cap {"udp_resolve", "udp_write", "udp_read"} # {}
          => status \in {"UDP_FORWARD", "DESTROY"}
    /\ "udp_resolve" \in Running /\ ~udp_open => Running \cap DownOps = {}
    /\ status = "UDP_FORWARD" /\ ~udp_open => Running \cap DownOps = {}
    /\ status = "DESTROY" /\ "udp_resolve" \in Running => ~udp_open

\* What a handler does to the operations in flight.
LEMMA HandledRuns ==
  ASSUME pending \in [Ops -> {0, 1}], NEW done \in Running, NEW started \in SUBSET Ops,
         started \cap Running \subseteq {done}, Handled(done, started)
  PROVE  /\ pending' \in [Ops -> {0, 1}]
         /\ Running' = (Running \ {done}) \cup started
  BY DEF Handled, Running

\* start() begins the upward chain alone.
LEMMA ChainInitially == Init => ChainInv
<1> SUFFICES ASSUME Init PROVE ChainInv
  BY Zenon
<1>1. PICK first \in {"in_read", "handshake"} :
          pending = [op \in Ops |-> IF op = first THEN 1 ELSE 0]
  BY Zenon DEF Init
<1>2. pending \in [Ops -> {0, 1}] /\ Running = {first}
  BY <1>1 DEF Running, Ops
<1>3. status = "HANDSHAKE"
  BY Zenon DEF Init
<1> QED
  BY <1>2, <1>3, Zenon DEF ChainInv, Statuses, UpOps, DownOps, EndOps, OpeningOps

\* destroy() ends the chain of the operation whose handler calls it.
LEMMA DestroyChain ==
  ASSUME ChainInv, NEW done \in Running \ EndOps, DestroyFrom(done)
  PROVE  ChainInv'
<1>0. pending \in [Ops -> {0, 1}] /\ done \in UpOps \cup DownOps
  BY Zenon DEF ChainInv, Running, Ops, EndOps, UpOps, DownOps, OpeningOps
<1>1. CASE status = "DESTROY"
  <2>1. Handled(done, {}) /\ status' = status /\ udp_open' = udp_open
    BY <1>1, Zenon DEF DestroyFrom, sockets
  <2>2. pending' \in [Ops -> {0, 1}] /\ Running' = Running \ {done}
    BY <1>0, <2>1, HandledRuns
  <2> QED
    BY <1>1, <2>1, <2>2, Zenon DEF ChainInv
<1>2. CASE status # "DESTROY"
  <2>1. Handled(done, ShutdownOps) /\ status' = "DESTROY" /\ ~udp_open'
    BY <1>2, Zenon DEF DestroyFrom
  <2>2. ShutdownOps \in SUBSET EndOps /\ ShutdownOps \in SUBSET Ops
    BY Zenon DEF ShutdownOps, EndOps, Ops
  <2>3. pending' \in [Ops -> {0, 1}] /\ Running' = (Running \ {done}) \cup ShutdownOps
    BY <1>0, <1>2, <2>1, <2>2, HandledRuns, Zenon DEF ChainInv
  <2> QED
    BY <1>0, <1>2, <2>1, <2>2, <2>3 DEF ChainInv, UpOps, DownOps, OpeningOps, EndOps, Statuses
<1> QED
  BY <1>1, <1>2, Zenon

\* A chain that is not to fork has nothing else in flight than what its handler ends.
LEMMA UpMoves ==
  ASSUME ChainInv, NEW done \in UpOps, pending[done] > 0,
         NEW started \in SUBSET (UpOps \cup DownOps), started \cap DownOps \cap Running = {},
         Handled(done, started)
  PROVE  /\ pending' \in [Ops -> {0, 1}]
         /\ Running' = (Running \ UpOps) \cup started
<1>1. pending \in [Ops -> {0, 1}] /\ done \in Running
  BY Zenon DEF ChainInv, Running, Ops, UpOps, OpeningOps
<1>2. Running \cap UpOps = {done}
  BY <1>1, Zenon DEF ChainInv
<1>3. started \in SUBSET Ops /\ started \cap Running \subseteq {done}
  BY <1>2, Zenon DEF Ops, UpOps, DownOps, OpeningOps
<1>4. pending' \in [Ops -> {0, 1}] /\ Running' = (Running \ {done}) \cup started
  BY <1>1, <1>3, HandledRuns, Zenon
<1> QED
  BY <1>2, <1>4, Zenon

\* A handler of the downward chain leaves the upward one alone.
LEMMA DownMoves ==
  ASSUME ChainInv, NEW done \in DownOps, pending[done] > 0, NEW started \in SUBSET DownOps,
         Handled(done, started)
  PROVE  /\ pending' \in [Ops -> {0, 1}]
         /\ Running' = (Running \ DownOps) \cup started
<1>1. pending \in [Ops -> {0, 1}] /\ done \in Running
  BY Zenon DEF ChainInv, Running, Ops, DownOps
<1>2. Running \cap DownOps = {done}
  BY <1>1, Zenon DEF ChainInv
<1>3. started \in SUBSET Ops /\ started \cap Running \subseteq {done}
  BY <1>2, Zenon DEF Ops, DownOps
<1>4. pending' \in [Ops -> {0, 1}] /\ Running' = (Running \ {done}) \cup started
  BY <1>1, <1>3, HandledRuns, Zenon
<1> QED
  BY <1>2, <1>4, Zenon

\* The UDP packets of the stream, one by one: the chain goes on to a lookup or a read, or
\* ends.
LEMMA DispatchChain ==
  ASSUME ChainInv, NEW done \in {"in_read", "udp_write"}, pending[done] > 0, NEW buf,
         DispatchNext(done, buf), status \in {"HANDSHAKE", "UDP_FORWARD"}
  PROVE  ChainInv'
<1>0. done \in UpOps /\ done \in Running \ EndOps
  BY Zenon DEF UpOps, Running, Ops, EndOps
<1>1. CASE DestroyFrom(done)
  BY <1>0, <1>1, DestroyChain, Zenon
<1>2. ASSUME NEW next \in {"udp_resolve", "in_read"}, Handled(done, {next}),
             status' = "UDP_FORWARD", udp_open' = udp_open
      PROVE  ChainInv'
  <2>1. {next} \in SUBSET (UpOps \cup DownOps) /\ {next} \cap DownOps = {}
    BY Zenon DEF UpOps, DownOps
  <2>2. pending' \in [Ops -> {0, 1}] /\ Running' = (Running \ UpOps) \cup {next}
    BY <1>0, <1>2, <2>1, UpMoves, Zenon
  <2> QED
    BY <1>2, <2>2, Zenon DEF ChainInv, UpOps, DownOps, OpeningOps, EndOps, Statuses
<1> QED
  BY <1>1, <1>2, Zenon DEF DispatchNext, sockets

\* Every handler keeps the chains.
LEMMA ChainStep == ChainInv /\ [Next /\ UNCHANGED setup]_<<setup, vars>> => ChainInv'
<1> SUFFICES ASSUME ChainInv, [Next /\ UNCHANGED setup]_<<setup, vars>> PROVE ChainInv'
  BY Zenon
<1> USE DEF sockets
<1>go. ASSUME NEW done \in UpOps, pending[done] > 0, NEW next \in UpOps, Handled(done, {next}),
              status' = status, udp_open' = udp_open,
              next \in OpeningOps => status = "HANDSHAKE",
              next = "out_write" => status = "FORWARD",
              next # "udp_resolve" /\ next # "udp_write"
       PROVE  ChainInv'
  <2>1. {next} \in SUBSET (UpOps \cup DownOps) /\ {next} \cap DownOps = {}
    BY Zenon DEF UpOps, DownOps, OpeningOps
  <2>2. pending' \in [Ops -> {0, 1}] /\ Running' = (Running \ UpOps) \cup {next}
    BY <1>go, <2>1, UpMoves, Zenon
  <2> QED
    BY <1>go, <2>2 DEF ChainInv, UpOps, DownOps, OpeningOps, EndOps, Statuses
<1>end. ASSUME NEW done \in UpOps \cup DownOps, pending[done] > 0, Handled(done, {}),
               status = "DESTROY", status' = status, udp_open' = udp_open
        PROVE  ChainInv'
  <2>1. done \in Running
    BY <1>end, Zenon DEF Running, Ops, UpOps, DownOps, OpeningOps
  <2>2. pending' \in [Ops -> {0, 1}] /\ Running' = Running \ {done}
    BY <1>end, <2>1, HandledRuns DEF ChainInv
  <2> QED
    BY <1>end, <2>2, Zenon DEF ChainInv
<1>down. ASSUME NEW done \in DownOps, pending[done] > 0, NEW next \in DownOps,
                Handled(done, {next}), status' = status, udp_open' = udp_open,
                next = "out_read" => status = "FORWARD",
                next = "udp_read" => status = "UDP_FORWARD",
                status # "DESTROY"
         PROVE  ChainInv'
  <2>1. {next} \in SUBSET DownOps /\ done \in Running
    BY <1>down, Zenon DEF Running, Ops, DownOps
  <2>2. pending' \in [Ops -> {0, 1}] /\ Running' = (Running \ DownOps) \cup {next}
    BY <1>down, <2>1, DownMoves, Zenon
  <2> QED
    BY <1>down, <2>1, <2>2, Zenon DEF ChainInv, UpOps, DownOps, OpeningOps, EndOps, Statuses
<1>dies. ASSUME NEW done \in UpOps \cup DownOps, pending[done] > 0, DestroyFrom(done)
         PROVE  ChainInv'
  <2>1. done \in Running \ EndOps
    BY <1>dies, Zenon DEF Running, Ops, UpOps, DownOps, OpeningOps, EndOps
  <2> QED
    BY <1>dies, <2>1, DestroyChain, Zenon
<1>1. CASE HandshakeDone
  <2>1. "handshake" \in Running /\ "handshake" \in UpOps /\ "in_read" \in UpOps
    BY <1>1, Zenon DEF HandshakeDone, Running, Ops, UpOps, OpeningOps
  <2> QED
    BY <1>1, <1>go, <2>1, Zenon DEF HandshakeDone, OpeningOps
<1>2. CASE PlainHttpRequest
  <2>1. "handshake" \in Running /\ "handshake" \in UpOps /\ "plain_write" \in UpOps
    BY <1>2, Zenon DEF PlainHttpRequest, Running, Ops, UpOps, OpeningOps
  <2>2. status = "HANDSHAKE"
    BY <2>1, Zenon DEF ChainInv, OpeningOps
  <2> QED
    BY <1>2, <1>go, <2>1, <2>2, Zenon DEF PlainHttpRequest
<1>3. CASE PlainResponseDone
  BY <1>3, <1>dies, Zenon DEF PlainResponseDone, UpOps, OpeningOps
<1>4. ASSUME NEW n \in Reads, FrontFrameIncomplete(n) PROVE ChainInv'
  BY <1>4, Zenon DEF FrontFrameIncomplete, ChainInv, Running
<1>5. ASSUME NEW n \in Reads, FrontPayloadMissing(n) PROVE ChainInv'
  BY <1>5, <1>dies, Zenon DEF FrontPayloadMissing, UpOps
<1>6. ASSUME NEW m \in 0..ReadMax, ConnectRequest(m) PROVE ChainInv'
  BY <1>6, <1>go, Zenon DEF ConnectRequest, FirstPayload, UpOps, OpeningOps
<1>7. ASSUME NEW m \in 0..ReadMax, AssociateRequest(m) PROVE ChainInv'
  BY <1>7, DispatchChain, Zenon DEF AssociateRequest, FirstPayload
<1>8. CASE ResolveDone
  <2>1. "resolve" \in Running /\ "resolve" \in UpOps /\ "connect" \in UpOps
    BY <1>8, Zenon DEF ResolveDone, Running, Ops, UpOps, OpeningOps
  <2>2. status = "HANDSHAKE"
    BY <2>1, Zenon DEF ChainInv, OpeningOps
  <2> QED
    BY <1>8, <1>go, <2>1, <2>2, Zenon DEF ResolveDone
<1>9. CASE ConnectDone
  <2>1. "connect" \in Running /\ "connect" \in UpOps
    BY <1>9, Zenon DEF ConnectDone, Running, Ops, UpOps, OpeningOps
  <2>2. status = "HANDSHAKE" /\ Running \cap DownOps = {}
    BY <2>1, Zenon DEF ChainInv, OpeningOps
  <2>3. PICK next \in {"out_write", "in_read"} : Handled("connect", {"out_read", next})
    BY <1>9, Zenon DEF ConnectDone
  <2>4. {"out_read", next} \in SUBSET (UpOps \cup DownOps)
    BY Zenon DEF UpOps, DownOps
  <2>5. /\ pending' \in [Ops -> {0, 1}]
        /\ Running' = (Running \ UpOps) \cup {"out_read", next}
    BY <1>9, <2>1, <2>2, <2>3, <2>4, UpMoves, Zenon DEF ConnectDone
  <2>6. status' = "FORWARD"
    BY <1>9, Zenon DEF ConnectDone
  <2> QED
    BY <2>2, <2>5, <2>6, Zenon DEF ChainInv, UpOps, DownOps, OpeningOps, EndOps, Statuses
<1>10. ASSUME NEW n \in Reads, InReadForward(n) PROVE ChainInv'
  BY <1>10, <1>go, Zenon DEF InReadForward, UpOps, OpeningOps
<1>11. ASSUME NEW n \in Reads, OutRead(n) PROVE ChainInv'
  <2>1. "out_read" \in Running /\ "out_read" \in DownOps /\ "in_write" \in DownOps
    BY <1>11, Zenon DEF OutRead, Running, Ops, DownOps
  <2>2. status \in {"FORWARD", "DESTROY"}
    BY <2>1, Zenon DEF ChainInv
  <2> QED
    BY <1>11, <1>down, <1>end, <2>1, <2>2, Zenon DEF OutRead
<1>12. ASSUME NEW n \in Reads, InReadUdp(n) PROVE ChainInv'
  BY <1>12, DispatchChain, Zenon DEF InReadUdp
<1>13. CASE OutWriteDone
  <2>1. "out_write" \in Running /\ "out_write" \in UpOps /\ "in_read" \in UpOps
    BY <1>13, Zenon DEF OutWriteDone, Running, Ops, UpOps
  <2>2. status \in {"FORWARD", "DESTROY"}
    BY <2>1, Zenon DEF ChainInv
  <2> QED
    BY <1>13, <1>go, <1>end, <2>1, <2>2, Zenon DEF OutWriteDone, OpeningOps
<1>14. CASE InWriteDone
  <2>1. /\ "in_write" \in Running /\ "in_write" \in DownOps
        /\ "out_read" \in DownOps /\ "udp_read" \in DownOps
    BY <1>14, Zenon DEF InWriteDone, Running, Ops, DownOps
  <2>2. status \in {"FORWARD", "UDP_FORWARD", "DESTROY"}
    BY <2>1, Zenon DEF ChainInv, Statuses
  <2> QED
    BY <1>14, <1>down, <1>end, <2>1, <2>2, Zenon DEF InWriteDone
<1>15. CASE InReadLate
  BY <1>15, <1>end, Zenon DEF InReadLate, UpOps
<1>16. CASE UdpResolveDone
  <2>1. "udp_resolve" \in Running /\ "udp_resolve" \in UpOps
    BY <1>16, Zenon DEF UdpResolveDone, Running, Ops, UpOps
  <2>2. status \in {"UDP_FORWARD", "DESTROY"}
    BY <2>1, Zenon DEF ChainInv
  <2>3. PICK started \in {{"udp_write"}, {"udp_read", "udp_write"}} :
            /\ Handled("udp_resolve", started)
            /\ udp_open => started = {"udp_write"}
    BY <1>16, Zenon DEF UdpResolveDone
  <2>4. started \in SUBSET (UpOps \cup DownOps)
    BY Zenon DEF UpOps, DownOps
  <2>5. started \cap DownOps \cap Running = {}
    BY <2>1, <2>3, Zenon DEF ChainInv, DownOps
  <2>6. pending' \in [Ops -> {0, 1}] /\ Running' = (Running \ UpOps) \cup started
    BY <1>16, <2>1, <2>3, <2>4, <2>5, UpMoves, Zenon DEF UdpResolveDone
  <2>7. status' = status /\ udp_open'
    BY <1>16, Zenon DEF UdpResolveDone
  <2>8. \A a, b \in Running' \cap DownOps : a = b
    BY <2>1, <2>3, <2>6, Zenon DEF ChainInv, UpOps, DownOps
  <2> QED
    BY <2>2, <2>3, <2>6, <2>7, <2>8, Zenon DEF ChainInv, UpOps, DownOps, OpeningOps, EndOps, Statuses
<1>17. CASE UdpOpenFails
  BY <1>17, <1>dies, Zenon DEF UdpOpenFails, UpOps
<1>18. CASE UdpWriteDone
  <2>1. "udp_write" \in Running /\ "udp_write" \in UpOps
    BY <1>18, Zenon DEF UdpWriteDone, Running, Ops, UpOps
  <2>2. status \in {"UDP_FORWARD", "DESTROY"}
    BY <2>1, Zenon DEF ChainInv
  <2> QED
    BY <1>18, <1>end, <2>1, <2>2, DispatchChain, Zenon DEF UdpWriteDone
<1>19. CASE UdpRead
  <2>1. "udp_read" \in Running /\ "udp_read" \in DownOps /\ "in_write" \in DownOps
    BY <1>19, Zenon DEF UdpRead, Running, Ops, DownOps
  <2>2. status \in {"UDP_FORWARD", "DESTROY"}
    BY <2>1, Zenon DEF ChainInv
  <2> QED
    BY <1>19, <1>down, <1>end, <2>1, <2>2, Zenon DEF UdpRead
<1>20. ASSUME NEW op \in Ops, OperationFails(op) PROVE ChainInv'
  <2>1. op \in UpOps \cup DownOps
    BY <1>20, Zenon DEF OperationFails, Ops, UpOps, DownOps, OpeningOps
  <2> QED
    BY <1>20, <1>dies, <2>1, Zenon DEF OperationFails
<1>21. ASSUME NEW op \in Ops, ShutdownEnds(op) \/ ShutdownEndsAgain(op) PROVE ChainInv'
  <2>1. op \in Running /\ op \in EndOps
    BY <1>21, Zenon DEF ShutdownEnds, ShutdownEndsAgain, Running, EndOps
  <2>2. Handled(op, {}) /\ status' = status /\ udp_open' = udp_open
    BY <1>21, Zenon DEF ShutdownEnds, ShutdownEndsAgain
  <2>3. pending' \in [Ops -> {0, 1}] /\ Running' = Running \ {op}
    BY <2>1, <2>2, HandledRuns, Zenon DEF ChainInv
  <2> QED
    BY <2>1, <2>2, <2>3, Zenon DEF ChainInv
<1>22. CASE UNCHANGED vars
  BY <1>22, Zenon DEF vars, ChainInv, Running
<1> QED
  BY <1>1, <1>2, <1>3, <1>4, <1>5, <1>6, <1>7, <1>8, <1>9, <1>10, <1>11, <1>12, <1>13, <1>14,
     <1>15, <1>16, <1>17, <1>18, <1>19, <1>20, <1>21, <1>22, Zenon DEF Next

\* ChainInv is an invariant.
LEMMA ChainHolds == Spec => []ChainInv
  BY ChainInitially, ChainStep, PTL DEF Spec

\* No operation is started while one of its kind is in flight, however the completions of the
\* two directions and of destroy() cross.
THEOREM SingleOperationCorrect == Spec => []SingleOperation
<1>1. ChainInv => SingleOperation
  BY DEF ChainInv, SingleOperation
<1> QED
  BY <1>1, ChainHolds, PTL

\* After destroy() no handler sets another status, and none starts an operation but the send
\* of a packet whose lookup was under way and the read that goes with it.
LEMMA DestroyedStep ==
  ASSUME ChainInv, [Next /\ UNCHANGED setup]_<<setup, vars>>, status = "DESTROY"
  PROVE  /\ status' = "DESTROY"
         /\ \A op \in Ops \ {"udp_read", "udp_write"} : pending'[op] <= pending[op]
<1> DEFINE Good ==
        /\ status' = "DESTROY"
        /\ \A op \in Ops \ {"udp_read", "udp_write"} : pending'[op] <= pending[op]
<1> USE DEF sockets
<1>end. ASSUME NEW done \in Ops, NEW started \in SUBSET {"udp_read", "udp_write"},
               Handled(done, started), status' = status
        PROVE  Good
  <2>1. ASSUME NEW op \in Ops \ {"udp_read", "udp_write"} PROVE pending'[op] <= pending[op]
    <3>1. pending[op] \in {0, 1}
      BY Zenon DEF ChainInv
    <3>2. pending'[op] = pending[op] - (IF op = done THEN 1 ELSE 0)
                                     + (IF op \in started THEN 1 ELSE 0)
      BY <1>end, Zenon DEF Handled
    <3>3. op \notin started
      BY <1>end, Zenon
    <3> QED
      BY <3>1, <3>2, <3>3
  <2> QED
    BY <1>end, <2>1, Zenon
<1>dies. ASSUME NEW done \in Ops, DestroyFrom(done) PROVE Good
  BY <1>dies, <1>end, Zenon DEF DestroyFrom
<1>no. /\ Running \cap OpeningOps = {}
       /\ \A op \in Ops : pending[op] > 0 => op \in Running
  BY Zenon DEF ChainInv, Running
<1>1. CASE HandshakeDone \/ PlainHttpRequest \/ PlainResponseDone \/ ResolveDone \/ ConnectDone
  BY <1>1, <1>no, Zenon DEF HandshakeDone, PlainHttpRequest, PlainResponseDone, ResolveDone, ConnectDone,
                     OpeningOps, Ops
<1>2. ASSUME NEW n \in Reads, FrontFrameIncomplete(n) \/ FrontPayloadMissing(n) PROVE Good
  BY <1>2, Zenon DEF FrontFrameIncomplete, FrontPayloadMissing
<1>3. ASSUME NEW m \in 0..ReadMax, ConnectRequest(m) \/ AssociateRequest(m) PROVE Good
  BY <1>3, Zenon DEF ConnectRequest, AssociateRequest, FirstPayload
<1>4. ASSUME NEW n \in Reads, InReadForward(n) \/ InReadUdp(n) PROVE Good
  BY <1>4, Zenon DEF InReadForward, InReadUdp
<1>5. ASSUME NEW n \in Reads, OutRead(n) PROVE Good
  BY <1>5, <1>end, Zenon DEF OutRead, Ops
<1>6. CASE OutWriteDone
  BY <1>6, <1>end, Zenon DEF OutWriteDone, Ops
<1>7. CASE InWriteDone
  BY <1>7, <1>end, Zenon DEF InWriteDone, Ops
<1>8. CASE InReadLate
  BY <1>8, <1>end, Zenon DEF InReadLate, Ops
<1>9. CASE UdpResolveDone
  BY <1>9, <1>end, Zenon DEF UdpResolveDone, Ops
<1>10. CASE UdpOpenFails
  BY <1>10, <1>dies, Zenon DEF UdpOpenFails, Ops
<1>11. CASE UdpWriteDone
  BY <1>11, <1>end, Zenon DEF UdpWriteDone, Ops
<1>12. CASE UdpRead
  BY <1>12, <1>end, Zenon DEF UdpRead, Ops
<1>13. ASSUME NEW op \in Ops, OperationFails(op) PROVE Good
  BY <1>13, <1>dies, Zenon DEF OperationFails
<1>14. ASSUME NEW op \in Ops, ShutdownEnds(op) \/ ShutdownEndsAgain(op) PROVE Good
  BY <1>14, <1>end, Zenon DEF ShutdownEnds, ShutdownEndsAgain
<1>15. CASE UNCHANGED vars
  <2>1. \A op \in Ops : pending[op] \in {0, 1}
    BY Zenon DEF ChainInv
  <2>2. pending' = pending /\ status' = status
    BY <1>15, Zenon DEF vars
  <2> QED
    BY <2>1, <2>2
<1> QED
  BY <1>1, <1>2, <1>3, <1>4, <1>5, <1>6, <1>7, <1>8, <1>9, <1>10, <1>11, <1>12, <1>13, <1>14,
     <1>15, Zenon DEF Next

\* destroy() is final: status stays DESTROY, and of all operations only the one late UDP
\* packet's are started after it.
THEOREM DestroyFinalCorrect == Spec => DestroyIsFinal
<1>1. ChainInv /\ [Next /\ UNCHANGED setup]_<<setup, vars>> =>
        [status = "DESTROY" =>
            /\ status' = "DESTROY"
            /\ \A op \in Ops \ {"udp_read", "udp_write"} : pending'[op] <= pending[op]]_vars
  BY DestroyedStep, Zenon
<1> QED
  BY <1>1, ChainHolds, PTL DEF Spec, DestroyIsFinal
-------------------------------------------------------------------------------
(* The streams. *)

\* Cells read from the client that the target has not got yet.
Waiting == in_next - 1 - sent_len

StreamTypes ==
    /\ in_next \in 1..ClientCells + 1 /\ out_next \in Nat \ {0}
    /\ recv_len \in Nat /\ sent_len \in Nat
    /\ target_got \in Seq(Int) /\ client_got \in Seq(Int)
    /\ out_write_buf \in Seq(Int) /\ out_write_data \in Seq(Int) /\ in_write_data \in Seq(Int)
    /\ udp_request \in Seq(Int) /\ udp_data_buf \in Seq(Int)
    /\ sent_len = Len(target_got)

\* Where the cells are: the buffer of the operation in flight holds those that wait, in a UDP
\* session a packet ahead of the rest of the stream.
UpFlow ==
    /\ Waiting \in Nat /\ target_got = Cells(1, sent_len)
    /\ Running \cap {"resolve", "connect"} # {} => out_write_buf = Cells(sent_len + 1, Waiting)
    /\ "out_write" \in Running => out_write_data = Cells(sent_len + 1, Waiting)
    /\ Running \cap {"udp_resolve", "udp_write"} # {} =>
          /\ Len(udp_request) <= Waiting
          /\ udp_request = Cells(sent_len + 1, Len(udp_request))
          /\ udp_data_buf = Cells(sent_len + 1 + Len(udp_request), Waiting - Len(udp_request))
    /\ status = "UDP_FORWARD" /\ "in_read" \in Running =>
          udp_data_buf = Cells(sent_len + 1, Waiting)
    /\ status # "UDP_FORWARD" =>
          /\ udp_data_buf = <<>>
          /\ Running \cap {"handshake", "plain_write", "in_read"} # {} => Waiting = 0

DownFlow ==
    /\ client_got = Cells(1, Len(client_got))
    /\ "in_write" \in Running =>
          /\ out_next - 1 - Len(client_got) \in Nat
          /\ in_write_data = Cells(Len(client_got) + 1, out_next - 1 - Len(client_got))
    /\ "in_write" \notin Running => Len(client_got) = out_next - 1

FlowInv == StreamTypes /\ (status # "DESTROY" => UpFlow /\ DownFlow)

\* The UDP buffer: it begins behind a packet, and a read is awaited only while it is short.
LimitInv ==
    /\ packet_ends \in Framings
    /\ status = "HANDSHAKE" => sent_len = 0
    /\ Len(udp_data_buf) <= MaxLength + ReadMax
    /\ status = "UDP_FORWARD" =>
          /\ "in_read" \in Running => Len(udp_data_buf) <= MaxLength
          /\ in_next - 1 - Len(udp_data_buf) \in {0} \cup packet_ends
    /\ WellFramed => ~too_long

UsageInv ==
    /\ recorded \in Nat \X Nat
    /\ status = "DESTROY" =>
          /\ recorded[1] = recv_len
          /\ sent_len - recorded[2] \in {0, Len(out_write_data), Len(udp_request)}
          /\ Running \cap {"out_write", "udp_write", "udp_resolve"} # {} =>
                sent_len = recorded[2]

-------------------------------------------------------------------------------
(* Sequences of cells. *)

\* A run of n cells from a.
LEMMA CellsType ==
  ASSUME NEW a \in Int, NEW n \in Nat
  PROVE  /\ Cells(a, n) \in Seq(Int) /\ Len(Cells(a, n)) = n
         /\ \A i \in 1..n : Cells(a, n)[i] = a + i - 1
  BY DEF Cells

\* A run of no cells.
LEMMA CellsEmpty == ASSUME NEW a PROVE Cells(a, 0) = <<>>
  BY DEF Cells

\* Two runs that meet are one run.
LEMMA CellsJoin ==
  ASSUME NEW a \in Int, NEW n \in Nat, NEW m \in Nat
  PROVE  Cells(a, n) \o Cells(a + n, m) = Cells(a, n + m)
<1> DEFINE s == Cells(a, n)
           t == Cells(a + n, m)
           u == Cells(a, n + m)
           c == s \o t
<1>1. s \in Seq(Int) /\ Len(s) = n /\ \A i \in 1..n : s[i] = a + i - 1
  BY CellsType, Zenon
<1>2. t \in Seq(Int) /\ Len(t) = m /\ \A i \in 1..m : t[i] = a + n + i - 1
  BY CellsType
<1>3. u \in Seq(Int) /\ Len(u) = n + m /\ \A i \in 1..n + m : u[i] = a + i - 1
  BY CellsType
<1> HIDE DEF s, t, u
<1>4. /\ c \in Seq(Int) /\ Len(c) = n + m
      /\ \A i \in 1..n + m : c[i] = IF i <= n THEN s[i] ELSE t[i - n]
  BY <1>1, <1>2, ConcatProperties, Zenon
<1> HIDE DEF c
<1>5. ASSUME NEW i \in 1..n + m PROVE c[i] = u[i]
  <2>1. i \in Int /\ n \in Int /\ u[i] = a + i - 1
    BY <1>3
  <2>2. CASE i <= n
    <3>1. i \in 1..n
      BY <2>2
    <3>2. c[i] = s[i] /\ s[i] = a + i - 1
      BY <1>1, <1>4, <2>2, <3>1, Zenon
    <3> QED
      BY <2>1, <3>2, Zenon
  <2>3. CASE ~(i <= n)
    <3>1. i - n \in 1..m
      BY <2>3
    <3>2. c[i] = t[i - n] /\ t[i - n] = a + n + (i - n) - 1
      BY <1>2, <1>4, <2>3, <3>1, Zenon
    <3> QED
      BY <2>1, <3>2
  <2> QED
    BY <2>2, <2>3, Zenon
<1>6. c = u
  BY <1>3, <1>4, <1>5, SeqEqual, Zenon
<1> QED
  BY <1>6, Zenon DEF c, s, t, u

\* The cells from the first on, with those that follow.
LEMMA CellsGrow ==
  ASSUME NEW n \in Nat, NEW m \in Nat
  PROVE  Cells(1, n) \o Cells(n + 1, m) = Cells(1, n + m)
<1>1. \A a \in Int : Cells(a, n) \o Cells(a + n, m) = Cells(a, n + m)
  BY CellsJoin, Zenon
<1>2. 1 \in Int /\ 1 + n = n + 1
  OBVIOUS
<1>3. Cells(1, n) \o Cells(1 + n, m) = Cells(1, n + m)
  BY <1>1, <1>2, Zenon
<1> QED
  BY <1>2, <1>3, Zenon

\* A run cut in two.
LEMMA CellsCut ==
  ASSUME NEW a \in Int, NEW n \in Nat, NEW k \in 0..n
  PROVE  /\ SubSeq(Cells(a, n), 1, k) = Cells(a, k)
         /\ SubSeq(Cells(a, n), k + 1, n) = Cells(a + k, n - k)
  BY DEF Cells

\* A set of naturals has a least element.
LEMMA Least ==
  ASSUME NEW T \in SUBSET Nat, T # {}
  PROVE  \E x \in T : \A y \in T : x <= y
<1> DEFINE R == {ss \in Nat \X Nat : ss[1] < ss[2]}
<1>1. IsWellFoundedOn(R, Nat)
  BY NatLessThanWellFounded, Zenon DEF OpToRel
<1>2. PICK x \in T : \A y \in T : ~(<<y, x>> \in R)
  BY <1>1, WFMin, Zenon
<1>3. ASSUME NEW y \in T PROVE x <= y
  <2>1. x \in Nat /\ y \in Nat /\ ~(<<y, x>> \in R)
    BY <1>2, Zenon
  <2>2. ~(y < x)
    BY <2>1, Zenon
  <2> QED
    BY <2>1, <2>2
<1> QED
  BY <1>3, Zenon

\* FirstPacketLen is the length of the first packet of a buffer that holds one.
LEMMA FirstPacket ==
  ASSUME NEW buf \in Seq(Int), Complete(buf)
  PROVE  /\ FirstPacketLen(buf) \in 1..Len(buf)
         /\ buf[FirstPacketLen(buf)] \in packet_ends
<1> DEFINE T == {i \in 1..Len(buf) : buf[i] \in packet_ends}
<1>1. T \in SUBSET Nat /\ T # {}
  BY DEF Complete
<1>2. PICK i \in T : \A j \in T : i <= j
  BY <1>1, Least, Zenon
<1>3. i \in DOMAIN buf /\ buf[i] \in packet_ends /\ \A j \in 1..(i - 1) : buf[j] \notin packet_ends
  BY <1>2
<1> QED
  BY <1>3, SMTT(30) DEF FirstPacketLen

-------------------------------------------------------------------------------
(* What is in flight after the step of a chain. *)

\* A handler of the upward chain hands on to one operation of it.
LEMMA UpGoes ==
  ASSUME ChainInv, NEW done \in UpOps, pending[done] > 0, NEW next \in UpOps,
         Handled(done, {next})
  PROVE  /\ Running \cap UpOps = {done} /\ Running' \cap UpOps = {next}
         /\ Running' \cap DownOps = Running \cap DownOps
<1>1. {next} \in SUBSET (UpOps \cup DownOps) /\ {next} \cap DownOps = {}
  BY Zenon DEF UpOps, DownOps, OpeningOps
<1>2. Running' = (Running \ UpOps) \cup {next}
  BY <1>1, UpMoves, Zenon
<1>3. done \in Running
  BY Zenon DEF Running, Ops, UpOps, OpeningOps
<1> QED
  BY <1>1, <1>2, <1>3, Zenon DEF ChainInv, UpOps, DownOps, OpeningOps

\* A handler of the downward chain hands on to one operation of it.
LEMMA DownGoes ==
  ASSUME ChainInv, NEW done \in DownOps, pending[done] > 0, NEW next \in DownOps,
         Handled(done, {next})
  PROVE  /\ Running \cap DownOps = {done} /\ Running' \cap DownOps = {next}
         /\ Running' \cap UpOps = Running \cap UpOps
<1>1. {next} \in SUBSET DownOps
  BY Zenon
<1>2. Running' = (Running \ DownOps) \cup {next}
  BY <1>1, DownMoves, Zenon
<1>3. done \in Running
  BY Zenon DEF Running, Ops, DownOps
<1> QED
  BY <1>1, <1>2, <1>3 DEF ChainInv, UpOps, DownOps, OpeningOps

\* A direction that a handler leaves alone stays as it is.
LEMMA UpKept ==
  ASSUME UpFlow, UNCHANGED <<status, upward, sent_len>>, Running' \cap UpOps = Running \cap UpOps
  PROVE  UpFlow'
<1>1. \A op \in UpOps : op \in Running' <=> op \in Running
  BY Zenon
<1> QED
  BY <1>1, Zenon DEF UpFlow, Waiting, upward, UpOps, OpeningOps

\* The downward flow stays when neither its buffers nor its chain change.
LEMMA DownKept ==
  ASSUME DownFlow, UNCHANGED downward, Running' \cap DownOps = Running \cap DownOps
  PROVE  DownFlow'
<1>1. \A op \in DownOps : op \in Running' <=> op \in Running
  BY Zenon
<1> QED
  BY <1>1, Zenon DEF DownFlow, downward, DownOps

\* Nothing has been read at first.
LEMMA FlowInitially == Init => FlowInv
<1> SUFFICES ASSUME Init PROVE FlowInv
  BY Zenon
<1>1. /\ in_next = 1 /\ out_next = 1 /\ recv_len = 0 /\ sent_len = 0
      /\ target_got = <<>> /\ client_got = <<>> /\ udp_data_buf = <<>> /\ udp_request = <<>>
      /\ out_write_buf = <<>> /\ out_write_data = <<>> /\ in_write_data = <<>>
      /\ status = "HANDSHAKE" /\ ClientCells \in Nat
  BY ServerSessionAssumption, Zenon DEF Init
<1>2. PICK first \in {"in_read", "handshake"} :
          pending = [op \in Ops |-> IF op = first THEN 1 ELSE 0]
  BY Zenon DEF Init
<1>3. Running = {first}
  BY <1>2 DEF Running, Ops
<1>4. StreamTypes
  BY <1>1 DEF StreamTypes
<1>5. UpFlow
  BY <1>1, <1>3, CellsEmpty DEF UpFlow, Waiting
<1>6. DownFlow
  BY <1>1, <1>3, CellsEmpty DEF DownFlow
<1> QED
  BY <1>4, <1>5, <1>6, Zenon DEF FlowInv

\* udp_sent(): a packet taken off the stream and the rest of it, in order.
LEMMA DispatchFlow ==
  ASSUME ChainInv, StreamTypes, NEW done \in {"in_read", "udp_write"}, done \in Running,
         sent_len' \in Nat, Waiting' \in Nat, target_got' = Cells(1, sent_len'),
         NEW buf, buf = Cells(sent_len' + 1, Waiting'),
         DispatchNext(done, buf)
  PROVE  /\ udp_request' \in Seq(Int) /\ udp_data_buf' \in Seq(Int)
         /\ status' # "DESTROY" => UpFlow' /\ Running' \cap DownOps = Running \cap DownOps
<1>0. done \in UpOps /\ "udp_resolve" \in UpOps /\ "in_read" \in UpOps
  BY Zenon DEF UpOps
<1> DEFINE a == sent_len' + 1
           w == Waiting'
<1>1. a \in Int /\ w \in Nat
  OBVIOUS
<1> HIDE DEF a, w
<1>b. buf = Cells(a, w)
  BY Zenon DEF a, w
<1>c. buf \in Seq(Int) /\ Len(buf) = w
  BY <1>1, <1>b, CellsType, Zenon
<1>2. CASE /\ Complete(buf)
           /\ udp_request' = SubSeq(buf, 1, FirstPacketLen(buf))
           /\ udp_data_buf' = Rest(buf)
           /\ Handled(done, {"udp_resolve"})
           /\ status' = "UDP_FORWARD"
  <2> DEFINE k == FirstPacketLen(buf)
  <2>1. k \in 1..w
    BY <1>c, <1>2, FirstPacket, Zenon
  <2>2. /\ Running' \cap UpOps = {"udp_resolve"}
        /\ Running' \cap DownOps = Running \cap DownOps
    BY <1>0, <1>2, UpGoes, Zenon DEF Running
  <2>3. /\ udp_request' = SubSeq(Cells(a, w), 1, k)
        /\ udp_data_buf' = SubSeq(Cells(a, w), k + 1, w)
    BY <1>b, <1>c, <1>2, Zenon DEF Rest
  <2> HIDE DEF k
  <2>4. k \in 0..w /\ k \in Nat /\ w - k \in Nat /\ a + k \in Int /\ k <= w
    BY <1>1, <2>1
  <2>5. udp_request' = Cells(a, k) /\ udp_data_buf' = Cells(a + k, w - k)
    BY <1>1, <2>3, <2>4, CellsCut, Zenon
  <2>6. udp_request' \in Seq(Int) /\ Len(udp_request') = k
    BY <1>1, <2>4, <2>5, CellsType, Zenon
  <2>7. udp_data_buf' \in Seq(Int)
    BY <2>4, <2>5, CellsType, Zenon
  <2>8. \A op \in UpOps : op \in Running' => op = "udp_resolve"
    BY <2>2, Zenon
  <2>s. /\ Running' \cap {"resolve", "connect"} = {} /\ "out_write" \notin Running'
        /\ "in_read" \notin Running' /\ ~(status' # "UDP_FORWARD")
    BY <1>2, <2>8, Zenon DEF UpOps, OpeningOps
  <2>9. /\ Len(udp_request') <= Waiting'
        /\ udp_request' = Cells(sent_len' + 1, Len(udp_request'))
        /\ udp_data_buf' = Cells(sent_len' + 1 + Len(udp_request'),
                                 Waiting' - Len(udp_request'))
    BY <2>4, <2>5, <2>6, Zenon DEF a, w
  <2>10. UpFlow'
    BY <2>s, <2>9, Zenon DEF UpFlow
  <2> QED
    BY <2>2, <2>6, <2>7, <2>10, Zenon
<1>3. CASE /\ udp_data_buf' = buf
           /\ Handled(done, {"in_read"})
           /\ status' = "UDP_FORWARD" /\ udp_request' = udp_request
  <2>1. /\ Running' \cap UpOps = {"in_read"}
        /\ Running' \cap DownOps = Running \cap DownOps
    BY <1>0, <1>3, UpGoes, Zenon DEF Running
  <2>2. \A op \in UpOps : op \in Running' <=> op = "in_read"
    BY <2>1, Zenon
  <2>3. udp_data_buf' = Cells(sent_len' + 1, Waiting')
    BY <1>3, Zenon
  <2>4. UpFlow'
    BY <1>3, <2>2, <2>3 DEF UpFlow, UpOps, OpeningOps
  <2> QED
    BY <1>c, <1>3, <2>1, <2>4, Zenon DEF StreamTypes
<1>4. CASE udp_data_buf' = buf /\ udp_request' = udp_request /\ DestroyFrom(done)
  <2>1. status' = "DESTROY"
    BY <1>4, Zenon DEF DestroyFrom
  <2> QED
    BY <1>c, <1>4, <2>1, Zenon DEF StreamTypes
<1> QED
  BY <1>2, <1>3, <1>4, Zenon DEF DispatchNext

\* Every handler keeps the streams.
LEMMA FlowStep ==
  ASSUME ChainInv, FlowInv, [Next /\ UNCHANGED setup]_<<setup, vars>>
  PROVE  FlowInv'
<1> USE DEF sockets
<1>t. StreamTypes
  BY Zenon DEF FlowInv
<1>r. \A op \in Ops : pending[op] > 0 <=> op \in Running
  BY Zenon DEF Running
<1>o. UpOps \subseteq Ops /\ DownOps \subseteq Ops
  BY Zenon DEF UpOps, DownOps, OpeningOps, Ops
<1>same. UNCHANGED <<upward, downward, meters>> => StreamTypes'
  BY <1>t, Zenon DEF StreamTypes, upward, downward, meters
<1>dead. StreamTypes' /\ status' = "DESTROY" => FlowInv'
  BY Zenon DEF FlowInv
<1>dies. ASSUME NEW done, UNCHANGED <<upward, downward, meters>>, DestroyFrom(done)
         PROVE  FlowInv'
  BY <1>dies, <1>same, <1>dead, Zenon DEF DestroyFrom
\* The upward chain goes on while the downward one rests.
<1>up. ASSUME NEW done \in UpOps, pending[done] > 0, NEW next \in UpOps, Handled(done, {next}),
              UNCHANGED <<status, downward>>, StreamTypes', status # "DESTROY",
              /\ Running \cap UpOps = {done} => UpFlow
              /\ \A op \in UpOps : op \in Running' <=> op = next
              => UpFlow'
       PROVE  FlowInv'
  <2>1. /\ Running \cap UpOps = {done} /\ Running' \cap UpOps = {next}
        /\ Running' \cap DownOps = Running \cap DownOps
    BY <1>up, UpGoes, Zenon
  <2>2. UpFlow'
    BY <1>up, <2>1, Zenon DEF FlowInv
  <2>3. DownFlow'
    BY <1>up, <2>1, DownKept, Zenon DEF FlowInv
  <2> QED
    BY <1>up, <2>2, <2>3, Zenon DEF FlowInv
<1>1. CASE HandshakeDone
  <2>1. /\ "handshake" \in UpOps /\ "in_read" \in UpOps /\ "handshake" \in Running
        /\ status = "HANDSHAKE" /\ UNCHANGED <<upward, downward, meters, status>>
    BY <1>1, <1>r, Zenon DEF HandshakeDone, UpOps, OpeningOps, Ops, ChainInv
  <2>2. UpFlow
    BY <2>1, Zenon DEF FlowInv
  <2>3. ASSUME \A op \in UpOps : op \in Running' <=> op = "in_read"
        PROVE  UpFlow'
    BY <2>1, <2>2, <2>3 DEF UpFlow, Waiting, upward, meters, UpOps, OpeningOps
  <2> QED
    BY <1>1, <1>up, <1>same, <2>1, <2>3, Zenon DEF HandshakeDone
<1>2. CASE PlainHttpRequest
  <2>1. /\ "handshake" \in UpOps /\ "plain_write" \in UpOps /\ "handshake" \in Running
        /\ status = "HANDSHAKE" /\ UNCHANGED <<upward, downward, sent_len, status>>
        /\ recv_len' = recv_len + 1
    BY <1>2, <1>r, Zenon DEF PlainHttpRequest, UpOps, OpeningOps, Ops, ChainInv
  <2>2. UpFlow
    BY <2>1, Zenon DEF FlowInv
  <2>3. ASSUME \A op \in UpOps : op \in Running' <=> op = "plain_write"
        PROVE  UpFlow'
    BY <2>1, <2>2, <2>3, Zenon DEF UpFlow, Waiting, upward, UpOps, OpeningOps
  <2>4. StreamTypes'
    BY <1>t, <2>1 DEF StreamTypes, upward, downward
  <2> QED
    BY <1>2, <1>up, <2>1, <2>3, <2>4, Zenon DEF PlainHttpRequest
<1>3. CASE PlainResponseDone
  BY <1>3, <1>dies, Zenon DEF PlainResponseDone
<1>4. ASSUME NEW n \in Reads, FrontFrameIncomplete(n) PROVE FlowInv'
  <2>1. UNCHANGED <<status, pending, in_next, out_write_buf, out_write_data, udp_data_buf,
                    udp_request, target_got, downward, meters>>
    BY <1>4, Zenon DEF FrontFrameIncomplete
  <2> QED
    BY <2>1, Zenon DEF FlowInv, StreamTypes, UpFlow, DownFlow, Waiting, Running, downward, meters
<1>5. ASSUME NEW n \in Reads, FrontPayloadMissing(n) PROVE FlowInv'
  BY <1>5, <1>dies, Zenon DEF FrontPayloadMissing
<1>6. ASSUME NEW m \in 0..ReadMax, ConnectRequest(m) PROVE FlowInv'
  <2>1. /\ "in_read" \in UpOps /\ "resolve" \in UpOps /\ pending["in_read"] > 0
        /\ status = "HANDSHAKE" /\ Handled("in_read", {"resolve"})
        /\ UNCHANGED <<status, out_write_data, udp_data_buf, udp_request, target_got, downward,
                       meters>>
    BY <1>6, Zenon DEF ConnectRequest, FirstPayload, UpOps, OpeningOps
  <2>2. /\ out_write_buf' = Cells(in_next, m) /\ in_next' = in_next + m
        /\ in_next + m - 1 <= ClientCells /\ m \in Nat /\ in_next \in Nat
    BY <1>6, <1>t, ServerSessionAssumption DEF ConnectRequest, FirstPayload, StreamTypes
  <2>3. UpFlow /\ Waiting = 0 /\ in_next = sent_len + 1
    BY <1>r, <1>t, <2>1 DEF FlowInv, UpFlow, Waiting, Ops, StreamTypes
  <2>4. out_write_buf' \in Seq(Int)
    BY <2>2, CellsType
  <2>5. StreamTypes'
    BY <1>t, <2>1, <2>2, <2>4, ServerSessionAssumption DEF StreamTypes, downward, meters
  <2>6. Waiting' = m /\ out_write_buf' = Cells(sent_len' + 1, m)
    BY <1>t, <2>1, <2>2, <2>3 DEF Waiting, meters, StreamTypes
  <2>7. ASSUME \A op \in UpOps : op \in Running' <=> op = "resolve"
        PROVE  UpFlow'
    BY <2>1, <2>2, <2>3, <2>6, <2>7 DEF UpFlow, meters, UpOps, OpeningOps
  <2> QED
    BY <1>up, <2>1, <2>5, <2>7, Zenon
<1>7. ASSUME NEW m \in 0..ReadMax, AssociateRequest(m) PROVE FlowInv'
  <2>1. /\ pending["in_read"] > 0 /\ "in_read" \in Running /\ status = "HANDSHAKE"
        /\ UNCHANGED <<out_write_data, target_got, downward, meters>>
        /\ DispatchNext("in_read", Cells(in_next, m))
    BY <1>7, <1>r, Zenon DEF AssociateRequest, FirstPayload, Ops
  <2>2. /\ out_write_buf' = Cells(in_next, m) /\ in_next' = in_next + m
        /\ in_next + m - 1 <= ClientCells /\ m \in Nat /\ in_next \in Nat
    BY <1>7, <1>t, ServerSessionAssumption DEF AssociateRequest, FirstPayload, StreamTypes
  <2>3. UpFlow /\ Waiting = 0 /\ in_next = sent_len + 1
    BY <1>r, <1>t, <2>1 DEF FlowInv, UpFlow, Waiting, StreamTypes
  <2>4. out_write_buf' \in Seq(Int)
    BY <2>2, CellsType
  <2>5. Waiting' = m /\ sent_len' = sent_len /\ sent_len \in Nat
    BY <1>t, <2>1, <2>2, <2>3 DEF Waiting, meters, StreamTypes
  <2>6. /\ sent_len' \in Nat /\ Waiting' \in Nat /\ target_got' = Cells(1, sent_len')
        /\ Cells(in_next, m) = Cells(sent_len' + 1, Waiting')
    BY <2>1, <2>2, <2>3, <2>5, Zenon DEF UpFlow
  <2>7. /\ udp_request' \in Seq(Int) /\ udp_data_buf' \in Seq(Int)
        /\ status' # "DESTROY" => UpFlow' /\ Running' \cap DownOps = Running \cap DownOps
    BY <1>t, <2>1, <2>6, DispatchFlow, Zenon
  <2>8. StreamTypes'
    BY <1>t, <2>1, <2>2, <2>4, <2>7, ServerSessionAssumption DEF StreamTypes, downward, meters
  <2> QED
    BY <2>1, <2>7, <2>8, DownKept, Zenon DEF FlowInv
<1>8. CASE ResolveDone
  <2>1. /\ "resolve" \in UpOps /\ "connect" \in UpOps /\ "resolve" \in Running
        /\ status = "HANDSHAKE" /\ UNCHANGED <<upward, downward, meters, status>>
    BY <1>8, <1>r, Zenon DEF ResolveDone, UpOps, OpeningOps, Ops, ChainInv
  <2>2. UpFlow
    BY <2>1, Zenon DEF FlowInv
  <2>3. ASSUME \A op \in UpOps : op \in Running' <=> op = "connect"
        PROVE  UpFlow'
    BY <2>1, <2>2, <2>3, Zenon DEF UpFlow, Waiting, upward, meters, UpOps, OpeningOps
  <2> QED
    BY <1>8, <1>up, <1>same, <2>1, <2>3, Zenon DEF ResolveDone
<1>9. CASE ConnectDone
  <2>1. "connect" \in Running /\ "connect" \in UpOps
    BY <1>9, <1>r, Zenon DEF ConnectDone, Ops, UpOps, OpeningOps
  <2>2. status = "HANDSHAKE" /\ Running \cap DownOps = {}
    BY <2>1, Zenon DEF ChainInv, OpeningOps
  <2>3. PICK next \in {"out_write", "in_read"} :
            /\ Handled("connect", {"out_read", next})
            /\ next = "out_write" => out_write_data' = out_write_buf
            /\ next = "in_read" => out_write_buf = <<>> /\ out_write_data' = out_write_data
    BY <1>9, Zenon DEF ConnectDone
  <2>4. {"out_read", next} \in SUBSET (UpOps \cup DownOps)
    BY Zenon DEF UpOps, DownOps
  <2>5. Running' = (Running \ UpOps) \cup {"out_read", next}
    BY <1>9, <2>1, <2>2, <2>3, <2>4, UpMoves, Zenon DEF ConnectDone
  <2>6. /\ status' = "FORWARD"
        /\ UNCHANGED <<in_next, out_write_buf, udp_data_buf, udp_request, target_got, downward,
                       meters>>
    BY <1>9, Zenon DEF ConnectDone
  <2>7. UpFlow /\ DownFlow /\ out_write_buf = Cells(sent_len + 1, Waiting)
    BY <2>1, <2>2, Zenon DEF FlowInv, UpFlow
  <2>8. out_write_buf = <<>> => Waiting = 0
    <3>1. sent_len + 1 \in Int /\ Waiting \in Nat
      BY <1>t, <2>7 DEF StreamTypes, UpFlow
    <3>2. Len(out_write_buf) = Waiting
      BY <2>7, <3>1, CellsType, Zenon
    <3> QED
      BY <3>2, Zenon
  <2>9. StreamTypes'
    BY <1>t, <2>3, <2>6, Zenon DEF StreamTypes, downward, meters
  <2>10. \A op \in UpOps : op \in Running' <=> op = next
    BY <2>5, Zenon DEF UpOps, OpeningOps
  <2>11. UpFlow'
    BY <2>2, <2>3, <2>6, <2>7, <2>8, <2>10 DEF UpFlow, Waiting, meters, UpOps, OpeningOps
  <2>12. "in_write" \notin Running /\ "in_write" \notin Running'
    BY <2>2, <2>5, Zenon DEF DownOps
  <2>13. DownFlow'
    BY <2>6, <2>7, <2>12, Zenon DEF DownFlow, downward
  <2> QED
    BY <2>9, <2>11, <2>13, Zenon DEF FlowInv
<1>10. ASSUME NEW n \in Reads, InReadForward(n) PROVE FlowInv'
  <2>1. /\ "in_read" \in UpOps /\ "out_write" \in UpOps /\ pending["in_read"] > 0
        /\ status = "FORWARD" /\ Handled("in_read", {"out_write"})
        /\ UNCHANGED <<status, out_write_buf, udp_data_buf, udp_request, target_got, downward,
                       meters>>
    BY <1>10, Zenon DEF InReadForward, UpOps
  <2>2. /\ out_write_data' = Cells(in_next, n) /\ in_next' = in_next + n
        /\ in_next + n - 1 <= ClientCells /\ n \in Nat /\ in_next \in Nat
    BY <1>10, <1>t, ServerSessionAssumption DEF InReadForward, StreamTypes, Reads
  <2>3. UpFlow /\ Waiting = 0 /\ in_next = sent_len + 1
    BY <1>r, <1>t, <2>1 DEF FlowInv, UpFlow, Waiting, Ops, StreamTypes
  <2>4. out_write_data' \in Seq(Int)
    BY <2>2, CellsType
  <2>5. StreamTypes'
    BY <1>t, <2>1, <2>2, <2>4, ServerSessionAssumption DEF StreamTypes, downward, meters
  <2>6. Waiting' = n /\ out_write_data' = Cells(sent_len' + 1, n)
    BY <1>t, <2>1, <2>2, <2>3 DEF Waiting, meters, StreamTypes
  <2>7. ASSUME \A op \in UpOps : op \in Running' <=> op = "out_write"
        PROVE  UpFlow'
    BY <2>1, <2>2, <2>3, <2>6, <2>7, Zenon DEF UpFlow, meters, UpOps, OpeningOps
  <2> QED
    BY <1>up, <2>1, <2>5, <2>7, Zenon
<1>11. ASSUME NEW n \in Reads, OutRead(n) PROVE FlowInv'
  <2>1. /\ "out_read" \in DownOps /\ "in_write" \in DownOps /\ pending["out_read"] > 0
        /\ "out_read" \in Running /\ UNCHANGED <<status, upward, client_got, sent_len>>
        /\ out_next' = out_next + n /\ n \in Nat /\ out_next \in Nat
    BY <1>11, <1>r, <1>t, ServerSessionAssumption
    DEF OutRead, DownOps, Ops, Reads, StreamTypes
  <2>2. CASE status # "FORWARD"
    <3>1. UNCHANGED <<recv_len, in_write_data>>
      BY <1>11, <2>2, Zenon DEF OutRead
    <3>2. status = "DESTROY"
      BY <2>1, <2>2, Zenon DEF ChainInv
    <3>3. StreamTypes'
      BY <1>t, <2>1, <3>1 DEF StreamTypes, upward
    <3> QED
      BY <1>dead, <2>1, <3>2, <3>3, Zenon
  <2>3. CASE status = "FORWARD"
    <3>1. /\ recv_len' = recv_len + n /\ in_write_data' = Cells(out_next, n)
          /\ Handled("out_read", {"in_write"})
      BY <1>11, <2>3, Zenon DEF OutRead
    <3>2. in_write_data' \in Seq(Int)
      BY <2>1, <3>1, CellsType
    <3>3. StreamTypes'
      BY <1>t, <2>1, <3>1, <3>2 DEF StreamTypes, upward
    <3>4. /\ Running \cap DownOps = {"out_read"} /\ Running' \cap DownOps = {"in_write"}
          /\ Running' \cap UpOps = Running \cap UpOps
      BY <2>1, <3>1, DownGoes, Zenon
    <3>5. UpFlow /\ DownFlow /\ "in_write" \notin Running /\ "in_write" \in Running'
      BY <2>1, <2>3, <3>4, Zenon DEF FlowInv
    <3>6. UpFlow'
      BY <2>1, <3>4, <3>5, UpKept, Zenon
    <3>7. out_next = Len(client_got) + 1 /\ client_got = Cells(1, Len(client_got))
      BY <1>t, <2>1, <3>5 DEF DownFlow, StreamTypes
    <3>8. out_next' - 1 - Len(client_got) = n
      BY <1>t, <2>1, <3>7 DEF StreamTypes
    <3>9. DownFlow'
      BY <2>1, <3>1, <3>5, <3>7, <3>8, Zenon DEF DownFlow
    <3> QED
      BY <3>3, <3>6, <3>9, Zenon DEF FlowInv
  <2> QED
    BY <2>2, <2>3, Zenon
<1>12. ASSUME NEW n \in Reads, InReadUdp(n) PROVE FlowInv'
  <2>1. /\ pending["in_read"] > 0 /\ "in_read" \in Running /\ status = "UDP_FORWARD"
        /\ UNCHANGED <<out_write_buf, out_write_data, target_got, downward, meters>>
        /\ DispatchNext("in_read", udp_data_buf \o Cells(in_next, n))
    BY <1>12, <1>r, Zenon DEF InReadUdp, Ops
  <2>2. /\ in_next' = in_next + n
        /\ in_next + n - 1 <= ClientCells /\ n \in Nat /\ in_next \in Nat
    BY <1>12, <1>t, ServerSessionAssumption DEF InReadUdp, StreamTypes, Reads
  <2>3. /\ UpFlow /\ Waiting \in Nat /\ udp_data_buf = Cells(sent_len + 1, Waiting)
        /\ in_next = sent_len + 1 + Waiting
    BY <1>t, <2>1 DEF FlowInv, UpFlow, Waiting, StreamTypes
  <2>4. Waiting' = Waiting + n /\ sent_len' = sent_len /\ sent_len \in Nat
    BY <1>t, <2>1, <2>2, <2>3 DEF Waiting, meters, StreamTypes
  <2>5. udp_data_buf \o Cells(in_next, n) = Cells(sent_len' + 1, Waiting')
    <3>1. sent_len + 1 \in Int
      BY <2>4
    <3>2. Cells(sent_len + 1, Waiting) \o Cells(sent_len + 1 + Waiting, n)
              = Cells(sent_len + 1, Waiting + n)
      BY <2>2, <2>3, <3>1, CellsJoin, Zenon
    <3> QED
      BY <2>3, <2>4, <3>2, Zenon
  <2>6. sent_len' \in Nat /\ Waiting' \in Nat /\ target_got' = Cells(1, sent_len')
    BY <2>1, <2>2, <2>3, <2>4 DEF UpFlow
  <2>7. /\ udp_request' \in Seq(Int) /\ udp_data_buf' \in Seq(Int)
        /\ status' # "DESTROY" => UpFlow' /\ Running' \cap DownOps = Running \cap DownOps
    BY <1>t, <2>1, <2>5, <2>6, DispatchFlow, Zenon
  <2>8. StreamTypes'
    BY <1>t, <2>1, <2>2, <2>7, ServerSessionAssumption DEF StreamTypes, downward, meters
  <2> QED
    BY <2>1, <2>7, <2>8, DownKept, Zenon DEF FlowInv
<1>13. CASE OutWriteDone
  <2>1. /\ "out_write" \in UpOps /\ "in_read" \in UpOps /\ "out_write" \in Running
        /\ pending["out_write"] > 0 /\ target_got' = target_got \o out_write_data
        /\ sent_len' = sent_len + Len(out_write_data)
        /\ UNCHANGED <<status, in_next, out_write_buf, out_write_data, udp_data_buf, udp_request,
                       downward, recv_len>>
    BY <1>13, <1>r, Zenon DEF OutWriteDone, UpOps, Ops
  <2>2. target_got' \in Seq(Int) /\ Len(target_got') = Len(target_got) + Len(out_write_data)
    BY <1>t, <2>1, ConcatProperties, Zenon DEF StreamTypes
  <2>3. StreamTypes'
    BY <1>t, <2>1, <2>2 DEF StreamTypes, downward
  <2>4. CASE status = "FORWARD"
    <3>1. Handled("out_write", {"in_read"})
      BY <1>13, <2>4, Zenon DEF OutWriteDone
    <3>2. /\ UpFlow /\ Waiting \in Nat /\ out_write_data = Cells(sent_len + 1, Waiting)
          /\ target_got = Cells(1, sent_len) /\ sent_len \in Nat
      BY <1>t, <2>1, <2>4, Zenon DEF FlowInv, UpFlow, StreamTypes
    <3>3. Len(out_write_data) = Waiting
      <4>1. sent_len + 1 \in Int
        BY <3>2
      <4> QED
        BY <3>2, <4>1, CellsType, Zenon
    <3>4. target_got' = Cells(1, sent_len')
      <4>1. Cells(1, sent_len) \o Cells(sent_len + 1, Waiting) = Cells(1, sent_len + Waiting)
        BY <3>2, CellsGrow, Zenon
      <4> QED
        BY <2>1, <3>2, <3>3, <4>1, Zenon
    <3>5. Waiting' = 0
      BY <1>t, <2>1, <3>2, <3>3 DEF Waiting, StreamTypes
    <3>6. ASSUME \A op \in UpOps : op \in Running' <=> op = "in_read"
          PROVE  UpFlow'
      BY <2>1, <2>4, <3>2, <3>4, <3>5, <3>6, Zenon DEF UpFlow, UpOps, OpeningOps
    <3> QED
      BY <1>up, <2>1, <2>3, <2>4, <3>1, <3>6, Zenon
  <2>5. CASE status # "FORWARD"
    <3>1. status' = "DESTROY"
      BY <2>1, <2>5, Zenon DEF ChainInv
    <3> QED
      BY <1>dead, <2>3, <3>1, Zenon
  <2> QED
    BY <2>4, <2>5, Zenon
<1>14. CASE InWriteDone
  <2>1. /\ "in_write" \in DownOps /\ "out_read" \in DownOps /\ "udp_read" \in DownOps
        /\ pending["in_write"] > 0 /\ "in_write" \in Running
        /\ client_got' = client_got \o in_write_data
        /\ UNCHANGED <<status, upward, out_next, in_write_data, meters>>
    BY <1>14, <1>r, Zenon DEF InWriteDone, DownOps, Ops
  <2>2. client_got' \in Seq(Int) /\ Len(client_got') = Len(client_got) + Len(in_write_data)
    BY <1>t, <2>1, ConcatProperties, Zenon DEF StreamTypes
  <2>3. StreamTypes'
    BY <1>t, <2>1, <2>2, Zenon DEF StreamTypes, upward, meters
  <2>4. CASE status = "DESTROY"
    BY <1>dead, <2>1, <2>3, <2>4, Zenon
  <2>5. CASE status # "DESTROY"
    <3>1. status # "HANDSHAKE"
      BY <2>1, Zenon DEF ChainInv
    <3>2. PICK next \in {"out_read", "udp_read"} : Handled("in_write", {next})
      BY <1>14, <2>5, <3>1, Zenon DEF InWriteDone, ChainInv, Statuses
    <3>3. next \in DownOps
      BY Zenon DEF DownOps
    <3>4. Running' \cap DownOps = {next} /\ Running' \cap UpOps = Running \cap UpOps
      BY <2>1, <3>2, <3>3, DownGoes, Zenon
    <3>5. /\ UpFlow /\ client_got = Cells(1, Len(client_got))
          /\ out_next - 1 - Len(client_got) \in Nat
          /\ in_write_data = Cells(Len(client_got) + 1, out_next - 1 - Len(client_got))
      BY <2>1, <2>5, Zenon DEF FlowInv, DownFlow
    <3>6. UpFlow'
      BY <2>1, <3>4, <3>5, UpKept, Zenon DEF meters
    <3> DEFINE g == Len(client_got)
               w == out_next - 1 - g
    <3>7. g \in Nat /\ w \in Nat /\ g + 1 \in Int /\ out_next \in Nat
      BY <1>t, <3>5 DEF StreamTypes
    <3>8. client_got' = Cells(1, g) \o Cells(g + 1, w) /\ Len(in_write_data) = w
      BY <2>1, <3>5, <3>7, CellsType, Zenon
    <3>9. g + w = out_next - 1 /\ Len(client_got') = g + w
      BY <2>2, <3>7, <3>8
    <3> HIDE DEF g, w
    <3>10. client_got' = Cells(1, g + w)
      BY <3>7, <3>8, CellsGrow, Zenon
    <3>11. "in_write" \notin Running'
      BY <2>1, <3>2, <3>4
    <3>12. DownFlow'
      BY <2>1, <3>9, <3>10, <3>11, Zenon DEF DownFlow
    <3> QED
      BY <2>3, <3>6, <3>12, Zenon DEF FlowInv
  <2> QED
    BY <2>4, <2>5, Zenon
<1>15. CASE InReadLate
  BY <1>15, <1>same, <1>dead, Zenon DEF InReadLate
<1>16. CASE UdpResolveDone
  <2>1. /\ "udp_resolve" \in Running /\ "udp_resolve" \in UpOps
        /\ UNCHANGED <<status, upward, downward, meters>>
    BY <1>16, <1>r, Zenon DEF UdpResolveDone, Ops, UpOps
  <2>2. CASE status = "DESTROY"
    BY <1>same, <1>dead, <2>1, <2>2, Zenon
  <2>3. CASE status # "DESTROY"
    <3>1. PICK started \in {{"udp_write"}, {"udp_read", "udp_write"}} :
              /\ Handled("udp_resolve", started)
              /\ udp_open => started = {"udp_write"}
      BY <1>16, Zenon DEF UdpResolveDone
    <3>2. started \in SUBSET (UpOps \cup DownOps)
      BY Zenon DEF UpOps, DownOps
    <3>3. started \cap DownOps \cap Running = {}
      BY <2>1, <3>1, Zenon DEF ChainInv, DownOps
    <3>4. Running' = (Running \ UpOps) \cup started
      BY <1>16, <2>1, <3>1, <3>2, <3>3, UpMoves, Zenon DEF UdpResolveDone
    <3>5. UpFlow /\ DownFlow
      BY <2>3, Zenon DEF FlowInv
    <3>6. \A op \in UpOps : op \in Running' <=> op = "udp_write"
      BY <3>1, <3>4, Zenon DEF UpOps, OpeningOps
    <3>7. status = "UDP_FORWARD"
      BY <2>1, <2>3, Zenon DEF ChainInv
    <3>8. UpFlow'
      BY <2>1, <3>5, <3>6, <3>7 DEF UpFlow, Waiting, upward, meters, UpOps, OpeningOps
    <3>9. "in_write" \in Running' <=> "in_write" \in Running
      BY <3>1, <3>4, Zenon DEF UpOps, OpeningOps
    <3>10. DownFlow'
      BY <2>1, <3>5, <3>9, Zenon DEF DownFlow, downward
    <3> QED
      BY <1>same, <2>1, <3>8, <3>10, Zenon DEF FlowInv
  <2> QED
    BY <2>2, <2>3, Zenon
<1>17. CASE UdpOpenFails
  BY <1>17, <1>dies, Zenon DEF UdpOpenFails
<1>18. CASE UdpWriteDone
  <2>1. /\ "udp_write" \in Running /\ target_got' = target_got \o udp_request
        /\ sent_len' = sent_len + Len(udp_request)
        /\ UNCHANGED <<in_next, out_write_buf, out_write_data, downward, recv_len>>
    BY <1>18, <1>r, Zenon DEF UdpWriteDone, Ops
  <2>2. target_got' \in Seq(Int) /\ Len(target_got') = Len(target_got) + Len(udp_request)
    BY <1>t, <2>1, ConcatProperties, Zenon DEF StreamTypes
  <2>3. CASE status = "UDP_FORWARD"
    <3> DEFINE r == Len(udp_request)
               w == Waiting - r
    <3>1. /\ sent_len \in Nat /\ Waiting \in Nat /\ r \in Nat /\ r <= Waiting /\ in_next \in Nat
          /\ udp_request = Cells(sent_len + 1, r)
          /\ udp_data_buf = Cells(sent_len + 1 + r, w)
          /\ target_got = Cells(1, sent_len)
      BY <1>t, <2>1, <2>3 DEF FlowInv, UpFlow, StreamTypes
    <3>2. Waiting' = w /\ w \in Nat /\ sent_len' \in Nat
      BY <2>1, <3>1 DEF Waiting
    <3>3. target_got' = Cells(1, sent_len')
      <4>1. Cells(1, sent_len) \o Cells(sent_len + 1, r) = Cells(1, sent_len + r)
        BY <3>1, CellsGrow, Zenon
      <4> QED
        BY <2>1, <3>1, <4>1, Zenon
    <3>4. udp_data_buf = Cells(sent_len' + 1, Waiting')
      <4>1. sent_len' + 1 = sent_len + 1 + r
        BY <2>1, <3>1
      <4> QED
        BY <3>1, <3>2, <4>1, Zenon
    <3>5. DispatchNext("udp_write", udp_data_buf)
      BY <1>18, <2>3, Zenon DEF UdpWriteDone
    <3>6. /\ udp_request' \in Seq(Int) /\ udp_data_buf' \in Seq(Int)
          /\ status' # "DESTROY" => UpFlow' /\ Running' \cap DownOps = Running \cap DownOps
      BY <1>t, <2>1, <3>2, <3>3, <3>4, <3>5, DispatchFlow, Zenon
    <3>7. StreamTypes'
      BY <1>t, <2>1, <2>2, <3>2, <3>6, Zenon DEF StreamTypes, downward
    <3> QED
      BY <2>1, <2>3, <3>6, <3>7, DownKept, Zenon DEF FlowInv
  <2>4. CASE status # "UDP_FORWARD"
    <3>1. status = "DESTROY"
      BY <2>1, <2>4, Zenon DEF ChainInv
    <3>2. UNCHANGED <<status, udp_data_buf, udp_request>>
      BY <1>18, <2>4, Zenon DEF UdpWriteDone
    <3>3. StreamTypes'
      BY <1>t, <2>1, <2>2, <3>2 DEF StreamTypes, downward
    <3> QED
      BY <1>dead, <3>1, <3>2, <3>3, Zenon
  <2> QED
    BY <2>3, <2>4, Zenon
<1>19. CASE UdpRead
  <2>1. /\ "udp_read" \in DownOps /\ "in_write" \in DownOps /\ pending["udp_read"] > 0
        /\ "udp_read" \in Running /\ UNCHANGED <<status, upward, client_got, sent_len>>
        /\ out_next' = out_next + 1 /\ out_next \in Nat
    BY <1>19, <1>r, <1>t, Zenon DEF UdpRead, DownOps, Ops, StreamTypes
  <2>2. CASE status # "UDP_FORWARD"
    <3>1. UNCHANGED <<recv_len, in_write_data>>
      BY <1>19, <2>2, Zenon DEF UdpRead
    <3>2. status = "DESTROY"
      BY <2>1, <2>2, Zenon DEF ChainInv
    <3>3. StreamTypes'
      BY <1>t, <2>1, <3>1 DEF StreamTypes, upward
    <3> QED
      BY <1>dead, <2>1, <3>2, <3>3, Zenon
  <2>3. CASE status = "UDP_FORWARD"
    <3>1. /\ recv_len' = recv_len + 1 /\ in_write_data' = <<out_next>>
          /\ Handled("udp_read", {"in_write"})
      BY <1>19, <2>3, Zenon DEF UdpRead
    <3>2. in_write_data' = Cells(out_next, 1) /\ in_write_data' \in Seq(Int)
      BY <2>1, <3>1 DEF Cells
    <3>3. StreamTypes'
      BY <1>t, <2>1, <3>1, <3>2 DEF StreamTypes, upward
    <3>4. /\ Running \cap DownOps = {"udp_read"} /\ Running' \cap DownOps = {"in_write"}
          /\ Running' \cap UpOps = Running \cap UpOps
      BY <2>1, <3>1, DownGoes, Zenon
    <3>5. UpFlow /\ DownFlow /\ "in_write" \notin Running /\ "in_write" \in Running'
      BY <2>1, <2>3, <3>4, Zenon DEF FlowInv
    <3>6. UpFlow'
      BY <2>1, <3>4, <3>5, UpKept, Zenon
    <3>7. out_next = Len(client_got) + 1 /\ client_got = Cells(1, Len(client_got))
      BY <1>t, <2>1, <3>5 DEF DownFlow, StreamTypes
    <3>8. out_next' - 1 - Len(client_got) = 1
      BY <1>t, <2>1, <3>7 DEF StreamTypes
    <3>9. DownFlow'
      BY <2>1, <3>2, <3>5, <3>7, <3>8 DEF DownFlow
    <3> QED
      BY <3>3, <3>6, <3>9, Zenon DEF FlowInv
  <2> QED
    BY <2>2, <2>3, Zenon
<1>20. ASSUME NEW op \in Ops, OperationFails(op) PROVE FlowInv'
  BY <1>20, <1>dies, Zenon DEF OperationFails
<1>21. ASSUME NEW op \in Ops, ShutdownEnds(op) \/ ShutdownEndsAgain(op) PROVE FlowInv'
  <2>1. op \in Running /\ op \in EndOps /\ UNCHANGED <<status, upward, downward, meters>>
    BY <1>21, Zenon DEF ShutdownEnds, ShutdownEndsAgain, Running, EndOps
  <2>2. status = "DESTROY"
    BY <2>1, Zenon DEF ChainInv
  <2> QED
    BY <1>same, <1>dead, <2>1, <2>2, Zenon
<1>22. CASE UNCHANGED vars
  BY <1>22, Zenon DEF vars, FlowInv, StreamTypes, UpFlow, DownFlow, Waiting, Running, upward, downward,
               meters
<1> QED
  BY <1>1, <1>2, <1>3, <1>4, <1>5, <1>6, <1>7, <1>8, <1>9, <1>10, <1>11, <1>12, <1>13, <1>14,
     <1>15, <1>16, <1>17, <1>18, <1>19, <1>20, <1>21, <1>22, Zenon DEF Next

\* FlowInv is an invariant.
LEMMA FlowHolds == Spec => []FlowInv
<1>1. FlowInv /\ ChainInv /\ [Next /\ UNCHANGED setup]_<<setup, vars>> => FlowInv'
  BY FlowStep, Zenon
<1> QED
  BY <1>1, FlowInitially, ChainHolds, PTL DEF Spec

\* Both byte streams are conserved until destroy(): what has been read from one side is what
\* the other side has got followed by what the operation in flight holds.
THEOREM StreamsCorrect == Spec => []StreamsConserved
<1>1. ChainInv /\ FlowInv => StreamsConserved
  <2> SUFFICES ASSUME ChainInv, FlowInv, status # "DESTROY" PROVE
          /\ target_got \o InFlightUp = Cells(1, in_next - 1)
          /\ client_got \o (IF pending["in_write"] > 0 THEN in_write_data ELSE <<>>)
                 = Cells(1, out_next - 1)
    BY Zenon DEF StreamsConserved
  <2>1. StreamTypes /\ UpFlow /\ DownFlow
    BY Zenon DEF FlowInv
  <2>2. /\ sent_len \in Nat /\ Waiting \in Nat /\ in_next - 1 = sent_len + Waiting
        /\ target_got = Cells(1, sent_len)
    BY <2>1 DEF StreamTypes, UpFlow, Waiting
  <2>3. Cells(1, sent_len) \o Cells(sent_len + 1, Waiting) = Cells(1, in_next - 1)
    BY <2>2, CellsGrow, Zenon
  <2>e. \A s \in Seq(Int) : s \o <<>> = s /\ <<>> \o s = s
    BY ConcatEmptySeq, Zenon
  <2>4. InFlightUp = Cells(sent_len + 1, Waiting)
    <3>1. PICK op \in UpOps : op \in Running
      BY Zenon DEF ChainInv
    <3>2. \A x \in UpOps : pending[x] = IF x = op THEN 1 ELSE 0
      BY <3>1 DEF ChainInv, Running, Ops, UpOps, OpeningOps
    <3> DEFINE First == IF pending["resolve"] + pending["connect"] > 0 THEN out_write_buf ELSE <<>>
               Sent == IF pending["out_write"] > 0 THEN out_write_data ELSE <<>>
               Packet == IF pending["udp_resolve"] + pending["udp_write"] > 0
                            THEN udp_request ELSE <<>>
    <3>3. InFlightUp = First \o Sent \o Packet \o udp_data_buf
      BY Zenon DEF InFlightUp
    <3>4. /\ First = IF op \in {"resolve", "connect"} THEN out_write_buf ELSE <<>>
          /\ Sent = IF op = "out_write" THEN out_write_data ELSE <<>>
          /\ Packet = IF op \in {"udp_resolve", "udp_write"} THEN udp_request ELSE <<>>
      BY <3>2 DEF UpOps, OpeningOps
    <3> HIDE DEF First, Sent, Packet
    <3>t. /\ out_write_buf \in Seq(Int) /\ out_write_data \in Seq(Int) /\ <<>> \in Seq(Int)
          /\ udp_request \in Seq(Int) /\ udp_data_buf \in Seq(Int) /\ sent_len + 1 \in Int
      BY <2>1, <2>2 DEF StreamTypes
    <3>5. CASE op \in {"resolve", "connect"}
      <4>1. out_write_buf = Cells(sent_len + 1, Waiting) /\ udp_data_buf = <<>>
        BY <2>1, <3>1, <3>5, Zenon DEF UpFlow, ChainInv, OpeningOps
      <4>2. First = out_write_buf /\ Sent = <<>> /\ Packet = <<>>
        BY <3>4, <3>5, Zenon
      <4> QED
        BY <2>e, <3>3, <3>t, <4>1, <4>2, Zenon
    <3>6. CASE op = "out_write"
      <4>1. out_write_data = Cells(sent_len + 1, Waiting) /\ udp_data_buf = <<>>
        BY <2>1, <3>1, <3>6, Zenon DEF UpFlow, ChainInv
      <4>2. First = <<>> /\ Sent = out_write_data /\ Packet = <<>>
        BY <3>4, <3>6, Zenon
      <4> QED
        BY <2>e, <3>3, <3>t, <4>1, <4>2, Zenon
    <3>7. CASE op \in {"udp_resolve", "udp_write"}
      <4> DEFINE r == Len(udp_request)
      <4>1. /\ r \in Nat /\ Waiting - r \in Nat
            /\ udp_request = Cells(sent_len + 1, r)
            /\ udp_data_buf = Cells(sent_len + 1 + r, Waiting - r)
        BY <2>1, <2>2, <3>1, <3>7, <3>t DEF UpFlow
      <4>2. First = <<>> /\ Sent = <<>> /\ Packet = udp_request
        BY <3>4, <3>7, Zenon
      <4>3. r + (Waiting - r) = Waiting
        BY <2>2, <4>1
      <4> HIDE DEF r
      <4>4. udp_request \o udp_data_buf = Cells(sent_len + 1, r + (Waiting - r))
        BY <3>t, <4>1, CellsJoin, Zenon
      <4> QED
        BY <2>e, <3>3, <3>t, <4>2, <4>3, <4>4, Zenon
    <3>8. CASE op = "in_read" /\ status = "UDP_FORWARD"
      <4>1. udp_data_buf = Cells(sent_len + 1, Waiting)
        BY <2>1, <3>1, <3>8, Zenon DEF UpFlow
      <4>2. First = <<>> /\ Sent = <<>> /\ Packet = <<>>
        BY <3>4, <3>8, Zenon
      <4> QED
        BY <2>e, <3>3, <3>t, <4>1, <4>2, ZenonT(30)
    <3>9. CASE op \in {"handshake", "plain_write", "in_read"} /\ status # "UDP_FORWARD"
      <4>1. Waiting = 0 /\ udp_data_buf = <<>>
        BY <2>1, <3>1, <3>9, Zenon DEF UpFlow
      <4>2. First = <<>> /\ Sent = <<>> /\ Packet = <<>>
        BY <3>4, <3>9, Zenon
      <4>3. Cells(sent_len + 1, Waiting) = <<>>
        BY <4>1, CellsEmpty, Zenon
      <4> QED
        BY <2>e, <3>3, <3>t, <4>1, <4>2, <4>3, Zenon
    <3> QED
      BY <3>1, <3>5, <3>6, <3>7, <3>8, <3>9, Zenon DEF UpOps, OpeningOps, ChainInv
  <2>5. client_got \o (IF pending["in_write"] > 0 THEN in_write_data ELSE <<>>)
            = Cells(1, out_next - 1)
    <3> DEFINE g == Len(client_got)
               w == out_next - 1 - g
    <3>1. /\ g \in Nat /\ out_next \in Nat /\ client_got \in Seq(Int)
          /\ client_got = Cells(1, g)
      BY <2>1 DEF StreamTypes, DownFlow
    <3>2. "in_write" \in Running <=> pending["in_write"] > 0
      BY Zenon DEF Running, Ops
    <3>3. CASE pending["in_write"] > 0
      <4>1. w \in Nat /\ in_write_data = Cells(g + 1, w)
        BY <2>1, <3>2, <3>3, Zenon DEF DownFlow
      <4>2. g + w = out_next - 1
        BY <3>1, <4>1
      <4> HIDE DEF g, w
      <4>3. Cells(1, g) \o Cells(g + 1, w) = Cells(1, g + w)
        BY <3>1, <4>1, CellsGrow, Zenon
      <4>4. client_got \o in_write_data = Cells(1, out_next - 1)
        BY <3>1, <4>1, <4>2, <4>3, Zenon
      <4> QED
        BY <3>3, <4>4, Zenon
    <3>4. CASE ~(pending["in_write"] > 0)
      <4>1. g = out_next - 1
        BY <2>1, <3>2, <3>4, Zenon DEF DownFlow
      <4> HIDE DEF g
      <4>2. client_got \o <<>> = Cells(1, out_next - 1)
        BY <2>e, <3>1, <4>1, Zenon
      <4> QED
        BY <3>4, <4>2, Zenon
    <3> QED
      BY <3>3, <3>4, Zenon
  <2> QED
    BY <2>2, <2>3, <2>4, <2>5, Zenon
<1> QED
  BY <1>1, ChainHolds, FlowHolds, PTL

-------------------------------------------------------------------------------
(* The usage. *)

\* destroy() records the usage, once, and nothing else touches the record.
LEMMA RecordStep ==
  ASSUME [Next /\ UNCHANGED setup]_<<setup, vars>>
  PROVE  IF status # "DESTROY" /\ status' = "DESTROY"
            THEN recorded' = <<recv_len', sent_len'>> ELSE recorded' = recorded
<1> DEFINE Good == IF status # "DESTROY" /\ status' = "DESTROY"
                      THEN recorded' = <<recv_len', sent_len'>> ELSE recorded' = recorded
<1> USE DEF ended
<1>dies. ASSUME NEW done, DestroyFrom(done) PROVE Good
  BY <1>dies, Zenon DEF DestroyFrom
<1>udp. ASSUME NEW done, NEW buf, DispatchNext(done, buf) PROVE Good
  <2>1. CASE status' = "UDP_FORWARD" /\ UNCHANGED ended
    BY <2>1, Zenon
  <2> QED
    BY <1>udp, <1>dies, <2>1, Zenon DEF DispatchNext
<1>1. CASE HandshakeDone \/ PlainHttpRequest \/ ResolveDone \/ ConnectDone \/ OutWriteDone
           \/ InWriteDone \/ InReadLate \/ UdpResolveDone \/ UdpRead
  <2>1. UNCHANGED ended /\ (status' = status \/ status' = "FORWARD")
    BY <1>1, Zenon DEF HandshakeDone, PlainHttpRequest, ResolveDone, ConnectDone, OutWriteDone,
                InWriteDone, InReadLate, UdpResolveDone, UdpRead
  <2> QED
    BY <2>1, Zenon
<1>2. CASE PlainResponseDone \/ UdpOpenFails
  BY <1>2, <1>dies, Zenon DEF PlainResponseDone, UdpOpenFails
<1>3. ASSUME NEW n \in Reads, FrontFrameIncomplete(n) \/ OutRead(n) \/ InReadForward(n)
      PROVE  Good
  <2>1. UNCHANGED ended /\ status' = status
    BY <1>3, Zenon DEF FrontFrameIncomplete, OutRead, InReadForward
  <2> QED
    BY <2>1, Zenon
<1>4. ASSUME NEW n \in Reads, FrontPayloadMissing(n) \/ InReadUdp(n) PROVE Good
  BY <1>4, <1>dies, <1>udp, Zenon DEF FrontPayloadMissing, InReadUdp
<1>5. ASSUME NEW m \in 0..ReadMax, ConnectRequest(m) \/ AssociateRequest(m) PROVE Good
  BY <1>5, <1>udp, Zenon DEF ConnectRequest, AssociateRequest
<1>6. CASE UdpWriteDone
  BY <1>6, <1>udp, Zenon DEF UdpWriteDone
<1>7. ASSUME NEW op \in Ops, OperationFails(op) \/ ShutdownEnds(op) \/ ShutdownEndsAgain(op)
      PROVE  Good
  BY <1>7, <1>dies, Zenon DEF OperationFails, ShutdownEnds, ShutdownEndsAgain
<1>8. CASE UNCHANGED vars
  BY <1>8, Zenon DEF vars
<1> QED
  BY <1>1, <1>2, <1>3, <1>4, <1>5, <1>6, <1>7, <1>8, Zenon DEF Next

\* After destroy() the counter of sent cells moves once at most, by the write in flight.
LEMMA UsageStep ==
  ASSUME ChainInv, FlowInv, FlowInv', UsageInv, [Next /\ UNCHANGED setup]_<<setup, vars>>
  PROVE  UsageInv'
<1> DEFINE Ending == {"out_write", "udp_write", "udp_resolve"}
<1>t. /\ sent_len \in Nat /\ recv_len \in Nat /\ sent_len' \in Nat /\ recv_len' \in Nat
      /\ out_write_data \in Seq(Int) /\ udp_request \in Seq(Int)
  BY Zenon DEF FlowInv, StreamTypes
<1>r. \A op \in Ops : pending[op] > 0 <=> op \in Running
  BY Zenon DEF Running
<1>1. CASE status # "DESTROY" /\ status' = "DESTROY"
  <2>1. recorded' = <<recv_len', sent_len'>>
    BY <1>1, RecordStep, Zenon
  <2>2. recorded' \in Nat \X Nat /\ recorded'[1] = recv_len' /\ recorded'[2] = sent_len'
    BY <1>t, <2>1, Zenon
  <2>z. \A a \in Nat : a - a = 0
    OBVIOUS
  <2>3. sent_len' - recorded'[2] = 0
    BY <1>t, <2>2, <2>z, Zenon
  <2> QED
    BY <2>2, <2>3, Zenon DEF UsageInv
<1>2. CASE status' # "DESTROY"
  BY <1>2, RecordStep, Zenon DEF UsageInv
<1>3. CASE status = "DESTROY" /\ status' = "DESTROY"
  <2>1. recorded' = recorded
    BY <1>3, RecordStep, Zenon
  <2>k. ASSUME UNCHANGED <<recv_len, sent_len, out_write_data, udp_request>>,
               Running' \cap Ending # {} => Running \cap Ending # {}
        PROVE  UsageInv'
    BY <1>3, <2>1, <2>k, Zenon DEF UsageInv
  <2>e. ASSUME NEW done \in Running, Handled(done, {}) PROVE Running' = Running \ {done}
    BY <2>e, HandledRuns DEF ChainInv
  <2>d. ASSUME NEW done \in Running, DestroyFrom(done), UNCHANGED <<upward, meters>>
        PROVE  UsageInv'
    <3>1. Handled(done, {})
      BY <1>3, <2>d, Zenon DEF DestroyFrom
    <3> QED
      BY <2>d, <2>e, <2>k, <3>1, Zenon DEF upward, meters
  <2>n. Running \cap OpeningOps = {}
    BY <1>3, Zenon DEF ChainInv
  <2>2. CASE HandshakeDone \/ PlainHttpRequest \/ PlainResponseDone \/ ResolveDone \/ ConnectDone
    BY <1>r, <2>2, <2>n, Zenon DEF HandshakeDone, PlainHttpRequest, PlainResponseDone, ResolveDone,
                            ConnectDone, OpeningOps, Ops
  <2>3. ASSUME NEW n \in Reads, \/ FrontFrameIncomplete(n) \/ FrontPayloadMissing(n)
                                \/ InReadForward(n) \/ InReadUdp(n)
        PROVE  FALSE
    BY <1>3, <2>3, Zenon DEF FrontFrameIncomplete, FrontPayloadMissing, InReadForward, InReadUdp
  <2>4. ASSUME NEW m \in 0..ReadMax, ConnectRequest(m) \/ AssociateRequest(m) PROVE FALSE
    BY <1>3, <2>4, Zenon DEF ConnectRequest, AssociateRequest, FirstPayload
  <2>5. ASSUME NEW n \in Reads, OutRead(n) PROVE UsageInv'
    BY <1>3, <1>r, <2>e, <2>k, <2>5, Zenon DEF OutRead, upward, Ops
  <2>6. CASE OutWriteDone \/ UdpWriteDone
    <3>1. PICK done \in {"out_write", "udp_write"} :
            /\ done \in Running /\ Handled(done, {})
            /\ sent_len' = sent_len + (IF done = "out_write" THEN Len(out_write_data)
                                                            ELSE Len(udp_request))
            /\ UNCHANGED <<recv_len, out_write_data, udp_request>>
      BY <1>3, <1>r, <2>6, Zenon DEF OutWriteDone, UdpWriteDone, Ops
    <3>2. Running' = Running \ {done}
      BY <2>e, <3>1, Zenon
    <3>3. Running' \cap Ending = {}
      BY <3>1, <3>2 DEF ChainInv, UpOps
    <3>4. sent_len = recorded[2] /\ recorded[1] = recv_len
      BY <1>3, <3>1, Zenon DEF UsageInv
    <3>5. sent_len' - recorded'[2] \in {Len(out_write_data'), Len(udp_request')}
      BY <1>t, <2>1, <3>1, <3>4
    <3> QED
      BY <1>3, <2>1, <3>1, <3>3, <3>4, <3>5, Zenon DEF UsageInv
  <2>7. CASE InWriteDone
    BY <1>3, <1>r, <2>e, <2>k, <2>7, Zenon DEF InWriteDone, upward, meters, Ops
  <2>8. CASE InReadLate
    BY <1>3, <1>r, <2>e, <2>k, <2>8, Zenon DEF InReadLate, upward, meters, Ops
  <2>9. CASE UdpResolveDone
    <3>1. "udp_resolve" \in Running /\ UNCHANGED <<upward, meters>>
      BY <1>r, <2>9, Zenon DEF UdpResolveDone, Ops
    <3> QED
      BY <2>k, <3>1, Zenon DEF upward, meters
  <2>10. CASE UdpOpenFails
    BY <1>r, <2>d, <2>10, Zenon DEF UdpOpenFails, Ops
  <2>11. CASE UdpRead
    BY <1>3, <1>r, <2>e, <2>k, <2>11, Zenon DEF UdpRead, upward, Ops
  <2>12. ASSUME NEW op \in Ops, OperationFails(op) PROVE UsageInv'
    BY <1>r, <2>d, <2>12, Zenon DEF OperationFails
  <2>13. ASSUME NEW op \in Ops, ShutdownEnds(op) \/ ShutdownEndsAgain(op) PROVE UsageInv'
    BY <1>r, <2>e, <2>k, <2>13, Zenon DEF ShutdownEnds, ShutdownEndsAgain, upward, meters
  <2>14. CASE UNCHANGED vars
    BY <2>k, <2>14, Zenon DEF vars, upward, meters, Running
  <2> QED
    BY <2>2, <2>3, <2>4, <2>5, <2>6, <2>7, <2>8, <2>9, <2>10, <2>11, <2>12, <2>13, <2>14, Zenon
    DEF Next
<1> QED
  BY <1>1, <1>2, <1>3, Zenon

\* What the authenticator is told lags behind what the target got by the one write that was in
\* flight at destroy(), and not at all for what came from the target.
THEOREM UsageCorrect == Spec => []UsageLag
<1>1. Init => UsageInv
  BY DEF Init, UsageInv
<1>2. UsageInv /\ FlowInv /\ FlowInv' /\ ChainInv /\ [Next /\ UNCHANGED setup]_<<setup, vars>>
        => UsageInv'
  BY UsageStep, Zenon
<1>3. UsageInv /\ FlowInv => UsageLag
  BY Zenon DEF UsageInv, FlowInv, StreamTypes, UsageLag
<1> QED
  BY <1>1, <1>2, <1>3, ChainHolds, FlowHolds, PTL DEF Spec

-------------------------------------------------------------------------------
(* The limit of the UDP stream buffer. *)

\* In a well framed stream more than MAX_LENGTH cells behind a packet hold a packet.
LEMMA FrameEnds ==
  ASSUME packet_ends \in SUBSET (1..ClientCells), WellFramed,
         NEW s \in {0} \cup packet_ends, NEW l \in Nat, l > MaxLength, s + l <= ClientCells
  PROVE  \E e \in packet_ends : e \in s + 1..s + l
<1> USE ServerSessionAssumption
<1> DEFINE T == {e \in packet_ends : e > s}
<1>0. s \in Nat /\ MaxLength \in Nat /\ ClientCells \in Nat
  OBVIOUS
<1>a. ClientCells > s
  BY <1>0
<1>b. ClientCells \in packet_ends
  BY Zenon DEF WellFramed
<1>c. ClientCells \in T
  BY <1>a, <1>b, Zenon
<1>d. \A e \in T : e \in Nat
  BY <1>0
<1>1. ClientCells \in T /\ T \in SUBSET Nat
  BY <1>c, <1>d, Zenon
<1>2. PICK e \in T : \A y \in T : e <= y
  BY <1>1, Least, Zenon
<1>3. PICK p \in {0} \cup packet_ends : e - p \in 1..MaxLength
  BY <1>2, Zenon DEF WellFramed
<1>4. p \in Int /\ s \in Int /\ e \in Int /\ p < e
  BY <1>2, <1>3
<1>5. ~(p > s)
  BY <1>1, <1>2, <1>3, <1>4
<1>6. e \in packet_ends /\ e > s
  BY <1>2, Zenon
<1> QED
  BY <1>3, <1>4, <1>5, <1>6

\* The parser, on a buffer that starts behind a packet.
LEMMA DispatchLimit ==
  ASSUME ChainInv, packet_ends \in Framings, NEW done \in {"in_read", "udp_write"},
         done \in Running, NEW s \in {0} \cup packet_ends, NEW l \in Nat, s + l <= ClientCells,
         l <= MaxLength + ReadMax, NEW buf, buf = Cells(s + 1, l), DispatchNext(done, buf),
         WellFramed => ~too_long
  PROVE  /\ Len(udp_data_buf') <= MaxLength + ReadMax
         /\ status' # "HANDSHAKE"
         /\ status' = "UDP_FORWARD" =>
               /\ "in_read" \in Running' => Len(udp_data_buf') <= MaxLength
               /\ s + l - Len(udp_data_buf') \in {0} \cup packet_ends
         /\ WellFramed => ~too_long'
<1> USE ServerSessionAssumption
<1>0. /\ done \in UpOps /\ "udp_resolve" \in UpOps /\ "in_read" \in UpOps
      /\ packet_ends \in SUBSET (1..ClientCells) /\ pending[done] > 0 /\ s \in Nat
      /\ s + l - l = s /\ MaxLength \in Nat /\ ReadMax \in Nat
  BY DEF UpOps, Running
<1>1. /\ buf \in Seq(Int) /\ Len(buf) = l
      /\ \A i \in 1..l : buf[i] = s + i
  <2>1. s + 1 \in Int /\ \A i \in 1..l : s + 1 + i - 1 = s + i
    BY <1>0
  <2> QED
    BY <2>1, CellsType, Zenon
<1>2. CASE /\ Complete(buf)
           /\ udp_data_buf' = Rest(buf)
           /\ Handled(done, {"udp_resolve"})
           /\ status' = "UDP_FORWARD" /\ UNCHANGED ended
  <2> DEFINE k == FirstPacketLen(buf)
  <2>1. k \in 1..l /\ buf[k] \in packet_ends
    BY <1>1, <1>2, FirstPacket, Zenon
  <2>2. udp_data_buf' = SubSeq(buf, k + 1, l)
    BY <1>1, <1>2, Zenon DEF Rest
  <2> HIDE DEF k
  <2>3. Len(udp_data_buf') = l - k
    BY <1>1, <2>1, <2>2
  <2>4. s + k \in packet_ends
    BY <1>1, <2>1, Zenon
  <2>5. s + l - Len(udp_data_buf') = s + k /\ Len(udp_data_buf') <= MaxLength + ReadMax
    BY <1>0, <2>1, <2>3
  <2>6. "in_read" \notin Running'
    BY <1>0, <1>2, UpGoes, Zenon
  <2> QED
    BY <1>2, <2>4, <2>5, <2>6, Zenon DEF ended
<1>3. CASE /\ ~TooLong(buf) /\ udp_data_buf' = buf /\ status' = "UDP_FORWARD" /\ UNCHANGED ended
  BY <1>0, <1>1, <1>3 DEF TooLong, ended
<1>4. CASE ~Complete(buf) /\ TooLong(buf) /\ udp_data_buf' = buf /\ DestroyFrom(done)
  <2>1. status' = "DESTROY"
    BY <1>4, Zenon DEF DestroyFrom
  <2>2. ~WellFramed
    <3> SUFFICES ASSUME WellFramed PROVE FALSE
      BY Zenon
    <3>1. l > MaxLength
      BY <1>1, <1>4, Zenon DEF TooLong
    <3>2. PICK e \in packet_ends : e \in s + 1..s + l
      BY <1>0, <3>1, FrameEnds, Zenon
    <3>3. e - s \in 1..l /\ s + (e - s) = e
      BY <1>0, <3>2
    <3>4. buf[e - s] = e /\ e - s \in DOMAIN buf
      BY <1>1, <3>3
    <3> QED
      BY <1>4, <3>2, <3>4, Zenon DEF Complete
  <2> QED
    BY <1>0, <1>1, <1>4, <2>1, <2>2, Zenon
<1> QED
  BY <1>2, <1>3, <1>4, Zenon DEF DispatchNext

\* Every handler keeps the limit.
LEMMA LimitStep ==
  ASSUME ChainInv, FlowInv, FlowInv', LimitInv, [Next /\ UNCHANGED setup]_<<setup, vars>>
  PROVE  LimitInv'
<1> USE ServerSessionAssumption
<1>r. \A op \in Ops : pending[op] > 0 <=> op \in Running
  BY Zenon DEF Running
<1>t. StreamTypes /\ packet_ends' = packet_ends /\ (WellFramed' <=> WellFramed)
  BY Zenon DEF FlowInv, setup, WellFramed
<1>e. packet_ends \in SUBSET (1..ClientCells) /\ packet_ends \in Framings
  BY Zenon DEF LimitInv
<1> DEFINE Quiet == /\ UNCHANGED <<udp_data_buf, too_long>>
                    /\ status' = "UDP_FORWARD" => status = "UDP_FORWARD" /\ in_next' = in_next
                    /\ status' = "HANDSHAKE" => status = "HANDSHAKE" /\ sent_len' = sent_len
<1>quiet. ASSUME Quiet,
                 status' = "UDP_FORWARD" /\ "in_read" \in Running' => "in_read" \in Running
          PROVE  LimitInv'
  BY <1>t, <1>quiet, Zenon DEF LimitInv
<1>starts. ASSUME NEW done, NEW started, "in_read" \notin started, Handled(done, started)
           PROVE  "in_read" \in Running' => "in_read" \in Running
  BY <1>starts DEF Handled, Running, ChainInv, Ops
<1>calm. ASSUME Quiet, NEW done, NEW started, Handled(done, started),
                status' = "UDP_FORWARD" => "in_read" \notin started
         PROVE  LimitInv'
  BY <1>quiet, <1>starts, <1>calm, Zenon
<1>dies. ASSUME NEW done, DestroyFrom(done), UNCHANGED <<udp_data_buf, too_long>>
         PROVE  LimitInv'
  BY <1>quiet, <1>dies, Zenon DEF DestroyFrom
<1>udp. ASSUME NEW done \in {"in_read", "udp_write"}, done \in Running,
               NEW s \in {0} \cup packet_ends, NEW l \in Nat, s + l <= ClientCells,
               l <= MaxLength + ReadMax, DispatchNext(done, Cells(s + 1, l)),
               in_next' - 1 = s + l
        PROVE  LimitInv'
  <2>1. /\ Len(udp_data_buf') <= MaxLength + ReadMax
        /\ status' # "HANDSHAKE"
        /\ status' = "UDP_FORWARD" =>
              /\ "in_read" \in Running' => Len(udp_data_buf') <= MaxLength
              /\ s + l - Len(udp_data_buf') \in {0} \cup packet_ends
        /\ WellFramed => ~too_long'
    BY <1>udp, DispatchLimit, Zenon DEF LimitInv
  <2>2. in_next' - 1 - Len(udp_data_buf') = s + l - Len(udp_data_buf')
    BY <1>udp
  <2> QED
    BY <1>e, <1>t, <2>1, <2>2, Zenon DEF LimitInv
<1>1. CASE HandshakeDone \/ PlainHttpRequest
  <2>1. /\ "handshake" \in Running /\ UNCHANGED <<status, udp_data_buf, in_next, sent_len, too_long>>
    BY <1>1, <1>r, Zenon DEF HandshakeDone, PlainHttpRequest, Ops, upward, meters, ended
  <2>2. status = "HANDSHAKE"
    BY <2>1, Zenon DEF ChainInv, OpeningOps
  <2> QED
    BY <1>quiet, <2>1, <2>2, Zenon
<1>2. CASE PlainResponseDone \/ UdpOpenFails
  BY <1>2, <1>dies, Zenon DEF PlainResponseDone, UdpOpenFails, upward
<1>3. ASSUME NEW n \in Reads, FrontFrameIncomplete(n) PROVE LimitInv'
  BY <1>3, <1>quiet, Zenon DEF FrontFrameIncomplete, ended, meters
<1>4. ASSUME NEW n \in Reads, FrontPayloadMissing(n) PROVE LimitInv'
  BY <1>4, <1>dies, Zenon DEF FrontPayloadMissing, upward
<1>5. ASSUME NEW m \in 0..ReadMax, ConnectRequest(m) PROVE LimitInv'
  BY <1>5, <1>quiet, Zenon DEF ConnectRequest, FirstPayload, ended, meters
<1>6. ASSUME NEW m \in 0..ReadMax, AssociateRequest(m) PROVE LimitInv'
  <2>1. /\ "in_read" \in Running /\ status = "HANDSHAKE"
        /\ DispatchNext("in_read", Cells(in_next, m))
    BY <1>6, <1>r, Zenon DEF AssociateRequest, FirstPayload, Ops
  <2>2. /\ in_next' = in_next + m /\ in_next + m - 1 <= ClientCells /\ m \in Nat
    BY <1>6, SMTT(30) DEF AssociateRequest, FirstPayload
  <2>3. in_next = sent_len + 1 /\ sent_len = 0
    BY <1>t, <2>1 DEF FlowInv, UpFlow, Waiting, StreamTypes, LimitInv
  <2>4. in_next = 0 + 1 /\ in_next' - 1 = 0 + m /\ 0 + m <= ClientCells /\ m <= MaxLength + ReadMax
    BY <2>2, <2>3
  <2>5. DispatchNext("in_read", Cells(0 + 1, m))
    BY <2>1, <2>4, Zenon
  <2> QED
    BY <1>udp, <2>1, <2>2, <2>4, <2>5, Zenon
<1>7. CASE ResolveDone \/ UdpResolveDone
  <2>1. PICK done, started : Handled(done, started) /\ "in_read" \notin started
    BY <1>7 DEF ResolveDone, UdpResolveDone
  <2> QED
    BY <1>7, <1>calm, <2>1, Zenon DEF ResolveDone, UdpResolveDone, upward, meters, ended
<1>8. CASE ConnectDone
  BY <1>8, <1>quiet, Zenon DEF ConnectDone, ended
<1>9. ASSUME NEW n \in Reads, InReadForward(n) PROVE LimitInv'
  BY <1>9, <1>quiet, Zenon DEF InReadForward, ended
<1>10. ASSUME NEW n \in Reads, OutRead(n) PROVE LimitInv'
  <2>1. PICK started \in {{"in_write"}, {}} : Handled("out_read", started)
    BY <1>10, Zenon DEF OutRead
  <2> QED
    BY <1>10, <1>calm, <2>1, Zenon DEF OutRead, upward, ended
<1>11. ASSUME NEW n \in Reads, InReadUdp(n) PROVE LimitInv'
  <2> DEFINE s == sent_len
             l == Waiting + n
  <2>1. /\ "in_read" \in Running /\ status = "UDP_FORWARD"
        /\ DispatchNext("in_read", udp_data_buf \o Cells(in_next, n))
    BY <1>11, <1>r, Zenon DEF InReadUdp, Ops
  <2>2. /\ in_next' = in_next + n /\ in_next + n - 1 <= ClientCells
        /\ n \in Nat /\ in_next \in Nat /\ sent_len \in Nat /\ n <= ReadMax
    BY <1>11, <1>t, SMTT(30) DEF InReadUdp, StreamTypes, Reads
  <2>3. /\ Waiting \in Nat /\ udp_data_buf = Cells(sent_len + 1, Waiting)
        /\ in_next = sent_len + 1 + Waiting
    BY <1>t, <2>1 DEF FlowInv, UpFlow, Waiting, StreamTypes
  <2>4. sent_len + 1 \in Int /\ Len(udp_data_buf) = Waiting
    BY <2>2, <2>3, CellsType
  <2>5. Cells(sent_len + 1, Waiting) \o Cells(sent_len + 1 + Waiting, n)
            = Cells(sent_len + 1, Waiting + n)
    BY <2>2, <2>3, <2>4, CellsJoin, ZenonT(30)
  <2>6. DispatchNext("in_read", Cells(s + 1, l))
    BY <2>1, <2>3, <2>5, Zenon
  <2>7. in_next - 1 - Len(udp_data_buf) = s /\ s \in {0} \cup packet_ends
    BY <2>1, <2>2, <2>3, <2>4 DEF LimitInv
  <2>8. Waiting <= MaxLength
    BY <2>1, <2>4, Zenon DEF LimitInv
  <2>9. /\ l \in Nat /\ l <= MaxLength + ReadMax /\ in_next' - 1 = s + l /\ s + l <= ClientCells
    BY <2>2, <2>3, <2>8
  <2> HIDE DEF s, l
  <2> QED
    BY <1>udp, <2>1, <2>6, <2>7, <2>9, Zenon
<1>12. CASE OutWriteDone
  <2>1. "out_write" \in Running /\ UNCHANGED <<status, udp_data_buf, too_long>>
    BY <1>12, <1>r, Zenon DEF OutWriteDone, Ops, ended
  <2>2. status \in {"FORWARD", "DESTROY"}
    BY <2>1, Zenon DEF ChainInv
  <2> QED
    BY <1>quiet, <2>1, <2>2, Zenon
<1>13. CASE InWriteDone
  <2>1. PICK started \in {{"out_read"}, {"udp_read"}, {}} : Handled("in_write", started)
    BY <1>13, Zenon DEF InWriteDone
  <2> QED
    BY <1>13, <1>calm, <2>1, Zenon DEF InWriteDone, upward, meters, ended
<1>14. CASE InReadLate
  BY <1>14, <1>quiet, Zenon DEF InReadLate, upward, ended
<1>15. CASE UdpWriteDone
  <2>1. "udp_write" \in Running /\ in_next' = in_next
    BY <1>15, <1>r, Zenon DEF UdpWriteDone, Ops
  <2>2. CASE status = "UDP_FORWARD"
    <3> DEFINE r == Len(udp_request)
               s == sent_len + r
               l == Waiting - r
    <3>1. DispatchNext("udp_write", udp_data_buf)
      BY <1>15, <2>2, Zenon DEF UdpWriteDone
    <3>a. /\ Waiting \in Nat /\ Len(udp_request) <= Waiting
          /\ udp_data_buf = Cells(sent_len + 1 + r, l)
      BY <2>1, <2>2, Zenon DEF FlowInv, UpFlow
    <3>b. /\ r \in Nat /\ sent_len \in Nat
          /\ in_next \in Nat /\ in_next - 1 <= ClientCells
      BY <1>t, <2>1 DEF StreamTypes
    <3>2. /\ r \in Nat /\ r <= Waiting /\ Waiting \in Nat /\ sent_len \in Nat
          /\ in_next \in Nat /\ in_next - 1 <= ClientCells /\ Waiting = in_next - 1 - sent_len
          /\ udp_data_buf = Cells(sent_len + 1 + r, l)
      BY <3>a, <3>b, Zenon DEF Waiting
    <3> HIDE DEF r
    <3>3. l \in Nat /\ s \in Nat /\ sent_len + 1 + r = s + 1 /\ s + 1 \in Int
      BY <3>2
    <3>4. in_next - 1 = s + l /\ s + l <= ClientCells
      BY <3>2
    <3> HIDE DEF s, l
    <3>5. udp_data_buf = Cells(s + 1, l)
      BY <3>2, <3>3, Zenon
    <3>6. Len(udp_data_buf) = l
      BY <3>3, <3>5, CellsType, Zenon
    <3>c. /\ Len(udp_data_buf) <= MaxLength + ReadMax
          /\ in_next - 1 - Len(udp_data_buf) \in {0} \cup packet_ends
      BY <2>2, Zenon DEF LimitInv
    <3>d. l <= MaxLength + ReadMax
      BY <3>6, <3>c, Zenon
    <3>e. in_next - 1 - l \in {0} \cup packet_ends
      BY <3>6, <3>c, Zenon
    <3>f. in_next - 1 - l = s
      BY <3>2, <3>3, <3>4
    <3>8. s \in {0} \cup packet_ends
      BY <3>e, <3>f, Zenon
    <3> QED
      BY <1>udp, <2>1, <3>1, <3>3, <3>4, <3>5, <3>d, <3>8, Zenon
  <2>3. CASE status # "UDP_FORWARD"
    <3>1. status \in {"UDP_FORWARD", "DESTROY"}
      BY <2>1, Zenon DEF ChainInv
    <3> QED
      BY <1>15, <1>quiet, <2>3, <3>1, Zenon DEF UdpWriteDone, ended
  <2> QED
    BY <2>2, <2>3, Zenon
<1>16. CASE UdpRead
  <2>1. PICK started \in {{"in_write"}, {}} : Handled("udp_read", started)
    BY <1>16, Zenon DEF UdpRead
  <2> QED
    BY <1>16, <1>calm, <2>1, Zenon DEF UdpRead, upward, ended
<1>17. ASSUME NEW op \in Ops, OperationFails(op) PROVE LimitInv'
  BY <1>17, <1>dies, Zenon DEF OperationFails, upward
<1>18. ASSUME NEW op \in Ops, ShutdownEnds(op) \/ ShutdownEndsAgain(op) PROVE LimitInv'
  <2>1. Handled(op, {}) /\ UNCHANGED <<status, upward, meters, ended>>
    BY <1>18, Zenon DEF ShutdownEnds, ShutdownEndsAgain
  <2> QED
    BY <1>calm, <2>1, Zenon DEF upward, meters, ended
<1>19. CASE UNCHANGED vars
  BY <1>19, <1>quiet, Zenon DEF vars, upward, meters, ended, Running
<1> QED
  BY <1>1, <1>2, <1>3, <1>4, <1>5, <1>6, <1>7, <1>8, <1>9, <1>10, <1>11, <1>12, <1>13, <1>14, <1>15,
     <1>16, <1>17, <1>18, <1>19, Zenon DEF Next

\* The UDP stream buffer stays within one read of MAX_LENGTH, and a session whose client frames
\* its packets within MAX_LENGTH never meets "UDP packet too long", however the stream is cut
\* into reads.
THEOREM UdpLimitCorrect == Spec => []UdpLimitExact
<1>1. Init => LimitInv
  BY ServerSessionAssumption DEF Init, LimitInv
<1>2. LimitInv /\ FlowInv /\ FlowInv' /\ ChainInv /\ [Next /\ UNCHANGED setup]_<<setup, vars>>
        => LimitInv'
  BY LimitStep, Zenon
<1>3. LimitInv => UdpLimitExact
  BY Zenon DEF LimitInv, UdpLimitExact
<1> QED
  BY <1>1, <1>2, <1>3, ChainHolds, FlowHolds, PTL DEF Spec
=============================================================================
