--------------------------- MODULE ClientModesProofs --------------------------
(* The sessions of the run types that dial a server.  A ClientSession, for any    *)
(* number of cells and reads and packets of any size: no payload is lost, doubled *)
(* or reordered, and neither direction of the relay stops or doubles, in whatever *)
(* order reads, writes, the dialling of the tunnel, failures and destroy() come.  *)
(* What is proved of it holds of a ForwardSession.                                *)
EXTENDS ClientModes, TLAPS

-------------------------------------------------------------------------------
(* Sequences.  The provers know these facts as soon as they are stated. *)

\* The empty sequence, and the others.
LEMMA EmptySeq ==
  ASSUME NEW S PROVE <<>> \in Seq(S) /\ Len(<<>>) = 0 /\ \A q \in Seq(S) : q # <<>> => Len(q) \in Nat \ {0}
  OBVIOUS

\* Sequences with the same elements are equal.
LEMMA SeqEqual ==
  ASSUME NEW S, NEW f \in Seq(S), NEW h \in Seq(S), Len(f) = Len(h), \A i \in 1..Len(f) : f[i] = h[i]
  PROVE  f = h
  OBVIOUS

\* What one sequence behind another is.
LEMMA ConcatProperties ==
  ASSUME NEW S, NEW f \in Seq(S), NEW h \in Seq(S)
  PROVE  /\ f \o h \in Seq(S) /\ Len(f \o h) = Len(f) + Len(h)
         /\ \A i \in 1..Len(f) + Len(h) : (f \o h)[i] = IF i <= Len(f) THEN f[i] ELSE h[i - Len(f)]
  OBVIOUS

\* The empty sequence adds nothing.
LEMMA ConcatEmptySeq ==
  ASSUME NEW S, NEW f \in Seq(S) PROVE f \o <<>> = f /\ <<>> \o f = f
  OBVIOUS

\* Concatenation is associative.
LEMMA ConcatAssociative ==
  ASSUME NEW S, NEW f \in Seq(S), NEW h \in Seq(S), NEW k \in Seq(S)
  PROVE  (f \o h) \o k = f \o (h \o k)
  OBVIOUS

\* What SubSeq cuts out.
LEMMA SubSeqProperties ==
  ASSUME NEW S, NEW f, NEW m \in Int, NEW n \in Int, \A i \in m..n : f[i] \in S
  PROVE  /\ SubSeq(f, m, n) \in Seq(S) /\ Len(SubSeq(f, m, n)) = IF m <= n THEN n - m + 1 ELSE 0
         /\ \A i \in 1..n - m + 1 : SubSeq(f, m, n)[i] = f[m + i - 1]
  OBVIOUS

\* All of a sequence.
LEMMA SubSeqFull == ASSUME NEW S, NEW f \in Seq(S) PROVE SubSeq(f, 1, Len(f)) = f
  OBVIOUS

\* Two slices that meet.
LEMMA ConcatAdjacentSubSeq ==
  ASSUME NEW S, NEW f \in Seq(S), NEW m \in 1..Len(f) + 1, NEW k \in m - 1..Len(f), NEW n \in k..Len(f)
  PROVE  SubSeq(f, m, k) \o SubSeq(f, k + 1, n) = SubSeq(f, m, n)
  OBVIOUS

\* What Append adds.
LEMMA AppendProperties ==
  ASSUME NEW S, NEW f \in Seq(S), NEW x \in S
  PROVE  /\ Append(f, x) \in Seq(S) /\ Append(f, x) # <<>> /\ Len(Append(f, x)) = Len(f) + 1
         /\ \A i \in 1..Len(f) : Append(f, x)[i] = f[i]
         /\ Append(f, x)[Len(f) + 1] = x
  OBVIOUS

\* One element of a sequence replaced.
LEMMA ExceptSeq ==
  ASSUME NEW S, NEW f \in Seq(S), NEW i \in 1..Len(f), NEW x \in S
  PROVE  /\ [f EXCEPT ![i] = x] \in Seq(S) /\ Len([f EXCEPT ![i] = x]) = Len(f)
         /\ \A j \in 1..Len(f) : [f EXCEPT ![i] = x][j] = IF j = i THEN x ELSE f[j]
  OBVIOUS

-------------------------------------------------------------------------------
(* The inductive invariant. *)

Early == {"NEW", "HANDSHAKE", "REQUEST", "INVALID"}
Relaying == {"FORWARD", "UDP_FORWARD"}

\* The steps of dialling the server that are pending, and the operations downward.
Dials == pending["resolve"] + pending["connect"] + pending["handshake"]
Downs == pending["out_read"] + pending["in_write"] + pending["udp_write"]

ModesTypes ==
    /\ status \in Early \cup Relaying \cup {"CONNECT", "DESTROY"}
    /\ pending \in [Ops -> Nat]
    /\ in_next \in Nat \ {0} /\ out_next \in Nat \ {0} /\ packet_cells \in Nat \ {0}
    /\ out_write_buf \in Seq(Int) /\ out_write_data \in Seq(Int) /\ server_got \in Seq(Int)
    /\ in_write_data \in Seq(Int) /\ client_got \in Seq(Int) /\ udp_data_buf \in Seq(Int)
    /\ writes \in Seq([next : Nat, len : Nat])

\* Nothing has gone through the tunnel.
Fresh ==
    /\ writes = <<>> /\ server_got = <<>> /\ client_got = <<>> /\ in_write_data = <<>>
    /\ udp_data_buf = <<>> /\ out_next = 1 /\ ~late_read /\ ~empty_recv

\* Until the request is answered there is one operation, on the local connection.
EarlyInv ==
    status \in Early =>
        /\ Fresh /\ Dials = 0 /\ in_next = 1 /\ ~first_packet_recv /\ ~stray
        /\ pending["out_read"] = 0 /\ pending["udp_read"] = 0 /\ pending["udp_write"] = 0
        /\ pending["in_read"] + pending["in_write"] <= 1
        /\ status = "NEW" => pending["in_read"] = 0 /\ pending["in_write"] = 0 /\ ~is_udp
        /\ status = "REQUEST" /\ pending["in_write"] > 0 => out_write_buf = <<0>>

\* While the server is dialled, after a destroy() that came too late for the lookup too, the
\* request and what was read wait in out_write_buf.
DialInv ==
    Dials > 0 =>
        /\ Dials = 1 /\ status \in {"CONNECT", "DESTROY"} /\ Fresh /\ Downs = 0
        /\ pending[Source] <= 1 /\ out_write_buf # <<>>
        /\ stray \/ ~first_packet_recv \/ pending[Source] = 0
        /\ stray \/ out_write_buf = Cells(0, in_next)

WatchInv ==
    /\ status = "CONNECT" => Dials = 1
    /\ status = "DESTROY" => ~in_open /\ ~udp_open
    /\ udp_open => is_udp
    /\ is_udp /\ in_open /\ ~stray /\ status \in {"CONNECT", "UDP_FORWARD"} =>
          pending["in_read"] = 1

RelayInv ==
    status \in Relaying =>
        /\ status = Forwarding /\ Dials = 0 /\ Downs = 1
        /\ late_read \/ stray \/ pending[Source] + Len(writes) = IF empty_recv THEN 0 ELSE 1

UpInv ==
    status \in Relaying /\ ~late_read /\ ~stray =>
        /\ Len(writes) = 1 =>
              /\ writes[1].len = Len(out_write_data)
              /\ writes[1].next \in 1..(writes[1].len + 1)
              /\ server_got \o SubSeq(out_write_data, writes[1].next, writes[1].len)
                    = Cells(0, in_next)
        /\ writes = <<>> => server_got = Cells(0, in_next)

DownInv ==
    status \in Relaying =>
        /\ client_got \o in_write_data \o udp_data_buf = Cells(1, out_next - 1)
        /\ pending["out_read"] > 0 => in_write_data = <<>>
        /\ is_udp \/ udp_data_buf = <<>>
        /\ is_udp => /\ Len(client_got) % packet_cells = 0
                     /\ pending["udp_write"] > 0 => Len(in_write_data) = packet_cells

\* The inductive invariant of DataConserved and RelaysServed.
ModesInv ==
    ModesTypes /\ EarlyInv /\ DialInv /\ WatchInv /\ RelayInv /\ UpInv /\ DownInv

-------------------------------------------------------------------------------
(* Sequences of cells. *)

\* A run of n cells from a.
LEMMA CellsType ==
  ASSUME NEW a \in Int, NEW n \in Nat
  PROVE  /\ Cells(a, n) \in Seq(Int) /\ Len(Cells(a, n)) = n
         /\ \A i \in 1..n : Cells(a, n)[i] = a + i - 1
  BY DEF Cells

\* A run of no cells.
LEMMA CellsEmpty == ASSUME NEW a PROVE Cells(a, 0) = <<>>
  BY DEF Cells

\* Two runs that meet are one run.
LEMMA CellsJoin ==
  ASSUME NEW a \in Int, NEW n \in Nat, NEW m \in Nat
  PROVE  Cells(a, n) \o Cells(a + n, m) = Cells(a, n + m)
<1> DEFINE s == Cells(a, n)
           t == Cells(a + n, m)
           u == Cells(a, n + m)
           c == s \o t
<1>1. s \in Seq(Int) /\ Len(s) = n /\ \A i \in 1..n : s[i] = a + i - 1
  BY CellsType
<1>2. t \in Seq(Int) /\ Len(t) = m /\ \A i \in 1..m : t[i] = a + n + i - 1
  BY CellsType
<1>3. u \in Seq(Int) /\ Len(u) = n + m /\ \A i \in 1..n + m : u[i] = a + i - 1
  BY CellsType
<1> HIDE DEF s, t, u
<1>4. /\ c \in Seq(Int) /\ Len(c) = n + m
      /\ \A i \in 1..n + m : c[i] = IF i <= n THEN s[i] ELSE t[i - n]
  BY <1>1, <1>2, ConcatProperties, ZenonT(30)
<1> HIDE DEF c
<1>5. ASSUME NEW i \in 1..n + m PROVE c[i] = u[i]
  <2>1. i \in Int /\ n \in Int /\ u[i] = a + i - 1
    BY <1>3
  <2>2. CASE i <= n
    <3>1. i \in 1..n
      BY <2>2
    <3>2. c[i] = s[i] /\ s[i] = a + i - 1
      BY <1>1, <1>4, <2>2, <3>1
    <3> QED
      BY <2>1, <3>2
  <2>3. CASE ~(i <= n)
    <3>1. i - n \in 1..m
      BY <2>3
    <3>2. c[i] = t[i - n] /\ t[i - n] = a + n + (i - n) - 1
      BY <1>2, <1>4, <2>3, <3>1
    <3> QED
      BY <2>1, <3>2
  <2> QED
    BY <2>2, <2>3
<1>6. c = u
  BY <1>3, <1>4, <1>5, SeqEqual
<1> QED
  BY <1>6 DEF c, s, t, u

\* A record handed over moves from the write to the server.
LEMMA RecordMoves ==
  ASSUME NEW s \in Seq(Int), NEW d \in Seq(Int), NEW k \in 1..Len(d)
  PROVE  Append(s, d[k]) \o SubSeq(d, k + 1, Len(d)) = s \o SubSeq(d, k, Len(d))
<1> DEFINE n == Len(d)
           m == Len(s)
           a == Append(s, d[k])
           b == SubSeq(d, k + 1, n)
           c == SubSeq(d, k, n)
<1>0. n \in Nat /\ m \in Nat /\ k \in Int /\ 1 <= k /\ k <= n /\ d[k] \in Int
  OBVIOUS
<1>1. a \in Seq(Int) /\ Len(a) = m + 1 /\ a[m + 1] = d[k] /\ \A i \in 1..m : a[i] = s[i]
  BY AppendProperties
<1>2. b \in Seq(Int) /\ Len(b) = n - k /\ \A i \in 1..(n - k) : b[i] = d[k + i]
  BY SubSeqProperties
<1>3. c \in Seq(Int) /\ Len(c) = n - k + 1 /\ \A i \in 1..(n - k + 1) : c[i] = d[k + i - 1]
  BY SubSeqProperties
<1> HIDE DEF n, m, a, b, c
<1>4. /\ a \o b \in Seq(Int) /\ Len(a \o b) = Len(a) + Len(b)
      /\ \A i \in 1..Len(a) + Len(b) : (a \o b)[i] = IF i <= Len(a) THEN a[i] ELSE b[i - Len(a)]
  BY <1>1, <1>2, ConcatProperties, ZenonT(30)
<1>5. /\ s \o c \in Seq(Int) /\ Len(s \o c) = m + Len(c)
      /\ \A i \in 1..m + Len(c) : (s \o c)[i] = IF i <= m THEN s[i] ELSE c[i - m]
  BY <1>3, ConcatProperties DEF m
<1>6. Len(a \o b) = Len(s \o c) /\ Len(a) + Len(b) = m + Len(c)
  BY <1>0, <1>1, <1>2, <1>3, <1>4, <1>5
<1>7. ASSUME NEW i \in 1..m + Len(c) PROVE (a \o b)[i] = (s \o c)[i]
  <2>0. i \in Int /\ 1 <= i /\ i <= m + (n - k + 1)
    BY <1>0, <1>3
  <2>1. CASE i <= m
    <3>1. i <= Len(a) /\ i \in 1..m
      BY <1>0, <1>1, <2>0, <2>1
    <3> QED
      BY <1>1, <1>4, <1>5, <1>6, <2>1, <3>1, Zenon
  <2>2. CASE i = m + 1
    <3>1. ~(i <= m) /\ i <= Len(a) /\ i - m = 1 /\ 1 \in 1..(n - k + 1) /\ k + 1 - 1 = k
      BY <1>0, <1>1, <2>2
    <3>2. (a \o b)[i] = d[k]
      BY <1>1, <1>4, <1>6, <2>2, <3>1
    <3>3. (s \o c)[i] = c[1] /\ c[1] = d[k]
      BY <1>3, <1>5, <3>1, Zenon
    <3> QED
      BY <3>2, <3>3
  <2>3. CASE ~(i <= m) /\ i # m + 1
    <3>1. /\ ~(i <= Len(a)) /\ i - Len(a) \in 1..(n - k) /\ i - m \in 1..(n - k + 1)
          /\ k + (i - Len(a)) = k + (i - m) - 1
      BY <1>0, <1>1, <2>0, <2>3
    <3>2. (a \o b)[i] = b[i - Len(a)] /\ b[i - Len(a)] = d[k + (i - Len(a))]
      BY <1>2, <1>4, <1>6, <3>1, Zenon
    <3>3. (s \o c)[i] = c[i - m] /\ c[i - m] = d[k + (i - m) - 1]
      BY <1>3, <1>5, <2>3, <3>1, Zenon
    <3> QED
      BY <3>1, <3>2, <3>3, Zenon
  <2> QED
    BY <2>1, <2>2, <2>3, Zenon
<1>8. a \o b = s \o c
  BY <1>4, <1>5, <1>6, <1>7, SeqEqual, Zenon
<1> QED
  BY <1>8, Zenon DEF a, b, c, n

\* A buffer is what is cut from it and the rest.
LEMMA CutJoins ==
  ASSUME NEW d \in Seq(Int), NEW k \in 0..Len(d)
  PROVE  /\ SubSeq(d, 1, k) \in Seq(Int) /\ Len(SubSeq(d, 1, k)) = k
         /\ SubSeq(d, k + 1, Len(d)) \in Seq(Int)
         /\ SubSeq(d, 1, k) \o SubSeq(d, k + 1, Len(d)) = d
<1>1. /\ 1 \in 1..Len(d) + 1 /\ k \in (1 - 1)..Len(d) /\ Len(d) \in k..Len(d)
      /\ SubSeq(d, 1, k) \in Seq(Int) /\ Len(SubSeq(d, 1, k)) = k
      /\ SubSeq(d, k + 1, Len(d)) \in Seq(Int)
  OBVIOUS
<1> QED
  BY <1>1, ConcatAdjacentSubSeq, SubSeqFull, ZenonT(30)

\* Packets of p cells and one more.
LEMMA WholePackets ==
  ASSUME NEW m \in Nat, NEW p \in Nat \ {0}, m % p = 0
  PROVE  (m + p) % p = 0
<1> DEFINE a == m \div p + 1
           b == (m + p) \div p
           q == (m + p) % p
<1>1. m = p * (m \div p) + (m % p) /\ a \in Int
  BY Z3
<1>2. m + p = p * a
  BY <1>1, Z3
<1>3. m + p = p * b + q /\ q \in 0..(p - 1) /\ b \in Int
  BY Z3
<1>4. q \in Nat /\ q < p /\ p * a = p * b + q
  BY <1>2, <1>3, Z3
<1> HIDE DEF a, b, q
<1>5. p * (a - b) = q
  BY <1>1, <1>3, <1>4, Z3
<1>6. CASE a - b <= 0
  BY <1>1, <1>3, <1>4, <1>5, <1>6, Z3 DEF q
<1>7. CASE a - b >= 1
  BY <1>1, <1>3, <1>4, <1>5, <1>7, Z3 DEF q
<1> QED
  BY <1>1, <1>3, <1>6, <1>7

-------------------------------------------------------------------------------
(* What the steps share. *)

\* What a handler does to the operations that are outstanding.
LEMMA HandledIs ==
  ASSUME pending \in [Ops -> Nat], NEW done, NEW started,
         \A op \in Ops : op \in done => pending[op] > 0, Handled(done, started)
  PROVE  /\ pending' \in [Ops -> Nat]
         /\ \A op \in Ops : pending'[op] = pending[op] - (IF op \in done THEN 1 ELSE 0)
                                             + (IF op \in started THEN 1 ELSE 0)
  BY DEF Handled

\* Every operation in flight is counted by a natural number.
LEMMA Counts ==
  ASSUME pending \in [Ops -> Nat]
  PROVE  /\ pending["in_read"] \in Nat /\ pending["in_write"] \in Nat
         /\ pending["udp_read"] \in Nat /\ pending["udp_write"] \in Nat
         /\ pending["out_read"] \in Nat /\ pending["resolve"] \in Nat
         /\ pending["connect"] \in Nat /\ pending["handshake"] \in Nat
  BY DEF Ops

\* destroy() closes the local side and ends no operation but the one it is called from.
LEMMA DestroyEffect ==
  ASSUME pending \in [Ops -> Nat], WatchInv, NEW done,
         \A op \in Ops : op \in done => pending[op] > 0, DestroyFrom(done)
  PROVE  /\ status' = "DESTROY" /\ ~in_open' /\ ~udp_open'
         /\ pending' \in [Ops -> Nat]
         /\ \A op \in Ops \ {"shutdown", "timer"} : pending'[op] <= pending[op]
<1>1. CASE status = "DESTROY" /\ Handled(done, {}) /\ UNCHANGED <<status, sockets>>
  <2>1. /\ pending' \in [Ops -> Nat]
        /\ \A op \in Ops : pending'[op] = pending[op] - (IF op \in done THEN 1 ELSE 0)
                                            + (IF op \in {} THEN 1 ELSE 0)
    BY <1>1, HandledIs
  <2>2. \A op \in Ops : pending'[op] <= pending[op]
    BY <2>1
  <2> QED
    BY <1>1, <2>1, <2>2 DEF WatchInv, sockets
<1>2. CASE /\ status' = "DESTROY" /\ in_open' = FALSE /\ udp_open' = FALSE
           /\ Handled(done, IF out_open THEN {"shutdown", "timer"} ELSE {})
  <2> DEFINE started == IF out_open THEN {"shutdown", "timer"} ELSE {}
  <2>1. /\ pending' \in [Ops -> Nat]
        /\ \A op \in Ops : pending'[op] = pending[op] - (IF op \in done THEN 1 ELSE 0)
                                            + (IF op \in started THEN 1 ELSE 0)
    BY <1>2, HandledIs
  <2>2. \A op \in Ops \ {"shutdown", "timer"} : op \notin started
    OBVIOUS
  <2> HIDE DEF started
  <2>3. \A op \in Ops \ {"shutdown", "timer"} : pending'[op] <= pending[op]
    BY <2>1, <2>2
  <2> QED
    BY <1>2, <2>1, <2>3
<1> QED
  BY <1>1, <1>2, Zenon DEF DestroyFrom

\* A destroy() leaves nothing to be relayed, and the dialling of the server as it was.
LEMMA Destroyed ==
  ASSUME ModesInv, NEW done, \A op \in Ops : op \in done => pending[op] > 0,
         DestroyFrom(done),
         (ModesTypes /\ status' = "DESTROY" /\ pending' \in [Ops -> Nat]) => ModesTypes',
         Dials = 0 \/ UNCHANGED <<upward, downward, clientVars>>
  PROVE  ModesInv'
<1> USE DEF ModesInv
<1>1. /\ status' = "DESTROY" /\ ~in_open' /\ ~udp_open'
      /\ pending' \in [Ops -> Nat]
      /\ \A op \in Ops \ {"shutdown", "timer"} : pending'[op] <= pending[op]
  BY DestroyEffect, Zenon DEF ModesTypes
<1>2. ModesTypes'
  BY <1>1
<1>3. EarlyInv' /\ WatchInv' /\ RelayInv' /\ UpInv' /\ DownInv'
  BY <1>1 DEF EarlyInv, WatchInv, RelayInv, UpInv, DownInv, Early, Relaying
<1>4. /\ pending'["in_read"] <= pending["in_read"] /\ pending'["in_write"] <= pending["in_write"]
      /\ pending'["udp_read"] <= pending["udp_read"]
      /\ pending'["udp_write"] <= pending["udp_write"]
      /\ pending'["out_read"] <= pending["out_read"] /\ pending'["resolve"] <= pending["resolve"]
      /\ pending'["connect"] <= pending["connect"]
      /\ pending'["handshake"] <= pending["handshake"]
  BY <1>1 DEF Ops
<1>5. /\ pending["in_read"] \in Nat /\ pending["in_write"] \in Nat
      /\ pending["udp_read"] \in Nat /\ pending["udp_write"] \in Nat
      /\ pending["out_read"] \in Nat /\ pending["resolve"] \in Nat
      /\ pending["connect"] \in Nat /\ pending["handshake"] \in Nat
  BY Counts DEF ModesTypes
<1>6. /\ pending'["in_read"] \in Nat /\ pending'["in_write"] \in Nat
      /\ pending'["udp_read"] \in Nat /\ pending'["udp_write"] \in Nat
      /\ pending'["out_read"] \in Nat /\ pending'["resolve"] \in Nat
      /\ pending'["connect"] \in Nat /\ pending'["handshake"] \in Nat
  BY <1>1 DEF Ops
<1>7. DialInv'
  <2> SUFFICES ASSUME Dials' > 0 PROVE DialInv'
    BY DEF DialInv
  <2>1. Dials > 0 /\ Dials' <= Dials /\ Dials \in Nat /\ Dials' \in Nat
    BY <1>4, <1>5, <1>6 DEF Dials
  <2>2. UNCHANGED <<upward, downward, clientVars>>
    BY <2>1
  <2>3. Dials = 1 /\ Dials' = 1 /\ Downs = 0
    BY <2>1 DEF DialInv
  <2>4. Downs' = 0
    <3>1. pending["out_read"] = 0 /\ pending["in_write"] = 0 /\ pending["udp_write"] = 0
      BY <1>5, <2>3 DEF Downs
    <3>2. pending'["out_read"] = 0 /\ pending'["in_write"] = 0 /\ pending'["udp_write"] = 0
      BY <1>4, <1>6, <3>1
    <3> QED
      BY <3>2 DEF Downs
  <2>5. pending[Source] <= 1 /\ pending'[Source] <= pending[Source]
        /\ pending[Source] \in Nat /\ pending'[Source] \in Nat /\ Source' = Source
    BY <1>4, <1>5, <1>6, <2>1, <2>2, Zenon DEF DialInv, Source, clientVars
  <2>6. Fresh'
    BY <2>1, <2>2 DEF DialInv, Fresh, upward, downward, clientVars
  <2> QED
    BY <1>1, <2>1, <2>2, <2>3, <2>4, <2>5, <2>6 DEF DialInv, upward, clientVars
<1> QED
  BY <1>2, <1>3, <1>7

\* The next stage of dialling, a TLS shutdown or its timer touch nothing that is relayed.
LEMMA Untouched ==
  ASSUME ModesInv, pending' \in [Ops -> Nat], Dials' = Dials,
         pending'["in_read"] = pending["in_read"], pending'["in_write"] = pending["in_write"],
         pending'["udp_read"] = pending["udp_read"],
         pending'["udp_write"] = pending["udp_write"],
         pending'["out_read"] = pending["out_read"],
         UNCHANGED <<status, in_open, udp_open, upward, downward, clientVars>>
  PROVE  ModesInv'
<1> USE DEF ModesInv, upward, downward, clientVars
<1>1. Downs' = Downs /\ Source' = Source /\ Forwarding' = Forwarding
  BY DEF Downs, Source, Forwarding
<1>2. pending'[Source] = pending[Source]
  BY DEF Source
<1>3. Fresh' = Fresh
  BY DEF Fresh
<1>4. ModesTypes'
  BY DEF ModesTypes
<1>5. EarlyInv'
  BY <1>3 DEF EarlyInv
<1>6. DialInv'
  BY <1>1, <1>2, <1>3 DEF DialInv
<1>7. WatchInv'
  BY DEF WatchInv
<1>8. RelayInv'
  BY <1>1, <1>2, SMTT(30) DEF RelayInv
<1>9. UpInv' /\ DownInv'
  BY Zenon DEF UpInv, DownInv
<1> QED
  BY <1>4, <1>5, <1>6, <1>7, <1>8, <1>9

\* A step of the negotiation that goes on.
LEMMA StillEarly ==
  ASSUME ModesInv, status \in Early, status' \in Early \ {"NEW"}, pending' \in [Ops -> Nat],
         Dials' = 0, pending'["out_read"] = 0, pending'["udp_read"] = 0,
         pending'["udp_write"] = 0, pending'["in_read"] + pending'["in_write"] <= 1,
         out_write_buf' \in Seq(Int),
         status' = "REQUEST" /\ pending'["in_write"] > 0 => out_write_buf' = << 0 >>,
         udp_open' => is_udp',
         UNCHANGED <<first_packet_recv, late_read, in_next, out_write_data, writes, server_got,
                     downward, packet_cells, udp_data_buf, empty_recv, stray>>
  PROVE  ModesInv'
<1> USE DEF ModesInv, downward
<1>1. Fresh'
  BY DEF EarlyInv, Fresh
<1>2. ModesTypes'
  BY DEF ModesTypes
<1>3. EarlyInv'
  BY <1>1 DEF EarlyInv
<1>4. DialInv' /\ WatchInv' /\ RelayInv' /\ UpInv' /\ DownInv'
  BY DEF DialInv, WatchInv, RelayInv, UpInv, DownInv, Early, Relaying
<1> QED
  BY <1>1, <1>2, <1>3, <1>4

\* The dialling begins, with the request in out_write_buf.
LEMMA Dialled ==
  ASSUME ModesInv, status \in Early, status' = "CONNECT", pending' \in [Ops -> Nat],
         Dials' = 1, pending'["out_read"] = 0, pending'["in_write"] = 0,
         pending'["udp_write"] = 0, pending'["in_read"] = 1, pending'["udp_read"] <= 1,
         out_write_buf' = << 0 >>, udp_open' => is_udp',
         UNCHANGED <<first_packet_recv, late_read, in_next, out_write_data, writes, server_got,
                     downward, clientVars>>
  PROVE  ModesInv'
<1> USE DEF ModesInv, downward, clientVars
<1>1. Fresh' /\ in_next = 1 /\ ~first_packet_recv
  BY DEF EarlyInv, Fresh
<1>2. out_write_buf' \in Seq(Int)
  OBVIOUS
<1>3. ModesTypes'
  BY <1>2 DEF ModesTypes
<1>4. EarlyInv' /\ WatchInv' /\ RelayInv' /\ UpInv' /\ DownInv'
  BY DEF EarlyInv, WatchInv, RelayInv, UpInv, DownInv, Early, Relaying
<1>5. out_write_buf' = Cells(0, in_next') /\ out_write_buf' # <<>>
  BY <1>1 DEF Cells
<1>6. Downs' = 0 /\ pending'[Source'] <= 1
  BY DEF Downs, Source
<1>7. DialInv'
  BY <1>1, <1>5, <1>6 DEF DialInv
<1> QED
  BY <1>3, <1>4, <1>7

-------------------------------------------------------------------------------
(* The steps of a ClientSession. *)

\* One operation of a negotiation is handled, another one begins.
LEMMA NegotiateStep ==
  ASSUME ModesInv, Negotiate
  PROVE  ModesInv'
<1> USE DEF ModesInv
<1>0. /\ pending["in_read"] \in Nat /\ pending["in_write"] \in Nat
      /\ pending["udp_read"] \in Nat /\ pending["udp_write"] \in Nat
      /\ pending["out_read"] \in Nat /\ pending["resolve"] \in Nat
      /\ pending["connect"] \in Nat /\ pending["handshake"] \in Nat
      /\ pending \in [Ops -> Nat]
  BY Counts DEF ModesTypes
<1>a. ASSUME NEW answer, Answered(answer), status \in {"HANDSHAKE", "REQUEST"}
      PROVE  /\ pending' \in [Ops -> Nat] /\ status' \in Early \ {"NEW"}
             /\ Dials' = 0 /\ pending'["out_read"] = 0 /\ pending'["udp_read"] = 0
             /\ pending'["udp_write"] = 0 /\ pending'["in_read"] + pending'["in_write"] <= 1
  <2>1. /\ pending' \in [Ops -> Nat]
        /\ pending'["in_read"] = pending["in_read"] - 1
        /\ pending'["in_write"] = pending["in_write"] + 1
        /\ pending'["udp_read"] = pending["udp_read"]
        /\ pending'["udp_write"] = pending["udp_write"]
        /\ pending'["out_read"] = pending["out_read"]
        /\ pending'["resolve"] = pending["resolve"] /\ pending'["connect"] = pending["connect"]
        /\ pending'["handshake"] = pending["handshake"]
    BY <1>0, <1>a, HandledIs DEF Answered, Ops
  <2>2. Dials = 0 /\ pending["out_read"] = 0 /\ pending["udp_read"] = 0
        /\ pending["udp_write"] = 0 /\ pending["in_read"] + pending["in_write"] <= 1
    BY <1>a DEF EarlyInv, Early
  <2>3. Dials' = 0
    BY <1>0, <2>1, <2>2 DEF Dials
  <2> QED
    BY <1>0, <1>a, <2>1, <2>2, <2>3 DEF Answered, Early
<1>1. ASSUME Greeting PROVE ModesInv'
  <2>1. PICK answer \in BOOLEAN : Answered(answer)
    BY <1>1 DEF Greeting
  <2>2. status' # "REQUEST"
    BY <1>1, <2>1 DEF Greeting, Answered
  <2>3. status \in Early /\ out_write_buf' \in Seq(Int) /\ (udp_open' => is_udp')
    BY <1>1 DEF Greeting, Early, ModesTypes, WatchInv, sockets, upward, clientVars
  <2> QED
    BY <1>1, <1>a, <2>1, <2>2, <2>3, StillEarly DEF Greeting, sockets, upward, clientVars
<1>2. ASSUME UnsupportedCommand PROVE ModesInv'
  <2>1. Answered(FALSE) /\ status' # "REQUEST"
    BY <1>2 DEF UnsupportedCommand, Answered
  <2>2. status \in Early /\ out_write_buf' \in Seq(Int) /\ (udp_open' => is_udp')
    BY <1>2 DEF UnsupportedCommand, Early, ModesTypes, WatchInv, sockets, upward, clientVars
  <2> QED
    BY <1>2, <1>a, <2>1, <2>2, StillEarly, Zenon DEF UnsupportedCommand, sockets, upward, clientVars
<1>3. ASSUME NEW udp \in BOOLEAN, Request(udp) PROVE ModesInv'
  <2>1. Answered(TRUE) /\ status \in Early /\ out_write_buf' = <<0>> /\ (udp_open' => is_udp')
    BY <1>3, Zenon DEF Request, Early
  <2>2. out_write_buf' \in Seq(Int)
    BY <2>1
  <2> QED
    BY <1>3, <1>a, <2>1, <2>2, StillEarly, Zenon DEF Request, sockets, upward, clientVars
<1>4. ASSUME GreetingSent PROVE ModesInv'
  <2>1. /\ pending' \in [Ops -> Nat]
        /\ pending'["in_read"] = pending["in_read"] + 1
        /\ pending'["in_write"] = pending["in_write"] - 1
        /\ pending'["udp_read"] = pending["udp_read"]
        /\ pending'["udp_write"] = pending["udp_write"]
        /\ pending'["out_read"] = pending["out_read"]
        /\ pending'["resolve"] = pending["resolve"] /\ pending'["connect"] = pending["connect"]
        /\ pending'["handshake"] = pending["handshake"]
    BY <1>0, <1>4, HandledIs DEF GreetingSent, Ops
  <2>2. /\ status \in Early /\ Dials = 0 /\ pending["out_read"] = 0 /\ pending["udp_read"] = 0
        /\ pending["udp_write"] = 0 /\ pending["in_read"] + pending["in_write"] <= 1
    BY <1>4 DEF GreetingSent, EarlyInv, Early
  <2>3. pending["in_read"] = 0 /\ pending["in_write"] = 1 /\ Dials' = 0
    <3>1. pending["in_read"] = 0 /\ pending["in_write"] = 1
      BY <1>0, <1>4, <2>2 DEF GreetingSent
    <3>2. Dials' = 0
      BY <1>0, <2>1, <2>2 DEF Dials
    <3> QED
      BY <3>1, <3>2
  <2>4. status' \in Early \ {"NEW"} /\ out_write_buf' \in Seq(Int) /\ (udp_open' => is_udp')
    BY <1>4 DEF GreetingSent, Early, ModesTypes, WatchInv, sockets, upward, clientVars
  <2> QED
    BY <1>4, <2>1, <2>2, <2>3, <2>4, StillEarly DEF GreetingSent, sockets, upward, clientVars
<1>5. ASSUME ReplySent PROVE ModesInv'
  <2>1. Handled({"in_write"}, {"in_read", Source, "resolve"}) /\ pending["in_write"] > 0
    BY <1>5 DEF ReplySent
  <2>2. /\ status \in Early /\ Dials = 0 /\ pending["out_read"] = 0 /\ pending["udp_read"] = 0
        /\ pending["udp_write"] = 0 /\ pending["in_read"] + pending["in_write"] <= 1
        /\ out_write_buf = <<0>>
    BY <1>5 DEF ReplySent, EarlyInv, Early
  <2>3. /\ pending' \in [Ops -> Nat]
        /\ pending'["in_read"] = pending["in_read"] + 1
        /\ pending'["in_write"] = pending["in_write"] - 1
        /\ pending'["udp_write"] = pending["udp_write"]
        /\ pending'["out_read"] = pending["out_read"]
        /\ pending'["resolve"] = pending["resolve"] + 1
        /\ pending'["connect"] = pending["connect"]
        /\ pending'["handshake"] = pending["handshake"]
    BY <1>0, <2>1, HandledIs DEF Source, Ops
  <2>4. pending'["udp_read"] <= pending["udp_read"] + 1
    BY <1>0, <2>1, HandledIs DEF Ops
  <2>5. /\ pending["in_read"] = 0 /\ pending["in_write"] = 1 /\ Dials' = 1
        /\ pending'["in_read"] = 1 /\ pending'["in_write"] = 0 /\ pending'["udp_read"] <= 1
    <3>1. pending["in_read"] = 0 /\ pending["in_write"] = 1
      BY <1>0, <2>1, <2>2
    <3>2. Dials' = 1
      BY <1>0, <2>2, <2>3 DEF Dials
    <3> QED
      BY <1>0, <2>2, <2>3, <2>4, <3>1, <3>2
  <2>6. udp_open' => is_udp'
    BY <1>5 DEF ReplySent, WatchInv, sockets, clientVars
  <2> QED
    BY <1>5, <2>2, <2>3, <2>5, <2>6, Dialled DEF ReplySent, sockets, upward, clientVars
<1>6. ASSUME BadGreetingOrRequest PROVE ModesInv'
  BY <1>6, Destroyed DEF BadGreetingOrRequest, ModesTypes, upward, downward, clientVars
<1>7. ASSUME AssociateFails PROVE ModesInv'
  <2>1. Dials = 0
    BY <1>7 DEF AssociateFails, EarlyInv, Early
  <2> QED
    BY <1>7, <2>1, Destroyed DEF AssociateFails, ModesTypes, upward, downward
<1>8. ASSUME RefusalSent PROVE ModesInv'
  BY <1>8, Destroyed, SMTT(30) DEF RefusalSent, ModesTypes, upward, downward, clientVars
<1> QED
  BY <1>1, <1>2, <1>3, <1>4, <1>5, <1>6, <1>7, <1>8 DEF Negotiate

\* A write just started hands over its first record.
LEMMA StartWriteUp ==
  ASSUME writes = <<>>, server_got \in Seq(Int), NEW d \in Seq(Int), d # <<>>, StartWrite(d)
  PROVE  /\ writes' = <<[next |-> 2, len |-> Len(d)]>> /\ Len(writes') = 1
         /\ out_write_data' = d
         /\ server_got' \o SubSeq(out_write_data', writes'[1].next, writes'[1].len)
              = server_got \o d
<1>1. /\ writes' = <<[next |-> 2, len |-> Len(d)]>> /\ Len(writes') = 1
      /\ writes'[1] = [next |-> 2, len |-> Len(d)]
      /\ out_write_data' = d /\ server_got' = Append(server_got, d[1])
  BY DEF StartWrite
<1>2. 1 \in 1..Len(d) /\ Len(d) \in Nat
  BY EmptySeq
<1>3. Append(server_got, d[1]) \o SubSeq(d, 1 + 1, Len(d)) = server_got \o SubSeq(d, 1, Len(d))
  BY <1>2, RecordMoves, Zenon
<1>4. SubSeq(d, 1, Len(d)) = d
  BY SubSeqFull
<1>5. writes'[1].next = 2 /\ writes'[1].len = Len(d)
  BY <1>1
<1>6. server_got' \o SubSeq(d, 2, Len(d)) = server_got \o d
  <2>1. 1 + 1 = 2
    OBVIOUS
  <2>2. server_got' = Append(server_got, d[1])
    BY <1>1
  <2> QED
    BY <1>3, <1>4, <2>1, <2>2, Zenon
<1> QED
  BY <1>1, <1>5, <1>6, Zenon

\* Starting a write keeps the types of what it touches.
LEMMA StartWriteType ==
  ASSUME ModesTypes, NEW d \in Seq(Int), d # <<>>, StartWrite(d)
  PROVE  /\ out_write_data' \in Seq(Int) /\ server_got' \in Seq(Int)
         /\ writes' \in Seq([next : Nat, len : Nat])
<1>1. d[1] \in Int /\ [next |-> 2, len |-> Len(d)] \in [next : Nat, len : Nat]
  OBVIOUS
<1> QED
  BY <1>1, AppendProperties DEF StartWrite, ModesTypes

\* So does the end of a write, which is one write less.
LEMMA WriteEndsType ==
  ASSUME ModesTypes, NEW i \in DOMAIN writes, WriteEnds(i)
  PROVE  /\ writes' \in Seq([next : Nat, len : Nat])
         /\ Len(writes') = Len(writes) - 1
<1> DEFINE R == [next : Nat, len : Nat]
           n == Len(writes)
<1>1. writes \in Seq(R) /\ n \in Nat /\ i \in Int /\ 1 <= i /\ i <= n
  BY SMTT(30) DEF ModesTypes
<1> HIDE DEF R
<1>2. SubSeq(writes, 1, i - 1) \in Seq(R) /\ Len(SubSeq(writes, 1, i - 1)) = i - 1
  BY <1>1
<1>3. SubSeq(writes, i + 1, n) \in Seq(R) /\ Len(SubSeq(writes, i + 1, n)) = n - i
  BY <1>1
<1>4. writes' = SubSeq(writes, 1, i - 1) \o SubSeq(writes, i + 1, n)
  BY DEF WriteEnds
<1>5. writes' \in Seq(R) /\ Len(writes') = (i - 1) + (n - i)
  BY <1>2, <1>3, <1>4, ConcatProperties
<1> QED
  BY <1>1, <1>5 DEF R

\* The stages of dialling, the TLS shutdown and the failures.
LEMMA LowerStep ==
  ASSUME ModesInv, UNCHANGED clientVars,
         ResolveDone \/ ConnectDone \/ Failures \/ Shutdowns
  PROVE  ModesInv'
<1> USE DEF ModesInv
<1>0. /\ pending["in_read"] \in Nat /\ pending["in_write"] \in Nat
      /\ pending["udp_read"] \in Nat /\ pending["udp_write"] \in Nat
      /\ pending["out_read"] \in Nat /\ pending["resolve"] \in Nat
      /\ pending["connect"] \in Nat /\ pending["handshake"] \in Nat
      /\ pending \in [Ops -> Nat]
  BY Counts DEF ModesTypes
<1>1. ASSUME ResolveDone PROVE ModesInv'
  <2>1. /\ pending' \in [Ops -> Nat]
        /\ pending'["in_read"] = pending["in_read"]
        /\ pending'["in_write"] = pending["in_write"]
        /\ pending'["udp_read"] = pending["udp_read"]
        /\ pending'["udp_write"] = pending["udp_write"]
        /\ pending'["out_read"] = pending["out_read"]
        /\ pending'["resolve"] = pending["resolve"] - 1
        /\ pending'["connect"] = pending["connect"] + 1
        /\ pending'["handshake"] = pending["handshake"]
    BY <1>0, <1>1, HandledIs DEF ResolveDone, Ops
  <2>2. Dials' = Dials
    BY <1>0, <2>1 DEF Dials
  <2> QED
    BY <1>1, <2>1, <2>2, Untouched DEF ResolveDone
<1>2. ASSUME ConnectDone PROVE ModesInv'
  <2>1. /\ pending' \in [Ops -> Nat]
        /\ pending'["in_read"] = pending["in_read"]
        /\ pending'["in_write"] = pending["in_write"]
        /\ pending'["udp_read"] = pending["udp_read"]
        /\ pending'["udp_write"] = pending["udp_write"]
        /\ pending'["out_read"] = pending["out_read"]
        /\ pending'["resolve"] = pending["resolve"]
        /\ pending'["connect"] = pending["connect"] - 1
        /\ pending'["handshake"] = pending["handshake"] + 1
    BY <1>0, <1>2, HandledIs DEF ConnectDone, Ops
  <2>2. Dials' = Dials
    BY <1>0, <2>1 DEF Dials
  <2> QED
    BY <1>2, <2>1, <2>2, Untouched DEF ConnectDone, sockets
<1>3. ASSUME NEW op \in {"shutdown", "timer"}, ShutdownEnds(op) PROVE ModesInv'
  <2>1. /\ pending' \in [Ops -> Nat]
        /\ pending'["in_read"] = pending["in_read"]
        /\ pending'["in_write"] = pending["in_write"]
        /\ pending'["udp_read"] = pending["udp_read"]
        /\ pending'["udp_write"] = pending["udp_write"]
        /\ pending'["out_read"] = pending["out_read"]
        /\ pending'["resolve"] = pending["resolve"] /\ pending'["connect"] = pending["connect"]
        /\ pending'["handshake"] = pending["handshake"]
    BY <1>0, <1>3, HandledIs DEF ShutdownEnds, Ops
  <2>2. Dials' = Dials
    BY <2>1 DEF Dials
  <2> QED
    BY <1>3, <2>1, <2>2, Untouched DEF ShutdownEnds
<1>4. ASSUME NEW op \in Ops, OperationFails(op) PROVE ModesInv'
  BY <1>4, Destroyed, SMTT(30) DEF OperationFails, ModesTypes, upward, downward, clientVars
<1>5. ASSUME NEW i \in DOMAIN writes, WriteFails(i) PROVE ModesInv'
  <2>1. writes' \in Seq([next : Nat, len : Nat]) /\ writes # <<>>
    BY <1>5, WriteEndsType DEF WriteFails
  <2>2. Dials = 0
    <3>1. ~(Dials > 0)
      BY <2>1 DEF DialInv, Fresh
    <3> QED
      BY <1>0, <3>1 DEF Dials
  <2> QED
    BY <1>5, <2>1, <2>2, Destroyed, Zenon DEF WriteFails, ModesTypes, upward, downward, clientVars
<1> QED
  BY <1>1, <1>2, <1>3, <1>4, <1>5 DEF Failures, Shutdowns

\* The tunnel comes up with the request and what was read as its first write.
LEMMA HandshakeStep ==
  ASSUME ModesInv, HandshakeDone
  PROVE  ModesInv'
<1> USE DEF ModesInv
<1>0. /\ pending["in_read"] \in Nat /\ pending["in_write"] \in Nat
      /\ pending["udp_read"] \in Nat /\ pending["udp_write"] \in Nat
      /\ pending["out_read"] \in Nat /\ pending["resolve"] \in Nat
      /\ pending["connect"] \in Nat /\ pending["handshake"] \in Nat
      /\ pending \in [Ops -> Nat]
  BY Counts DEF ModesTypes
<1>1. /\ pending["handshake"] > 0 /\ status' = Forwarding /\ StartWrite(out_write_buf)
      /\ UNCHANGED <<sockets, first_packet_recv, in_next, out_write_buf, downward, clientVars>>
  BY DEF HandshakeDone, TunnelUp
<1>2. Dials > 0
  BY <1>0, <1>1 DEF Dials
<1>3. /\ Dials = 1 /\ status \in {"CONNECT", "DESTROY"} /\ Fresh /\ Downs = 0
      /\ pending[Source] <= 1 /\ out_write_buf # <<>>
      /\ stray \/ ~first_packet_recv \/ pending[Source] = 0
      /\ stray \/ out_write_buf = Cells(0, in_next)
  BY <1>2 DEF DialInv
<1>4. /\ pending["handshake"] = 1 /\ pending["connect"] = 0 /\ pending["resolve"] = 0
  BY <1>0, <1>1, <1>3 DEF Dials
<1>5. pending["out_read"] = 0 /\ pending["in_write"] = 0 /\ pending["udp_write"] = 0
  BY <1>0, <1>3 DEF Downs
<1>6. Source \in {"in_read", "udp_read"} /\ Source \in Ops /\ pending[Source] \in Nat
      /\ Source' = Source /\ Forwarding' = Forwarding
  BY <1>0, <1>1 DEF Source, Forwarding, clientVars, Ops
<1>7. /\ pending' \in [Ops -> Nat]
      /\ pending'["handshake"] = 0 /\ pending'["connect"] = 0 /\ pending'["resolve"] = 0
      /\ pending'["out_read"] = 1 /\ pending'["in_write"] = 0 /\ pending'["udp_write"] = 0
      /\ is_udp => pending'["in_read"] = pending["in_read"]
      /\ late_read' \/ stray \/ pending'[Source] = 0
  <2>1. CASE /\ ~first_packet_recv
             /\ Handled({"handshake"} \cup {op \in {Source} : pending[op] > 0}, {"out_read"})
    <3> DEFINE done == {"handshake"} \cup {op \in {Source} : pending[op] > 0}
    <3>1. \A op \in Ops : op \in done => pending[op] > 0
      BY <1>1
    <3>2. /\ "handshake" \in done /\ "connect" \notin done /\ "resolve" \notin done
          /\ "out_read" \notin done /\ "in_write" \notin done /\ "udp_write" \notin done
          /\ is_udp => "in_read" \notin done
          /\ Source \in done <=> pending[Source] > 0
      BY <1>6 DEF Source
    <3>3. Handled(done, {"out_read"})
      BY <2>1
    <3> HIDE DEF done
    <3>4. /\ pending' \in [Ops -> Nat]
          /\ \A op \in Ops : pending'[op] = pending[op] - (IF op \in done THEN 1 ELSE 0)
                                + (IF op \in {"out_read"} THEN 1 ELSE 0)
      BY <1>0, <3>1, <3>3, HandledIs
    <3>5. pending'[Source] = 0
      BY <1>3, <1>6, <3>2, <3>4
    <3>6. /\ pending'["handshake"] = 0 /\ pending'["connect"] = 0 /\ pending'["resolve"] = 0
          /\ pending'["out_read"] = 1 /\ pending'["in_write"] = 0 /\ pending'["udp_write"] = 0
      BY <1>4, <1>5, <3>2, <3>4 DEF Ops
    <3>7. is_udp => pending'["in_read"] = pending["in_read"]
      BY <1>0, <3>2, <3>4 DEF Ops
    <3> QED
      BY <3>4, <3>5, <3>6, <3>7
  <2>2. CASE /\ first_packet_recv \/ pending[Source] > 0
             /\ Handled({"handshake"}, {"out_read"})
             /\ late_read' = ~first_packet_recv
    <3>1. /\ pending' \in [Ops -> Nat]
          /\ \A op \in Ops : pending'[op] = pending[op]
                                - (IF op \in {"handshake"} THEN 1 ELSE 0)
                                + (IF op \in {"out_read"} THEN 1 ELSE 0)
      BY <1>0, <1>1, <2>2, HandledIs
    <3>2. pending'[Source] = pending[Source]
      BY <1>6, <3>1
    <3>3. late_read' \/ first_packet_recv
      BY <2>2, Zenon
    <3>4. /\ pending'["handshake"] = 0 /\ pending'["connect"] = 0 /\ pending'["resolve"] = 0
          /\ pending'["out_read"] = 1 /\ pending'["in_write"] = 0 /\ pending'["udp_write"] = 0
      BY <1>4, <1>5, <3>1 DEF Ops
    <3>5. pending'["in_read"] = pending["in_read"]
      BY <1>0, <3>1 DEF Ops
    <3> QED
      BY <1>3, <3>1, <3>2, <3>3, <3>4, <3>5
  <2> QED
    BY <2>1, <2>2 DEF HandshakeDone, TunnelUp
<1>8. out_write_buf \in Seq(Int) /\ writes = <<>> /\ server_got \in Seq(Int) /\ server_got = <<>>
  BY <1>3 DEF ModesTypes, Fresh
<1>9. /\ out_write_data' \in Seq(Int) /\ server_got' \in Seq(Int)
      /\ writes' \in Seq([next : Nat, len : Nat])
  BY <1>1, <1>3, <1>8, StartWriteType
<1>10. /\ writes' = <<[next |-> 2, len |-> Len(out_write_buf)]>> /\ Len(writes') = 1
       /\ out_write_data' = out_write_buf
       /\ server_got' \o SubSeq(out_write_data', writes'[1].next, writes'[1].len)
            = server_got \o out_write_buf
  BY <1>1, <1>3, <1>8, StartWriteUp, Zenon
<1>11. status' \in Relaying /\ status' \notin Early /\ status' \notin {"CONNECT", "DESTROY"}
  BY <1>1 DEF Forwarding, Relaying, Early
<1>12. ModesTypes'
  BY <1>1, <1>7, <1>9, <1>11 DEF ModesTypes, downward, clientVars
<1>13. EarlyInv' /\ DialInv'
  <2>1. Dials' = 0
    BY <1>7 DEF Dials
  <2> QED
    BY <1>11, <2>1 DEF EarlyInv, DialInv
<1>14. WatchInv'
  BY <1>1, <1>3, <1>7, <1>11 DEF WatchInv, sockets, clientVars
<1>15. RelayInv'
  <2>1. Dials' = 0 /\ Downs' = 1
    BY <1>7 DEF Dials, Downs
  <2>2. ~empty_recv' /\ stray' = stray
    BY <1>1, <1>3 DEF Fresh, clientVars
  <2>3. late_read' \/ stray \/ pending'[Source'] + Len(writes') = 1
    BY <1>6, <1>7, <1>10
  <2> QED
    BY <1>1, <1>6, <2>1, <2>2, <2>3 DEF RelayInv
<1>16. UpInv'
  <2>1. server_got \o out_write_buf = out_write_buf
    BY <1>8, ConcatEmptySeq
  <2>2. writes' # <<>> /\ writes'[1].len = Len(out_write_buf) /\ writes'[1].next = 2
    BY <1>10
  <2>3. Len(out_write_buf) \in Nat /\ Len(out_write_buf) # 0
    BY <1>3, <1>8, EmptySeq
  <2>4. writes'[1].len = Len(out_write_data') /\ writes'[1].next \in 1..(writes'[1].len + 1)
    BY <1>10, <2>2, <2>3
  <2>5. stray' \/ out_write_buf = Cells(0, in_next')
    BY <1>1, <1>3 DEF clientVars
  <2> QED
    BY <1>10, <2>1, <2>2, <2>4, <2>5, Zenon DEF UpInv
<1>17. DownInv'
  <2>1. /\ client_got' = <<>> /\ in_write_data' = <<>> /\ udp_data_buf' = <<>>
        /\ out_next' = 1 /\ packet_cells' \in Nat \ {0}
    BY <1>1, <1>3 DEF Fresh, downward, clientVars, ModesTypes
  <2>2. client_got' \o in_write_data' \o udp_data_buf' = Cells(1, out_next' - 1)
    <3>1. <<>> \o <<>> \o <<>> = <<>> /\ out_next' - 1 = 0
      BY <2>1
    <3> QED
      BY <2>1, <3>1, CellsEmpty
  <2>3. Len(client_got') % packet_cells' = 0
    <3>1. \A p \in Nat \ {0} : 0 % p = 0
      BY Z3
    <3>2. Len(client_got') = 0
      BY <2>1
    <3> QED
      BY <2>1, <3>1, <3>2, Zenon
  <2>4. ~(pending'["udp_write"] > 0)
    BY <1>7
  <2> QED
    BY <2>1, <2>2, <2>3, <2>4, Zenon DEF DownInv
<1> QED
  BY <1>12, <1>13, <1>14, <1>15, <1>16, <1>17

\* A first payload is kept behind the request while the server is dialled.
LEMMA RecvConnectStep ==
  ASSUME ModesInv, NEW n \in 1..ReadMax, RecvConnect(n)
  PROVE  ModesInv'
<1> USE DEF ModesInv
<1>0. /\ pending["in_read"] \in Nat /\ pending["in_write"] \in Nat
      /\ pending["udp_read"] \in Nat /\ pending["udp_write"] \in Nat
      /\ pending["out_read"] \in Nat /\ pending["resolve"] \in Nat
      /\ pending["connect"] \in Nat /\ pending["handshake"] \in Nat
      /\ pending \in [Ops -> Nat]
  BY Counts DEF ModesTypes
<1>1. /\ status = "CONNECT" /\ pending[Source] > 0 /\ first_packet_recv'
      /\ out_write_buf' = out_write_buf \o Cells(in_next, n) /\ in_next' = in_next + n
      /\ Handled({Source}, {})
      /\ UNCHANGED <<status, sockets, late_read, out_write_data, writes, server_got, downward,
                     clientVars>>
  BY DEF RecvConnect, FirstPacket
<1>2. Source \in {"in_read", "udp_read"} /\ Source \in Ops /\ Source' = Source
  BY <1>1 DEF Source, clientVars, Ops
<1>3. /\ pending' \in [Ops -> Nat]
      /\ \A op \in Ops : pending'[op] = pending[op] - (IF op \in {Source} THEN 1 ELSE 0)
                                          + (IF op \in {} THEN 1 ELSE 0)
  BY <1>0, <1>1, HandledIs, SMTT(30)
<1>4. Dials = 1
  BY <1>1 DEF WatchInv
<1>5. /\ Fresh /\ Downs = 0 /\ pending[Source] <= 1
      /\ stray \/ out_write_buf = Cells(0, in_next)
  BY <1>4 DEF DialInv
<1>a. pending'[Source] = 0
  BY <1>0, <1>1, <1>2, <1>3, <1>5
<1>6. /\ pending'["in_write"] = pending["in_write"] /\ pending'["udp_write"] = pending["udp_write"]
      /\ pending'["out_read"] = pending["out_read"] /\ pending'["resolve"] = pending["resolve"]
      /\ pending'["connect"] = pending["connect"]
      /\ pending'["handshake"] = pending["handshake"]
  BY <1>0, <1>2, <1>3 DEF Ops
<1>7. is_udp => pending'["in_read"] = pending["in_read"]
  BY <1>0, <1>3 DEF Source, Ops
<1>8. /\ in_next \in Nat /\ in_next # 0 /\ in_next \in Int /\ n \in Nat /\ n # 0
      /\ out_write_buf \in Seq(Int)
  BY TunnelAssumption DEF ModesTypes
<1>9. Cells(in_next, n) \in Seq(Int) /\ Len(Cells(in_next, n)) = n
  BY <1>8, CellsType, Zenon
<1>10. out_write_buf' \in Seq(Int) /\ out_write_buf' # <<>>
  <2>1. out_write_buf' \in Seq(Int) /\ Len(out_write_buf') = Len(out_write_buf) + n
    BY <1>1, <1>8, <1>9, ConcatProperties, Zenon
  <2>2. Len(out_write_buf') # 0
    BY <1>8, <1>9, <2>1
  <2> QED
    BY <2>1, <2>2, EmptySeq
<1>11. stray' \/ out_write_buf' = Cells(0, in_next')
  <2>0. 0 \in Int
    OBVIOUS
  <2>1. Cells(0, in_next) \o Cells(0 + in_next, n) = Cells(0, in_next + n)
    BY <1>8, <2>0, CellsJoin, Zenon
  <2>2. 0 + in_next = in_next
    BY <1>8
  <2> QED
    BY <1>1, <1>5, <2>1, <2>2 DEF clientVars
<1>12. ModesTypes'
  BY <1>1, <1>3, <1>8, <1>10, SMTT(30) DEF ModesTypes, downward, clientVars
<1>13. EarlyInv' /\ RelayInv' /\ UpInv' /\ DownInv'
  BY <1>1 DEF EarlyInv, RelayInv, UpInv, DownInv, Early, Relaying
<1>14. Dials' = 1 /\ Downs' = 0 /\ Fresh'
  BY <1>1, <1>4, <1>5, <1>6 DEF Dials, Downs, Fresh, downward, clientVars
<1>15. DialInv'
  BY <1>1, <1>2, <1>a, <1>10, <1>11, <1>14 DEF DialInv
<1>16. WatchInv'
  BY <1>1, <1>7, <1>14 DEF WatchInv, sockets, clientVars
<1> QED
  BY <1>12, <1>13, <1>15, <1>16

\* What is not payload: data on the control connection, empty and malformed datagrams.
LEMMA StrayStep ==
  ASSUME ModesInv, Stray
  PROVE  ModesInv'
<1> USE DEF ModesInv
<1>0. /\ pending["in_read"] \in Nat /\ pending["in_write"] \in Nat
      /\ pending["udp_read"] \in Nat /\ pending["udp_write"] \in Nat
      /\ pending["out_read"] \in Nat /\ pending["resolve"] \in Nat
      /\ pending["connect"] \in Nat /\ pending["handshake"] \in Nat
      /\ pending \in [Ops -> Nat]
  BY Counts DEF ModesTypes
<1>1. ASSUME StrayConnect PROVE ModesInv'
  <2>0. Handled({"in_read"}, {}) /\ pending["in_read"] > 0
    BY <1>1, Zenon DEF StrayConnect
  <2>1. /\ pending' \in [Ops -> Nat]
        /\ pending'["in_read"] = pending["in_read"] - 1
        /\ pending'["in_write"] = pending["in_write"]
        /\ pending'["udp_read"] = pending["udp_read"]
        /\ pending'["udp_write"] = pending["udp_write"]
        /\ pending'["out_read"] = pending["out_read"]
        /\ pending'["resolve"] = pending["resolve"] /\ pending'["connect"] = pending["connect"]
        /\ pending'["handshake"] = pending["handshake"]
    BY <1>0, <2>0, HandledIs DEF Ops
  <2>2. Dials = 1 /\ is_udp /\ is_udp' = is_udp /\ status' = "CONNECT" /\ stray'
    BY <1>1 DEF StrayConnect, WatchInv
  <2>3. Fresh /\ Downs = 0 /\ pending[Source] <= 1
    BY <2>2 DEF DialInv
  <2>4. out_write_buf' \in Seq(Int) /\ out_write_buf' # <<>>
    <3>1. out_write_buf \in Seq(Int) /\ Garbage \in Int
      BY DEF ModesTypes, Garbage
    <3>2. out_write_buf' = Append(out_write_buf, Garbage)
      BY <1>1 DEF StrayConnect
    <3> QED
      BY <3>1, <3>2
  <2>5. ModesTypes'
    BY <1>1, <2>1, <2>4 DEF StrayConnect, ModesTypes, downward
  <2>6. EarlyInv' /\ RelayInv' /\ UpInv' /\ DownInv'
    BY <2>2 DEF EarlyInv, RelayInv, UpInv, DownInv, Early, Relaying
  <2>7. Dials' = 1 /\ Downs' = 0 /\ Fresh'
    BY <1>1, <2>1, <2>2, <2>3 DEF StrayConnect, Dials, Downs, Fresh, downward
  <2>8. pending'[Source'] <= 1
    BY <2>1, <2>2, <2>3 DEF Source
  <2>9. DialInv'
    BY <2>2, <2>4, <2>7, <2>8 DEF DialInv
  <2>10. WatchInv'
    BY <1>1, <2>2, <2>7 DEF StrayConnect, WatchInv, sockets
  <2> QED
    BY <2>5, <2>6, <2>9, <2>10
<1>2. ASSUME EmptyDatagram PROVE ModesInv'
  <2>0. Handled({"udp_read"}, {}) /\ pending["udp_read"] > 0
    BY <1>2, Zenon DEF EmptyDatagram
  <2>1. /\ pending' \in [Ops -> Nat]
        /\ pending'["in_read"] = pending["in_read"]
        /\ pending'["in_write"] = pending["in_write"]
        /\ pending'["udp_read"] = pending["udp_read"] - 1
        /\ pending'["udp_write"] = pending["udp_write"]
        /\ pending'["out_read"] = pending["out_read"]
        /\ pending'["resolve"] = pending["resolve"] /\ pending'["connect"] = pending["connect"]
        /\ pending'["handshake"] = pending["handshake"]
    BY <1>0, <2>0, HandledIs DEF Ops
  <2>2. /\ is_udp /\ is_udp' = is_udp /\ status' = status /\ status \notin Early
        /\ status # "DESTROY" /\ pending["udp_read"] > 0
        /\ UNCHANGED <<sockets, upward, downward, packet_cells, udp_data_buf, stray>>
    BY <1>2 DEF EmptyDatagram, WatchInv, EarlyInv
  <2>3. Dials' = Dials /\ Downs' = Downs /\ Source = "udp_read" /\ Source' = "udp_read"
        /\ Forwarding' = Forwarding
    BY <2>1, <2>2 DEF Dials, Downs, Source, Forwarding
  <2>4. ModesTypes'
    BY <2>1, <2>2 DEF ModesTypes, upward, downward
  <2>5. EarlyInv'
    BY <2>2 DEF EarlyInv
  <2>6. DialInv'
    <3> SUFFICES ASSUME Dials' > 0 PROVE DialInv'
      BY DEF DialInv
    <3>1. Dials > 0
      BY <2>3
    <3>2. status = "CONNECT" /\ ~empty_recv'
      BY <1>2, <2>2, <3>1, Zenon DEF DialInv, EmptyDatagram
    <3>3. Fresh'
      BY <2>2, <3>1, <3>2 DEF DialInv, Fresh, upward, downward
    <3>4. pending'["udp_read"] = 0
      BY <1>0, <2>1, <2>2, <2>3, <3>1 DEF DialInv
    <3> QED
      BY <2>2, <2>3, <3>1, <3>2, <3>3, <3>4 DEF DialInv, upward
  <2>7. WatchInv'
    BY <2>1, <2>2, <2>3 DEF WatchInv, sockets
  <2>8. RelayInv'
    <3> SUFFICES ASSUME status \in Relaying PROVE RelayInv'
      BY <2>2 DEF RelayInv
    <3>1. status = "UDP_FORWARD"
      BY <2>2 DEF RelayInv, Forwarding
    <3>2. empty_recv'
      BY <1>2, <3>1, Zenon DEF EmptyDatagram
    <3>3. Len(writes) \in Nat
      BY DEF ModesTypes
    <3>4. late_read \/ stray \/ pending["udp_read"] + Len(writes) = 1
      BY <1>0, <2>2, <2>3, <3>3 DEF RelayInv
    <3>5. late_read \/ stray \/ pending'["udp_read"] + Len(writes) = 0
      BY <1>0, <2>1, <2>2, <3>3, <3>4
    <3> QED
      BY <2>2, <2>3, <3>2, <3>5 DEF RelayInv, upward
  <2>9. UpInv' /\ DownInv'
    BY <2>1, <2>2, Zenon DEF UpInv, DownInv, upward, downward
  <2> QED
    BY <2>4, <2>5, <2>6, <2>7, <2>8, <2>9
<1>3. ASSUME BadDatagram PROVE ModesInv'
  BY <1>3, Destroyed DEF BadDatagram, ModesTypes, upward, downward, clientVars
<1>4. ASSUME StrayForward PROVE ModesInv'
  BY <1>4, Destroyed DEF StrayForward, ModesTypes, upward, downward, clientVars
<1> QED
  BY <1>1, <1>2, <1>3, <1>4 DEF Stray

-------------------------------------------------------------------------------
(* With the tunnel up. *)

\* A step of the relay to the server leaves the other direction and the watch alone.
LEMMA UpwardStep ==
  ASSUME ModesInv, Dials = 0, status \notin Early, status' = status,
         pending' \in [Ops -> Nat], Dials' = 0, Downs' = Downs,
         pending'["out_read"] = pending["out_read"],
         pending'["udp_write"] = pending["udp_write"],
         is_udp => pending'["in_read"] = pending["in_read"],
         UNCHANGED <<sockets, downward, clientVars>>, ModesTypes',
         status \in Relaying =>
            late_read' \/ stray \/ pending'[Source] + Len(writes') = IF empty_recv THEN 0 ELSE 1,
         UpInv'
  PROVE  ModesInv'
<1> USE DEF ModesInv
<1>1. EarlyInv' /\ DialInv'
  BY DEF EarlyInv, DialInv
<1>2. WatchInv'
  BY DEF WatchInv, sockets, clientVars
<1>3. Source' = Source /\ Forwarding' = Forwarding
  BY DEF Source, Forwarding, clientVars
<1>4. RelayInv'
  BY <1>3 DEF RelayInv, clientVars
<1>5. DownInv'
  BY DEF DownInv, downward, clientVars
<1> QED
  BY <1>1, <1>2, <1>4, <1>5

\* Of a read and writes that are one at most, with a write among them, the write is alone.
LEMMA OnlyWrite == ASSUME NEW r \in Nat, NEW w \in Nat, w # 0, r + w <= 1 PROVE w = 1 /\ w \in Nat
  OBVIOUS

\* A write that ends and a read that starts leave their number as it was.
LEMMA OneForOne ==
  ASSUME NEW r \in Nat, NEW w \in Nat, NEW n, NEW q, NEW v, r + w = n, q = r + 1, v = w - 1
  PROVE  q + v = n
  OBVIOUS

\* There is a tunnel write only once the tunnel was up.
LEMMA WriteMeansUp ==
  ASSUME ModesInv, writes # <<>>
  PROVE  Dials = 0 /\ status \notin Early
<1> USE DEF ModesInv
<1>0. /\ pending["in_read"] \in Nat /\ pending["in_write"] \in Nat
      /\ pending["udp_read"] \in Nat /\ pending["udp_write"] \in Nat
      /\ pending["out_read"] \in Nat /\ pending["resolve"] \in Nat
      /\ pending["connect"] \in Nat /\ pending["handshake"] \in Nat
      /\ pending \in [Ops -> Nat]
  BY Counts DEF ModesTypes
<1>1. ~(Dials > 0)
  BY DEF DialInv, Fresh
<1>2. status \notin Early
  BY DEF EarlyInv, Fresh
<1> QED
  BY <1>0, <1>1, <1>2 DEF Dials

\* A record of a TLS write that reaches the server keeps the invariant.
LEMMA RecordsStep ==
  ASSUME ModesInv, NEW i \in DOMAIN writes, WriteRecord(i), UNCHANGED clientVars
  PROVE  ModesInv'
<1> USE DEF ModesInv
<1> DEFINE R == [next : Nat, len : Nat]
           k == writes[i].next
           n == writes[i].len
<1>1. /\ k <= n /\ writes' = [writes EXCEPT ![i].next = @ + 1]
      /\ server_got' = Append(server_got, IF k \in DOMAIN out_write_data
                                          THEN out_write_data[k] ELSE Garbage)
      /\ UNCHANGED <<status, pending, sockets, first_packet_recv, late_read, in_next,
                     out_write_buf, out_write_data, downward>>
  BY DEF WriteRecord
<1>2. writes \in Seq(R) /\ out_write_data \in Seq(Int) /\ server_got \in Seq(Int)
  BY DEF ModesTypes
<1>3. writes # <<>> /\ writes[i] \in R /\ k \in Nat /\ n \in Nat /\ i \in 1..Len(writes)
  <2> HIDE DEF R
  <2>1. writes # <<>> /\ writes[i] \in R /\ i \in 1..Len(writes)
    BY <1>2
  <2> QED
    BY <2>1 DEF R
<1>4. Dials = 0 /\ status \notin Early
  BY <1>3, WriteMeansUp
<1>5. writes' \in Seq(R) /\ Len(writes') = Len(writes)
  <2> DEFINE r == [writes[i] EXCEPT !.next = @ + 1]
  <2>1. r \in R /\ writes' = [writes EXCEPT ![i] = r]
    BY <1>1, <1>3
  <2> HIDE DEF r, R
  <2> QED
    BY <1>2, <1>3, <2>1, ExceptSeq
<1>6. server_got' \in Seq(Int)
  <2>1. (IF k \in DOMAIN out_write_data THEN out_write_data[k] ELSE Garbage) \in Int
    BY <1>2 DEF Garbage
  <2> QED
    BY <1>1, <1>2, <2>1, AppendProperties
<1>7. ModesTypes'
  BY <1>1, <1>5, <1>6 DEF ModesTypes, downward, clientVars
<1>8. UpInv'
  <2> SUFFICES ASSUME status \in Relaying, ~late_read, ~stray PROVE UpInv'
    BY <1>1, Zenon DEF UpInv, clientVars
  <2>1. Len(writes) = 1 /\ Len(writes) \in Nat
    <3>1. pending[Source] + Len(writes) = IF empty_recv THEN 0 ELSE 1
      BY DEF RelayInv
    <3>2. pending[Source] \in Nat
      BY DEF ModesTypes, Source, Ops
    <3>3. Len(writes) \in Nat /\ Len(writes) # 0
      BY <1>3
    <3>4. pending[Source] + Len(writes) <= 1
      BY <3>1
    <3> QED
      BY <3>2, <3>3, <3>4, OnlyWrite, Zenon
  <2>2. i = 1
    BY <1>3, <2>1
  <2>3. /\ n = Len(out_write_data) /\ k \in 1..(n + 1)
        /\ server_got \o SubSeq(out_write_data, k, n) = Cells(0, in_next)
    BY <2>1, <2>2, SMTT(30) DEF UpInv
  <2>4. k \in 1..Len(out_write_data) /\ k \in DOMAIN out_write_data
    BY <1>1, <1>2, <1>3, <2>3
  <2>5. server_got' = Append(server_got, out_write_data[k])
    BY <1>1, <2>4
  <2>6. server_got' \o SubSeq(out_write_data, k + 1, n) = server_got \o SubSeq(out_write_data, k, n)
    BY <1>2, <2>3, <2>4, <2>5, RecordMoves, Zenon
  <2>7. writes'[1].next = k + 1 /\ writes'[1].len = n /\ writes' # <<>>
    BY <1>1, <1>2, <1>3, <2>1, <2>2
  <2>8. k + 1 \in 1..(n + 1)
    BY <1>1, <1>3
  <2> HIDE DEF k, n
  <2> QED
    BY <1>1, <2>3, <2>6, <2>7, <2>8, Zenon DEF UpInv
<1>9. Dials' = 0 /\ Downs' = Downs /\ pending' \in [Ops -> Nat]
  BY <1>1, <1>4 DEF Dials, Downs, ModesTypes
<1>10. status \in Relaying =>
          late_read' \/ stray \/ pending'[Source] + Len(writes') = IF empty_recv THEN 0 ELSE 1
  BY <1>1, <1>5, SMTT(30) DEF RelayInv
<1> QED
  BY <1>1, <1>4, <1>7, <1>8, <1>9, <1>10, UpwardStep

\* in_recv of a forwarding session keeps it.
LEMMA RecvForwardStep ==
  ASSUME ModesInv, NEW m \in 1..ReadMax, RecvForward(m)
  PROVE  ModesInv'
<1> USE DEF ModesInv
<1>0. /\ pending["in_read"] \in Nat /\ pending["in_write"] \in Nat
      /\ pending["udp_read"] \in Nat /\ pending["udp_write"] \in Nat
      /\ pending["out_read"] \in Nat /\ pending["resolve"] \in Nat
      /\ pending["connect"] \in Nat /\ pending["handshake"] \in Nat
      /\ pending \in [Ops -> Nat]
  BY Counts DEF ModesTypes
<1>1. /\ status = Forwarding /\ pending[Source] > 0 /\ in_next' = in_next + m
      /\ StartWrite(Cells(in_next, m)) /\ Handled({Source}, {})
      /\ UNCHANGED <<status, sockets, first_packet_recv, late_read, out_write_buf, downward,
                     clientVars>>
  BY DEF RecvForward, LocalRead
<1>2. Source \in {"in_read", "udp_read"} /\ Source \in Ops
  BY DEF Source, Ops
<1>3. /\ pending' \in [Ops -> Nat]
      /\ \A op \in Ops : pending'[op] = pending[op] - (IF op \in {Source} THEN 1 ELSE 0)
                                          + (IF op \in {} THEN 1 ELSE 0)
  BY <1>0, <1>1, HandledIs
<1>4. pending'[Source] = pending[Source] - 1 /\ pending[Source] \in Nat
  BY <1>0, <1>2, <1>3
<1>5. /\ pending'["in_write"] = pending["in_write"] /\ pending'["udp_write"] = pending["udp_write"]
      /\ pending'["out_read"] = pending["out_read"] /\ pending'["resolve"] = pending["resolve"]
      /\ pending'["connect"] = pending["connect"]
      /\ pending'["handshake"] = pending["handshake"]
  BY <1>0, <1>2, <1>3 DEF Ops
<1>6. is_udp => pending'["in_read"] = pending["in_read"]
  BY <1>0, <1>3 DEF Source, Ops
<1>7. /\ in_next \in Nat /\ in_next # 0 /\ in_next \in Int /\ m \in Nat /\ m # 0 /\ 0 \in Int
      /\ server_got \in Seq(Int) /\ writes \in Seq([next : Nat, len : Nat])
  BY TunnelAssumption DEF ModesTypes
<1>8. Cells(in_next, m) \in Seq(Int) /\ Len(Cells(in_next, m)) = m /\ Cells(in_next, m) # <<>>
  <2>1. Cells(in_next, m) \in Seq(Int) /\ Len(Cells(in_next, m)) = m
    BY <1>7, CellsType, Zenon
  <2> QED
    BY <1>7, <2>1, EmptySeq
<1>9. /\ out_write_data' \in Seq(Int) /\ server_got' \in Seq(Int)
      /\ writes' \in Seq([next : Nat, len : Nat])
  BY <1>1, <1>8, StartWriteType
<1>10. status \in Relaying /\ status \notin Early /\ Dials = 0
  <2>1. status \in Relaying /\ status \notin Early
    BY <1>1, SMTT(30) DEF Forwarding, Relaying, Early
  <2> QED
    BY <2>1 DEF RelayInv
<1>11. ModesTypes'
  BY <1>1, <1>3, <1>7, <1>9, SMTT(30) DEF ModesTypes, downward, clientVars
<1>12. ASSUME ~late_read, ~stray
       PROVE  writes = <<>> /\ pending[Source] = 1 /\ ~empty_recv
  <2>1. pending[Source] + Len(writes) = IF empty_recv THEN 0 ELSE 1
    BY <1>10, <1>12 DEF RelayInv
  <2>2. Len(writes) \in Nat
    BY <1>7, SMTT(30)
  <2>3. Len(writes) = 0 /\ pending[Source] = 1 /\ ~empty_recv
    BY <1>1, <1>4, <2>1, <2>2, SMTT(30)
  <2> QED
    BY <1>7, <2>3, EmptySeq
<1>13. UpInv'
  <2> SUFFICES ASSUME ~late_read, ~stray PROVE UpInv'
    BY <1>1, Zenon DEF UpInv, clientVars
  <2>1. server_got = Cells(0, in_next) /\ writes = <<>>
    BY <1>10, <1>12 DEF UpInv
  <2>2. Cells(0, in_next) \o Cells(0 + in_next, m) = Cells(0, in_next + m)
    BY <1>7, CellsJoin, Zenon
  <2>3. 0 + in_next = in_next
    BY <1>7, SMTT(30)
  <2>4. /\ writes' = <<[next |-> 2, len |-> Len(Cells(in_next, m))]>> /\ Len(writes') = 1
        /\ out_write_data' = Cells(in_next, m)
        /\ server_got' \o SubSeq(out_write_data', writes'[1].next, writes'[1].len)
             = server_got \o Cells(in_next, m)
    BY <1>1, <1>7, <1>8, <2>1, StartWriteUp, Zenon
  <2>5. /\ writes' # <<>> /\ writes'[1].len = Len(out_write_data')
        /\ writes'[1].next = 2 /\ writes'[1].len = m
    BY <1>8, <2>4
  <2>6. writes'[1].next \in 1..(writes'[1].len + 1)
    BY <1>7, <2>5
  <2>7. server_got \o Cells(in_next, m) = Cells(0, in_next')
    BY <1>1, <2>1, <2>2, <2>3, SMTT(30)
  <2> QED
    BY <2>4, <2>5, <2>6, <2>7, ZenonT(30) DEF UpInv
<1>14. late_read' \/ stray \/ pending'[Source] + Len(writes') = IF empty_recv THEN 0 ELSE 1
  <2> SUFFICES ASSUME ~late_read, ~stray
               PROVE  pending'[Source] + Len(writes') = 1 /\ ~empty_recv
    BY <1>1
  <2>1. Len(writes') = 1
    BY <1>1, <1>7, <1>8, <1>12, StartWriteUp
  <2> QED
    BY <1>4, <1>12, <2>1
<1>15. Dials' = 0 /\ Downs' = Downs
  BY <1>5, <1>10, SMTT(30) DEF Dials, Downs
<1> QED
  BY <1>1, <1>3, <1>5, <1>6, <1>10, <1>11, <1>13, <1>14, <1>15, UpwardStep, SMTT(30)

\* out_sent keeps it.
LEMMA OutSentStep ==
  ASSUME ModesInv, NEW i \in DOMAIN writes, WriteDone(i, Source, Forwarding), UNCHANGED clientVars
  PROVE  ModesInv'
<1> USE DEF ModesInv
<1>0. /\ pending["in_read"] \in Nat /\ pending["in_write"] \in Nat
      /\ pending["udp_read"] \in Nat /\ pending["udp_write"] \in Nat
      /\ pending["out_read"] \in Nat /\ pending["resolve"] \in Nat
      /\ pending["connect"] \in Nat /\ pending["handshake"] \in Nat
      /\ pending \in [Ops -> Nat]
  BY Counts DEF ModesTypes
<1>1. /\ writes[i].next > writes[i].len /\ status = Forwarding /\ WriteEnds(i)
      /\ Handled({}, {Source})
      /\ UNCHANGED <<status, sockets, first_packet_recv, late_read, in_next, out_write_buf,
                     out_write_data, server_got, downward>>
  BY DEF WriteDone
<1>2. Source \in {"in_read", "udp_read"} /\ Source \in Ops
  BY SMTT(30) DEF Source, Ops
<1>3. /\ pending' \in [Ops -> Nat]
      /\ \A op \in Ops : pending'[op] = pending[op] - (IF op \in {} THEN 1 ELSE 0)
                                          + (IF op \in {Source} THEN 1 ELSE 0)
  BY <1>0, <1>1, HandledIs
<1>4. pending'[Source] = pending[Source] + 1 /\ pending[Source] \in Nat
  BY <1>0, <1>2, <1>3
<1>5. /\ pending'["in_write"] = pending["in_write"] /\ pending'["udp_write"] = pending["udp_write"]
      /\ pending'["out_read"] = pending["out_read"] /\ pending'["resolve"] = pending["resolve"]
      /\ pending'["connect"] = pending["connect"]
      /\ pending'["handshake"] = pending["handshake"]
  BY <1>0, <1>2, <1>3 DEF Ops
<1>6. is_udp => pending'["in_read"] = pending["in_read"]
  BY <1>0, <1>3, SMTT(30) DEF Source, Ops
<1>7. writes' \in Seq([next : Nat, len : Nat]) /\ Len(writes') = Len(writes) - 1
  BY <1>1, WriteEndsType
<1>8. writes # <<>> /\ i \in 1..Len(writes) /\ Len(writes) \in Nat /\ Len(writes) # 0
  BY SMTT(30) DEF ModesTypes
<1>9. Dials = 0 /\ status \notin Early /\ status \in Relaying
  BY <1>1, <1>8, WriteMeansUp, SMTT(30) DEF Forwarding, Relaying
<1>10. ModesTypes'
  BY <1>1, <1>3, <1>7, Zenon DEF ModesTypes, downward, clientVars
<1>11. late_read \/ stray \/ pending[Source] + Len(writes) = IF empty_recv THEN 0 ELSE 1
  BY <1>9 DEF RelayInv
<1>12. late_read' \/ stray \/ pending'[Source] + Len(writes') = IF empty_recv THEN 0 ELSE 1
  <2>1. ASSUME pending[Source] + Len(writes) = IF empty_recv THEN 0 ELSE 1
        PROVE  pending'[Source] + Len(writes') = IF empty_recv THEN 0 ELSE 1
    BY <1>4, <1>7, <1>8, <2>1, OneForOne, SMTT(30)
  <2> QED
    BY <1>1, <1>11, <2>1, Zenon
<1>13. UpInv'
  <2> SUFFICES ASSUME ~late_read, ~stray PROVE UpInv'
    BY <1>1, Zenon DEF UpInv, clientVars
  <2>1. Len(writes) = 1
    <3>1. pending[Source] + Len(writes) <= 1
      BY <1>11
    <3>2. pending[Source] \in Nat /\ Len(writes) \in Nat /\ Len(writes) # 0
      BY <1>4, <1>8
    <3> QED
      BY <3>1, <3>2, OnlyWrite, Zenon
  <2>2. i = 1 /\ Len(writes') = 0 /\ writes' = <<>>
    BY <1>7, <1>8, <2>1, EmptySeq
  <2>3. /\ writes[1].len = Len(out_write_data)
        /\ writes[1].next \in 1..(writes[1].len + 1)
        /\ server_got \o SubSeq(out_write_data, writes[1].next, writes[1].len)
              = Cells(0, in_next)
    BY <1>9, <2>1 DEF UpInv
  <2>4. out_write_data \in Seq(Int) /\ server_got \in Seq(Int) /\ Len(out_write_data) \in Nat
    BY DEF ModesTypes
  <2>5. SubSeq(out_write_data, writes[1].next, writes[1].len) = <<>>
    <3>1. writes[1].next = Len(out_write_data) + 1
      BY <1>1, <2>2, <2>3, <2>4
    <3>2. SubSeq(out_write_data, Len(out_write_data) + 1, Len(out_write_data)) = <<>>
      BY <2>4
    <3> QED
      BY <2>3, <3>1, <3>2, SMTT(30)
  <2>6. server_got = Cells(0, in_next)
    BY <2>3, <2>4, <2>5, ConcatEmptySeq
  <2> QED
    BY <1>1, <2>2, <2>6, SMTT(30) DEF UpInv
<1>14. Dials' = 0 /\ Downs' = Downs
  BY <1>5, <1>9 DEF Dials, Downs
<1> QED
  BY <1>1, <1>3, <1>5, <1>6, <1>9, <1>10, <1>12, <1>13, <1>14, UpwardStep, Zenon

\* A step of the relay to the local side leaves the other direction and the watch alone.
LEMMA DownwardStep ==
  ASSUME ModesInv, status \in Relaying, status' = status,
         pending' \in [Ops -> Nat], Dials' = 0, Downs' = 1,
         pending'["in_read"] = pending["in_read"], pending'["udp_read"] = pending["udp_read"],
         UNCHANGED <<sockets, upward, packet_cells, is_udp, empty_recv, stray>>,
         ModesTypes', DownInv'
  PROVE  ModesInv'
<1> USE DEF ModesInv, upward
<1>1. EarlyInv' /\ DialInv'
  BY DEF EarlyInv, DialInv, Relaying, Early
<1>2. WatchInv'
  BY DEF WatchInv, sockets, Relaying
<1>3. Source' = Source /\ Forwarding' = Forwarding /\ pending'[Source] = pending[Source]
  BY DEF Source, Forwarding
<1>4. RelayInv'
  BY <1>3, SMTT(30) DEF RelayInv
<1>5. UpInv'
  BY DEF UpInv
<1> QED
  BY <1>1, <1>2, <1>4, <1>5

\* out_recv of a TCP session keeps it.
LEMMA OutRecvStep ==
  ASSUME ModesInv, NEW n \in 1..ReadMax, OutRecv(n)
  PROVE  ModesInv'
<1> USE DEF ModesInv
<1>0. /\ pending["in_read"] \in Nat /\ pending["in_write"] \in Nat
      /\ pending["udp_read"] \in Nat /\ pending["udp_write"] \in Nat
      /\ pending["out_read"] \in Nat /\ pending["resolve"] \in Nat
      /\ pending["connect"] \in Nat /\ pending["handshake"] \in Nat
      /\ pending \in [Ops -> Nat]
  BY Counts DEF ModesTypes
<1>1. /\ status = "FORWARD" /\ pending["out_read"] > 0 /\ status \in Relaying
      /\ out_next' = out_next + n /\ in_write_data' = Cells(out_next, n)
      /\ Handled({"out_read"}, {"in_write"})
      /\ UNCHANGED <<status, sockets, upward, client_got, clientVars>>
  BY DEF OutRecv, Relaying
<1>a. Handled({"out_read"}, {"in_write"}) /\ pending["out_read"] > 0
  BY <1>1
<1>2. /\ pending' \in [Ops -> Nat]
      /\ pending'["in_read"] = pending["in_read"]
      /\ pending'["in_write"] = pending["in_write"] + 1
      /\ pending'["udp_read"] = pending["udp_read"]
      /\ pending'["udp_write"] = pending["udp_write"]
      /\ pending'["out_read"] = pending["out_read"] - 1
      /\ pending'["resolve"] = pending["resolve"] /\ pending'["connect"] = pending["connect"]
      /\ pending'["handshake"] = pending["handshake"]
  BY <1>0, <1>a, HandledIs DEF Ops
<1>3. Dials = 0 /\ Downs = 1 /\ ~is_udp /\ in_write_data = <<>> /\ udp_data_buf = <<>>
      /\ client_got \o in_write_data \o udp_data_buf = Cells(1, out_next - 1)
  BY <1>1 DEF RelayInv, DownInv, Forwarding
<1>4. pending["out_read"] = 1 /\ pending["in_write"] = 0 /\ pending["udp_write"] = 0
  BY <1>0, <1>1, <1>3 DEF Downs
<1>5. Dials' = 0
  BY <1>2, <1>3 DEF Dials
<1>6. Downs' = 1 /\ ~(pending'["out_read"] > 0)
  BY <1>2, <1>4 DEF Downs
<1>7. /\ out_next \in Nat /\ out_next # 0 /\ out_next \in Int /\ out_next - 1 \in Nat
      /\ n \in Nat /\ n # 0 /\ client_got \in Seq(Int) /\ 1 \in Int
  BY TunnelAssumption DEF ModesTypes
<1>8. Cells(out_next, n) \in Seq(Int) /\ Cells(1, out_next - 1) \in Seq(Int)
  BY <1>7, CellsType, Zenon
<1>9. ModesTypes'
  <2>1. out_next' \in Nat \ {0} /\ in_write_data' \in Seq(Int) /\ pending' \in [Ops -> Nat]
    BY <1>1, <1>2, <1>7, <1>8, SMTT(30)
  <2> QED
    BY <1>1, <2>1 DEF ModesTypes, upward, clientVars
<1>10. client_got' \o in_write_data' \o udp_data_buf' = Cells(1, out_next' - 1)
  <2>1. client_got = Cells(1, out_next - 1)
    BY <1>3, <1>7, ConcatEmptySeq
  <2>2. Cells(1, out_next - 1) \o Cells(1 + (out_next - 1), n) = Cells(1, (out_next - 1) + n)
    BY <1>7, CellsJoin, Zenon
  <2>3. 1 + (out_next - 1) = out_next /\ (out_next - 1) + n = out_next' - 1
    BY <1>1, <1>7
  <2>4. Cells(1, out_next' - 1) \in Seq(Int)
    <3>1. out_next' - 1 \in Nat
      BY <1>1, <1>7
    <3> QED
      BY <1>7, <3>1, CellsType
  <2>5. client_got' \o in_write_data' = Cells(1, out_next' - 1)
    BY <1>1, <2>1, <2>2, <2>3, Zenon
  <2>6. udp_data_buf' = <<>>
    BY <1>1, <1>3 DEF clientVars
  <2> QED
    BY <2>4, <2>5, <2>6, ConcatEmptySeq
<1>11. DownInv'
  BY <1>1, <1>3, <1>6, <1>10 DEF DownInv, clientVars
<1> QED
  BY <1>1, <1>2, <1>5, <1>6, <1>9, <1>11, DownwardStep DEF clientVars

\* in_sent keeps it.
LEMMA InSentStep ==
  ASSUME ModesInv, InSent
  PROVE  ModesInv'
<1> USE DEF ModesInv
<1>0. /\ pending["in_read"] \in Nat /\ pending["in_write"] \in Nat
      /\ pending["udp_read"] \in Nat /\ pending["udp_write"] \in Nat
      /\ pending["out_read"] \in Nat /\ pending["resolve"] \in Nat
      /\ pending["connect"] \in Nat /\ pending["handshake"] \in Nat
      /\ pending \in [Ops -> Nat]
  BY Counts DEF ModesTypes
<1>1. /\ status = "FORWARD" /\ pending["in_write"] > 0 /\ status \in Relaying
      /\ client_got' = client_got \o in_write_data /\ in_write_data' = <<>>
      /\ Handled({"in_write"}, {"out_read"})
      /\ UNCHANGED <<status, sockets, upward, out_next, clientVars>>
  BY DEF InSent, Relaying
<1>a. Handled({"in_write"}, {"out_read"}) /\ pending["in_write"] > 0
  BY <1>1
<1>2. /\ pending' \in [Ops -> Nat]
      /\ pending'["in_read"] = pending["in_read"]
      /\ pending'["in_write"] = pending["in_write"] - 1
      /\ pending'["udp_read"] = pending["udp_read"]
      /\ pending'["udp_write"] = pending["udp_write"]
      /\ pending'["out_read"] = pending["out_read"] + 1
      /\ pending'["resolve"] = pending["resolve"] /\ pending'["connect"] = pending["connect"]
      /\ pending'["handshake"] = pending["handshake"]
  BY <1>0, <1>a, HandledIs DEF Ops
<1>3. Dials = 0 /\ Downs = 1 /\ ~is_udp /\ udp_data_buf = <<>>
      /\ client_got \o in_write_data \o udp_data_buf = Cells(1, out_next - 1)
  BY <1>1 DEF RelayInv, DownInv, Forwarding
<1>4. pending["in_write"] = 1 /\ pending["out_read"] = 0 /\ pending["udp_write"] = 0
  BY <1>0, <1>1, <1>3 DEF Downs
<1>5. Dials' = 0
  BY <1>2, <1>3 DEF Dials
<1>6. Downs' = 1
  BY <1>2, <1>4 DEF Downs
<1>7. client_got' \in Seq(Int) /\ in_write_data' \in Seq(Int)
  BY <1>1, ConcatProperties DEF ModesTypes
<1>8. ModesTypes'
  BY <1>1, <1>2, <1>7 DEF ModesTypes, upward, clientVars
<1>9. client_got' \o in_write_data' \o udp_data_buf' = Cells(1, out_next' - 1)
  BY <1>1, <1>3, <1>7, ConcatEmptySeq DEF clientVars
<1>10. DownInv'
  BY <1>1, <1>3, <1>9 DEF DownInv, clientVars
<1> QED
  BY <1>1, <1>2, <1>5, <1>6, <1>8, <1>10, DownwardStep DEF clientVars

\* Concatenation is associative.
LEMMA Associative ==
  ASSUME NEW a \in Seq(Int), NEW b \in Seq(Int), NEW c \in Seq(Int)
  PROVE  (a \o b) \o c = a \o (b \o c)
  BY ConcatAssociative

\* The relay to the local side goes on with one operation.
LEMMA TurnOfRelay ==
  ASSUME pending \in [Ops -> Nat], Dials = 0, Downs = 1,
         NEW op \in {"out_read", "udp_write"}, pending[op] > 0,
         NEW begun \in {"out_read", "udp_write"}, Handled({op}, {begun})
  PROVE  /\ pending' \in [Ops -> Nat] /\ Dials' = 0 /\ Downs' = 1
         /\ pending'["in_read"] = pending["in_read"]
         /\ pending'["udp_read"] = pending["udp_read"]
         /\ begun = "udp_write" => pending'["out_read"] = 0
         /\ begun = "out_read" => pending'["udp_write"] = 0
<1>0. /\ pending["in_read"] \in Nat /\ pending["in_write"] \in Nat
      /\ pending["udp_read"] \in Nat /\ pending["udp_write"] \in Nat
      /\ pending["out_read"] \in Nat /\ pending["resolve"] \in Nat
      /\ pending["connect"] \in Nat /\ pending["handshake"] \in Nat
  BY Counts
<1>1. pending["out_read"] + pending["in_write"] + pending["udp_write"] = 1
  BY DEF Downs
<1>2. /\ pending["in_write"] = 0
      /\ op = "out_read" => pending["out_read"] = 1 /\ pending["udp_write"] = 0
      /\ op = "udp_write" => pending["out_read"] = 0 /\ pending["udp_write"] = 1
  <2>1. CASE op = "out_read"
    BY <1>0, <1>1, <2>1
  <2>2. CASE op = "udp_write"
    BY <1>0, <1>1, <2>2
  <2> QED
    BY <2>1, <2>2
<1>3. /\ pending' \in [Ops -> Nat]
      /\ \A o \in Ops : pending'[o] = pending[o] - (IF o \in {op} THEN 1 ELSE 0)
                                        + (IF o \in {begun} THEN 1 ELSE 0)
  BY HandledIs
<1>4. /\ pending'["in_read"] = pending["in_read"] /\ pending'["udp_read"] = pending["udp_read"]
      /\ pending'["resolve"] = pending["resolve"] /\ pending'["connect"] = pending["connect"]
      /\ pending'["handshake"] = pending["handshake"]
      /\ pending'["in_write"] = pending["in_write"]
  BY <1>0, <1>3 DEF Ops
<1>5. /\ pending'["out_read"] = (IF begun = "out_read" THEN 1 ELSE 0)
      /\ pending'["udp_write"] = (IF begun = "udp_write" THEN 1 ELSE 0)
  <2>1. /\ pending'["out_read"] = pending["out_read"] - (IF op = "out_read" THEN 1 ELSE 0)
                                    + (IF begun = "out_read" THEN 1 ELSE 0)
        /\ pending'["udp_write"] = pending["udp_write"] - (IF op = "udp_write" THEN 1 ELSE 0)
                                     + (IF begun = "udp_write" THEN 1 ELSE 0)
    BY <1>0, <1>3 DEF Ops
  <2>2. CASE op = "out_read"
    BY <1>2, <2>1, <2>2
  <2>3. CASE op = "udp_write"
    BY <1>2, <2>1, <2>3
  <2> QED
    BY <2>2, <2>3
<1>6. Dials' = 0
  BY <1>4 DEF Dials
<1>7. Downs' = 1
  BY <1>2, <1>4, <1>5, SMTT(30) DEF Downs
<1> QED
  BY <1>3, <1>4, <1>5, <1>6, <1>7

\* The next packet is cut from what was received and not yet passed on.
LEMMA CutPacketStep ==
  ASSUME ModesInv, status = "UDP_FORWARD", NEW op \in {"out_read", "udp_write"},
         pending[op] > 0, NEW buf \in Seq(Int), CutPacket(buf, {op}),
         client_got' \in Seq(Int), out_next' \in Nat \ {0},
         client_got' \o buf = Cells(1, out_next' - 1), Len(client_got') % packet_cells = 0,
         UNCHANGED <<upward, packet_cells, is_udp, empty_recv, stray>>
  PROVE  ModesInv'
<1> USE DEF ModesInv
<1>0. /\ pending["in_read"] \in Nat /\ pending["in_write"] \in Nat
      /\ pending["udp_read"] \in Nat /\ pending["udp_write"] \in Nat
      /\ pending["out_read"] \in Nat /\ pending["resolve"] \in Nat
      /\ pending["connect"] \in Nat /\ pending["handshake"] \in Nat
      /\ pending \in [Ops -> Nat]
  BY Counts DEF ModesTypes
<1>1. Dials = 0 /\ Downs = 1 /\ is_udp /\ status \in Relaying
  BY DEF RelayInv, Forwarding, Relaying
<1>2. packet_cells \in Nat /\ packet_cells # 0 /\ Len(buf) \in Nat
  <2>1. packet_cells \in Nat \ {0}
    BY DEF ModesTypes
  <2> QED
    BY <2>1
<1>3. \A o \in Ops : o \in {op} => pending[o] > 0
  OBVIOUS
<1>a. ASSUME NEW begun \in {"out_read", "udp_write"}, Handled({op}, {begun})
      PROVE  /\ pending' \in [Ops -> Nat] /\ Dials' = 0 /\ Downs' = 1
             /\ pending'["in_read"] = pending["in_read"]
             /\ pending'["udp_read"] = pending["udp_read"]
             /\ begun = "udp_write" => pending'["out_read"] = 0
             /\ begun = "out_read" => pending'["udp_write"] = 0
  BY <1>0, <1>1, <1>a, TurnOfRelay, Zenon
<1>4. CASE /\ Len(buf) >= packet_cells
           /\ in_write_data' = SubSeq(buf, 1, packet_cells)
           /\ udp_data_buf' = SubSeq(buf, packet_cells + 1, Len(buf))
           /\ Handled({op}, {"udp_write"})
           /\ UNCHANGED <<status, sockets>>
  <2>1. packet_cells \in 0..Len(buf)
    BY <1>2, <1>4
  <2>2. /\ in_write_data' \in Seq(Int) /\ Len(in_write_data') = packet_cells
        /\ udp_data_buf' \in Seq(Int) /\ in_write_data' \o udp_data_buf' = buf
    BY <1>4, <2>1, CutJoins, Zenon
  <2>3. client_got' \o in_write_data' \o udp_data_buf' = Cells(1, out_next' - 1)
    <3>1. (client_got' \o in_write_data') \o udp_data_buf'
             = client_got' \o (in_write_data' \o udp_data_buf')
      BY <2>2, Associative, Zenon
    <3> QED
      BY <2>2, <3>1
  <2>4. /\ pending' \in [Ops -> Nat] /\ Dials' = 0 /\ Downs' = 1
        /\ pending'["in_read"] = pending["in_read"] /\ pending'["udp_read"] = pending["udp_read"]
        /\ pending'["out_read"] = 0
    BY <1>4, <1>a
  <2>5. ModesTypes'
    BY <1>4, <2>2, <2>4, Zenon DEF ModesTypes, upward
  <2>6. DownInv'
    <3>1. /\ ~(pending'["out_read"] > 0) /\ is_udp' /\ packet_cells' = packet_cells
          /\ Len(client_got') % packet_cells' = 0 /\ Len(in_write_data') = packet_cells'
      BY <1>1, <2>2, <2>4
    <3> QED
      BY <2>3, <3>1 DEF DownInv
  <2> QED
    BY <1>1, <1>4, <2>4, <2>5, <2>6, DownwardStep, Zenon
<1>5. CASE /\ Len(buf) < packet_cells /\ Len(buf) > MaxLength
           /\ udp_data_buf' = buf /\ in_write_data' = <<>>
           /\ DestroyFrom({op})
  <2>1. in_write_data' \in Seq(Int)
    BY <1>5
  <2>2. (ModesTypes /\ status' = "DESTROY" /\ pending' \in [Ops -> Nat]) => ModesTypes'
    BY <1>5, <2>1 DEF ModesTypes, upward
  <2> QED
    BY <1>1, <1>3, <1>5, <2>2, Destroyed
<1>6. CASE /\ Len(buf) < packet_cells /\ Len(buf) <= MaxLength
           /\ udp_data_buf' = buf /\ in_write_data' = <<>>
           /\ Handled({op}, {"out_read"})
           /\ UNCHANGED <<status, sockets>>
  <2>1. client_got' \o in_write_data' \o udp_data_buf' = Cells(1, out_next' - 1)
    BY <1>6, ConcatEmptySeq
  <2>2. in_write_data' \in Seq(Int)
    BY <1>6
  <2>3. /\ pending' \in [Ops -> Nat] /\ Dials' = 0 /\ Downs' = 1
        /\ pending'["in_read"] = pending["in_read"] /\ pending'["udp_read"] = pending["udp_read"]
        /\ pending'["udp_write"] = 0
    BY <1>6, <1>a
  <2>4. ModesTypes'
    BY <1>6, <2>2, <2>3 DEF ModesTypes, upward
  <2>5. DownInv'
    <3>1. /\ ~(pending'["udp_write"] > 0) /\ is_udp' /\ packet_cells' = packet_cells
          /\ Len(client_got') % packet_cells' = 0
      BY <1>1, <2>3
    <3> QED
      BY <1>6, <2>1, <3>1 DEF DownInv
  <2> QED
    BY <1>1, <1>6, <2>3, <2>4, <2>5, DownwardStep
<1> QED
  BY <1>4, <1>5, <1>6 DEF CutPacket

\* out_recv of a UDP session keeps it.
LEMMA OutRecvUdpStep ==
  ASSUME ModesInv, NEW n \in 1..ReadMax, OutRecvUdp(n)
  PROVE  ModesInv'
<1> USE DEF ModesInv
<1> DEFINE more == Cells(out_next, n)
           buf == udp_data_buf \o more
<1>1. /\ status = "UDP_FORWARD" /\ pending["out_read"] > 0 /\ status \in Relaying
      /\ out_next' = out_next + n /\ CutPacket(buf, {"out_read"})
      /\ UNCHANGED <<upward, client_got, packet_cells, is_udp, empty_recv, stray>>
  BY DEF OutRecvUdp, Relaying
<1>2. is_udp /\ in_write_data = <<>> /\ Len(client_got) % packet_cells = 0
      /\ client_got \o in_write_data \o udp_data_buf = Cells(1, out_next - 1)
  BY <1>1 DEF RelayInv, DownInv, Forwarding
<1>3. /\ out_next \in Nat /\ out_next # 0 /\ out_next \in Int /\ out_next - 1 \in Nat
      /\ n \in Nat /\ n # 0 /\ client_got \in Seq(Int) /\ udp_data_buf \in Seq(Int) /\ 1 \in Int
  BY TunnelAssumption DEF ModesTypes
<1>4. more \in Seq(Int)
  BY <1>3, CellsType
<1>5. buf \in Seq(Int)
  BY <1>3, <1>4, ConcatProperties
<1>6. client_got \o buf = Cells(1, out_next' - 1)
  <2>1. client_got \o udp_data_buf = Cells(1, out_next - 1)
    BY <1>2, <1>3, ConcatEmptySeq
  <2>2. Cells(1, out_next - 1) \o Cells(1 + (out_next - 1), n) = Cells(1, (out_next - 1) + n)
    BY <1>3, CellsJoin, Zenon
  <2>3. 1 + (out_next - 1) = out_next /\ (out_next - 1) + n = out_next' - 1
    BY <1>1, <1>3
  <2>4. (client_got \o udp_data_buf) \o more = client_got \o buf
    BY <1>3, <1>4, Associative, Zenon
  <2> QED
    BY <2>1, <2>2, <2>3, <2>4, Zenon
<1>7. out_next' \in Nat \ {0}
  BY <1>1, <1>3
<1> HIDE DEF buf
<1> QED
  BY <1>1, <1>2, <1>3, <1>5, <1>6, <1>7, CutPacketStep, Zenon

\* udp_sent keeps it.
LEMMA UdpSentStep ==
  ASSUME ModesInv, UdpSent
  PROVE  ModesInv'
<1> USE DEF ModesInv
<1>1. /\ status = "UDP_FORWARD" /\ pending["udp_write"] > 0 /\ status \in Relaying
      /\ client_got' = client_got \o in_write_data /\ CutPacket(udp_data_buf, {"udp_write"})
      /\ UNCHANGED <<upward, out_next, packet_cells, is_udp, empty_recv, stray>>
  BY DEF UdpSent, Relaying
<1>2. /\ is_udp /\ Len(in_write_data) = packet_cells /\ Len(client_got) % packet_cells = 0
      /\ client_got \o in_write_data \o udp_data_buf = Cells(1, out_next - 1)
  BY <1>1 DEF RelayInv, DownInv, Forwarding
<1>3. /\ client_got \in Seq(Int) /\ in_write_data \in Seq(Int) /\ udp_data_buf \in Seq(Int)
      /\ packet_cells \in Nat \ {0} /\ out_next \in Nat \ {0}
  BY DEF ModesTypes
<1>4. client_got' \in Seq(Int) /\ Len(client_got') = Len(client_got) + packet_cells
  BY <1>1, <1>2, <1>3, ConcatProperties, Zenon
<1>5. Len(client_got') % packet_cells = 0
  <2>1. Len(client_got) \in Nat
    BY <1>3
  <2>2. (Len(client_got) + packet_cells) % packet_cells = 0
    BY <1>2, <1>3, <2>1, WholePackets
  <2> QED
    BY <1>4, <2>2
<1>6. client_got' \o udp_data_buf = Cells(1, out_next' - 1) /\ out_next' \in Nat \ {0}
  BY <1>1, <1>2, <1>3
<1> QED
  BY <1>1, <1>3, <1>4, <1>5, <1>6, CutPacketStep, Zenon

-------------------------------------------------------------------------------
(* A ClientSession. *)

\* A session starts in the invariant.
LEMMA Initially == Init => ModesInv
<1> SUFFICES ASSUME Init PROVE ModesInv
  OBVIOUS
<1>1. /\ status = "HANDSHAKE" /\ pending \in [Ops -> Nat] /\ packet_cells \in Nat \ {0}
      /\ pending["in_read"] = 1 /\ pending["in_write"] = 0 /\ pending["udp_read"] = 0
      /\ pending["udp_write"] = 0 /\ pending["out_read"] = 0 /\ pending["resolve"] = 0
      /\ pending["connect"] = 0 /\ pending["handshake"] = 0
  BY ClientSessionAssumption DEF Init, Idle, Ops
<1>2. Dials = 0
  BY <1>1 DEF Dials
<1>3. ModesTypes
  BY <1>1 DEF Init, ModesTypes, Early
<1>4. Fresh /\ in_next = 1 /\ ~first_packet_recv /\ ~stray /\ ~udp_open
  BY DEF Init, Fresh
<1>5. EarlyInv
  BY <1>1, <1>2, <1>4 DEF EarlyInv
<1>6. DialInv /\ WatchInv /\ RelayInv /\ UpInv /\ DownInv
  BY <1>1, <1>2, <1>4 DEF DialInv, WatchInv, RelayInv, UpInv, DownInv, Relaying
<1> QED
  BY <1>3, <1>5, <1>6 DEF ModesInv

\* Every handler of the relay keeps the invariant.
LEMMA RelayStep ==
  ASSUME ModesInv, Relay
  PROVE  ModesInv'
<1>1. ASSUME NEW n \in 1..ReadMax, RecvConnect(n) \/ RecvForward(n) \/ OutRecv(n) \/ OutRecvUdp(n)
      PROVE  ModesInv'
  BY <1>1, RecvConnectStep, RecvForwardStep, OutRecvStep, OutRecvUdpStep
<1>2. ASSUME OutSent PROVE ModesInv'
  BY <1>2, OutSentStep DEF OutSent
<1> QED
  BY <1>1, <1>2, InSentStep, UdpSentStep DEF Relay

\* The inductive invariant is preserved by every handler of a ClientSession.
LEMMA ClientStep == ModesInv /\ [Next]_vars => ModesInv'
<1> SUFFICES ASSUME ModesInv, [Next]_vars PROVE ModesInv'
  OBVIOUS
<1>1. ASSUME Lower PROVE ModesInv'
  <2>1. ASSUME NEW i \in DOMAIN writes, WriteRecord(i) PROVE ModesInv'
    BY <1>1, <2>1, RecordsStep DEF Lower
  <2> QED
    BY <1>1, <2>1, LowerStep DEF Lower, Records
<1>2. ASSUME UNCHANGED vars PROVE ModesInv'
  <2>1. UNCHANGED <<status, pending, in_open, udp_open, upward, downward, clientVars>>
    BY <1>2 DEF vars, tunnelVars, sockets
  <2>2. Dials' = Dials /\ pending' \in [Ops -> Nat]
    BY <2>1 DEF Dials, ModesInv, ModesTypes
  <2> QED
    BY <2>1, <2>2, Untouched
<1> QED
  BY <1>1, <1>2, NegotiateStep, HandshakeStep, RelayStep, StrayStep DEF Next

\* PayloadConserved and RelaysServed rest on the invariant.
LEMMA ModesEnough == ModesInv => PayloadConserved /\ RelaysServed
<1> SUFFICES ASSUME ModesInv PROVE PayloadConserved /\ RelaysServed
  OBVIOUS
<1>1. status = "CONNECT" => stray \/ out_write_buf = Cells(0, in_next)
  BY DEF ModesInv, WatchInv, DialInv
<1>2. PayloadConserved
  BY <1>1 DEF ModesInv, PayloadConserved, UpwardConserved, UpInv, Relaying
<1>3. RelaysServed
  BY DEF ModesInv, WatchInv, RelayInv, DownInv, RelaysServed, Relaying, Downs
<1> QED
  BY <1>2, <1>3

-------------------------------------------------------------------------------
(* A ForwardSession takes the steps of a CONNECT, but for its start. *)

\* Every step of ForwardSession keeps the invariant of the relay.
LEMMA ForwardStep ==
  ASSUME ModesInv, ~is_udp, ForwardNext, UNCHANGED clientVars
  PROVE  ModesInv'
<1> USE DEF sockets, upward, downward
<1>0. Source = "in_read" /\ Forwarding = "FORWARD" /\ SourceOpen = in_open
  BY DEF Source, Forwarding, SourceOpen
<1>1. ASSUME Start PROVE ModesInv'
  <2>1. /\ status = "NEW" /\ status \in Early /\ status' = "CONNECT" /\ out_write_buf' = <<0>>
        /\ Handled({}, {"in_read", "resolve"})
        /\ UNCHANGED <<in_open, out_open, udp_open, first_packet_recv, late_read, in_next,
                       out_write_data, writes, server_got, downward>>
    BY <1>1 DEF Start, Early
  <2>2. pending \in [Ops -> Nat]
    BY DEF ModesInv, ModesTypes
  <2>3. /\ pending["in_read"] \in Nat /\ pending["in_write"] \in Nat
        /\ pending["udp_read"] \in Nat /\ pending["udp_write"] \in Nat
        /\ pending["out_read"] \in Nat /\ pending["resolve"] \in Nat
        /\ pending["connect"] \in Nat /\ pending["handshake"] \in Nat
    BY <2>2, Counts
  <2>4. /\ pending' \in [Ops -> Nat]
        /\ pending'["in_read"] = pending["in_read"] + 1
        /\ pending'["in_write"] = pending["in_write"]
        /\ pending'["udp_read"] = pending["udp_read"]
        /\ pending'["udp_write"] = pending["udp_write"]
        /\ pending'["out_read"] = pending["out_read"]
        /\ pending'["resolve"] = pending["resolve"] + 1
        /\ pending'["connect"] = pending["connect"]
        /\ pending'["handshake"] = pending["handshake"]
    BY <2>1, <2>2, <2>3, HandledIs DEF Ops
  <2>5. /\ Dials = 0 /\ pending["out_read"] = 0 /\ pending["udp_read"] = 0
        /\ pending["udp_write"] = 0 /\ pending["in_read"] = 0 /\ pending["in_write"] = 0
        /\ (udp_open => is_udp)
    BY <2>1 DEF ModesInv, EarlyInv, WatchInv
  <2>6. Dials' = 1
    BY <2>3, <2>4, <2>5 DEF Dials
  <2>7. /\ pending'["in_read"] = 1 /\ pending'["out_read"] = 0 /\ pending'["in_write"] = 0
        /\ pending'["udp_write"] = 0 /\ pending'["udp_read"] <= 1 /\ (udp_open' => is_udp')
    BY <2>1, <2>4, <2>5 DEF clientVars
  <2> QED
    BY <2>1, <2>4, <2>6, <2>7, Dialled
<1>2. ASSUME StartFails PROVE ModesInv'
  <2>1. DestroyFrom({}) /\ UNCHANGED <<upward, downward>>
    BY <1>2 DEF StartFails
  <2>2. (ModesTypes /\ status' = "DESTROY" /\ pending' \in [Ops -> Nat]) => ModesTypes'
    BY <2>1 DEF ModesTypes, clientVars
  <2> QED
    BY <2>1, <2>2, Destroyed
<1>3. ASSUME ResolveDone \/ ConnectDone \/ Shutdowns \/ Failures PROVE ModesInv'
  BY <1>3, LowerStep
<1>4. ASSUME Records PROVE ModesInv'
  BY <1>4, RecordsStep DEF Records
<1>5. ASSUME ForwardHandshakeDone PROVE ModesInv'
  <2>1. HandshakeDone
    BY <1>0, <1>5 DEF ForwardHandshakeDone, HandshakeDone
  <2> QED
    BY <2>1, HandshakeStep
<1>6. ASSUME InRecvConnect PROVE ModesInv'
  <2>1. PICK n \in 1..ReadMax : FirstPacket("in_read", n)
    BY <1>6 DEF InRecvConnect
  <2>2. RecvConnect(n)
    BY <1>0, <1>6, <2>1 DEF RecvConnect, InRecvConnect
  <2> QED
    BY <2>2, RecvConnectStep
<1>7. ASSUME InRecvForward PROVE ModesInv'
  <2>1. PICK n \in 1..ReadMax : LocalRead("in_read", "FORWARD", n)
    BY <1>7 DEF InRecvForward
  <2>2. RecvForward(n)
    BY <1>0, <1>7, <2>1 DEF RecvForward, InRecvForward
  <2> QED
    BY <2>2, RecvForwardStep
<1>8. ASSUME ForwardOutSent PROVE ModesInv'
  <2>1. PICK i \in DOMAIN writes : WriteDone(i, "in_read", "FORWARD")
    BY <1>8 DEF ForwardOutSent
  <2>2. WriteDone(i, Source, Forwarding)
    BY <1>0, <2>1
  <2> QED
    BY <2>2, OutSentStep
<1>9. ASSUME NEW n \in 1..ReadMax, ForwardOutRecv(n) PROVE ModesInv'
  <2>1. OutRecv(n)
    BY <1>9, Zenon DEF ForwardOutRecv, OutRecv
  <2> QED
    BY <2>1, OutRecvStep
<1>10. ASSUME ForwardInSent PROVE ModesInv'
  <2>1. InSent
    BY <1>10, Zenon DEF ForwardInSent, InSent
  <2> QED
    BY <2>1, InSentStep
<1> QED
  BY <1>1, <1>2, <1>3, <1>4, <1>5, <1>6, <1>7, <1>8, <1>9, <1>10 DEF ForwardNext

-------------------------------------------------------------------------------
(* The sessions of both kinds. *)

\* A session that is not a ClientSession never becomes an associate.
SessionsInv == ModesInv /\ (run_type # "client" => ~is_udp)

\* Both kinds of session start in the invariant.
LEMMA SessionsInitially == ModesInit => SessionsInv
<1> SUFFICES ASSUME ModesInit PROVE SessionsInv
  OBVIOUS
<1>1. CASE run_type = "client" /\ Init
  BY <1>1, Initially DEF SessionsInv
<1>2. CASE /\ run_type # "client" /\ ForwardInit
           /\ packet_cells = 1 /\ is_udp = FALSE /\ udp_data_buf = <<>>
           /\ empty_recv = FALSE /\ stray = FALSE
  <2>1. /\ status = "NEW" /\ pending \in [Ops -> Nat] /\ ~is_udp
        /\ pending["in_read"] = 0 /\ pending["in_write"] = 0 /\ pending["udp_read"] = 0
        /\ pending["udp_write"] = 0 /\ pending["out_read"] = 0 /\ pending["resolve"] = 0
        /\ pending["connect"] = 0 /\ pending["handshake"] = 0
    BY <1>2 DEF ForwardInit, Idle, Ops
  <2>2. Dials = 0
    BY <2>1 DEF Dials
  <2>3. ModesTypes
    BY <1>2, <2>1 DEF ForwardInit, ModesTypes, Early
  <2>4. Fresh /\ in_next = 1 /\ ~first_packet_recv /\ ~stray /\ ~udp_open
    BY <1>2 DEF ForwardInit, Fresh
  <2>5. EarlyInv
    BY <2>1, <2>2, <2>4, SMTT(30) DEF EarlyInv
  <2>6. DialInv /\ WatchInv /\ RelayInv /\ UpInv /\ DownInv
    BY <2>1, <2>2, <2>4 DEF DialInv, WatchInv, RelayInv, UpInv, DownInv, Relaying
  <2> QED
    BY <2>1, <2>3, <2>5, <2>6 DEF ModesInv, SessionsInv
<1> QED
  BY <1>1, <1>2, Zenon DEF ModesInit

\* A step of either run type keeps it.
LEMMA SessionsStep == SessionsInv /\ [ModesNext]_<<run_type, vars>> => SessionsInv'
<1> SUFFICES ASSUME SessionsInv, [ModesNext]_<<run_type, vars>> PROVE SessionsInv'
  OBVIOUS
<1>1. CASE run_type = "client" /\ Next /\ UNCHANGED run_type
  BY <1>1, ClientStep DEF SessionsInv
<1>2. CASE run_type = "forward" /\ ForwardNext /\ UNCHANGED <<run_type, clientVars>>
  <2>1. ~is_udp /\ ~is_udp'
    BY <1>2 DEF SessionsInv, clientVars
  <2> QED
    BY <1>2, <2>1, ForwardStep DEF SessionsInv
<1>3. CASE UNCHANGED <<run_type, vars>>
  <2>1. UNCHANGED run_type /\ UNCHANGED is_udp
    BY <1>3 DEF vars, clientVars
  <2> QED
    BY <1>3, <2>1, ClientStep DEF SessionsInv
<1> QED
  BY <1>1, <1>2, <1>3 DEF ModesNext

\* PayloadConserved, for in_recv, udp_recv, out_sent and the dialling of the tunnel: what was
\* read from the local side and is not dropped by destroy() has reached the server, is being
\* written or is queued, once and in order, however reads, the dialling and the writes cross.
THEOREM PayloadCorrect == ModesSpec => []PayloadConserved
<1>1. SessionsInv => PayloadConserved
  BY ModesEnough DEF SessionsInv
<1> QED
  BY <1>1, SessionsInitially, SessionsStep, PTL DEF ModesSpec

\* RelaysServed, for the handlers of ClientSession and ForwardSession that read on and write
\* on: whatever the order of their completions neither direction stops or doubles, the control
\* connection of an associate stays watched, and packets are cut where they end.
THEOREM RelaysCorrect == ModesSpec => []RelaysServed
<1>1. SessionsInv => RelaysServed
  BY ModesEnough DEF SessionsInv
<1> QED
  BY <1>1, SessionsInitially, SessionsStep, PTL DEF ModesSpec
===============================================================================
