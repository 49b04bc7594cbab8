--------------------------- MODULE ClientStateProofs --------------------------
(* The state that the client side keeps beside its sessions.  Of UDP forwarding, *)
(* for any set of senders and sessions, any timeout and any bound: a sender has  *)
(* one session at a time, which loses, repeats and reorders no datagram and      *)
(* ends when it is idle.  Of the secure storage and the profile store of the     *)
(* desktop client, for every set of profiles, keys and values: what was written  *)
(* is found again.  Each part is argued about by itself, as its specification    *)
(* leaves the others alone.                                                      *)
EXTENDS UdpForward, SecretStore, StateStores, TLAPS

-------------------------------------------------------------------------------
(* Sequences.  The provers know the first facts as soon as they are stated. *)

\* The empty sequence adds nothing.
LEMMA ConcatEmptySeq == ASSUME NEW S, NEW f \in Seq(S) PROVE f \o <<>> = f
  OBVIOUS

\* Concatenation is associative.
LEMMA ConcatAssociative ==
  ASSUME NEW S, NEW f \in Seq(S), NEW h \in Seq(S), NEW k \in Seq(S)
  PROVE  (f \o h) \o k = f \o (h \o k)
  OBVIOUS

\* Append is concatenation.
LEMMA AppendIsConcat == ASSUME NEW S, NEW f \in Seq(S), NEW x \in S PROVE Append(f, x) = f \o <<x>>
  OBVIOUS

\* One sequence behind another.
LEMMA ConcatProperties ==
    ASSUME NEW S, NEW f \in Seq(S), NEW h \in Seq(S)
    PROVE  /\ f \o h \in Seq(S) /\ Len(f \o h) = Len(f) + Len(h)
           /\ \A i \in 1..Len(f) + Len(h) :
                 (f \o h)[i] = IF i <= Len(f) THEN f[i] ELSE h[i - Len(f)]
  OBVIOUS

\* What SubSeq cuts out.
LEMMA SubSeqProperties ==
    ASSUME NEW S, NEW f, NEW m \in Nat, NEW n \in Nat, \A i \in m..n : f[i] \in S
    PROVE  /\ SubSeq(f, m, n) \in Seq(S)
           /\ Len(SubSeq(f, m, n)) = IF m <= n THEN n - m + 1 ELSE 0
           /\ \A i \in 1..n - m + 1 : SubSeq(f, m, n)[i] = f[m + i - 1]
  OBVIOUS

\* What Append adds.
LEMMA AppendProperties ==
    ASSUME NEW S, NEW f \in Seq(S), NEW x \in S
    PROVE  /\ Append(f, x) \in Seq(S) /\ Len(Append(f, x)) = Len(f) + 1
           /\ \A i \in 1..Len(f) : Append(f, x)[i] = f[i]
           /\ Append(f, x)[Len(f) + 1] = x
  OBVIOUS

\* What landing a write leaves of the writes under way.
RemoveAt(s, i) == SubSeq(s, 1, i - 1) \o SubSeq(s, i + 1, Len(s))

\* A sequence without its i-th element.
LEMMA RemoveAtType ==
    ASSUME NEW S, NEW s \in Seq(S), NEW i \in 1..Len(s)
    PROVE  /\ RemoveAt(s, i) \in Seq(S)
           /\ Len(RemoveAt(s, i)) = Len(s) - 1
           /\ \A j \in 1..Len(s) - 1 : RemoveAt(s, i)[j] = IF j < i THEN s[j] ELSE s[j + 1]
<1> DEFINE a == SubSeq(s, 1, i - 1)
           b == SubSeq(s, i + 1, Len(s))
<1>1. /\ a \in Seq(S) /\ Len(a) = i - 1
      /\ \A j \in 1..i - 1 : a[j] = s[j]
  BY SubSeqProperties
<1>2. /\ b \in Seq(S) /\ Len(b) = Len(s) - i
      /\ \A j \in 1..Len(s) - i : b[j] = s[i + j]
  BY SubSeqProperties
<1>3. /\ a \o b \in Seq(S) /\ Len(a \o b) = Len(a) + Len(b)
      /\ \A j \in 1..Len(a) + Len(b) :
            (a \o b)[j] = IF j <= Len(a) THEN a[j] ELSE b[j - Len(a)]
  BY <1>1, <1>2, ConcatProperties, Zenon
<1>4. RemoveAt(s, i) = a \o b
  BY Zenon DEF RemoveAt
<1> HIDE DEF a, b
<1>5. Len(a) + Len(b) = Len(s) - 1
  BY <1>1, <1>2
<1>6. ASSUME NEW j \in 1..Len(s) - 1
      PROVE  (a \o b)[j] = IF j < i THEN s[j] ELSE s[j + 1]
  <2>1. CASE j < i
    BY <1>1, <1>3, <1>5, <2>1
  <2>2. CASE ~(j < i)
    <3>1. (a \o b)[j] = b[j - Len(a)]
      BY <1>1, <1>3, <1>5, <2>2, SMTT(30)
    <3>2. j - Len(a) \in 1..Len(s) - i /\ i + (j - Len(a)) = j + 1
      BY <1>1, <2>2
    <3> QED
      BY <1>2, <2>2, <3>1, <3>2, Zenon
  <2> QED
    BY <2>1, <2>2, Zenon
<1> QED
  BY <1>3, <1>4, <1>5, <1>6, Zenon

-------------------------------------------------------------------------------
(* The UDP side of the forward run type. *)

Flags == [Sessions -> BOOLEAN]
Queues == [Sessions -> Seq(Nat)]

UdpTypes ==
    /\ received \in Nat
    /\ udp_sessions \in [Endpoints -> Sessions \cup {NoSession}]
    /\ u_status \in [Sessions -> Live \cup {"FREE", "DESTROY"}]
    /\ owner = [s \in Sessions |-> owner[s]]
    /\ dialing \in [Sessions -> {"none", "resolve", "connect", "handshake"}]
    /\ reading \in Flags /\ writing \in Flags
    /\ deadline = [s \in Sessions |-> deadline[s]]
    /\ expired \in [Sessions -> Int]
    /\ u_out_write_buf \in Queues /\ u_out_write_data \in Queues
    /\ accepted \in Queues /\ u_server_got \in Queues

\* A session object that is not free is the one its sender's entry points to; a free one
\* has nothing pending that could wake it.
Entered(s) == u_status[s] # "FREE" => owner[s] \in Endpoints /\ udp_sessions[owner[s]] = s
Quiet(s) ==
    u_status[s] = "FREE" =>
        dialing[s] = "none" /\ ~reading[s] /\ ~writing[s] /\ deadline[s] = 0 /\ expired[s] = 0

OwnersInv == UdpTypes /\ \A s \in Sessions : Entered(s) /\ Quiet(s)

\* The service starts with no session.
LEMMA OwnersInitially == UdpInit => OwnersInv
  BY DEF UdpInit, OwnersInv, UdpTypes, Entered, Quiet, Flags, Queues, Live

\* A session's queue replaced by another.
LEMMA QueueChanged ==
    ASSUME NEW q \in Queues, NEW s \in Sessions
    PROVE  /\ q[s] \in Seq(Nat)
           /\ \A x \in Seq(Nat) : [q EXCEPT ![s] = x] \in Queues
  BY Zenon DEF Queues

\* Types hold through every handler: each changes the entry of one session.
LEMMA TypesStep == OwnersInv /\ [UdpNext]_udpVars => UdpTypes'
<1> SUFFICES ASSUME OwnersInv, [UdpNext]_udpVars PROVE UdpTypes'
  BY Zenon
<1> USE DEF OwnersInv, UdpTypes, Flags, Queues, Live
<1>1. ASSUME NEW e \in Endpoints, DatagramForOld(e) PROVE UdpTypes'
  <2>1. PICK s \in Sessions : s = udp_sessions[e]
    BY <1>1, Zenon DEF DatagramForOld, Expired
  <2>2. /\ received + 1 \in Nat /\ received' = received + 1
        /\ Deliver(s, received + 1) /\ UNCHANGED udp_sessions
    BY <1>1, <2>1 DEF DatagramForOld
  <2>3. CASE UNCHANGED sessionVars
    BY <2>2, <2>3, Zenon DEF sessionVars
  <2>4. CASE u_status[s] \in Live
    <3> DEFINE d == received + 1
    <3>1. /\ Append(accepted[s], d) \in Seq(Nat) /\ Append(u_out_write_buf[s], d) \in Seq(Nat)
          /\ <<d>> \in Seq(Nat)
      BY <2>2
    <3> HIDE DEF d
    <3>2. \/ UNCHANGED sessionVars
          \/ /\ deadline' = [deadline EXCEPT ![s] = now + UdpTimeout]
             /\ u_status' = [u_status EXCEPT ![s] = "FORWARDING"]
             /\ accepted' = [accepted EXCEPT ![s] = Append(accepted[s], d)]
             /\ u_out_write_data' = [u_out_write_data EXCEPT ![s] = <<d>>]
             /\ writing' = [writing EXCEPT ![s] = TRUE]
             /\ UNCHANGED <<owner, dialing, u_out_open, reading, shutting, expired, u_out_write_buf,
                            u_server_got>>
          \/ /\ deadline' = [deadline EXCEPT ![s] = now + UdpTimeout]
             /\ accepted' = [accepted EXCEPT ![s] = Append(accepted[s], d)]
             /\ u_out_write_buf' = [u_out_write_buf EXCEPT ![s] = Append(u_out_write_buf[s], d)]
             /\ UNCHANGED <<u_status, owner, dialing, u_out_open, reading, writing, shutting, expired,
                            u_out_write_data, u_server_got>>
      BY <2>2, Zenon DEF Deliver, ArmTimer, d
    <3>3. UNCHANGED udp_sessions /\ received' \in Nat
      BY <2>2, Zenon
    <3>4. /\ [accepted EXCEPT ![s] = Append(accepted[s], d)] \in Queues
          /\ [u_out_write_buf EXCEPT ![s] = Append(u_out_write_buf[s], d)] \in Queues
          /\ [u_out_write_data EXCEPT ![s] = <<d>>] \in Queues
      BY <3>1, QueueChanged, Zenon
    <3>5. /\ (u_out_write_buf \in Queues /\ u_out_write_data \in Queues)'
          /\ (accepted \in Queues /\ u_server_got \in Queues)'
      <4> HIDE DEF Queues
      <4> QED
        BY <3>2, <3>4, Zenon DEF sessionVars
    <3>6. (u_status \in [Sessions -> Live \cup {"FREE", "DESTROY"}] /\ writing \in Flags)'
      BY <3>2, Zenon DEF sessionVars
    <3>7. (deadline = [t \in Sessions |-> deadline[t]])'
      BY <3>2, Zenon DEF sessionVars
    <3>8. UNCHANGED <<owner, dialing, reading, expired>>
      BY <3>2, Zenon DEF sessionVars
    <3> HIDE DEF Queues
    <3> QED
      BY <3>3, <3>5, <3>6, <3>7, <3>8, Zenon
  <2> QED
    BY <2>2, <2>3, <2>4, Zenon DEF Deliver
<1>2. ASSUME NEW e \in Endpoints, NEW s \in Sessions, DatagramForNew(e, s) PROVE UdpTypes'
  <2>1. <<0, received + 1>> \in Seq(Nat) /\ <<>> \in Seq(Nat)
    OBVIOUS
  <2>2. (u_out_write_buf \in Queues /\ u_out_write_data \in Queues)'
    BY <1>2, <2>1, Zenon DEF DatagramForNew
  <2>3. (accepted \in Queues /\ u_server_got \in Queues)'
    BY <1>2, <2>1, Zenon DEF DatagramForNew
  <2>4. (u_status \in [Sessions -> Live \cup {"FREE", "DESTROY"}])'
    BY <1>2, Zenon DEF DatagramForNew
  <2>5. (dialing \in [Sessions -> {"none", "resolve", "connect", "handshake"}])'
    BY <1>2, Zenon DEF DatagramForNew
  <2>6. (owner = [t \in Sessions |-> owner[t]] /\ deadline = [t \in Sessions |-> deadline[t]])'
    BY <1>2, Zenon DEF DatagramForNew, ArmTimer
  <2>7. (udp_sessions \in [Endpoints -> Sessions \cup {NoSession}])'
    BY <1>2, Zenon DEF DatagramForNew
  <2>8. received' \in Nat /\ UNCHANGED <<reading, writing, expired>>
    BY <1>2 DEF DatagramForNew
  <2> HIDE DEF Queues
  <2> QED
    BY <2>2, <2>3, <2>4, <2>5, <2>6, <2>7, <2>8, Zenon
<1>3. ASSUME NEW s \in Sessions, UdpResolveDone(s) \/ UdpConnectDone(s) \/ UdpHandshakeDone(s)
      PROVE  UdpTypes'
  <2>1. CASE UdpResolveDone(s)
    BY <2>1, Zenon DEF UdpResolveDone, buffers
  <2>2. CASE UdpConnectDone(s)
    BY <2>2, Zenon DEF UdpConnectDone, buffers
  <2>3. CASE UdpHandshakeDone(s)
    BY <2>3 DEF UdpHandshakeDone
  <2> QED
    BY <1>3, <2>1, <2>2, <2>3, Zenon
<1>4. ASSUME NEW s \in Sessions, DialFails(s) \/ ReadFails(s) \/ UdpWriteFails(s)
      PROVE  UdpTypes'
  BY <1>4, Zenon DEF DialFails, ReadFails, UdpWriteFails, Destroy, buffers
<1>5. ASSUME NEW s \in Sessions, UdpWriteDone(s) PROVE UdpTypes'
  <2>1. u_server_got[s] \o u_out_write_data[s] \in Seq(Nat)
    OBVIOUS
  <2>2. u_server_got' \in Queues
    BY <1>5, <2>1, Zenon DEF UdpWriteDone
  <2>3. (u_out_write_buf \in Queues /\ u_out_write_data \in Queues)'
    <3> HIDE DEF Queues
    <3>1. [u_out_write_data EXCEPT ![s] = u_out_write_buf[s]] \in Queues
      BY QueueChanged, Zenon
    <3>2. [u_out_write_buf EXCEPT ![s] = <<>>] \in Queues
      <4>1. <<>> \in Seq(Nat)
        OBVIOUS
      <4> QED
        BY <4>1, QueueChanged, Zenon
    <3> QED
      BY <1>5, <3>1, <3>2, Zenon DEF UdpWriteDone
  <2>4. (u_status \in [Sessions -> Live \cup {"FREE", "DESTROY"}] /\ writing \in Flags)'
    BY <1>5, Zenon DEF UdpWriteDone
  <2>5. UNCHANGED <<received, udp_sessions, owner, dialing, reading, deadline, expired, accepted>>
    BY <1>5, Zenon DEF UdpWriteDone
  <2> HIDE DEF Queues
  <2> QED
    BY <2>2, <2>3, <2>4, <2>5, Zenon
<1>6. ASSUME NEW s \in Sessions, ReadDone(s) \/ UdpShutdownEnds(s) \/ Free(s)
      PROVE  UdpTypes'
  BY <1>6, Zenon DEF ReadDone, ArmTimer, UdpShutdownEnds, Free, buffers
<1>7. ASSUME NEW s \in Sessions, TimerExpires(s) \/ TimeoutHandler(s) PROVE UdpTypes'
  <2>1. CASE TimerExpires(s)
    <3>1. expired' \in [Sessions -> Int]
      BY <2>1 DEF TimerExpires
    <3> QED
      BY <2>1, <3>1, Zenon DEF TimerExpires, buffers
  <2>2. CASE TimeoutHandler(s)
    <3>1. expired' \in [Sessions -> Int]
      BY <2>2 DEF TimeoutHandler
    <3> QED
      BY <2>2, <3>1, Zenon DEF TimeoutHandler, Destroy, buffers
  <2> QED
    BY <1>7, <2>1, <2>2, Zenon
<1>8. CASE Tick \/ UNCHANGED udpVars
  BY <1>8, Zenon DEF Tick, udpVars, sessionVars
<1> QED
  BY <1>1, <1>2, <1>3, <1>4, <1>5, <1>6, <1>7, <1>8, Zenon DEF UdpNext

\* A new session takes the entry of its sender only when no session that is not free
\* belongs to the sender; nothing else moves an entry or wakes a free session.
LEMMA OwnersStep == OwnersInv /\ [UdpNext]_udpVars => OwnersInv'
<1> SUFFICES ASSUME OwnersInv, [UdpNext]_udpVars, NEW t \in Sessions
             PROVE  Entered(t)' /\ Quiet(t)'
  BY TypesStep, Zenon DEF OwnersInv
<1> USE DEF OwnersInv, UdpTypes, Entered, Quiet, Flags, Live
<1>1. ASSUME NEW e \in Endpoints, DatagramForOld(e) PROVE Entered(t)' /\ Quiet(t)'
  BY <1>1 DEF DatagramForOld, Deliver, ArmTimer, Expired, sessionVars
<1>2. ASSUME NEW e \in Endpoints, NEW s \in Sessions, DatagramForNew(e, s)
      PROVE  Entered(t)' /\ Quiet(t)'
  <2>1. CASE t = s
    BY <1>2, <2>1, Zenon DEF DatagramForNew
  <2>2. CASE t # s
    <3>1. u_status[t] # "FREE" => owner[t] # e
      BY <1>2, Zenon DEF DatagramForNew, Expired
    <3> QED
      BY <1>2, <2>2, <3>1, Zenon DEF DatagramForNew, ArmTimer
  <2> QED
    BY <2>1, <2>2, Zenon
<1>3. ASSUME NEW s \in Sessions, UdpResolveDone(s) \/ UdpConnectDone(s) \/ UdpHandshakeDone(s)
      PROVE  Entered(t)' /\ Quiet(t)'
  BY <1>3 DEF UdpResolveDone, UdpConnectDone, UdpHandshakeDone, buffers
<1>4. ASSUME NEW s \in Sessions, DialFails(s) \/ ReadFails(s) \/ UdpWriteFails(s)
      PROVE  Entered(t)' /\ Quiet(t)'
  BY <1>4 DEF DialFails, ReadFails, UdpWriteFails, Destroy, buffers
<1>5. ASSUME NEW s \in Sessions, UdpWriteDone(s) PROVE Entered(t)' /\ Quiet(t)'
  BY <1>5, Zenon DEF UdpWriteDone
<1>6. ASSUME NEW s \in Sessions, ReadDone(s) \/ UdpShutdownEnds(s) \/ Free(s)
      PROVE  Entered(t)' /\ Quiet(t)'
  BY <1>6 DEF ReadDone, ArmTimer, UdpShutdownEnds, Free, buffers
<1>7. ASSUME NEW s \in Sessions, TimerExpires(s) \/ TimeoutHandler(s)
      PROVE  Entered(t)' /\ Quiet(t)'
  BY <1>7 DEF TimerExpires, TimeoutHandler, Destroy, buffers
<1>8. CASE Tick \/ UNCHANGED udpVars
  BY <1>8, Zenon DEF Tick, udpVars, sessionVars
<1> QED
  BY <1>1, <1>2, <1>3, <1>4, <1>5, <1>6, <1>7, <1>8, Zenon DEF UdpNext

\* One session per endpoint follows from what the table and the sessions agree on.
LEMMA OwnersEnough == OwnersInv => OneSessionPerEndpoint
  BY DEF OwnersInv, Entered, OneSessionPerEndpoint, Live

-------------------------------------------------------------------------------
(* The idle timer. *)

\* An armed timer is due one timeout after the last traffic, and a live session that
\* destroy() has not been called for has the timer armed or its expiry queued.
Timed(s) ==
    /\ deadline[s] # 0 => deadline[s] = active_at[s] + UdpTimeout
    /\ u_status[s] \in Live /\ ~revived[s] => deadline[s] # 0 \/ expired[s] > 0

TimedTypes ==
    /\ now \in Nat \ {0} /\ deadline \in [Sessions -> Nat] /\ active_at \in [Sessions -> Nat]
    /\ expired \in [Sessions -> Nat] /\ revived \in Flags

TimedInv == OwnersInv /\ TimedTypes /\ \A s \in Sessions : Timed(s)

\* No timer runs before the first datagram.
LEMMA TimedInitially == UdpInit => TimedInv
  BY OwnersInitially
     DEF UdpInit, TimedInv, TimedTypes, Timed, Flags, Live

\* The timer that in_recv, out_recv and start() begin anew.
LEMMA Armed ==
  ASSUME TimedInv, NEW s \in Sessions, ArmTimer(s)
  PROVE  /\ deadline' \in [Sessions -> Nat] /\ active_at' \in [Sessions -> Nat]
         /\ deadline'[s] # 0 /\ deadline'[s] = active_at'[s] + UdpTimeout
         /\ \A t \in Sessions \ {s} : deadline'[t] = deadline[t] /\ active_at'[t] = active_at[t]
  BY UdpForwardAssumption DEF TimedInv, TimedTypes, ArmTimer

\* destroy() and its absence, at the end of a handler that may call it.
LEMMA Stopped ==
  ASSUME TimedInv, NEW s \in Sessions,
         \/ u_status[s] = "DESTROY" /\ UNCHANGED <<u_status, deadline>>
         \/ Destroy(s)
  PROVE  /\ deadline' \in [Sessions -> Nat] /\ u_status'[s] = "DESTROY"
         /\ deadline'[s] # 0 => deadline'[s] = deadline[s]
         /\ \A t \in Sessions \ {s} : deadline'[t] = deadline[t] /\ u_status'[t] = u_status[t]
  BY DEF TimedInv, TimedTypes, OwnersInv, UdpTypes, Destroy

\* Every datagram, expiry and error leaves each live session with its timer.
LEMMA TimedStep == TimedInv /\ [UdpNext]_udpVars => TimedInv'
<1> SUFFICES ASSUME TimedInv, [UdpNext]_udpVars
             PROVE  TimedTypes' /\ \A t \in Sessions : Timed(t)'
  BY OwnersStep, Zenon DEF TimedInv
<1> DEFINE Goal == TimedTypes' /\ \A t \in Sessions : Timed(t)'
<1>u. u_status \in [Sessions -> Live \cup {"FREE", "DESTROY"}]
  BY Zenon DEF TimedInv, OwnersInv, UdpTypes
<1>same. ASSUME UNCHANGED <<now, u_status, deadline, expired, active_at, revived>> PROVE Goal
  BY <1>same, Zenon DEF TimedInv, TimedTypes, Timed
<1>1. ASSUME NEW e \in Endpoints, DatagramForOld(e) PROVE Goal
  <2>1. PICK s \in Sessions : s = udp_sessions[e]
    BY <1>1, Zenon DEF DatagramForOld, Expired
  <2>2. Deliver(s, received + 1) /\ UNCHANGED now
    BY <1>1, <2>1, Zenon DEF DatagramForOld
  <2>3. CASE UNCHANGED sessionVars
    BY <1>same, <2>2, <2>3, Zenon DEF sessionVars
  <2>4. CASE /\ ArmTimer(s) /\ UNCHANGED <<expired, revived>>
             /\ \A t \in Sessions \ {s} : u_status'[t] = u_status[t]
    BY <2>2, <2>4, Armed, Zenon DEF TimedInv, TimedTypes, Timed
  <2> QED
    BY <1>u, <2>2, <2>3, <2>4, Zenon DEF Deliver
<1>2. ASSUME NEW e \in Endpoints, NEW s \in Sessions, DatagramForNew(e, s) PROVE Goal
  <2>1. /\ ArmTimer(s) /\ UNCHANGED <<now, expired>>
        /\ revived' \in Flags /\ \A t \in Sessions \ {s} : u_status'[t] = u_status[t]
        /\ \A t \in Sessions \ {s} : revived'[t] = revived[t]
    BY <1>u, <1>2, Zenon DEF DatagramForNew, TimedInv, TimedTypes, Flags
  <2> QED
    BY <2>1, Armed, Zenon DEF TimedInv, TimedTypes, Timed
<1>3. ASSUME NEW s \in Sessions, UdpResolveDone(s) \/ UdpConnectDone(s) \/ UdpShutdownEnds(s)
      PROVE  Goal
  BY <1>3, <1>same, Zenon DEF UdpResolveDone, UdpConnectDone, UdpShutdownEnds
<1>4. ASSUME NEW s \in Sessions, UdpHandshakeDone(s) PROVE Goal
  <2>1. /\ UNCHANGED <<now, deadline, expired, active_at>>
        /\ u_status[s] \in Live \/ revived'[s]
        /\ revived' \in Flags /\ (revived[s] => revived'[s])
        /\ \A t \in Sessions \ {s} : u_status'[t] = u_status[t] /\ revived'[t] = revived[t]
    <3>1. u_status[s] # "FREE"
      BY <1>4, Zenon DEF UdpHandshakeDone, TimedInv, OwnersInv, Quiet
    <3> QED
      BY <1>u, <1>4, <3>1, Zenon DEF UdpHandshakeDone, TimedInv, TimedTypes, Flags
  <2> QED
    BY <2>1, Zenon DEF TimedInv, TimedTypes, Timed
<1>5. ASSUME NEW s \in Sessions, DialFails(s) \/ ReadFails(s) \/ UdpWriteFails(s)
      PROVE  Goal
  <2>1. /\ \/ u_status[s] = "DESTROY" /\ UNCHANGED <<u_status, deadline>>
           \/ Destroy(s)
        /\ UNCHANGED <<now, expired, active_at, revived>>
    BY <1>5, Zenon DEF DialFails, ReadFails, UdpWriteFails
  <2> QED
    BY <2>1, Stopped, Zenon DEF TimedInv, TimedTypes, Timed, Live
<1>6. ASSUME NEW s \in Sessions, UdpWriteDone(s) PROVE Goal
  <2>1. /\ UNCHANGED <<now, deadline, expired, active_at, revived>>
        /\ \A t \in Sessions : u_status'[t] \in Live => u_status[t] \in Live
    BY <1>u, <1>6, Zenon DEF UdpWriteDone, Live
  <2> QED
    BY <2>1, Zenon DEF TimedInv, TimedTypes, Timed
<1>7. ASSUME NEW s \in Sessions, ReadDone(s) PROVE Goal
  <2>1. ArmTimer(s) /\ UNCHANGED <<now, u_status, expired, revived>>
    BY <1>7, Zenon DEF ReadDone
  <2> QED
    BY <2>1, Armed, Zenon DEF TimedInv, TimedTypes, Timed
<1>8. ASSUME NEW s \in Sessions, TimerExpires(s) PROVE Goal
  BY <1>8 DEF TimerExpires, TimedInv, TimedTypes, Timed
<1>9. ASSUME NEW s \in Sessions, TimeoutHandler(s) PROVE Goal
  <2>1. /\ \/ u_status[s] = "DESTROY" /\ UNCHANGED <<u_status, deadline>>
           \/ Destroy(s)
        /\ UNCHANGED <<now, active_at, revived>>
    BY <1>9, Zenon DEF TimeoutHandler
  <2>2. expired' \in [Sessions -> Nat] /\ \A t \in Sessions \ {s} : expired'[t] = expired[t]
    BY <1>9 DEF TimeoutHandler, TimedInv, TimedTypes
  <2> QED
    BY <2>1, <2>2, Stopped, Zenon DEF TimedInv, TimedTypes, Timed, Live
<1>10. ASSUME NEW s \in Sessions, Free(s) PROVE Goal
  BY <1>u, <1>10, Zenon DEF Free, TimedInv, TimedTypes, Timed, Live
<1>11. CASE Tick
  BY <1>11 DEF Tick, sessionVars, TimedInv, TimedTypes, Timed
<1>12. CASE UNCHANGED udpVars
  BY <1>12, <1>same, Zenon DEF udpVars, sessionVars
<1> QED
  BY <1>1, <1>2, <1>3, <1>4, <1>5, <1>6, <1>7, <1>8, <1>9, <1>10, <1>11, <1>12, Zenon DEF UdpNext

\* A timer that expires was armed a timeout ago, and nothing has passed since.
LEMMA ExpiresDue ==
  ASSUME TimedInv, [UdpNext]_udpVars, NEW s \in Sessions, expired'[s] > expired[s]
  PROVE  now - active_at[s] >= UdpTimeout
<1>t. expired \in [Sessions -> Nat]
  BY Zenon DEF TimedInv, TimedTypes
<1>1. ASSUME NEW t \in Sessions, TimerExpires(t) PROVE now - active_at[s] >= UdpTimeout
  <2>1. t = s
    BY <1>t, <1>1 DEF TimerExpires
  <2>2. now >= deadline[s] /\ deadline[s] # 0
    BY <1>1, <2>1, Zenon DEF TimerExpires
  <2> QED
    BY <2>2, UdpForwardAssumption DEF TimedInv, TimedTypes, Timed
<1>2. ASSUME NEW t \in Sessions, TimeoutHandler(t) PROVE FALSE
  BY <1>t, <1>2 DEF TimeoutHandler
<1>3. CASE UNCHANGED expired
  BY <1>t, <1>3
<1> QED
  BY <1>1, <1>2, <1>3, Zenon
     DEF UdpNext, DatagramForOld, Deliver, DatagramForNew, UdpResolveDone,
         UdpConnectDone, UdpHandshakeDone, DialFails, UdpWriteDone, ReadDone,
         ReadFails, UdpWriteFails, UdpShutdownEnds, Free, Tick, udpVars,
         sessionVars

-------------------------------------------------------------------------------
\* Where a session's datagrams are, by what it is doing.  A tunnel that comes up after
\* destroy() still finds all of them in out_write_buf.
Carried(s) ==
    /\ dialing[s] # "none" => /\ u_status[s] \in {"CONNECT", "DESTROY"} /\ ~writing[s]
                              /\ accepted[s] = u_server_got[s] \o u_out_write_buf[s]
    /\ u_status[s] = "CONNECT" => dialing[s] # "none"
    /\ u_status[s] = "FORWARD" => /\ ~writing[s] /\ u_out_write_buf[s] = <<>>
                                /\ accepted[s] = u_server_got[s]
    /\ u_status[s] = "FORWARDING" =>
          /\ writing[s]
          /\ accepted[s] = (u_server_got[s] \o u_out_write_data[s]) \o u_out_write_buf[s]

CarriedInv == OwnersInv /\ \A s \in Sessions : Carried(s)

\* A datagram put behind two parts of the others ...
LEMMA BehindTwo ==
    ASSUME NEW a \in Seq(Nat), NEW b \in Seq(Nat), NEW d \in Nat
    PROVE  Append(a \o b, d) = a \o Append(b, d)
<1>1. <<d>> \in Seq(Nat) /\ a \o b \in Seq(Nat)
  OBVIOUS
<1>2. Append(a \o b, d) = (a \o b) \o <<d>>
  BY <1>1, AppendIsConcat, Zenon
<1>3. Append(b, d) = b \o <<d>>
  BY AppendIsConcat, Zenon
<1>4. (a \o b) \o <<d>> = a \o (b \o <<d>>)
  BY <1>1, ConcatAssociative
<1> QED
  BY <1>2, <1>3, <1>4, Zenon

\* ... behind three ...
LEMMA BehindThree ==
    ASSUME NEW a \in Seq(Nat), NEW b \in Seq(Nat), NEW c \in Seq(Nat), NEW d \in Nat
    PROVE  Append((a \o b) \o c, d) = (a \o b) \o Append(c, d)
<1> DEFINE ab == a \o b
<1>1. ab \in Seq(Nat)
  OBVIOUS
<1> HIDE DEF ab
<1>2. Append(ab \o c, d) = ab \o Append(c, d)
  BY <1>1, BehindTwo, Zenon
<1> QED
  BY <1>2, Zenon DEF ab

\* ... and alone, with the empty part.
LEMMA OneMore ==
    ASSUME NEW a \in Seq(Nat), NEW b \in Seq(Nat), NEW d \in Nat
    PROVE  /\ Append(a, d) = (a \o <<d>>) \o <<>>
           /\ (a \o b) \o <<>> = a \o b
           /\ a \o <<>> = a /\ <<>> \o a = a
<1>1. <<d>> \in Seq(Nat) /\ a \o b \in Seq(Nat)
  OBVIOUS
<1>2. a \o <<d>> \in Seq(Nat)
  BY <1>1
<1>3. Append(a, d) = a \o <<d>> /\ (a \o <<d>>) \o <<>> = a \o <<d>>
  BY <1>2, AppendIsConcat, ConcatEmptySeq, Zenon
<1> QED
  BY <1>1, <1>3, ConcatEmptySeq

\* Every handler leaves each datagram where Carried says it is.
LEMMA CarriedStep == CarriedInv /\ [UdpNext]_udpVars => CarriedInv'
<1> SUFFICES ASSUME CarriedInv, [UdpNext]_udpVars, NEW t \in Sessions PROVE Carried(t)'
  BY OwnersStep, Zenon DEF CarriedInv
<1>0. /\ Carried(t) /\ Entered(t) /\ Quiet(t) /\ OwnersInv
      /\ {accepted[t], u_server_got[t], u_out_write_buf[t], u_out_write_data[t]} \subseteq Seq(Nat)
      /\ u_status[t] \in Live \cup {"FREE", "DESTROY"}
      /\ received \in Nat
  BY QueueChanged, Zenon DEF CarriedInv, OwnersInv, UdpTypes
<1> DEFINE At == <<u_status[t], dialing[t], writing[t], accepted[t], u_server_got[t],
                   u_out_write_buf[t], u_out_write_data[t]>>
<1>same. At' = At => Carried(t)'
  BY <1>0, Zenon DEF Carried
<1>1. ASSUME NEW e \in Endpoints, DatagramForOld(e) PROVE Carried(t)'
  <2>1. PICK s \in Sessions : s = udp_sessions[e] /\ u_status[s] # "FREE"
    BY <1>1, Zenon DEF DatagramForOld, Expired
  <2>2. Deliver(s, received + 1)
    BY <1>1, <2>1, Zenon DEF DatagramForOld
  <2>3. CASE UNCHANGED sessionVars
    BY <1>0, <2>3, Zenon DEF sessionVars, Carried
  <2>4. CASE s # t /\ ~UNCHANGED sessionVars
    <3>1. At' = At
      BY <1>0, <2>2, <2>4, Zenon DEF Deliver, OwnersInv, UdpTypes, Queues, Flags
    <3> QED
      BY <3>1, <1>same, Zenon
  <2>5. CASE s = t /\ u_status[s] = "FORWARD"
    <3>1. /\ u_status'[t] = "FORWARDING" /\ dialing'[t] = "none" /\ writing'[t]
          /\ accepted'[t] = Append(accepted[t], received + 1)
          /\ u_out_write_data'[t] = <<received + 1>>
          /\ u_out_write_buf'[t] = <<>> /\ u_server_got'[t] = accepted[t]
      BY <1>0, <2>2, <2>5, Zenon DEF Deliver, Carried, OwnersInv, UdpTypes, Queues, Flags
    <3>2. accepted'[t] = (u_server_got'[t] \o u_out_write_data'[t]) \o u_out_write_buf'[t]
      <4>1. Append(accepted[t], received + 1) = (accepted[t] \o <<received + 1>>) \o <<>>
        BY <1>0, OneMore
      <4> QED
        BY <3>1, <4>1, Zenon
    <3> QED
      BY <3>1, <3>2, Zenon DEF Carried
  <2>6. CASE s = t /\ u_status[s] \in {"CONNECT", "FORWARDING"}
    <3>1. /\ accepted'[t] = Append(accepted[t], received + 1)
          /\ u_out_write_buf'[t] = Append(u_out_write_buf[t], received + 1)
          /\ UNCHANGED <<u_status, dialing, writing, u_out_write_data, u_server_got>>
      BY <1>0, <2>2, <2>6, Zenon DEF Deliver, OwnersInv, UdpTypes, Queues
    <3>2. CASE u_status[t] = "CONNECT"
      <4>1. u_server_got[t] \in Seq(Nat) /\ u_out_write_buf[t] \in Seq(Nat) /\ received + 1 \in Nat
        BY <1>0
      <4>2. Append(u_server_got[t] \o u_out_write_buf[t], received + 1)
            = u_server_got[t] \o Append(u_out_write_buf[t], received + 1)
        BY <4>1, BehindTwo, Zenon
      <4> QED
        BY <1>0, <3>1, <3>2, <4>2, ZenonT(30) DEF Carried
    <3>3. CASE u_status[t] = "FORWARDING"
      <4>1. /\ u_server_got[t] \in Seq(Nat) /\ u_out_write_data[t] \in Seq(Nat)
            /\ u_out_write_buf[t] \in Seq(Nat) /\ received + 1 \in Nat
        BY <1>0
      <4>2. Append((u_server_got[t] \o u_out_write_data[t]) \o u_out_write_buf[t], received + 1)
            = (u_server_got[t] \o u_out_write_data[t]) \o Append(u_out_write_buf[t], received + 1)
        BY <4>1, BehindThree, Zenon
      <4> QED
        BY <1>0, <3>1, <3>3, <4>2, Zenon DEF Carried
    <3> QED
      BY <2>6, <3>2, <3>3, Zenon
  <2> QED
    BY <2>2, <2>3, <2>4, <2>5, <2>6, Zenon DEF Deliver
<1>2. ASSUME NEW e \in Endpoints, NEW s \in Sessions, DatagramForNew(e, s) PROVE Carried(t)'
  <2>1. CASE s # t
    <3>1. At' = At
      BY <1>0, <1>2, <2>1, Zenon DEF DatagramForNew, OwnersInv, UdpTypes, Queues, Flags
    <3> QED
      BY <3>1, <1>same, Zenon
  <2>2. CASE s = t
    <3>1. /\ u_status'[t] = "CONNECT" /\ dialing'[t] = "resolve" /\ ~writing'[t]
          /\ accepted'[t] = <<0, received + 1>> /\ u_out_write_buf'[t] = <<0, received + 1>>
          /\ u_server_got'[t] = <<>>
      BY <1>0, <1>2, <2>2, Zenon DEF DatagramForNew, Quiet, OwnersInv, UdpTypes, Queues
    <3>2. <<0, received + 1>> \in Seq(Nat)
      BY <1>0
    <3> QED
      BY <3>1, <3>2, OneMore, Zenon DEF Carried
  <2> QED
    BY <2>1, <2>2, Zenon
<1>3. ASSUME NEW s \in Sessions, UdpHandshakeDone(s) PROVE Carried(t)'
  <2>1. CASE s # t
    <3>1. At' = At
      BY <1>0, <1>3, <2>1, Zenon DEF UdpHandshakeDone, OwnersInv, UdpTypes, Queues, Flags
    <3> QED
      BY <3>1, <1>same, Zenon
  <2>2. CASE s = t
    <3>1. /\ u_status'[t] = "FORWARDING" /\ dialing'[t] = "none" /\ writing'[t]
          /\ u_out_write_data'[t] = u_out_write_buf[t] /\ u_out_write_buf'[t] = <<>>
          /\ UNCHANGED <<accepted, u_server_got>>
          /\ accepted[t] = u_server_got[t] \o u_out_write_buf[t]
      BY <1>0, <1>3, <2>2, Zenon DEF UdpHandshakeDone, Carried, OwnersInv, UdpTypes, Queues, Flags
    <3>2. (u_server_got[t] \o u_out_write_buf[t]) \o <<>> = u_server_got[t] \o u_out_write_buf[t]
      BY <1>0, OneMore, Zenon
    <3> QED
      BY <3>1, <3>2, Zenon DEF Carried
  <2> QED
    BY <2>1, <2>2, Zenon
<1>4. ASSUME NEW s \in Sessions, UdpWriteDone(s) PROVE Carried(t)'
  <2>1. CASE s # t
    <3>1. At' = At
      BY <1>0, <1>4, <2>1, Zenon DEF UdpWriteDone, OwnersInv, UdpTypes, Queues, Flags
    <3> QED
      BY <3>1, <1>same, Zenon
  <2>2. CASE s = t
    <3>1. /\ dialing[t] = "none" /\ UNCHANGED <<dialing, accepted>>
          /\ u_server_got'[t] = u_server_got[t] \o u_out_write_data[t]
      BY <1>0, <1>4, <2>2, Zenon DEF UdpWriteDone, Carried, OwnersInv, UdpTypes, Queues
    <3>2. CASE u_status[t] = "FORWARDING" /\ u_out_write_buf[t] # <<>>
      <4>1. /\ u_status'[t] = "FORWARDING" /\ writing'[t]
            /\ u_out_write_data'[t] = u_out_write_buf[t] /\ u_out_write_buf'[t] = <<>>
        BY <1>4, <1>0, <2>2, <3>2, Zenon DEF UdpWriteDone, OwnersInv, UdpTypes, Queues
      <4>2. u_server_got[t] \o u_out_write_data[t] \in Seq(Nat)
        BY <1>0
      <4>3. ((u_server_got[t] \o u_out_write_data[t]) \o u_out_write_buf[t]) \o <<>> = accepted[t]
        BY <1>0, <3>2, <4>2, OneMore, ZenonT(30) DEF Carried
      <4> QED
        BY <3>1, <4>1, <4>3, Zenon DEF Carried
    <3>3. CASE u_status[t] = "FORWARDING" /\ u_out_write_buf[t] = <<>>
      <4>1. u_status'[t] = "FORWARD" /\ ~writing'[t] /\ u_out_write_buf'[t] = <<>>
        BY <1>4, <1>0, <2>2, <3>3, Zenon DEF UdpWriteDone, OwnersInv, UdpTypes, Flags
      <4>2. accepted[t] = u_server_got[t] \o u_out_write_data[t]
        <5>1. (u_server_got[t] \o u_out_write_data[t]) \o <<>> = u_server_got[t] \o u_out_write_data[t]
          BY <1>0, OneMore, Zenon
        <5> QED
          BY <1>0, <3>3, <5>1, Zenon DEF Carried
      <4> QED
        BY <3>1, <4>1, <4>2, Zenon DEF Carried
    <3>4. CASE u_status[t] = "DESTROY"
      BY <1>4, <2>2, <3>1, <3>4, Zenon DEF UdpWriteDone, Carried
    <3> QED
      BY <1>4, <2>2, <3>2, <3>3, <3>4, Zenon DEF UdpWriteDone
  <2> QED
    BY <2>1, <2>2, Zenon
<1>5. ASSUME NEW s \in Sessions,
             \/ UdpResolveDone(s) \/ UdpConnectDone(s) \/ ReadDone(s)
             \/ UdpShutdownEnds(s)
      PROVE  Carried(t)'
  <2>1. /\ UNCHANGED <<u_status, buffers, writing>>
        /\ dialing'[t] # "none" <=> dialing[t] # "none"
    BY <1>0, <1>5, Zenon
       DEF UdpResolveDone, UdpConnectDone, ReadDone, UdpShutdownEnds, OwnersInv, UdpTypes
  <2> QED
    BY <1>0, <2>1, ZenonT(30) DEF Carried, buffers
<1>6. ASSUME NEW s \in Sessions,
             \/ DialFails(s) \/ ReadFails(s) \/ UdpWriteFails(s)
             \/ TimeoutHandler(s)
      PROVE  Carried(t)'
  <2>1. /\ UNCHANGED buffers
        /\ UNCHANGED <<u_status[t], dialing[t], writing[t]>> \/ u_status'[t] = "DESTROY"
        /\ writing'[t] => writing[t]
        /\ dialing'[t] # "none" => dialing[t] # "none"
    BY <1>0, <1>6, Zenon
       DEF DialFails, ReadFails, UdpWriteFails, TimeoutHandler, Destroy,
           OwnersInv, UdpTypes, Flags
  <2> QED
    BY <1>0, <2>1, Zenon DEF Carried, buffers
<1>7. ASSUME NEW s \in Sessions, TimerExpires(s) PROVE Carried(t)'
  BY <1>0, <1>7, ZenonT(30) DEF TimerExpires, buffers, Carried
<1>8. ASSUME NEW s \in Sessions, Free(s) PROVE Carried(t)'
  <2>1. /\ UNCHANGED <<dialing, writing, buffers>>
        /\ u_status'[t] = u_status[t] \/ (u_status'[t] = "FREE" /\ dialing[t] = "none")
    BY <1>0, <1>8, Zenon DEF Free, OwnersInv, UdpTypes
  <2> QED
    BY <1>0, <2>1, Zenon DEF Carried, buffers
<1>9. CASE Tick \/ UNCHANGED udpVars
  BY <1>0, <1>9, Zenon DEF Tick, udpVars, sessionVars, Carried
<1> QED
  BY <1>1, <1>2, <1>3, <1>4, <1>5, <1>6, <1>7, <1>8, <1>9, Zenon DEF UdpNext

\* No packet is on its way at the start.
LEMMA CarriedInitially == UdpInit => CarriedInv
  BY OwnersInitially DEF UdpInit, CarriedInv, Carried

\* What a session has accepted and where it is now gives PacketsConserved.
LEMMA CarriedEnough == CarriedInv => PacketsConserved
<1> SUFFICES ASSUME CarriedInv, NEW s \in Sessions
             PROVE  /\ u_status[s] \in Live =>
                           accepted[s] = u_server_got[s]
                                         \o (IF writing[s] THEN u_out_write_data[s] ELSE <<>>)
                                         \o u_out_write_buf[s]
                    /\ u_status[s] = "FORWARD" => u_out_write_buf[s] = <<>> /\ ~writing[s]
                    /\ u_status[s] = "FORWARDING" => writing[s]
                    /\ u_status[s] = "CONNECT" => dialing[s] # "none"
  BY Zenon DEF PacketsConserved
<1>1. Carried(s) /\ u_server_got[s] \in Seq(Nat) /\ u_out_write_buf[s] \in Seq(Nat)
  BY QueueChanged, Zenon DEF CarriedInv, OwnersInv, UdpTypes
<1>2. /\ u_server_got[s] \o <<>> = u_server_got[s]
      /\ (u_server_got[s] \o <<>>) \o <<>> = u_server_got[s]
  BY <1>1, OneMore, Zenon
<1> QED
  BY <1>1, <1>2, Zenon DEF Carried, Live

\* DatagramsConserved, for Service::udp_async_read with its session map, process, out_sent and
\* the dialling of the tunnel: a sender's datagrams and replies go through one session at a
\* time, however sessions end and are replaced, and a live session has sent every datagram it
\* accepted, is sending it or has queued it, once and in order.
THEOREM DatagramsCorrect == UdpSpec => []DatagramsConserved
<1> DEFINE Inv == OwnersInv /\ CarriedInv
<1>1. UdpInit => Inv
  BY OwnersInitially, CarriedInitially, Zenon
<1>2. Inv /\ [UdpNext]_udpVars => Inv'
  BY OwnersStep, CarriedStep, Zenon
<1>3. Inv => DatagramsConserved
  BY OwnersEnough, CarriedEnough, Zenon DEF DatagramsConserved
<1> QED
  BY <1>1, <1>2, <1>3, PTL DEF UdpSpec

\* IdleTimed, for timer_async_wait and its handler: a live UDP session has its timer armed or
\* its expiry queued, unless its tunnel came up after destroy(), and no order of datagrams,
\* replies and cancellations makes the timer expire before a whole timeout without traffic.
THEOREM TimerCorrect == UdpSpec => IdleTimed
<1>1. TimedInv => LiveSessionsTimed
  BY Zenon DEF TimedInv, Timed, LiveSessionsTimed
<1>2. TimedInv /\ [UdpNext]_udpVars
        => [\A s \in Sessions : expired'[s] > expired[s] => now - active_at[s] >= UdpTimeout]_udpVars
  BY ExpiresDue, Zenon
<1> QED
  BY <1>1, <1>2, TimedInitially, TimedStep, PTL DEF UdpSpec, IdleTimed, ExpiryJustified

-------------------------------------------------------------------------------
(* The secure storage. *)

\* The inductive invariant: a delete empties the entry it is asked for because the fallback
\* has an entry for every key.
FallbackInv == fallback = [k \in Keys |-> fallback[k]] /\ FallbackShown

\* A start of the app finds both empty.
LEMMA FallbackInitially == SecretInit => FallbackInv
  BY Zenon DEF SecretInit, FallbackInv, FallbackShown, Held

\* The fallback is filled by _markPrimaryFailed alone, and whoever clears the flag has
\* emptied it.
LEMMA FallbackStep == FallbackInv /\ [SecretNext]_secretVars => FallbackInv'
<1> SUFFICES ASSUME FallbackInv, [SecretNext]_secretVars PROVE FallbackInv'
  BY Zenon
<1> USE DEF FallbackInv
<1>a. ASSUME NEW c \in Calls, PromotionEnds(c), UNCHANGED <<fallback, promotion_needed>>
      PROVE  FallbackInv'
  BY <1>a, Zenon DEF PromotionEnds, FallbackShown, Held
<1>1. ASSUME NEW c \in Calls, NEW r \in Requests, Begin(c, r) PROVE FallbackInv'
  <2>1. UNCHANGED <<fallback, fallback_active, hidden>> /\ Held(fallback)' = Held(fallback)
    BY <1>1, Zenon DEF Begin, Held
  <2>2. \/ UNCHANGED <<promotion_needed, promotion_lock>>
        \/ /\ promotion_lock = NoLock /\ Held(fallback) = {}
           /\ UNCHANGED promotion_lock
        \/ promotion_needed /\ UNCHANGED promotion_needed
    BY <1>1, Zenon DEF Begin
  <2> QED
    BY <2>1, <2>2, Zenon DEF FallbackShown
<1>2. ASSUME NEW c \in Calls, PromoteKey(c) PROVE FallbackInv'
  <2>1. UNCHANGED <<fallback, promotion_needed>>
    BY <1>2, Zenon DEF PromoteKey
  <2>2. UNCHANGED <<promotion_lock, fallback_active, hidden>> \/ PromotionEnds(c)
    BY <1>2, Zenon DEF PromoteKey
  <2> QED
    BY <1>a, <2>1, <2>2, Zenon DEF FallbackShown, Held
<1>3. ASSUME NEW c \in Calls, PromoteFails(c) PROVE FallbackInv'
  BY <1>3, <1>a, Zenon DEF PromoteFails
<1>4. ASSUME NEW c \in Calls, PrimaryAnswers(c) PROVE FallbackInv'
  <2>1. UNCHANGED <<promotion_lock, hidden>>
    BY <1>4, Zenon DEF PrimaryAnswers
  <2>2. \/ ~promotion_needed /\ UNCHANGED <<fallback, promotion_needed>>
        \/ UNCHANGED <<fallback, promotion_needed, fallback_active>>
        \/ /\ promotion_lock = NoLock
           /\ fallback' = [j \in Keys |-> NoValue]
    BY <1>4, Zenon DEF PrimaryAnswers
  <2> QED
    BY <2>1, <2>2, Zenon DEF FallbackShown, Held
<1>5. ASSUME NEW c \in Calls, PrimaryThrows(c) PROVE FallbackInv'
  BY <1>5, Zenon DEF PrimaryThrows, MarkPrimaryFailed, AfterThrow, FallbackShown
<1>6. ASSUME NEW c \in Calls, NEW ok \in BOOLEAN, DeleteEnds(c, ok) PROVE FallbackInv'
  <2> DEFINE k == call[c].key
  <2>1. /\ fallback' = [fallback EXCEPT ![k] = NoValue]
        /\ hidden' = (hidden \/ (ok /\ Held(fallback) \ {k} # {}))
        /\ promotion_needed' = (promotion_needed \/ ~ok)
        /\ fallback_active' = ~ok /\ UNCHANGED promotion_lock
    BY <1>6, Zenon DEF DeleteEnds
  <2> HIDE DEF k
  <2>2. Held(fallback)' \subseteq Held(fallback) \ {k}
    BY <2>1, Zenon DEF Held
  <2> QED
    BY <2>1, <2>2, Zenon DEF FallbackShown
<1>7. CASE SecretRestart
  BY <1>7, Zenon DEF SecretRestart, FallbackShown, Held
<1>8. CASE UNCHANGED secretVars
  BY <1>8, Zenon DEF secretVars, FallbackShown, Held
<1> QED
  BY <1>1, <1>2, <1>3, <1>4, <1>5, <1>6, <1>7, <1>8, Zenon DEF SecretNext

\* FallbackShown: through failures, promotions, overlapping calls and restarts a secret that
\* the primary backend lacks is shown as held by the session alone and is due for promotion,
\* except after _markPrimaryHealthy ran too early.
THEOREM FallbackCorrect == SecretSpec => []FallbackShown
  BY FallbackInitially, FallbackStep, PTL DEF SecretSpec, FallbackInv

MaybeValue == Values \cup {NoValue}

CallRecords ==
    [pc : {"idle", "primary", "waiting", "promoting", "finalizing"},
     kind : {"read", "write", "delete", "list"}, key : Nat, value : MaybeValue,
     at : Nat, todo : SUBSET Keys, copied : MaybeValue]

\* A call that changes a key knows which, and a write knows its value.
WellFormed(r) ==
    /\ r \in CallRecords
    /\ r.kind = "write" => r.key \in Keys /\ r.value \in Values
    /\ r.kind = "delete" => r.key \in Keys

\* A call that promotes has the lock, and the key it is copying is still in the fallback
\* unless a delete that overlaps took it out.
Promotes(c) ==
    call[c].pc = "promoting" =>
        /\ promotion_lock = c /\ call[c].at \in Keys
        /\ call[c].at \in excused \/ fallback[call[c].at] # NoValue

\* The inductive invariant of SecretsKept.
SecretInv ==
    /\ primary \in [Keys -> MaybeValue] /\ fallback \in [Keys -> MaybeValue]
    /\ expected \in [Keys -> MaybeValue]
    /\ DOMAIN call = Calls /\ call = [c \in Calls |-> call[c]]
    /\ \A c \in Calls : WellFormed(call[c]) /\ Promotes(c)
    /\ SecretsKept

\* The records a call goes through.
LEMMA IdleFormed ==
    WellFormed(Idle) /\ Idle.pc = "idle" /\ WellFormed([Idle EXCEPT !.pc = "finalizing"])
  BY SecretAssumption, Zenon DEF WellFormed, CallRecords, Idle, MaybeValue

\* Whoever completes the lock leaves no call that promotes.
LEMMA AfterPromotion ==
    ASSUME SecretInv, NEW c \in Calls, call[c].pc = "promoting", PromotionEnds(c)
    PROVE  /\ DOMAIN call' = Calls /\ call' = [d \in Calls |-> call'[d]]
           /\ \A d \in Calls : WellFormed(call'[d]) /\ call'[d].pc # "promoting"
<1> DEFINE X == [call EXCEPT ![c].pc = "primary", ![c].at = 0, ![c].todo = {},
                               ![c].copied = NoValue]
<1>1. call' = Woken(X)
  BY Zenon DEF PromotionEnds
<1>2. ASSUME NEW d \in Calls PROVE WellFormed(X[d]) /\ X[d].pc # "promoting"
  <2>1. CASE d = c
    <3>1. WellFormed(call[c])
      BY Zenon DEF SecretInv
    <3>2. X[c] = [call[c] EXCEPT !.pc = "primary", !.at = 0, !.todo = {}, !.copied = NoValue]
      BY Zenon DEF SecretInv
    <3>3. 0 \in Nat
      BY Zenon
    <3> HIDE DEF X
    <3> QED
      BY <2>1, <3>1, <3>2, <3>3, Zenon DEF WellFormed, CallRecords, MaybeValue
  <2>2. CASE d # c
    <3>1. X[d] = call[d]
      BY <2>2, Zenon DEF SecretInv
    <3>2. promotion_lock = c /\ WellFormed(call[d]) /\ Promotes(d)
      BY Zenon DEF SecretInv, Promotes
    <3> HIDE DEF X
    <3> QED
      BY <2>2, <3>1, <3>2, Zenon DEF Promotes
  <2> QED
    BY <2>1, <2>2, Zenon
<1> HIDE DEF X
<1>3. ASSUME NEW d \in Calls PROVE WellFormed(Woken(X)[d]) /\ Woken(X)[d].pc # "promoting"
  <2>1. WellFormed(X[d]) /\ X[d].pc # "promoting"
    BY <1>2, Zenon
  <2>2. CASE X[d].pc = "waiting"
    <3>1. Woken(X)[d] = [X[d] EXCEPT !.pc = "primary"]
      BY <2>2, Zenon DEF Woken
    <3> QED
      BY <2>1, <3>1, Zenon DEF WellFormed, CallRecords
  <2>3. CASE X[d].pc = "finalizing"
    <3>1. Woken(X)[d] = Idle
      BY <2>3, Zenon DEF Woken
    <3> QED
      BY <3>1, IdleFormed, Zenon
  <2>4. CASE X[d].pc \notin {"waiting", "finalizing"}
    <3>1. Woken(X)[d] = X[d]
      BY <2>4, Zenon DEF Woken
    <3> QED
      BY <2>1, <3>1, Zenon
  <2> QED
    BY <2>2, <2>3, <2>4, Zenon
<1>4. Woken(X) = [d \in Calls |-> Woken(X)[d]]
  BY Zenon DEF Woken
<1> QED
  BY <1>1, <1>3, <1>4, Zenon

\* Every answer and failure of the primary, and every step of a promotion, keeps the secrets.
LEMMA SecretStep == FallbackInv /\ SecretInv /\ [SecretNext]_secretVars => SecretInv'
<1> SUFFICES ASSUME FallbackInv, SecretInv, [SecretNext]_secretVars PROVE SecretInv'
  BY Zenon
<1> USE SecretAssumption
<1>a. /\ primary \in [Keys -> MaybeValue] /\ fallback \in [Keys -> MaybeValue]
      /\ expected \in [Keys -> MaybeValue] /\ SecretsKept
      /\ DOMAIN call = Calls /\ call = [c \in Calls |-> call[c]]
  BY Zenon DEF SecretInv
<1>b. \A c \in Calls : WellFormed(call[c]) /\ Promotes(c)
  BY Zenon DEF SecretInv
<1>n. \A c \in Calls : call[c].pc = "promoting" => promotion_lock = c /\ promotion_lock # NoLock
  BY <1>b, Zenon DEF Promotes, NoLock
<1>kept. ASSUME UNCHANGED <<primary, fallback, expected, excused>>
         PROVE  /\ primary' \in [Keys -> MaybeValue] /\ fallback' \in [Keys -> MaybeValue]
                /\ expected' \in [Keys -> MaybeValue] /\ SecretsKept'
  BY <1>a, <1>kept, Zenon DEF SecretsKept, Visible
\* one call goes on, and no promotion starts
<1>others. ASSUME NEW c \in Calls, NEW r, WellFormed(r), r.pc # "promoting",
                  call' = [call EXCEPT ![c] = r], UNCHANGED promotion_lock,
                  excused \subseteq excused',
                  promotion_lock = NoLock
                      \/ \A k \in Keys \ excused' : fallback[k] # NoValue => fallback'[k] # NoValue
           PROVE  /\ DOMAIN call' = Calls /\ call' = [d \in Calls |-> call'[d]]
                  /\ \A d \in Calls : WellFormed(call'[d]) /\ Promotes(d)'
  <2>1. DOMAIN call' = Calls /\ call' = [d \in Calls |-> call'[d]]
    BY <1>a, <1>others, Zenon
  <2>2. ASSUME NEW d \in Calls PROVE WellFormed(call'[d]) /\ Promotes(d)'
    <3>1. CASE d = c
      <4>1. call'[d] = r
        BY <1>a, <1>others, <3>1, Zenon
      <4> QED
        BY <4>1, <1>others, Zenon DEF Promotes
    <3>2. CASE d # c
      <4>1. call'[d] = call[d]
        BY <1>a, <1>others, <3>2, Zenon
      <4>2. WellFormed(call[d]) /\ Promotes(d)
        BY <1>b, Zenon
      <4>3. CASE call[d].pc # "promoting"
        BY <4>1, <4>2, <4>3, Zenon DEF Promotes
      <4>4. CASE call[d].pc = "promoting"
        <5> DEFINE m == call[d].at
        <5>1. promotion_lock = d /\ promotion_lock # NoLock /\ m \in Keys
              /\ (m \in excused \/ fallback[m] # NoValue)
          BY <4>2, <4>4, <1>n, Zenon DEF Promotes
        <5> HIDE DEF m
        <5>3. m \in excused' \/ fallback'[m] # NoValue
          BY <1>others, <5>1, Zenon
        <5>4. promotion_lock' = d
          BY <1>others, <5>1, Zenon
        <5> QED
          BY <4>1, <4>2, <5>1, <5>3, <5>4, Zenon DEF Promotes, m
      <4> QED
        BY <4>3, <4>4, Zenon
    <3> QED
      BY <3>1, <3>2, Zenon
  <2> QED
    BY <2>1, <2>2, Zenon
<1>1. ASSUME NEW c \in Calls, NEW r \in Requests, Begin(c, r) PROVE SecretInv'
  <2> DEFINE new == [Idle EXCEPT !.pc = "primary", !.kind = r.kind, !.key = r.key,
                                 !.value = r.value]
  <2>0. UNCHANGED <<primary, fallback, expected, excused>>
    BY <1>1, Zenon DEF Begin
  <2>1. /\ r.kind \in {"read", "write", "delete", "list"} /\ r.key \in Nat /\ r.value \in MaybeValue
        /\ r.kind = "write" => r.key \in Keys /\ r.value \in Values
        /\ r.kind = "delete" => r.key \in Keys
    <3>1. CASE r \in [kind : {"read", "delete"}, key : Keys, value : {NoValue}]
      BY <3>1, Zenon DEF MaybeValue
    <3>2. CASE r \in [kind : {"write"}, key : Keys, value : Values]
      BY <3>2, Zenon DEF MaybeValue
    <3>3. CASE r \in [kind : {"list"}, key : {0}, value : {NoValue}]
      BY <3>3 DEF MaybeValue
    <3> QED
      BY <3>1, <3>2, <3>3, Zenon DEF Requests
  <2>2. WellFormed(new) /\ new.pc = "primary" /\ new.kind = r.kind /\ new.key = r.key /\ new.value = r.value
    BY <2>1, Zenon DEF WellFormed, CallRecords, Idle, MaybeValue
  <2>3. CASE call' = [call EXCEPT ![c] = new] /\ UNCHANGED promotion_lock
    <3> HIDE DEF new
    <3>1. /\ DOMAIN call' = Calls /\ call' = [d \in Calls |-> call'[d]]
          /\ \A d \in Calls : WellFormed(call'[d]) /\ Promotes(d)'
      BY <1>others, <2>0, <2>2, <2>3, Zenon
    <3> QED
      BY <1>kept, <2>0, <3>1, Zenon DEF SecretInv
  <2>4. CASE call' = [call EXCEPT ![c] = [new EXCEPT !.pc = "waiting"]] /\ UNCHANGED promotion_lock
    <3> DEFINE w == [new EXCEPT !.pc = "waiting"]
    <3>1. WellFormed(w) /\ w.pc = "waiting"
      BY <2>1, Zenon DEF WellFormed, CallRecords, Idle, MaybeValue
    <3>2. call' = [call EXCEPT ![c] = w]
      BY <2>4, Zenon
    <3> HIDE DEF new, w
    <3>3. /\ DOMAIN call' = Calls /\ call' = [d \in Calls |-> call'[d]]
          /\ \A d \in Calls : WellFormed(call'[d]) /\ Promotes(d)'
      BY <1>others, <2>0, <2>4, <3>1, <3>2, Zenon
    <3> QED
      BY <1>kept, <2>0, <3>3, Zenon DEF SecretInv
  <2>5. ASSUME promotion_lock = NoLock, promotion_lock' = c, NEW m \in Held(fallback),
               call' = [call EXCEPT ![c] = CopyNext(new, m, Held(fallback))]
        PROVE  SecretInv'
    <3> DEFINE first == CopyNext(new, m, Held(fallback))
    <3>1. Held(fallback) \in SUBSET Keys
      BY Zenon DEF Held
    <3>2. m \in Keys /\ fallback[m] # NoValue /\ fallback[m] \in MaybeValue
      BY <1>a, <2>5, Zenon DEF Held
    <3>3. WellFormed(first) /\ first.pc = "promoting" /\ first.at = m
      <4>1. m \in Nat /\ {j \in Held(fallback) : j > m} \in SUBSET Keys
        BY <3>1, <3>2, SecretAssumption, Zenon
      <4> QED
        BY <2>1, <3>2, <4>1, Zenon DEF WellFormed, CallRecords, CopyNext, Idle, MaybeValue
    <3>f. call' = [call EXCEPT ![c] = first]
      BY <2>5, Zenon
    <3> HIDE DEF first
    <3>4. call'[c] = first /\ DOMAIN call' = Calls /\ call' = [d \in Calls |-> call'[d]]
      BY <1>a, <3>f, Zenon
    <3>5. ASSUME NEW d \in Calls PROVE WellFormed(call'[d]) /\ Promotes(d)'
      <4>1. CASE d = c
        BY <2>0, <2>5, <3>2, <3>3, <3>4, <4>1, Zenon DEF Promotes
      <4>2. CASE d # c
        <5>1. call'[d] = call[d] /\ call[d].pc # "promoting" /\ WellFormed(call[d])
          BY <1>a, <1>b, <1>n, <2>5, <4>2, Zenon
        <5> QED
          BY <5>1, Zenon DEF Promotes
      <4> QED
        BY <4>1, <4>2, Zenon
    <3> QED
      BY <1>kept, <2>0, <3>4, <3>5, Zenon DEF SecretInv
  <2> QED
    BY <1>1, <2>3, <2>4, <2>5, Zenon DEF Begin
\* the lock's holder copied a key: what a read would return is as before
<1>2. ASSUME NEW c \in Calls, PromoteKey(c) PROVE SecretInv'
  <2> DEFINE k == call[c].at
             left == {j \in call[c].todo : fallback[j] # NoValue}
  <2>1. /\ WellFormed(call[c]) /\ call[c].pc = "promoting" /\ promotion_lock = c
        /\ k \in Keys /\ (k \in excused \/ fallback[k] # NoValue)
    BY <1>2, <1>b, Zenon DEF PromoteKey, Promotes
  <2>2. call[c].todo \in SUBSET Keys /\ call[c].copied \in MaybeValue
    BY <2>1, Zenon DEF WellFormed, CallRecords
  <2>4. /\ primary' = [primary EXCEPT ![k] = call[c].copied]
        /\ UNCHANGED <<fallback, expected, excused>>
        /\ \/ /\ \E j \in left : call' = [call EXCEPT ![c] = CopyNext(@, j, call[c].todo)]
              /\ UNCHANGED promotion_lock
           \/ PromotionEnds(c)
    BY <1>2, Zenon DEF PromoteKey
  <2>5. /\ primary' \in [Keys -> MaybeValue] /\ fallback' \in [Keys -> MaybeValue]
        /\ expected' \in [Keys -> MaybeValue] /\ SecretsKept'
    <3> HIDE DEF k
    <3>1. \A j \in Keys \ excused : fallback[j] = NoValue => primary'[j] = primary[j]
      BY <1>a, <2>1, <2>4, Zenon
    <3>2. SecretsKept'
      BY <1>a, <2>4, <3>1, Zenon DEF SecretsKept, Visible
    <3> QED
      BY <1>a, <2>1, <2>2, <2>4, <3>2, Zenon
  <2>6. ASSUME NEW j \in left, call' = [call EXCEPT ![c] = CopyNext(@, j, call[c].todo)],
               UNCHANGED promotion_lock
        PROVE  SecretInv'
    <3> DEFINE new == CopyNext(call[c], j, call[c].todo)
    <3>4. j \in Keys /\ fallback[j] # NoValue /\ fallback[j] \in MaybeValue
      BY <1>a, <2>2, <2>6, Zenon
    <3>5. call' = [call EXCEPT ![c] = new] /\ DOMAIN call' = Calls /\ call' = [d \in Calls |-> call'[d]]
          /\ call'[c] = new
      BY <1>a, <2>6, Zenon
    <3>7. WellFormed(new) /\ new.at = j
      BY <2>1, <2>2, <3>4, Zenon DEF WellFormed, CallRecords, CopyNext
    <3> HIDE DEF new
    <3>8. ASSUME NEW d \in Calls PROVE WellFormed(call'[d]) /\ Promotes(d)'
      <4>1. CASE d = c
        <5>1. j \in Keys /\ fallback'[j] # NoValue /\ promotion_lock' = c
          BY <2>1, <2>4, <2>6, <3>4, Zenon
        <5> QED
          BY <3>5, <3>7, <4>1, <5>1, Zenon DEF Promotes
      <4>2. CASE d # c
        <5>1. call'[d] = call[d] /\ call[d].pc # "promoting" /\ WellFormed(call[d])
          BY <1>a, <1>b, <1>n, <2>1, <3>5, <4>2, Zenon
        <5> QED
          BY <5>1, Zenon DEF Promotes
      <4> QED
        BY <4>1, <4>2, Zenon
    <3> QED
      BY <2>5, <3>5, <3>8, Zenon DEF SecretInv
  <2>7. CASE PromotionEnds(c)
    <3>1. /\ DOMAIN call' = Calls /\ call' = [d \in Calls |-> call'[d]]
          /\ \A d \in Calls : WellFormed(call'[d]) /\ call'[d].pc # "promoting"
      BY <2>1, <2>7, AfterPromotion, Zenon
    <3>2. \A d \in Calls : Promotes(d)'
      BY <3>1, Zenon DEF Promotes
    <3> QED
      BY <2>5, <3>1, <3>2, Zenon DEF SecretInv
  <2> QED
    BY <2>4, <2>6, <2>7, Zenon
<1>3. ASSUME NEW c \in Calls, PromoteFails(c) PROVE SecretInv'
  <2>1. call[c].pc = "promoting" /\ PromotionEnds(c) /\ UNCHANGED <<primary, fallback, expected, excused>>
    BY <1>3, Zenon DEF PromoteFails
  <2>2. /\ DOMAIN call' = Calls /\ call' = [d \in Calls |-> call'[d]]
        /\ \A d \in Calls : WellFormed(call'[d]) /\ call'[d].pc # "promoting"
    BY <2>1, AfterPromotion, Zenon
  <2>3. \A d \in Calls : Promotes(d)'
    BY <2>2, Zenon DEF Promotes
  <2> QED
    BY <1>kept, <2>1, <2>2, <2>3, Zenon DEF SecretInv
\* the primary answered: what it holds is what a read returns, where the fallback is dropped
<1>4. ASSUME NEW c \in Calls, PrimaryAnswers(c) PROVE SecretInv'
  <2> DEFINE k == call[c].key
             stores == call[c].kind = "write"
             stored == IF stores THEN [primary EXCEPT ![k] = call[c].value] ELSE primary
  <2>0. WellFormed(call[c]) /\ WellFormed(Idle) /\ Idle.pc # "promoting"
        /\ WellFormed([Idle EXCEPT !.pc = "finalizing"])
        /\ [Idle EXCEPT !.pc = "finalizing"].pc # "promoting"
    BY <1>b, IdleFormed, Zenon DEF Idle
  <2>1. stores => k \in Keys /\ call[c].value \in MaybeValue
    BY <2>0, Zenon DEF WellFormed, MaybeValue
  <2>2. /\ primary' = stored /\ UNCHANGED promotion_lock
        /\ expected' = IF stores THEN [expected EXCEPT ![k] = call[c].value] ELSE expected
    BY <1>4, Zenon DEF PrimaryAnswers
  <2>3. primary' \in [Keys -> MaybeValue] /\ expected' \in [Keys -> MaybeValue]
    BY <1>a, <2>1, <2>2, Zenon
  <2>4. \A j \in Keys : IF stores /\ j = k
                           THEN primary'[j] = expected'[j]
                           ELSE primary'[j] = primary[j] /\ expected'[j] = expected[j]
    BY <1>a, <2>1, <2>2, Zenon
  <2>5. CASE /\ ~promotion_needed /\ call' = [call EXCEPT ![c] = Idle]
             /\ UNCHANGED <<fallback, excused>>
    <3>1. \A j \in Keys : fallback[j] = NoValue
      BY <2>5, Zenon DEF FallbackInv, FallbackShown, Held
    <3>2. SecretsKept'
      BY <1>a, <2>4, <2>5, <3>1, Zenon DEF SecretsKept, Visible
    <3>3. /\ DOMAIN call' = Calls /\ call' = [d \in Calls |-> call'[d]]
          /\ \A d \in Calls : WellFormed(call'[d]) /\ Promotes(d)'
      BY <1>others, <2>0, <2>2, <2>5, Zenon
    <3> QED
      BY <1>a, <2>3, <2>5, <3>2, <3>3, Zenon DEF SecretInv
  <2>6. CASE /\ call' = [call EXCEPT ![c] = [Idle EXCEPT !.pc = "finalizing"]]
             /\ excused' = IF stores THEN excused \cup {k} ELSE excused
             /\ UNCHANGED fallback
    <3>1. SecretsKept'
      BY <1>a, <2>4, <2>6, Zenon DEF SecretsKept, Visible
    <3>2. excused \subseteq excused'
      BY <2>6, Zenon
    <3> DEFINE f == [Idle EXCEPT !.pc = "finalizing"]
    <3>3. call' = [call EXCEPT ![c] = f] /\ WellFormed(f) /\ f.pc # "promoting"
      BY <2>0, <2>6, Zenon
    <3> HIDE DEF f
    <3>4. /\ DOMAIN call' = Calls /\ call' = [d \in Calls |-> call'[d]]
          /\ \A d \in Calls : WellFormed(call'[d]) /\ Promotes(d)'
      BY <1>others, <2>2, <2>6, <3>2, <3>3, Zenon
    <3> QED
      BY <1>a, <2>3, <2>6, <3>1, <3>4, Zenon DEF SecretInv
  <2>7. CASE /\ promotion_lock = NoLock /\ fallback' = [j \in Keys |-> NoValue]
             /\ call' = [call EXCEPT ![c] = Idle]
             /\ excused' = excused \cup {j \in Held(fallback) : /\ stored[j] # fallback[j]
                                                                /\ ~(stores /\ j = k)}
    <3>1. fallback' \in [Keys -> MaybeValue] /\ excused \subseteq excused'
      BY <2>7, Zenon DEF MaybeValue
    <3>2. ASSUME NEW j \in Keys \ excused' PROVE Visible(j)' = expected'[j]
      <4>1. Visible(j)' = primary'[j]
        BY <2>7, Zenon DEF Visible
      <4>2. CASE stores /\ j = k
        BY <2>4, <4>1, <4>2, Zenon
      <4>3. CASE ~(stores /\ j = k)
        <5>1. primary'[j] = primary[j] /\ expected'[j] = expected[j] /\ Visible(j) = expected[j]
          BY <1>a, <2>4, <3>1, <4>3, Zenon DEF SecretsKept
        <5>2. fallback[j] # NoValue => primary'[j] = fallback[j]
          <6> HIDE DEF stored, stores, k
          <6> QED
            BY <2>2, <2>7, <3>2, <4>3, Zenon DEF Held
        <5> QED
          BY <4>1, <5>1, <5>2, Zenon DEF Visible
      <4> QED
        BY <4>2, <4>3, Zenon
    <3>3. SecretsKept'
      BY <3>2, Zenon DEF SecretsKept
    <3>4. /\ DOMAIN call' = Calls /\ call' = [d \in Calls |-> call'[d]]
          /\ \A d \in Calls : WellFormed(call'[d]) /\ Promotes(d)'
      BY <1>others, <2>0, <2>2, <2>7, <3>1, Zenon
    <3> QED
      BY <2>3, <3>1, <3>3, <3>4, Zenon DEF SecretInv
  <2> QED
    BY <1>4, <2>5, <2>6, <2>7, Zenon DEF PrimaryAnswers
<1>5. ASSUME NEW c \in Calls, PrimaryThrows(c) PROVE SecretInv'
  <2> DEFINE k == call[c].key
             stores == call[c].kind = "write"
  <2>0. WellFormed(call[c]) /\ WellFormed(Idle) /\ Idle.pc # "promoting"
    BY <1>b, IdleFormed, Zenon DEF Idle
  <2>1. stores => k \in Keys /\ call[c].value \in MaybeValue /\ call[c].value # NoValue
    BY <2>0, Zenon DEF WellFormed, MaybeValue
  <2>2. /\ UNCHANGED <<primary, promotion_lock, excused>> /\ call' = [call EXCEPT ![c] = Idle]
        /\ fallback' = IF stores THEN [fallback EXCEPT ![k] = call[c].value] ELSE fallback
        /\ expected' = IF stores THEN [expected EXCEPT ![k] = call[c].value] ELSE expected
    BY <1>5, Zenon DEF PrimaryThrows, AfterThrow
  <2>3. fallback' \in [Keys -> MaybeValue] /\ expected' \in [Keys -> MaybeValue]
    BY <1>a, <2>1, <2>2, Zenon
  <2>4. \A j \in Keys : IF stores /\ j = k
                           THEN fallback'[j] = expected'[j] /\ fallback'[j] # NoValue
                           ELSE fallback'[j] = fallback[j] /\ expected'[j] = expected[j]
    BY <1>a, <2>1, <2>2, Zenon
  <2>5. SecretsKept'
    BY <1>a, <2>2, <2>4, Zenon DEF SecretsKept, Visible
  <2>6. \A j \in Keys \ excused' : fallback[j] # NoValue => fallback'[j] # NoValue
    BY <2>4, Zenon
  <2>7. /\ DOMAIN call' = Calls /\ call' = [d \in Calls |-> call'[d]]
        /\ \A d \in Calls : WellFormed(call'[d]) /\ Promotes(d)'
    BY <1>others, <2>0, <2>2, <2>6, Zenon
  <2> QED
    BY <1>a, <2>2, <2>3, <2>5, <2>7, Zenon DEF SecretInv
<1>6. ASSUME NEW c \in Calls, NEW ok \in BOOLEAN, DeleteEnds(c, ok) PROVE SecretInv'
  <2> DEFINE k == call[c].key
  <2>0. WellFormed(call[c]) /\ WellFormed(Idle) /\ Idle.pc # "promoting"
    BY <1>b, IdleFormed, Zenon DEF Idle
  <2>1. k \in Keys
    BY <1>6, <2>0, Zenon DEF WellFormed, DeleteEnds
  <2>2. /\ UNCHANGED promotion_lock /\ call' = [call EXCEPT ![c] = Idle]
        /\ primary' = IF ok THEN [primary EXCEPT ![k] = NoValue] ELSE primary
        /\ fallback' = [fallback EXCEPT ![k] = NoValue]
        /\ expected' = [expected EXCEPT ![k] = NoValue]
        /\ excused' = IF ~ok \/ promotion_lock # NoLock THEN excused \cup {k} ELSE excused
    BY <1>6, Zenon DEF DeleteEnds
  <2>3. /\ primary' \in [Keys -> MaybeValue] /\ fallback' \in [Keys -> MaybeValue]
        /\ expected' \in [Keys -> MaybeValue]
    BY <1>a, <2>1, <2>2, Zenon DEF MaybeValue
  <2>4. \A j \in Keys \ {k} : /\ primary'[j] = primary[j] /\ fallback'[j] = fallback[j]
                              /\ expected'[j] = expected[j]
    BY <1>a, <2>1, <2>2, Zenon
  <2>5. k \notin excused' => /\ primary'[k] = NoValue /\ fallback'[k] = NoValue
                             /\ expected'[k] = NoValue /\ promotion_lock = NoLock
    BY <1>a, <2>1, <2>2, Zenon
  <2>6. excused \subseteq excused'
    BY <2>2, Zenon
  <2> HIDE DEF k
  <2>7. SecretsKept'
    BY <1>a, <2>4, <2>5, <2>6, Zenon DEF SecretsKept, Visible
  <2>8. promotion_lock = NoLock
            \/ \A j \in Keys \ excused' : fallback[j] # NoValue => fallback'[j] # NoValue
    BY <2>4, <2>5, Zenon
  <2>9. /\ DOMAIN call' = Calls /\ call' = [d \in Calls |-> call'[d]]
        /\ \A d \in Calls : WellFormed(call'[d]) /\ Promotes(d)'
    BY <1>others, <2>0, <2>2, <2>6, <2>8, Zenon
  <2> QED
    BY <2>3, <2>7, <2>9, Zenon DEF SecretInv
<1>7. CASE SecretRestart
  <2>1. /\ UNCHANGED primary /\ fallback' = [k \in Keys |-> NoValue] /\ expected' = primary
        /\ call' = [c \in Calls |-> Idle]
    BY <1>7, Zenon DEF SecretRestart
  <2>2. SecretsKept'
    BY <2>1, Zenon DEF SecretsKept, Visible
  <2>3. \A c \in Calls : WellFormed(call'[c]) /\ Promotes(c)'
    BY <2>1, IdleFormed, Zenon DEF Promotes
  <2> QED
    BY <1>a, <2>1, <2>2, <2>3, Zenon DEF SecretInv, MaybeValue
<1>8. CASE UNCHANGED secretVars
  <2>1. UNCHANGED <<primary, fallback, expected, excused, call, promotion_lock>>
    BY <1>8, Zenon DEF secretVars
  <2>2. \A c \in Calls : WellFormed(call'[c]) /\ Promotes(c)'
    BY <1>b, <2>1, Zenon DEF Promotes
  <2> QED
    BY <1>a, <1>kept, <2>1, <2>2, Zenon DEF SecretInv
<1> QED
  BY <1>1, <1>2, <1>3, <1>4, <1>5, <1>6, <1>7, <1>8, Zenon DEF SecretNext

\* Nothing is stored at first and nothing was written.
LEMMA SecretInitially == SecretInit => SecretInv
<1> SUFFICES ASSUME SecretInit PROVE SecretInv
  BY Zenon
<1>1. \A c \in Calls : WellFormed(call[c]) /\ Promotes(c)
  BY IdleFormed, Zenon DEF SecretInit, Promotes
<1>2. SecretsKept
  BY Zenon DEF SecretInit, SecretsKept, Visible
<1> QED
  BY <1>1, <1>2, Zenon DEF SecretInit, SecretInv, MaybeValue

\* FallbackSecureStorage keeps every secret, through failures of the platform's store,
\* promotions and overlapping calls, but for the exceptions SecretsKept names.
THEOREM SecretsCorrect == SecretSpec => []SecretsKept
<1>1. SecretInv => SecretsKept
  BY Zenon DEF SecretInv
<1> QED
  BY <1>1, FallbackInitially, FallbackStep, SecretInitially, SecretStep, PTL DEF SecretSpec

-------------------------------------------------------------------------------
(* The profile store. *)

MaybeId == ProfileIds \cup {NoProfile}

StoreWrites ==
    [file : {"profiles"}, content : Seq(Edits)] \cup [file : {"selected"}, content : MaybeId]

StoresTyped ==
    /\ profiles \in Seq(Edits) /\ profiles_file \in Seq(Edits) \cup {NoProfile}
    /\ store_writes \in Seq(StoreWrites)

\* One write of a file at a time, as long as none overlapped another.
OnePerFile ==
    ~reordered => \A i, j \in 1..Len(store_writes) :
                     i # j => store_writes[i].file # store_writes[j].file

\* Without a timer the list is in its file, or on the way to it, or its write has failed.
ListSaved ==
    ~save_timer /\ ~reordered =>
        /\ \A i \in 1..Len(store_writes) :
              store_writes[i].file = "profiles" => store_writes[i].content = profiles
        /\ ~UnderWay("profiles") /\ ~unsaved_profiles => LoadedProfiles(profiles_file) = profiles

\* So is the selection, or what a load makes of its file is the selection anyway.
SelectionSaved ==
    ~unsaved_selection /\ ~reordered =>
        /\ \A i \in 1..Len(store_writes) :
              store_writes[i].file = "selected" => store_writes[i].content = selected
        /\ ~UnderWay("selected") => LoadedSelection(profiles, selected_file) = selected

\* The inductive invariant of EditsSurvive.  Its last conjunct is what makes a saved
\* selection count: it names a profile of the list, or the list's first, or nothing.
StoresInv ==
    /\ StoresTyped /\ OnePerFile /\ ListSaved /\ SelectionSaved
    /\ LoadedSelection(profiles, selected) = selected /\ selected \in MaybeId

\* The first profile of a list is what a load without a saved selection selects.
LEMMA FirstLoads ==
    ASSUME NEW list PROVE LoadedSelection(list, FirstOf(list)) = FirstOf(list)
  BY Zenon DEF LoadedSelection

\* The first profile of a list, if there is one.
LEMMA FirstType == ASSUME NEW list \in Seq(Edits) PROVE FirstOf(list) \in MaybeId
<1>1. CASE list = <<>>
  BY <1>1, Zenon DEF FirstOf, MaybeId
<1>2. CASE list # <<>>
  <2>1. list[1] \in Edits
    BY <1>2
  <2> QED
    BY <1>2, <2>1, Zenon DEF FirstOf, MaybeId, Edits
<1> QED
  BY <1>1, <1>2, Zenon

\* The profile selected after a load is one of the list, or none.
LEMMA LoadedType ==
    ASSUME NEW list \in Seq(Edits), NEW saved PROVE LoadedSelection(list, saved) \in MaybeId
<1>1. CASE saved \in Ids(list)
  <2>1. \A i \in 1..Len(list) : list[i] \in Edits
    OBVIOUS
  <2>2. saved \in ProfileIds
    BY <1>1, <2>1, Zenon DEF Ids, Edits
  <2> QED
    BY <1>1, <2>2, Zenon DEF LoadedSelection, MaybeId
<1>2. CASE saved \notin Ids(list)
  BY <1>2, FirstType, Zenon DEF LoadedSelection
<1> QED
  BY <1>1, <1>2, Zenon

\* An edit in place moves no profile.
LEMMA InPlace ==
    ASSUME profiles \in Seq(Edits), NEW p \in Edits
    PROVE  /\ Replaced(p) \in Seq(Edits) /\ Ids(Replaced(p)) = Ids(profiles)
           /\ FirstOf(Replaced(p)) = FirstOf(profiles)
           /\ \A saved : LoadedSelection(Replaced(p), saved) = LoadedSelection(profiles, saved)
<1> DEFINE R == Replaced(p)
<1>0. Len(profiles) \in Nat /\ \A i \in 1..Len(profiles) : profiles[i] \in Edits
  OBVIOUS
<1>1. R \in Seq(Edits) /\ Len(R) = Len(profiles)
  BY <1>0 DEF Replaced
<1>2. \A i \in 1..Len(profiles) : R[i].id = profiles[i].id
  BY <1>0, Zenon DEF Replaced
<1> HIDE DEF R
<1>3. Ids(R) = Ids(profiles)
  BY <1>1, <1>2, Zenon DEF Ids
<1>4. FirstOf(R) = FirstOf(profiles)
  <2>1. CASE Len(profiles) = 0
    <3>1. R = <<>> /\ profiles = <<>>
      BY <1>1, <2>1
    <3> QED
      BY <3>1, Zenon
  <2>2. CASE Len(profiles) # 0
    <3>1. R # <<>> /\ profiles # <<>> /\ 1 \in 1..Len(profiles)
      BY <1>0, <1>1, <2>2, SMTT(30)
    <3> QED
      BY <1>2, <3>1, Zenon DEF FirstOf
  <2> QED
    BY <2>1, <2>2, Zenon
<1> QED
  BY <1>1, <1>3, <1>4, Zenon DEF R, LoadedSelection

\* A write is the last of those under way.
LEMMA Started ==
    ASSUME StoresTyped, OnePerFile, NEW w \in StoreWrites, StartWrites(<<w>>)
    PROVE  /\ store_writes' \in Seq(StoreWrites) /\ OnePerFile'
           /\ ~reordered' => ~reordered /\ ~UnderWay(w.file)
           /\ Len(store_writes) \in Nat /\ Len(store_writes') = Len(store_writes) + 1
           /\ \A i \in 1..Len(store_writes) : store_writes'[i] = store_writes[i]
           /\ store_writes'[Len(store_writes) + 1] = w
<1> DEFINE n == Len(store_writes)
<1>1. store_writes \in Seq(StoreWrites) /\ n \in Nat
  BY DEF StoresTyped
<1>2. /\ store_writes' = store_writes \o <<w>>
      /\ reordered' = (reordered \/ \E i \in 1..n, j \in 1..Len(<<w>>) :
                                       store_writes[i].file = <<w>>[j].file)
  BY Zenon DEF StartWrites
<1>3. Len(<<w>>) = 1 /\ <<w>>[1] = w /\ <<w>> \in Seq(StoreWrites)
  OBVIOUS
<1>4. reordered' = (reordered \/ \E i \in 1..n : store_writes[i].file = w.file)
  BY <1>2, <1>3
<1>5. store_writes' \in Seq(StoreWrites) /\ Len(store_writes') = n + 1
  BY <1>1, <1>2, <1>3
<1>6. \A i \in 1..n : store_writes'[i] = store_writes[i]
  BY <1>1, <1>2, <1>3
<1>7. store_writes'[n + 1] = w
  BY <1>1, <1>2, <1>3
<1> HIDE DEF n
<1>u. ~reordered' => ~reordered /\ \A i \in 1..n : store_writes[i].file # w.file
  BY <1>4, Zenon
<1>8. ~reordered' => ~reordered /\ ~UnderWay(w.file)
  BY <1>u, Zenon DEF UnderWay, n
<1>9. OnePerFile'
  <2> SUFFICES ASSUME ~reordered', NEW i \in 1..(n + 1), NEW j \in 1..(n + 1), i # j
               PROVE  store_writes'[i].file # store_writes'[j].file
    BY <1>5, Zenon DEF OnePerFile
  <2>1. \A k \in 1..n : store_writes[k].file # w.file
    BY <1>u, Zenon
  <2>2. ~reordered
    BY <1>8, Zenon
  <2>3. CASE i \in 1..n /\ j \in 1..n
    BY <1>6, <2>2, <2>3, Zenon DEF OnePerFile, n
  <2>4. CASE i = n + 1
    <3>1. j \in 1..n
      BY <1>1, <2>4
    <3> QED
      BY <1>6, <1>7, <2>1, <2>4, <3>1, Zenon
  <2>5. CASE j = n + 1
    <3>1. i \in 1..n
      BY <1>1, <2>5
    <3> QED
      BY <1>6, <1>7, <2>1, <2>5, <3>1, Zenon
  <2>6. (i \in 1..n /\ j \in 1..n) \/ i = n + 1 \/ j = n + 1
    BY <1>1
  <2> QED
    BY <2>3, <2>4, <2>5, <2>6, Zenon
<1> QED
  BY <1>1, <1>5, <1>6, <1>7, <1>8, <1>9, Zenon DEF n

\* What is still under way after a landing or a failure was so before, and the other way
\* round.
LEMMA Landed ==
    ASSUME StoresTyped, OnePerFile, NEW i \in 1..Len(store_writes),
           store_writes' = RemoveAt(store_writes, i), UNCHANGED reordered
    PROVE  /\ store_writes' \in Seq(StoreWrites) /\ OnePerFile'
           /\ \A j \in 1..Len(store_writes') :
                 \E k \in 1..Len(store_writes) : k # i /\ store_writes'[j] = store_writes[k]
           /\ \A k \in 1..Len(store_writes) :
                 k # i => \E j \in 1..Len(store_writes') : store_writes'[j] = store_writes[k]
<1> DEFINE n == Len(store_writes)
           old(j) == IF j < i THEN j ELSE j + 1
<1>0. store_writes \in Seq(StoreWrites)
  BY Zenon DEF StoresTyped
<1>1. store_writes' = RemoveAt(store_writes, i) /\ UNCHANGED reordered
  BY Zenon
<1>2. /\ store_writes' \in Seq(StoreWrites) /\ n \in Nat /\ Len(store_writes') = n - 1
      /\ \A j \in 1..(n - 1) : store_writes'[j] = IF j < i THEN store_writes[j] ELSE store_writes[j + 1]
  <2> DEFINE R == RemoveAt(store_writes, i)
  <2>1. /\ R \in Seq(StoreWrites) /\ Len(R) = n - 1
        /\ \A j \in 1..n - 1 : R[j] = IF j < i THEN store_writes[j] ELSE store_writes[j + 1]
    BY <1>0, RemoveAtType, Zenon
  <2>2. n \in Nat
    BY <1>0
  <2> HIDE DEF R, n
  <2>3. store_writes' = R
    BY <1>1, Zenon DEF R
  <2> QED
    BY <2>1, <2>2, <2>3, Zenon
<1>3. i \in 1..n
  BY Zenon
<1> HIDE DEF n
<1>4. ASSUME NEW j \in 1..(n - 1) PROVE old(j) \in 1..n /\ old(j) # i
  BY <1>2, <1>3
<1>5. \A j \in 1..(n - 1) : store_writes'[j] = store_writes[old(j)]
  BY <1>2, Zenon
<1>6. ASSUME NEW j \in 1..(n - 1), NEW k \in 1..(n - 1), j # k PROVE old(j) # old(k)
  BY <1>2, <1>3, <1>6
<1>7. ASSUME NEW k \in 1..n, k # i PROVE \E j \in 1..(n - 1) : old(j) = k
  <2>1. CASE k < i
    <3>1. k \in 1..(n - 1) /\ old(k) = k
      BY <1>2, <1>3, <2>1
    <3> QED
      BY <3>1, Zenon
  <2>2. CASE ~(k < i)
    <3>1. k - 1 \in 1..(n - 1) /\ old(k - 1) = k
      BY <1>2, <1>3, <1>7, <2>2
    <3> QED
      BY <3>1, Zenon
  <2> QED
    BY <2>1, <2>2, Zenon
<1> HIDE DEF old
<1>8. OnePerFile'
  <2> SUFFICES ASSUME ~reordered', NEW j \in 1..(n - 1), NEW k \in 1..(n - 1), j # k
               PROVE  store_writes'[j].file # store_writes'[k].file
    BY <1>2, Zenon DEF OnePerFile
  <2>0. ~reordered
    BY <1>1
  <2>1. old(j) \in 1..n /\ old(k) \in 1..n
    BY <1>4, Zenon
  <2>2. old(j) # old(k)
    BY <1>6, Zenon
  <2> QED
    BY <1>5, <2>0, <2>1, <2>2, Zenon DEF OnePerFile, n
<1>9. \A j \in 1..(n - 1) : \E k \in 1..n : k # i /\ store_writes'[j] = store_writes[k]
  BY <1>4, <1>5, Zenon
<1>10. \A k \in 1..n : k # i => \E j \in 1..(n - 1) : store_writes'[j] = store_writes[k]
  BY <1>5, <1>7, Zenon
<1> QED
  BY <1>2, <1>8, <1>9, <1>10, Zenon DEF n

\* Edits, saves, landings and restarts keep what the files will make of the list and of the
\* selection.
LEMMA StoresStep == StoresInv /\ [StoresNext]_storeVars => StoresInv'
<1> SUFFICES ASSUME StoresInv, [StoresNext]_storeVars PROVE StoresInv'
  BY Zenon
<1> USE StoresAssumption
<1>a. /\ StoresTyped /\ OnePerFile /\ ListSaved /\ SelectionSaved
      /\ LoadedSelection(profiles, selected) = selected /\ selected \in MaybeId
  BY Zenon DEF StoresInv
<1>t. /\ profiles \in Seq(Edits) /\ profiles_file \in Seq(Edits) \cup {NoProfile}
      /\ store_writes \in Seq(StoreWrites)
  BY <1>a, Zenon DEF StoresTyped
\* a write of the selection starts, and nothing else is written
<1>sel. ASSUME profiles' \in Seq(Edits),
               UNCHANGED <<profiles_file, selected_file, unsaved_profiles>>,
               unsaved_selection' = FALSE,
               selected' \in MaybeId, LoadedSelection(profiles', selected') = selected',
               StartWrites(<<[file |-> "selected", content |-> selected']>>),
               save_timer' = TRUE \/ UNCHANGED <<profiles, save_timer>>
        PROVE  StoresInv'
  <2> DEFINE w == [file |-> "selected", content |-> selected']
             n == Len(store_writes)
  <2>1. w \in StoreWrites /\ w.file = "selected" /\ w.content = selected'
    BY <1>sel, Zenon DEF StoreWrites
  <2>s. StartWrites(<<w>>)
    BY <1>sel, Zenon
  <2> HIDE DEF w
  <2>2. /\ store_writes' \in Seq(StoreWrites) /\ OnePerFile'
        /\ ~reordered' => ~reordered /\ ~UnderWay("selected")
        /\ n \in Nat /\ Len(store_writes') = n + 1
        /\ \A i \in 1..n : store_writes'[i] = store_writes[i]
        /\ store_writes'[n + 1] = w
    BY <1>a, <2>1, <2>s, Started, Zenon
  <2>3. StoresTyped'
    BY <1>sel, <1>t, <2>2, Zenon DEF StoresTyped
  <2> HIDE DEF n
  <2>4. n + 1 \in 1..(n + 1) /\ \A i \in 1..(n + 1) : i \in 1..n \/ i = n + 1
    BY <2>2
  <2>5. ListSaved'
    <3> SUFFICES ASSUME ~save_timer', ~reordered' PROVE
                   /\ \A i \in 1..Len(store_writes') :
                         store_writes'[i].file = "profiles" => store_writes'[i].content = profiles'
                   /\ ~UnderWay("profiles")' /\ ~unsaved_profiles' =>
                         LoadedProfiles(profiles_file') = profiles'
      BY Zenon DEF ListSaved, LoadedProfiles
    <3>1. ~save_timer /\ ~reordered /\ UNCHANGED <<profiles, profiles_file, unsaved_profiles>>
      BY <1>sel, <2>2
    <3>2. /\ \A i \in 1..n : store_writes[i].file = "profiles" => store_writes[i].content = profiles
          /\ ~UnderWay("profiles") /\ ~unsaved_profiles => LoadedProfiles(profiles_file) = profiles
      BY <1>a, <3>1, Zenon DEF ListSaved, n
    <3>3. ASSUME NEW i \in 1..(n + 1), store_writes'[i].file = "profiles"
          PROVE  store_writes'[i].content = profiles'
      <4>1. i \in 1..n
        BY <2>1, <2>2, <2>4, <3>3, Zenon
      <4> QED
        BY <2>2, <3>1, <3>2, <3>3, <4>1, Zenon
    <3>4. UnderWay("profiles") => UnderWay("profiles")'
      <4>1. \A i \in 1..n : i \in 1..(n + 1)
        BY <2>2
      <4> QED
        BY <2>2, <4>1, Zenon DEF UnderWay, n
    <3> QED
      BY <2>2, <3>1, <3>2, <3>3, <3>4, Zenon
  <2>6. SelectionSaved'
    <3> SUFFICES ASSUME ~reordered' PROVE
                   /\ \A i \in 1..(n + 1) :
                         store_writes'[i].file = "selected" => store_writes'[i].content = selected'
                   /\ UnderWay("selected")'
      BY <2>2, Zenon DEF SelectionSaved
    <3>1. \A i \in 1..n : store_writes[i].file # "selected"
      BY <2>2, Zenon DEF UnderWay, n
    <3>2. ASSUME NEW i \in 1..(n + 1), store_writes'[i].file = "selected"
          PROVE  store_writes'[i].content = selected'
      BY <2>1, <2>2, <2>4, <3>1, <3>2, Zenon
    <3>3. UnderWay("selected")'
      BY <2>1, <2>2, <2>4, Zenon DEF UnderWay
    <3> QED
      BY <3>2, <3>3, Zenon
  <2> QED
    BY <1>sel, <2>2, <2>3, <2>5, <2>6, Zenon DEF StoresInv, LoadedSelection
\* a write of the list starts, and the timer is off
<1>list. ASSUME UNCHANGED <<profiles, selected, profiles_file, selected_file, unsaved_selection>>,
                save_timer' = FALSE, StartWrites(ProfilesWrite)
         PROVE  StoresInv'
  <2> DEFINE w == [file |-> "profiles", content |-> profiles]
             n == Len(store_writes)
  <2>1. w \in StoreWrites /\ w.file = "profiles" /\ w.content = profiles
    BY <1>t, Zenon DEF StoreWrites
  <2>s. StartWrites(<<w>>)
    BY <1>list, Zenon DEF ProfilesWrite
  <2> HIDE DEF w
  <2>2. /\ store_writes' \in Seq(StoreWrites) /\ OnePerFile'
        /\ ~reordered' => ~reordered /\ ~UnderWay("profiles")
        /\ n \in Nat /\ Len(store_writes') = n + 1
        /\ \A i \in 1..n : store_writes'[i] = store_writes[i]
        /\ store_writes'[n + 1] = w
    BY <1>a, <2>1, <2>s, Started, Zenon
  <2>3. StoresTyped'
    BY <1>list, <1>t, <2>2, Zenon DEF StoresTyped
  <2> HIDE DEF n
  <2>4. n + 1 \in 1..(n + 1) /\ \A i \in 1..(n + 1) : i \in 1..n \/ i = n + 1
    BY <2>2
  <2>5. ListSaved'
    <3> SUFFICES ASSUME ~reordered' PROVE
                   /\ \A i \in 1..(n + 1) :
                         store_writes'[i].file = "profiles" => store_writes'[i].content = profiles'
                   /\ UnderWay("profiles")'
      BY <2>2, Zenon DEF ListSaved
    <3>1. \A i \in 1..n : store_writes[i].file # "profiles"
      BY <2>2, Zenon DEF UnderWay, n
    <3>2. ASSUME NEW i \in 1..(n + 1), store_writes'[i].file = "profiles"
          PROVE  store_writes'[i].content = profiles'
      BY <1>list, <2>1, <2>2, <2>4, <3>1, <3>2, Zenon
    <3>3. UnderWay("profiles")'
      BY <2>1, <2>2, <2>4, Zenon DEF UnderWay
    <3> QED
      BY <3>2, <3>3, Zenon
  <2>6. SelectionSaved'
    <3> SUFFICES ASSUME ~unsaved_selection', ~reordered' PROVE
                   /\ \A i \in 1..(n + 1) :
                         store_writes'[i].file = "selected" => store_writes'[i].content = selected'
                   /\ ~UnderWay("selected")' => LoadedSelection(profiles, selected_file) = selected
      BY <1>list, <2>2, Zenon DEF SelectionSaved, LoadedSelection
    <3>1. ~unsaved_selection /\ ~reordered
      BY <1>list, <2>2, Zenon
    <3>2. /\ \A i \in 1..n : store_writes[i].file = "selected" => store_writes[i].content = selected
          /\ ~UnderWay("selected") => LoadedSelection(profiles, selected_file) = selected
      BY <1>a, <3>1, Zenon DEF SelectionSaved, n
    <3>3. ASSUME NEW i \in 1..(n + 1), store_writes'[i].file = "selected"
          PROVE  store_writes'[i].content = selected'
      <4>1. i \in 1..n
        BY <2>1, <2>2, <2>4, <3>3, Zenon
      <4> QED
        BY <1>list, <2>2, <3>2, <3>3, <4>1, Zenon
    <3>4. UnderWay("selected") => UnderWay("selected")'
      <4>1. \A i \in 1..n : i \in 1..(n + 1)
        BY <2>2
      <4> QED
        BY <2>2, <4>1, Zenon DEF UnderWay, n
    <3> QED
      BY <3>2, <3>3, <3>4, Zenon
  <2> QED
    BY <1>a, <1>list, <2>2, <2>3, <2>5, <2>6, Zenon DEF StoresInv, LoadedSelection
\* an edit starts the timer and writes nothing
<1>edit. ASSUME NEW L \in Seq(Edits), profiles' = L, save_timer' = TRUE,
                UNCHANGED <<profiles_file, selected_file, store_writes, reordered>>,
                selected' \in MaybeId, LoadedSelection(L, selected') = selected',
                ~unsaved_selection' => /\ ~unsaved_selection /\ UNCHANGED selected
                                       /\ LoadedSelection(profiles, selected_file) = selected
                                              => LoadedSelection(L, selected_file) = selected
         PROVE  StoresInv'
  <2>1. StoresTyped'
    BY <1>edit, <1>t, Zenon DEF StoresTyped
  <2>2. OnePerFile' /\ ListSaved'
    BY <1>a, <1>edit DEF OnePerFile, ListSaved
  <2>3. SelectionSaved'
    BY <1>a, <1>edit, Zenon DEF SelectionSaved, UnderWay, LoadedSelection
  <2> QED
    BY <1>edit, <2>1, <2>2, <2>3, Zenon DEF StoresInv, LoadedSelection
<1>1. ASSUME NEW id \in ProfileIds, SelectProfile(id) PROVE StoresInv'
  <2>1. /\ id \in Ids(profiles) /\ selected' = id /\ unsaved_selection' = FALSE
        /\ UNCHANGED <<profiles, save_timer, profiles_file, selected_file, unsaved_profiles>>
        /\ StartWrites(<<[file |-> "selected", content |-> selected']>>)
    BY <1>1, Zenon DEF SelectProfile
  <2>2. LoadedSelection(profiles', selected') = selected' /\ selected' \in MaybeId
    BY <2>1, Zenon DEF LoadedSelection, MaybeId
  <2> QED
    BY <1>sel, <1>t, <2>1, <2>2, Zenon
<1>2. ASSUME NEW p \in Edits, UpsertProfile(p) PROVE StoresInv'
  <2>0. p.id \in ProfileIds /\ p.id # NoProfile /\ p.id \in MaybeId
    BY Zenon DEF Edits, MaybeId
  <2>1. /\ selected' = p.id /\ save_timer' = TRUE
        /\ unsaved_selection' = (unsaved_selection \/ selected # p.id)
        /\ UNCHANGED <<profiles_file, selected_file, store_writes, reordered>>
        /\ profiles' = IF p.id \in Ids(profiles) THEN Replaced(p) ELSE Append(profiles, p)
    BY <1>2, Zenon DEF UpsertProfile
  <2>2. ~unsaved_selection' => ~unsaved_selection /\ selected = p.id
    BY <2>1, Zenon
  <2>3. CASE p.id \in Ids(profiles)
    <3>1. /\ Replaced(p) \in Seq(Edits) /\ Ids(Replaced(p)) = Ids(profiles)
          /\ \A saved : LoadedSelection(Replaced(p), saved) = LoadedSelection(profiles, saved)
      BY <1>t, InPlace, Zenon
    <3>2. LoadedSelection(Replaced(p), p.id) = p.id
      BY <2>3, <3>1, Zenon DEF LoadedSelection
    <3> QED
      BY <1>edit, <2>0, <2>1, <2>2, <2>3, <3>1, <3>2, Zenon
  <2>4. CASE p.id \notin Ids(profiles)
    <3> DEFINE L == Append(profiles, p)
               n == Len(profiles)
    <3>1. L \in Seq(Edits) /\ n \in Nat /\ Len(L) = n + 1 /\ L[n + 1] = p
      BY <1>t, AppendProperties
    <3> HIDE DEF L
    <3>2. p.id \in Ids(L)
      <4>1. n + 1 \in 1..Len(L)
        BY <3>1
      <4> QED
        BY <3>1, <4>1, Zenon DEF Ids
    <3>3. LoadedSelection(L, p.id) = p.id
      BY <3>2, Zenon DEF LoadedSelection
    <3>4. LoadedSelection(profiles, selected_file) # p.id
      <4>1. CASE selected_file \in Ids(profiles)
        BY <2>4, <4>1, Zenon DEF LoadedSelection
      <4>2. CASE selected_file \notin Ids(profiles) /\ profiles = <<>>
        BY <2>0, <4>2, Zenon DEF LoadedSelection, FirstOf
      <4>3. CASE selected_file \notin Ids(profiles) /\ profiles # <<>>
        <5>1. 1 \in 1..n
          BY <1>t, <4>3
        <5>2. profiles[1].id \in Ids(profiles)
          BY <5>1, Zenon DEF Ids
        <5> QED
          BY <2>4, <4>3, <5>2, Zenon DEF LoadedSelection, FirstOf
      <4> QED
        BY <4>1, <4>2, <4>3, Zenon
    <3>5. profiles' = L
      BY <2>1, <2>4, Zenon DEF L
    <3> QED
      BY <1>edit, <2>0, <2>1, <2>2, <3>1, <3>3, <3>4, <3>5, Zenon
  <2> QED
    BY <2>3, <2>4, Zenon
<1>3. ASSUME NEW p \in Edits, SyncStoredPasswordFlags(p) PROVE StoresInv'
  <2>1. /\ Replaced(p) \in Seq(Edits)
        /\ \A saved : LoadedSelection(Replaced(p), saved) = LoadedSelection(profiles, saved)
    BY <1>t, InPlace, Zenon
  <2>2. /\ profiles' = Replaced(p) /\ save_timer' = TRUE
        /\ UNCHANGED <<selected, profiles_file, selected_file, store_writes, reordered, unsaved_selection>>
    BY <1>3, Zenon DEF SyncStoredPasswordFlags
  <2> QED
    BY <1>a, <1>edit, <1>t, <2>1, <2>2, Zenon
<1>4. CASE RemoveSelectedProfile
  <2>1. /\ \E i \in 1..Len(profiles) : profiles' = RemoveAt(profiles, i)
        /\ selected' = FirstOf(profiles') /\ save_timer' = TRUE /\ unsaved_selection' = FALSE
        /\ StartWrites(<<[file |-> "selected", content |-> selected']>>)
        /\ UNCHANGED <<profiles_file, selected_file, unsaved_profiles>>
    BY <1>4, Zenon DEF RemoveSelectedProfile, RemoveAt
  <2>2. profiles' \in Seq(Edits)
    BY <1>t, <2>1, RemoveAtType, Zenon
  <2>3. selected' \in MaybeId /\ LoadedSelection(profiles', selected') = selected'
    BY <2>1, <2>2, FirstType, FirstLoads, Zenon
  <2> QED
    BY <1>sel, <2>1, <2>2, <2>3, Zenon
<1>5. CASE SaveTimerFires
  <2>1. /\ UNCHANGED <<profiles, selected, profiles_file, selected_file, unsaved_selection>>
        /\ save_timer' = FALSE /\ StartWrites(ProfilesWrite)
    BY <1>5, Zenon DEF SaveTimerFires
  <2> QED
    BY <1>list, <2>1, Zenon
<1>6. ASSUME NEW i \in 1..Len(store_writes), StoreWriteLands(i) PROVE StoresInv'
  <2> DEFINE w == store_writes[i]
             n == Len(store_writes)
             m == Len(store_writes')
  <2>1. w \in StoreWrites
    BY <1>t
  <2>2. /\ profiles_file' = IF w.file = "profiles" THEN w.content ELSE profiles_file
        /\ selected_file' = IF w.file = "selected" THEN w.content ELSE selected_file
        /\ UNCHANGED <<profiles, selected, save_timer, reordered, unsaved_profiles, unsaved_selection>>
        /\ store_writes' = RemoveAt(store_writes, i)
    BY <1>6, Zenon DEF StoreWriteLands, RemoveAt
  <2>3. /\ store_writes' \in Seq(StoreWrites) /\ OnePerFile'
        /\ \A j \in 1..m : \E k \in 1..n : k # i /\ store_writes'[j] = store_writes[k]
        /\ \A k \in 1..n : k # i => \E j \in 1..m : store_writes'[j] = store_writes[k]
    BY <1>a, <2>2, Landed, Zenon
  <2>4. i \in 1..n
    BY Zenon
  <2>5. /\ w.file = "profiles" => w.content \in Seq(Edits)
        /\ w.file \in {"profiles", "selected"}
    BY <2>1, Zenon DEF StoreWrites
  <2> HIDE DEF m, n
  <2>6. StoresTyped'
    BY <1>t, <2>2, <2>3, <2>5, Zenon DEF StoresTyped
  <2>7. \A f : UnderWay(f) /\ w.file # f => UnderWay(f)'
    BY <2>3, Zenon DEF UnderWay, m, n
  <2>8. ListSaved'
    <3> SUFFICES ASSUME ~save_timer', ~reordered' PROVE
                   /\ \A j \in 1..m :
                         store_writes'[j].file = "profiles" => store_writes'[j].content = profiles
                   /\ ~UnderWay("profiles")' /\ ~unsaved_profiles =>
                         LoadedProfiles(profiles_file') = profiles
      BY <2>2, Zenon DEF ListSaved, LoadedProfiles, m
    <3>1. /\ \A k \in 1..n : store_writes[k].file = "profiles" => store_writes[k].content = profiles
          /\ ~UnderWay("profiles") /\ ~unsaved_profiles => LoadedProfiles(profiles_file) = profiles
      BY <1>a, <2>2, Zenon DEF ListSaved, n
    <3>2. \A j \in 1..m :
             store_writes'[j].file = "profiles" => store_writes'[j].content = profiles
      BY <2>3, <3>1
    <3>3. CASE w.file = "profiles"
      <4>1. profiles_file' = profiles /\ profiles # NoProfile
        BY <1>t, <2>2, <2>4, <3>1, <3>3, Zenon
      <4> QED
        BY <3>2, <4>1, Zenon DEF LoadedProfiles
    <3>4. CASE w.file # "profiles"
      BY <2>2, <2>7, <3>1, <3>2, <3>4, ZenonT(30)
    <3> QED
      BY <3>3, <3>4, Zenon
  <2>9. SelectionSaved'
    <3> SUFFICES ASSUME ~unsaved_selection', ~reordered' PROVE
                   /\ \A j \in 1..m :
                         store_writes'[j].file = "selected" => store_writes'[j].content = selected
                   /\ ~UnderWay("selected")' => LoadedSelection(profiles, selected_file') = selected
      BY <2>2, Zenon DEF SelectionSaved, LoadedSelection, m
    <3>1. /\ \A k \in 1..n : store_writes[k].file = "selected" => store_writes[k].content = selected
          /\ ~UnderWay("selected") => LoadedSelection(profiles, selected_file) = selected
      BY <1>a, <2>2, Zenon DEF SelectionSaved, n
    <3>2. \A j \in 1..m :
             store_writes'[j].file = "selected" => store_writes'[j].content = selected
      BY <2>3, <3>1
    <3>3. CASE w.file = "selected"
      <4>1. selected_file' = selected
        BY <2>2, <2>4, <3>1, <3>3, Zenon
      <4> QED
        BY <1>a, <3>2, <4>1, Zenon
    <3>4. CASE w.file # "selected"
      <4>1. selected_file' = selected_file
        BY <2>2, <3>4, Zenon
      <4> QED
        BY <2>7, <3>1, <3>2, <3>4, <4>1, Zenon
    <3> QED
      BY <3>3, <3>4, Zenon
  <2> QED
    BY <1>a, <2>2, <2>3, <2>6, <2>8, <2>9, Zenon DEF StoresInv, LoadedSelection
<1>fails. ASSUME NEW i \in 1..Len(store_writes), StoreWriteFails(i) PROVE StoresInv'
  <2> DEFINE w == store_writes[i]
             n == Len(store_writes)
             m == Len(store_writes')
  <2>1. /\ profiles_file' \in {profiles_file} \cup (IF w.file = "profiles" THEN {NoProfile} ELSE {})
        /\ selected_file' \in {selected_file} \cup (IF w.file = "selected" THEN {NoProfile} ELSE {})
        /\ unsaved_profiles' = (unsaved_profiles \/ w.file = "profiles")
        /\ unsaved_selection' = (unsaved_selection \/ w.file = "selected")
        /\ UNCHANGED <<profiles, selected, save_timer, reordered>>
        /\ store_writes' = RemoveAt(store_writes, i)
    BY <1>fails, Zenon DEF StoreWriteFails, RemoveAt
  <2>2. /\ profiles_file' \in {profiles_file, NoProfile}
        /\ ~unsaved_profiles' => ~unsaved_profiles /\ w.file # "profiles" /\ UNCHANGED profiles_file
        /\ ~unsaved_selection' => ~unsaved_selection /\ w.file # "selected" /\ UNCHANGED selected_file
    BY <2>1, Zenon
  <2>3. /\ store_writes' \in Seq(StoreWrites) /\ OnePerFile'
        /\ \A j \in 1..m : \E k \in 1..n : k # i /\ store_writes'[j] = store_writes[k]
        /\ \A k \in 1..n : k # i => \E j \in 1..m : store_writes'[j] = store_writes[k]
    BY <1>a, <2>1, Landed, Zenon
  <2> HIDE DEF m, n
  <2>4. StoresTyped'
    BY <1>t, <2>1, <2>2, <2>3, Zenon DEF StoresTyped
  <2>5. \A f : UnderWay(f) /\ w.file # f => UnderWay(f)'
    BY <2>3, Zenon DEF UnderWay, m, n
  <2>6. ListSaved'
    <3> SUFFICES ASSUME ~save_timer', ~reordered' PROVE
                   /\ \A j \in 1..m :
                         store_writes'[j].file = "profiles" => store_writes'[j].content = profiles
                   /\ ~UnderWay("profiles")' /\ ~unsaved_profiles' =>
                         LoadedProfiles(profiles_file') = profiles
      BY <2>1, Zenon DEF ListSaved, LoadedProfiles, m
    <3>1. /\ \A k \in 1..n : store_writes[k].file = "profiles" => store_writes[k].content = profiles
          /\ ~UnderWay("profiles") /\ ~unsaved_profiles => LoadedProfiles(profiles_file) = profiles
      BY <1>a, <2>1, Zenon DEF ListSaved, n
    <3>2. \A j \in 1..m :
             store_writes'[j].file = "profiles" => store_writes'[j].content = profiles
      BY <2>3, <3>1
    <3> QED
      BY <2>2, <2>5, <3>1, <3>2, Zenon
  <2>7. SelectionSaved'
    <3> SUFFICES ASSUME ~unsaved_selection', ~reordered' PROVE
                   /\ \A j \in 1..m :
                         store_writes'[j].file = "selected" => store_writes'[j].content = selected
                   /\ ~UnderWay("selected")' => LoadedSelection(profiles, selected_file) = selected
      BY <2>1, <2>2, Zenon DEF SelectionSaved, LoadedSelection, m
    <3>1. /\ \A k \in 1..n : store_writes[k].file = "selected" => store_writes[k].content = selected
          /\ ~UnderWay("selected") => LoadedSelection(profiles, selected_file) = selected
      BY <1>a, <2>1, <2>2, Zenon DEF SelectionSaved, n
    <3>2. \A j \in 1..m :
             store_writes'[j].file = "selected" => store_writes'[j].content = selected
      BY <2>3, <3>1
    <3> QED
      BY <2>2, <2>5, <3>1, <3>2, Zenon
  <2> QED
    BY <1>a, <2>1, <2>3, <2>4, <2>6, <2>7, Zenon DEF StoresInv, LoadedSelection
<1>7. CASE StoresDispose
  <2>1. CASE save_timer
    <3>1. /\ UNCHANGED <<profiles, selected, profiles_file, selected_file, unsaved_selection>>
          /\ save_timer' = FALSE /\ StartWrites(ProfilesWrite)
      BY <1>7, <2>1, Zenon DEF StoresDispose
    <3> QED
      BY <1>list, <3>1, Zenon
  <2>2. CASE ~save_timer
    <3>1. /\ UNCHANGED <<profiles, selected, profiles_file, selected_file, unsaved_selection>>
          /\ ~unsaved_profiles' => ~unsaved_profiles
          /\ save_timer' = FALSE /\ StartWrites(<<>>)
      BY <1>7, <2>2, Zenon DEF StoresDispose
    <3>2. store_writes' = store_writes \o <<>>
      BY <3>1, Zenon DEF StartWrites
    <3>3. store_writes' = store_writes
      BY <1>t, <3>2, ConcatEmptySeq, Zenon
    <3>4. reordered' = (reordered \/ \E i \in 1..Len(store_writes), j \in 1..Len(<<>>) :
                                        store_writes[i].file = <<>>[j].file)
      BY <3>1 DEF StartWrites
    <3>6. ~reordered' => ~reordered
      BY <3>4, Zenon
    <3> QED
      BY <1>a, <2>2, <3>1, <3>3, <3>6, Zenon
         DEF StoresInv, StoresTyped, OnePerFile, ListSaved, SelectionSaved, UnderWay,
             LoadedProfiles, LoadedSelection
  <2> QED
    BY <2>1, <2>2, Zenon
<1>8. CASE StoresRestart
  <2>1. /\ profiles_file' \in Seq(Edits) \cup {NoProfile}
        /\ profiles' = LoadedProfiles(profiles_file')
        /\ selected' = LoadedSelection(profiles', selected_file')
        /\ save_timer' = FALSE /\ store_writes' = <<>>
        /\ reordered' = FALSE /\ unsaved_selection' = FALSE
    BY <1>8, <1>t, Zenon DEF StoresRestart
  <2>2. Samples \in Seq(Edits)
    BY DEF Samples, Edits
  <2>3. profiles' \in Seq(Edits)
    BY <2>1, <2>2, Zenon DEF LoadedProfiles
  <2>4. selected' \in MaybeId /\ LoadedSelection(profiles', selected') = selected'
    BY <2>1, <2>3, LoadedType, Zenon DEF LoadedSelection
  <2>5. store_writes' \in Seq(StoreWrites) /\ Len(store_writes') = 0
    BY <2>1
  <2>6. \A i \in 1..Len(store_writes') : FALSE
    BY <2>5
  <2>7. StoresTyped' /\ OnePerFile'
    BY <2>1, <2>3, <2>5, <2>6, Zenon DEF StoresTyped, OnePerFile
  <2>8. ListSaved' /\ SelectionSaved'
    BY <2>1, <2>6, Zenon DEF ListSaved, SelectionSaved, LoadedProfiles, LoadedSelection
  <2> QED
    BY <2>4, <2>7, <2>8, Zenon DEF StoresInv, LoadedSelection
<1>9. CASE UNCHANGED storeVars
  BY <1>a, <1>9, Zenon
     DEF storeVars, StoresInv, StoresTyped, OnePerFile, ListSaved, SelectionSaved, UnderWay,
         LoadedProfiles, LoadedSelection
<1> QED
  BY <1>1, <1>2, <1>3, <1>4, <1>5, <1>6, <1>fails, <1>7, <1>8, <1>9, Zenon DEF StoresNext

\* A first start shows the samples, which a load without files shows too.
LEMMA StoresInitially == StoresInit => StoresInv
<1> SUFFICES ASSUME StoresInit PROVE StoresInv
  BY Zenon
<1> USE StoresAssumption DEF StoresInit
<1>1. Samples \in Seq(Edits) /\ Len(Samples) = 1 /\ Samples[1].id = SampleId /\ Samples # <<>>
  BY DEF Samples, Edits
<1>2. Ids(Samples) = {SampleId} /\ FirstOf(Samples) = SampleId
  BY <1>1 DEF Ids, FirstOf
<1>3. \A i \in 1..Len(store_writes) : FALSE
  OBVIOUS
<1>4. StoresTyped /\ OnePerFile
  BY <1>1, <1>3 DEF StoresTyped, OnePerFile
<1>5. ListSaved /\ SelectionSaved
  BY <1>2, <1>3, Zenon DEF ListSaved, SelectionSaved, LoadedProfiles, LoadedSelection
<1> QED
  BY <1>2, <1>4, <1>5, Zenon DEF StoresInv, LoadedSelection, MaybeId

\* EditsSurvive for every set of profiles and every number of writes under way, some of
\* which fail: what load() restores is the list that was in memory, unless its last save
\* failed or overlapped another, and the selection beside it unless that was not saved.
THEOREM EditsCorrect == StoresSpec => EditsSurvive
<1>1. ASSUME StoresInv, StoresRestart, store_writes = <<>>, ~save_timer, ~reordered,
             ~unsaved_profiles
      PROVE  profiles' = profiles /\ (selected' = selected \/ unsaved_selection)
  <2>1. Len(store_writes) = 0
    BY <1>1, Zenon
  <2>2. \A f : ~UnderWay(f)
    BY <2>1 DEF UnderWay
  <2>3. UNCHANGED <<profiles_file, selected_file>>
    BY <1>1, <2>2, Zenon DEF StoresRestart
  <2>4. profiles' = profiles
    BY <1>1, <2>2, <2>3, Zenon DEF StoresRestart, StoresInv, ListSaved
  <2>5. selected' = LoadedSelection(profiles, selected_file)
    BY <1>1, <2>3, <2>4, Zenon DEF StoresRestart
  <2> QED
    BY <1>1, <2>2, <2>4, <2>5, Zenon DEF StoresInv, SelectionSaved
<1>2. StoresInv => (store_writes = <<>> /\ ~save_timer /\ ~reordered /\ ~unsaved_profiles
                        /\ StoresRestart =>
                       profiles' = profiles /\ (selected' = selected \/ unsaved_selection))
  BY <1>1, Zenon
<1> QED
  BY <1>2, StoresInitially, StoresStep, PTL DEF StoresSpec, EditsSurvive
===============================================================================
