----------------------------- MODULE SecretStore ------------------------------
(* FallbackSecureStorage: secrets go to the platform's keychain (_primary) and, *)
(* when that throws, to a store in memory (_fallback), from which a later call  *)
(* promotes them back.  Dart runs one event at a time, and only calls of the    *)
(* primary leave the isolate: a step runs from the answer of one such call to   *)
(* the next call, to a wait for the promotion lock or to the return.            *)
(* (A definition X_Something is X with a plausible mistake in it.)              *)
EXTENDS Integers

CONSTANTS
    Keys,           \* numbered, as listKeys() sorts them
    Values, NoValue,
    Calls,          \* the calls that may be outstanding at once
    MaxSecretCalls, MaxSecretFails, MaxRestarts

ASSUME SecretAssumption ==
    /\ Keys \subseteq Nat /\ NoValue \notin Values /\ 0 \notin Calls
    /\ MaxSecretCalls \in Nat /\ MaxSecretFails \in Nat /\ MaxRestarts \in Nat

VARIABLES
    primary,            \* what each backend holds for a key
    fallback,
    promotion_needed,   \* _promotionNeeded
    promotion_lock,     \* the call that holds _promotionLock, or 0
    fallback_active,    \* _status.fallbackActive, shown to the user
    call,               \* the outstanding calls
    secret_calls, secret_fails, restarts,
    expected,           \* history: what the last write or delete of the key left it as
    excused,            \* history: keys that met one of the exceptions of SecretsKept
    hidden              \* history: _markPrimaryHealthy ran with secrets in the fallback

secretVars == <<primary, fallback, promotion_needed, promotion_lock, fallback_active, call,
                secret_calls, secret_fails, restarts, expected, excused, hidden>>

NoLock == 0
Idle == [pc |-> "idle", kind |-> "read", key |-> 0, value |-> NoValue,
         at |-> 0, todo |-> {}, copied |-> NoValue]

Held(store) == {k \in Keys : store[k] # NoValue}

SecretInit ==
    /\ primary = [k \in Keys |-> NoValue] /\ fallback = [k \in Keys |-> NoValue]
    /\ promotion_needed = FALSE /\ promotion_lock = NoLock /\ fallback_active = FALSE
    /\ call = [c \in Calls |-> Idle]
    /\ secret_calls = 0 /\ secret_fails = 0 /\ restarts = 0
    /\ expected = [k \in Keys |-> NoValue] /\ excused = {} /\ hidden = FALSE

-------------------------------------------------------------------------------
(* _attemptFallbackPromotion and _finalizeFallbackPromotion. *)

\* Completing _promotionLock: calls that waited to promote go on to the primary, calls
\* that waited to clean up return (their cleanup is left to a later call).
Woken(calls) ==
    [c \in Calls |->
        CASE calls[c].pc = "waiting" -> [calls[c] EXCEPT !.pc = "primary"]
          [] calls[c].pc = "finalizing" -> Idle
          [] OTHER -> calls[c]]

Finalizing(calls) == \E c \in Calls : calls[c].pc = "finalizing"

\* The copying loop takes the keys in order.
IsFirst(k, keys) == k \in keys /\ \A j \in keys : k <= j

\* Call r is at key k of the loop: its value is read now and written by a later event.
CopyNext(r, k, keys) ==
    [r EXCEPT !.pc = "promoting", !.at = k, !.todo = {j \in keys : j > k},
              !.copied = fallback[k]]

\* The loop is over, or threw: the lock is completed and the caller goes on.
PromotionEnds(c) ==
    /\ promotion_lock' = NoLock
    /\ call' = Woken([call EXCEPT ![c].pc = "primary", ![c].at = 0, ![c].todo = {},
                                ![c].copied = NoValue])
    /\ IF Finalizing(call)
          THEN fallback_active' = FALSE /\ hidden' = (hidden \/ Held(fallback) # {})
          ELSE UNCHANGED <<fallback_active, hidden>>

\* What a caller may ask for: readSecret(k), writeSecret(k, v), deleteSecret(k), listKeys().
Requests ==
    [kind : {"read", "delete"}, key : Keys, value : {NoValue}]
    \cup [kind : {"write"}, key : Keys, value : Values]
    \cup [kind : {"list"}, key : {0}, value : {NoValue}]

Begin(c, r) ==
    /\ call[c].pc = "idle" /\ secret_calls < MaxSecretCalls
    /\ secret_calls' = secret_calls + 1
    /\ LET new == [Idle EXCEPT !.pc = "primary", !.kind = r.kind, !.key = r.key,
                               !.value = r.value]
       IN  \/ /\ r.kind = "delete" \/ ~promotion_needed
              /\ call' = [call EXCEPT ![c] = new]
              /\ UNCHANGED <<promotion_needed, promotion_lock>>
           \/ /\ r.kind # "delete" /\ promotion_needed
              /\ \/ /\ promotion_lock # NoLock
                    /\ call' = [call EXCEPT ![c] = [new EXCEPT !.pc = "waiting"]]
                    /\ UNCHANGED <<promotion_needed, promotion_lock>>
                 \/ /\ promotion_lock = NoLock /\ Held(fallback) = {}
                    /\ promotion_needed' = FALSE
                    /\ call' = [call EXCEPT ![c] = new]
                    /\ UNCHANGED promotion_lock
                 \/ /\ promotion_lock = NoLock /\ promotion_lock' = c
                    /\ \E k \in Held(fallback) :
                          /\ IsFirst(k, Held(fallback))
                          /\ call' = [call EXCEPT ![c] = CopyNext(new, k, Held(fallback))]
                    /\ UNCHANGED promotion_needed
    /\ UNCHANGED <<primary, fallback, fallback_active, secret_fails, restarts, expected,
                   excused, hidden>>

\* The primary took a promoted secret.  Keys whose fallback value a delete removed in the
\* meantime are skipped.
PromoteKey(c) ==
    /\ call[c].pc = "promoting"
    /\ primary' = [primary EXCEPT ![call[c].at] = call[c].copied]
    /\ LET left == {j \in call[c].todo : fallback[j] # NoValue}
       IN  \/ /\ \E k \in left : /\ IsFirst(k, left)
                                 /\ call' = [call EXCEPT ![c] = CopyNext(@, k, call[c].todo)]
              /\ UNCHANGED <<promotion_lock, fallback_active, hidden>>
           \/ left = {} /\ PromotionEnds(c)
    /\ UNCHANGED <<fallback, promotion_needed, secret_calls, secret_fails, restarts, expected,
                   excused>>

\* It refused: the exception is swallowed and the call goes on as if all had been copied.
PromoteFails(c) ==
    /\ call[c].pc = "promoting" /\ secret_fails < MaxSecretFails
    /\ secret_fails' = secret_fails + 1
    /\ PromotionEnds(c)
    /\ UNCHANGED <<primary, fallback, promotion_needed, secret_calls, restarts, expected, excused>>

-------------------------------------------------------------------------------
(* readSecret, writeSecret, listKeys and deleteSecret once _primary answers. *)

\* The primary answered a read, a write or a list: the promoted copies are dropped from
\* the fallback, whatever became of the promotion.
PrimaryAnswers(c) ==
    /\ call[c].pc = "primary" /\ call[c].kind # "delete"
    /\ LET k == call[c].key
           writes == call[c].kind = "write"
           stored == IF writes THEN [primary EXCEPT ![k] = call[c].value] ELSE primary
       IN  /\ primary' = stored
           /\ expected' = IF writes THEN [expected EXCEPT ![k] = call[c].value] ELSE expected
           /\ \/ /\ ~promotion_needed
                 /\ call' = [call EXCEPT ![c] = Idle]
                 /\ fallback_active' = FALSE
                 /\ UNCHANGED <<fallback, promotion_needed, excused>>
              \/ /\ promotion_needed /\ promotion_lock # NoLock
                 /\ call' = [call EXCEPT ![c] = [Idle EXCEPT !.pc = "finalizing"]]
                 /\ excused' = IF writes THEN excused \cup {k} ELSE excused
                 /\ UNCHANGED <<fallback, promotion_needed, fallback_active>>
              \/ /\ promotion_needed /\ promotion_lock = NoLock
                 /\ fallback' = [j \in Keys |-> NoValue]
                 /\ promotion_needed' = FALSE
                 /\ call' = [call EXCEPT ![c] = Idle]
                 /\ fallback_active' = FALSE
                 /\ excused' = excused \cup {j \in Held(fallback) : /\ stored[j] # fallback[j]
                                                                    /\ ~(writes /\ j = k)}
    /\ UNCHANGED <<promotion_lock, secret_calls, secret_fails, restarts, hidden>>

\* _markPrimaryFailed.
MarkPrimaryFailed_StatusOnly ==
    fallback_active' = TRUE /\ UNCHANGED promotion_needed

MarkPrimaryFailed ==
    fallback_active' = TRUE /\ promotion_needed' = TRUE

\* What the fallback holds when it has served a call that the primary refused.
AfterThrow_Cleaned(c) ==
    [k \in Keys |-> IF call[c].kind = "write" /\ k = call[c].key THEN call[c].value ELSE NoValue]

AfterThrow(c) ==
    IF call[c].kind = "write" THEN [fallback EXCEPT ![call[c].key] = call[c].value] ELSE fallback

\* The primary threw: the fallback serves the call.
PrimaryThrows(c) ==
    /\ call[c].pc = "primary" /\ call[c].kind # "delete" /\ secret_fails < MaxSecretFails
    /\ secret_fails' = secret_fails + 1
    /\ MarkPrimaryFailed
    /\ fallback' = AfterThrow(c)
    /\ expected' = IF call[c].kind = "write"
                      THEN [expected EXCEPT ![call[c].key] = call[c].value] ELSE expected
    /\ call' = [call EXCEPT ![c] = Idle]
    /\ UNCHANGED <<primary, promotion_lock, secret_calls, restarts, excused, hidden>>

\* A delete goes to both backends, without promotion or cleanup; ok says whether the primary
\* did it.  Its failure is not reported to the caller.
DeleteEnds(c, ok) ==
    /\ call[c].pc = "primary" /\ call[c].kind = "delete"
    /\ ok \/ secret_fails < MaxSecretFails
    /\ secret_fails' = IF ok THEN secret_fails ELSE secret_fails + 1
    /\ LET k == call[c].key
       IN  /\ primary' = IF ok THEN [primary EXCEPT ![k] = NoValue] ELSE primary
           /\ fallback' = [fallback EXCEPT ![k] = NoValue]
           /\ expected' = [expected EXCEPT ![k] = NoValue]
           /\ excused' = IF ~ok \/ promotion_lock # NoLock THEN excused \cup {k} ELSE excused
           /\ hidden' = (hidden \/ (ok /\ Held(fallback) \ {k} # {}))
    /\ promotion_needed' = (promotion_needed \/ ~ok)
    /\ fallback_active' = ~ok
    /\ call' = [call EXCEPT ![c] = Idle]
    /\ UNCHANGED <<promotion_lock, secret_calls, restarts>>

\* The app ends and starts again: the fallback was in memory.
SecretRestart ==
    /\ restarts < MaxRestarts
    /\ restarts' = restarts + 1
    /\ fallback' = [k \in Keys |-> NoValue]
    /\ expected' = primary
    /\ promotion_needed' = FALSE /\ promotion_lock' = NoLock /\ fallback_active' = FALSE
    /\ call' = [c \in Calls |-> Idle]
    /\ hidden' = FALSE
    /\ UNCHANGED <<primary, secret_calls, secret_fails, excused>>

SecretNext ==
    \/ \E c \in Calls, r \in Requests : Begin(c, r)
    \/ \E c \in Calls : \/ PromoteKey(c) \/ PromoteFails(c)
                        \/ PrimaryAnswers(c) \/ PrimaryThrows(c)
                        \/ \E ok \in BOOLEAN : DeleteEnds(c, ok)
    \/ SecretRestart

SecretSpec == SecretInit /\ [][SecretNext]_secretVars

-------------------------------------------------------------------------------
(* What the next undisturbed read of a key returns. *)
Visible(k) == IF fallback[k] # NoValue THEN fallback[k] ELSE primary[k]

\* A secret is what its last write or delete left, in whichever backend, through failures of
\* the primary, promotions and overlapping calls.  Three things are excepted (excused): a
\* cleanup of copies the primary never took, a write or delete that overlaps another call's
\* promotion, and a delete the primary refused.
SecretsKept == \A k \in Keys \ excused : Visible(k) = expected[k]

\* A secret that only memory holds is one the status says the session alone has, and a
\* later call will try to promote it; _markPrimaryHealthy with secrets left in the
\* fallback (after a delete, or a cleanup left to another call) is the exception.
FallbackShown ==
    /\ Held(fallback) # {} => promotion_needed /\ (fallback_active \/ hidden)
    /\ promotion_lock # NoLock => promotion_needed
===============================================================================
