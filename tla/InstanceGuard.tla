---------------------------- MODULE InstanceGuard -----------------------------
(* DesktopInstanceGuard and requestQuit: copies of the app agree through a file *)
(* lock on one primary, and a second copy learns from the endpoint file where   *)
(* to ask the primary to show its window.  Every await is a step; copies start, *)
(* quit and crash at any point.                                                 *)
(* (A definition X_Something is X with a plausible mistake in it.)              *)
EXTENDS Naturals

CONSTANTS Copies, NoCopy

ASSUME GuardAssumption == NoCopy \notin Copies

VARIABLES
    place,              \* where each copy is in tryAcquirePrimaryLock or requestQuit
    lock,               \* the copy that holds the file lock
    endpoint,           \* the copy whose port and nonce are in the endpoint file, NoCopy
                        \* for a file that is missing or names a copy that has gone
    shown               \* the copy that was asked last to show its window

guardVars == <<place, lock, endpoint, shown>>

\* Where a copy is while the guard of its process has the lock.
Guarded == {"binding", "publishing", "serving", "deaf", "closing", "unlinking", "unlocking"}
GuardPlaces == Guarded \cup {"off", "locking", "notifying", "leaving", "unguarded"}

GuardTypeOK ==
    /\ place \in [Copies -> GuardPlaces]
    /\ {lock, endpoint, shown} \subseteq Copies \cup {NoCopy}

GuardInit ==
    /\ place = [c \in Copies |-> "off"]
    /\ lock = NoCopy /\ endpoint = NoCopy /\ shown = NoCopy

Move(c, from, to) == place[c] \in from /\ place' = [place EXCEPT ![c] = to]

Launch(c) == Move(c, {"off"}, "locking") /\ UNCHANGED <<lock, endpoint, shown>>

LockTaken(c) ==
    /\ lock = NoCopy
    /\ Move(c, {"locking"}, "binding")
    /\ lock' = c
    /\ UNCHANGED <<endpoint, shown>>

LockRefused(c) ==
    /\ lock # NoCopy
    /\ Move(c, {"locking"}, "notifying")
    /\ UNCHANGED <<lock, endpoint, shown>>

\* _notifyPrimaryToFocus: the copy asks whom the endpoint file names, if it still answers,
\* and ends.  The file may be empty, being written.
NotifyPrimary(c) ==
    /\ Move(c, {"notifying"}, "off")
    /\ shown' \in {shown} \cup {p \in Copies : p = endpoint /\ place[p] = "serving"}
    /\ UNCHANGED <<lock, endpoint>>

\* _startFocusServer binds a socket and writes the endpoint file, over what an earlier
\* primary left; a failure of either is logged, and the copy does without.
FocusServerBound(c) == Move(c, {"binding"}, "publishing") /\ UNCHANGED <<lock, endpoint, shown>>

FocusServerFails(c) ==
    /\ Move(c, {"binding", "publishing"}, "deaf")
    /\ UNCHANGED <<lock, endpoint, shown>>

EndpointWritten(c) ==
    /\ Move(c, {"publishing"}, "serving")
    /\ endpoint' = c
    /\ UNCHANGED <<lock, shown>>

\* requestQuit reaches release(): the nonce is forgotten and the server closed ...
Quit(c) == Move(c, {"serving", "deaf"}, "closing") /\ UNCHANGED <<lock, endpoint, shown>>

ServerClosed_UnlocksFirst(c) ==
    /\ Move(c, {"closing"}, "unlinking")
    /\ lock' = NoCopy
    /\ UNCHANGED <<endpoint, shown>>

ServerClosed(c) == Move(c, {"closing"}, "unlinking") /\ UNCHANGED <<lock, endpoint, shown>>

\* ... then the endpoint file is deleted, whatever it names, and then the lock given up.
EndpointDeleted(c) ==
    /\ Move(c, {"unlinking"}, "unlocking")
    /\ endpoint' = NoCopy
    /\ UNCHANGED <<lock, shown>>

Unlocked(c) ==
    /\ Move(c, {"unlocking"}, "leaving")
    /\ lock' = NoCopy
    /\ UNCHANGED <<endpoint, shown>>

\* The window closes and the copy ends, or closing it throws and the copy stays, without
\* the lock.  Another quit finds nothing left to release.
WindowCloses(c) == Move(c, {"leaving"}, "off") /\ UNCHANGED <<lock, endpoint, shown>>
WindowStays(c) == Move(c, {"leaving"}, "unguarded") /\ UNCHANGED <<lock, endpoint, shown>>
QuitAgain(c) == Move(c, {"unguarded"}, "leaving") /\ UNCHANGED <<lock, endpoint, shown>>

\* A crash leaves the endpoint file; the system frees the lock.
Without(x, c) == IF x = c THEN NoCopy ELSE x

Crash(c) ==
    /\ place[c] # "off"
    /\ place' = [place EXCEPT ![c] = "off"]
    /\ lock' = Without(lock, c) /\ endpoint' = Without(endpoint, c)
    /\ UNCHANGED shown

GuardNext ==
    \E c \in Copies :
        \/ Launch(c) \/ LockTaken(c) \/ LockRefused(c) \/ NotifyPrimary(c)
        \/ FocusServerBound(c) \/ FocusServerFails(c) \/ EndpointWritten(c)
        \/ Quit(c) \/ ServerClosed(c) \/ EndpointDeleted(c) \/ Unlocked(c)
        \/ WindowCloses(c) \/ WindowStays(c) \/ QuitAgain(c) \/ Crash(c)

GuardSpec == GuardInit /\ [][GuardNext]_guardVars

-------------------------------------------------------------------------------
\* While a primary serves, the endpoint file names it, so that a second start is shown its
\* window: the primary before it, quitting, crashed or quit twice, never deletes the file
\* of its successor.
EndpointCurrent == \A c \in Copies : place[c] = "serving" => endpoint = c /\ lock = c
===============================================================================
