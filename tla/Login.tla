--------------------------------- MODULE Login ---------------------------------
(***************************************************************************)
(* Logging in as one user from several browsers: the password, the second  *)
(* factor, and the failures counted in Redis that lock the e-mail address  *)
(* for a while (web/auth/routes.py).  Every Redis command is a step of its *)
(* own.  The counters of the client's IP address work the same way.        *)
(***************************************************************************)
EXTENDS Naturals

CONSTANTS
    Browsers,
    Max,        \* MAX_LOGIN_ATTEMPTS_PER_EMAIL
    Lockout,    \* LOGIN_LOCKOUT_SECONDS, in ticks
    AttemptsLife,   \* LOGIN_WINDOW_SECONDS
    PendingLife \* PENDING_2FA_TTL_SECONDS

VARIABLES
    place,      \* where each browser is
    back,       \* where it goes once a failure is counted
    age,        \* ticks since its password was accepted
    user,       \* the row
    open,       \* tenant.is_active
    attempts,   \* the counter of failures
    ttl,        \* ticks it lives, 0: for ever
    block       \* ticks the address is locked

vars == <<place, back, age, user, open, attempts, ttl, block>>
browser == <<place, back, age>>
counter == <<attempts, ttl, block>>

Resting == {"out", "pending", "in"}
Counting == {"count", "expire", "block", "look"}
Places == Resting \cup Counting \cup {"checked", "clear", "confirmed"}

TypeOK ==
    /\ place \in [Browsers -> Places]
    /\ back \in [Browsers -> {"out", "pending"}]
    /\ age \in [Browsers -> 0..(PendingLife + 1)]
    /\ user \in [admin: BOOLEAN, active: BOOLEAN, must: BOOLEAN, totp: BOOLEAN]
    /\ open \in BOOLEAN
    /\ attempts \in 0..Max /\ ttl \in 0..AttemptsLife /\ block \in 0..Lockout
    /\ ttl > 0 => attempts > 0

\* A user is created with a password somebody else knows.
Init ==
    /\ place = [b \in Browsers |-> "out"] /\ back = place /\ age = [b \in Browsers |-> 0]
    /\ \E admin \in BOOLEAN : user = [admin |-> admin, active |-> TRUE, must |-> TRUE, totp |-> FALSE]
    /\ open = TRUE /\ attempts = 0 /\ ttl = 0 /\ block = 0

Go(b, p) == place' = [place EXCEPT ![b] = p]
\* _is_role_2fa_required: of everybody but the administrators of the platform.
Required == ~user.admin
ShutOut == ~user.admin /\ ~open

-------------------------------------------------------------------------------
(* Password and code.                                                      *)

\* Variant: an attempt that comes while the address is locked counts as well.
AskBlockAndCount(b) ==
    /\ place[b] = "out"
    /\ Go(b, IF block = 0 THEN "checked" ELSE "count")
    /\ UNCHANGED <<back, age, user, open, counter>>

AskBlock(b) ==
    /\ place[b] = "out" /\ block = 0
    /\ Go(b, "checked")
    /\ UNCHANGED <<back, age, user, open, counter>>

\* Whether the user is active is asked later, with the code.
Password(b) ==
    /\ place[b] = "checked"
    /\ \E right \in BOOLEAN : Go(b, IF ~right THEN "count" ELSE IF ShutOut THEN "out" ELSE "clear")
    /\ UNCHANGED <<back, age, user, open, counter>>

ClearAttempts == attempts' = 0 /\ ttl' = 0 /\ block' = 0

Enter(b) ==
    /\ place[b] = "clear"
    /\ ClearAttempts
    /\ Go(b, IF Required THEN "pending" ELSE "in")
    /\ back' = [back EXCEPT ![b] = IF Required THEN "pending" ELSE "out"]
    /\ age' = [age EXCEPT ![b] = 0]
    /\ UNCHANGED <<user, open>>

\* _load_pending_2fa_user
Remembered(b) == age[b] <= PendingLife /\ user.active

Drop(b) == Go(b, "out") /\ back' = [back EXCEPT ![b] = "out"] /\ age' = [age EXCEPT ![b] = 0]

Refuse(b) ==
    /\ place[b] = "pending" /\ (~Remembered(b) \/ ShutOut)
    /\ Drop(b)
    /\ UNCHANGED <<user, open, counter>>

\* two_factor_setup: a user who still has no secret confirms the session's one.
Setup(b) ==
    /\ place[b] = "pending" /\ Remembered(b) /\ ~ShutOut /\ ~user.totp
    /\ \/ Go(b, "confirmed") /\ user' = [user EXCEPT !.totp = TRUE]
       \/ Go(b, "count") /\ UNCHANGED user
    /\ UNCHANGED <<back, age, open, counter>>

Verify(b) ==
    /\ place[b] = "pending" /\ Remembered(b) /\ ~ShutOut /\ user.totp
    /\ Go(b, "confirmed") \/ Go(b, "count")
    /\ UNCHANGED <<back, age, user, open, counter>>

Finalize(b) ==
    /\ place[b] = "confirmed"
    /\ ClearAttempts
    /\ Go(b, "in") /\ back' = [back EXCEPT ![b] = "out"] /\ age' = [age EXCEPT ![b] = 0]
    /\ UNCHANGED <<user, open>>

-------------------------------------------------------------------------------
(* _record_failed_login_attempt, then a look at the lock.                  *)

Beyond(n) == n >= Max
Count(b) ==
    LET n == IF attempts = Max THEN Max ELSE attempts + 1 IN
    /\ place[b] = "count"
    /\ attempts' = n
    /\ Go(b, IF n = 1 THEN "expire" ELSE IF Beyond(n) THEN "block" ELSE "look")
    /\ UNCHANGED <<back, age, user, open, ttl, block>>

\* Only the first failure gives the counter a life.
Expire(b) ==
    /\ place[b] = "expire"
    /\ ttl' = IF attempts > 0 THEN AttemptsLife ELSE 0
    /\ Go(b, IF Beyond(1) THEN "block" ELSE "look")
    /\ UNCHANGED <<back, age, user, open, attempts, block>>

Block(b) ==
    /\ place[b] = "block"
    /\ block' = Lockout
    /\ Go(b, "look")
    /\ UNCHANGED <<back, age, user, open, attempts, ttl>>

Look(b) ==
    /\ place[b] = "look"
    /\ IF block > 0 THEN Drop(b) ELSE Go(b, back[b]) /\ UNCHANGED <<back, age>>
    /\ UNCHANGED <<user, open, counter>>

\* The request dies; the cookie is what it was.
Crash(b) ==
    /\ place[b] \notin Resting
    /\ Go(b, back[b])
    /\ UNCHANGED <<back, age, user, open, counter>>

-------------------------------------------------------------------------------
(* With a session, and around it.                                          *)

Leave(b) ==
    /\ place[b] \in {"pending", "in"}
    /\ Drop(b)
    /\ UNCHANGED <<user, open, counter>>

\* The guards before every request: the client was closed.
Guard(b) ==
    /\ place[b] = "in" /\ ShutOut
    /\ Drop(b)
    /\ UNCHANGED <<user, open, counter>>

\* force_password_change
ForceChange(b) ==
    /\ place[b] = "in" /\ user.must
    /\ IF user.active THEN user' = [user EXCEPT !.must = FALSE] /\ UNCHANGED browser
       ELSE Drop(b) /\ UNCHANGED user
    /\ UNCHANGED <<open, counter>>

ResetPassword ==
    /\ user' = [user EXCEPT !.must = FALSE]
    /\ UNCHANGED <<browser, open, counter>>

\* An administrator switches the user on or off and may set a password.
EditUser ==
    /\ \E active \in BOOLEAN, must \in {user.must, TRUE} :
        user' = [user EXCEPT !.active = active, !.must = must]
    /\ UNCHANGED <<browser, open, counter>>

ToggleTenant == open' = ~open /\ UNCHANGED <<browser, user, counter>>

Down(n) == IF n = 0 THEN 0 ELSE n - 1
Tick ==
    /\ age' = [b \in Browsers |-> IF place[b] \in {"out", "in"} \/ age[b] > PendingLife
                                  THEN age[b] ELSE age[b] + 1]
    /\ ttl' = Down(ttl) /\ block' = Down(block)
    /\ attempts' = IF ttl = 1 THEN 0 ELSE attempts
    /\ UNCHANGED <<place, back, user, open>>

Step(b) ==
    \/ AskBlock(b) \/ Password(b) \/ Enter(b)
    \/ Refuse(b) \/ Setup(b) \/ Verify(b) \/ Finalize(b)
    \/ Count(b) \/ Expire(b) \/ Block(b) \/ Look(b) \/ Crash(b)
    \/ Leave(b) \/ Guard(b) \/ ForceChange(b)

Next == (\E b \in Browsers : Step(b)) \/ ResetPassword \/ EditUser \/ ToggleTenant \/ Tick
Spec == Init /\ [][Next]_vars
FairSpec == Spec /\ WF_vars(Tick)

-------------------------------------------------------------------------------
(* Properties.                                                             *)

\* Whatever is tried from however many browsers, wrong passwords and wrong codes
\* alike, the lock of an address ends again and again: nothing that a locked
\* address is refused can prolong it (_is_login_blocked before the password).
LockoutEnds == []<>(block = 0)
===============================================================================
