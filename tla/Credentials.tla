------------------------------ MODULE Credentials ------------------------------
(***************************************************************************)
(* What stands before a session of one email: the lockout after failed     *)
(* logins (shared/auth/lockout.py) and the tokens by which a password is   *)
(* reset (shared/auth/password_reset_store.py).  Each command of Redis is  *)
(* a step of its own.  The sessions that follow are in Sessions; the limit *)
(* of requests by address is left out.                                     *)
(***************************************************************************)
EXTENDS Naturals, Sequences, FiniteSets

CONSTANTS Attempts,    \* places for requests in progress
          MaxAttempts, \* login_lockout_max_attempts
          MaxResets,   \* bound: how many reset tokens are asked for
          MaxLost      \* bound: how many requests are lost

ASSUME CredentialsConstants ==
    IsFiniteSet(Attempts) /\ MaxAttempts \in Nat \ {0, 1} /\ MaxResets \in Nat /\ MaxLost \in Nat

VARIABLES failures,  \* the counter of failures; 0: no such key
          expiring,  \* the counter has a time to live
          lock,      \* the lock
          resets,    \* reset tokens, in order of issue
          attempt,   \* where each request is
          lost,      \* requests that ended before their end
          answered,  \* history: wrong passwords answered since the counter was last deleted
          uses,      \* history: how often each reset token has changed the password
          overlapped \* history: reset tokens read by two requests at once

lockout == <<failures, expiring, lock, answered>>
resetting == <<resets, uses, overlapped>>
credentialVars == <<lockout, resetting, attempt, lost>>

\* kept: its key is there still; late: expires_at has passed, the key's own
\* time to live being longer.
Reset == [kept: BOOLEAN, late: BOOLEAN]

Free == [at |-> "free"]

Moves(r, phase) == attempt' = [attempt EXCEPT ![r] = phase] /\ UNCHANGED lost

\* The process is lost, or Redis or PostgreSQL refuses.
Loses(r) ==
    /\ lost < MaxLost
    /\ lost' = lost + 1
    /\ attempt' = [attempt EXCEPT ![r] = Free]

CredentialsInit ==
    /\ failures = 0 /\ expiring = FALSE /\ lock = FALSE
    /\ resets = <<>>
    /\ attempt = [r \in Attempts |-> Free]
    /\ lost = 0
    /\ answered = 0 /\ uses = <<>> /\ overlapped = {}

-----------------------------------------------------------------------------
(* login, up to the session.                                               *)

CheckLock(r) ==
    /\ attempt[r] = Free
    /\ ~lock
    /\ Moves(r, [at |-> "verify"])
    /\ UNCHANGED <<lockout, resetting>>

\* verify_password: the lock is not looked at again.
WrongPassword(r) ==
    /\ attempt[r].at = "verify"
    /\ Moves(r, [at |-> "count"])
    /\ UNCHANGED <<lockout, resetting>>

RightPassword(r) ==
    /\ attempt[r].at = "verify"
    /\ Moves(r, [at |-> "clear"])
    /\ UNCHANGED <<lockout, resetting>>

\* MUTANT: only the failure that makes the count exact locks, and one more.
ReachedOneLate(count) == count = MaxAttempts + 1

Reached(count) == count >= MaxAttempts

CountFailure(r) ==
    /\ attempt[r].at = "count"
    /\ failures' = failures + 1
    /\ Moves(r, CASE failures' = 1 -> [at |-> "expire"]
                  [] Reached(failures') -> [at |-> "lock"]
                  [] OTHER -> Free)
    /\ answered' = answered + (IF attempt'[r] = Free THEN 1 ELSE 0)
    /\ UNCHANGED <<expiring, lock, resetting>>

\* EXPIRE of a key that is gone does nothing.
ExpireCounter(r) ==
    /\ attempt[r].at = "expire"
    /\ expiring' = (failures > 0)
    /\ answered' = answered + 1
    /\ Moves(r, Free)
    /\ UNCHANGED <<failures, lock, resetting>>

\* Between counting and EXPIRE: the counter stays until a lock or a success.
LoseLogin(r) ==
    /\ attempt[r].at \in {"verify", "count", "expire", "lock", "forget", "clear"}
    /\ Loses(r)
    /\ UNCHANGED <<lockout, resetting>>

SetLock(r) ==
    /\ attempt[r].at = "lock"
    /\ lock' = TRUE
    /\ Moves(r, [at |-> "forget"])
    /\ UNCHANGED <<failures, expiring, answered, resetting>>

Uncounted == failures' = 0 /\ expiring' = FALSE

ForgetFailures(r) ==
    /\ attempt[r].at = "forget"
    /\ Uncounted
    /\ answered' = 1
    /\ Moves(r, Free)
    /\ UNCHANGED <<lock, resetting>>

\* LoginLockout.reset, in one command: a lock set meanwhile goes too.
ClearLockout(r) ==
    /\ attempt[r].at = "clear"
    /\ Uncounted
    /\ answered' = 0
    /\ lock' = FALSE
    /\ Moves(r, Free)
    /\ UNCHANGED resetting

WindowEnds ==
    /\ expiring
    /\ Uncounted
    /\ answered' = 0
    /\ UNCHANGED <<lock, resetting, attempt, lost>>

LockEnds ==
    /\ lock
    /\ lock' = FALSE
    /\ UNCHANGED <<failures, expiring, answered, resetting, attempt, lost>>

-----------------------------------------------------------------------------
(* forgot_password and reset_password.                                     *)

ForgotPassword ==
    /\ Len(resets) < MaxResets
    /\ resets' = Append(resets, [kept |-> TRUE, late |-> FALSE])
    /\ uses' = Append(uses, 0)
    /\ UNCHANGED <<lockout, attempt, lost, overlapped>>

Reading(t) == {r \in Attempts : attempt[r] = [at |-> "consume", token |-> t]}

ReadReset(r, t) ==
    /\ attempt[r] = Free
    /\ resets[t].kept
    /\ overlapped' = overlapped \cup (IF Reading(t) = {} THEN {} ELSE {t})
    /\ Moves(r, [at |-> "consume", token |-> t])
    /\ UNCHANGED <<lockout, resets, uses>>

\* MUTANT: read as GET /auth/reset-password/:token reads it.
PeekReset(r) ==
    /\ attempt[r].at = "consume"
    /\ Moves(r, [attempt[r] EXCEPT !.at = "judge"])
    /\ UNCHANGED <<lockout, resetting>>

\* Deleted, late or not; whether it is late is asked afterwards.
DeleteReset(r) ==
    /\ attempt[r].at = "consume"
    /\ resets' = [resets EXCEPT ![attempt[r].token].kept = FALSE]
    /\ Moves(r, [attempt[r] EXCEPT !.at = "judge"])
    /\ UNCHANGED <<lockout, uses, overlapped>>

JudgeReset(r) ==
    /\ attempt[r].at = "judge"
    /\ Moves(r, IF resets[attempt[r].token].late THEN Free
                                                 ELSE [attempt[r] EXCEPT !.at = "save"])
    /\ UNCHANGED <<lockout, resetting>>

SavePassword(r) ==
    /\ attempt[r].at = "save"
    /\ uses' = [uses EXCEPT ![attempt[r].token] = @ + 1]
    /\ Moves(r, Free)
    /\ UNCHANGED <<lockout, resets, overlapped>>

\* The token is spent for nothing.
LoseReset(r) ==
    /\ attempt[r].at \in {"judge", "save"}
    /\ Loses(r)
    /\ UNCHANGED <<lockout, resetting>>

ResetAges(t) ==
    /\ resets[t].kept
    /\ resets' = [resets EXCEPT ![t] = IF @.late THEN [@ EXCEPT !.kept = FALSE]
                                                 ELSE [@ EXCEPT !.late = TRUE]]
    /\ UNCHANGED <<lockout, attempt, lost, uses, overlapped>>

-----------------------------------------------------------------------------
CredentialsNext ==
    \/ \E r \in Attempts :
         \/ CheckLock(r) \/ WrongPassword(r) \/ RightPassword(r)
         \/ CountFailure(r) \/ ExpireCounter(r) \/ LoseLogin(r)
         \/ SetLock(r) \/ ForgetFailures(r) \/ ClearLockout(r)
         \/ \E t \in DOMAIN resets : ReadReset(r, t)
         \/ DeleteReset(r) \/ JudgeReset(r) \/ SavePassword(r) \/ LoseReset(r)
    \/ WindowEnds \/ LockEnds \/ ForgotPassword
    \/ \E t \in DOMAIN resets : ResetAges(t)

CredentialsSpec == CredentialsInit /\ [][CredentialsNext]_credentialVars

CredentialsTypeOK ==
    /\ failures \in Nat /\ answered \in Nat
    /\ expiring \in BOOLEAN /\ lock \in BOOLEAN
    /\ resets \in Seq(Reset) /\ uses \in Seq(Nat)
    /\ attempt \in [Attempts -> {Free}
                       \cup [at: {"verify", "count", "clear", "expire", "lock", "forget"}]
                       \cup [at: {"consume", "judge", "save"}, token: Nat]]
    /\ overlapped \subseteq DOMAIN resets
    /\ lost \in 0..MaxLost

\* RN-D01: five wrong passwords lock the account.  The lock is looked at
\* before the password is verified, and counting, locking and forgetting are
\* commands apart, so that requests then in progress may add one answer
\* each, but no more are given between two deletions of the counter,
\* whatever overlaps, is lost or expires.
GuessesBounded == answered <= MaxAttempts - 1 + Cardinality(Attempts)

\* A reset token changes the password once, unless two requests read it
\* before either deleted it.
ResetsOnce == \A t \in DOMAIN resets \ overlapped : uses[t] <= 1

\* A counter of failures expires: refuted by a process lost after it counted.
CounterExpires ==
    failures > 0 => expiring \/ \E r \in Attempts : attempt[r].at \in {"expire", "lock", "forget"}

=============================================================================
