----------------------------- MODULE Access_proofs -----------------------------
(***************************************************************************)
(* What stands before a session and what it may do: proofs about           *)
(* Credentials, then about Permissions.                                    *)
(*                                                                         *)
(* Credentials, for any number of requests at once and any limit of        *)
(* attempts: the requests and the keys of Redis are well typed, a reset    *)
(* token that no two requests read at once changes the password at most    *)
(* once, and no more wrong passwords are answered than the limit and the   *)
(* requests in progress allow.                                             *)
(*                                                                         *)
(* Permissions, for any number of organizations and any order of releases, *)
(* revisions and downgrades: the columns are well typed, no role loses a   *)
(* permission but by a downgrade, and at the latest release and revision   *)
(* every role has what the catalogue gives it.                             *)
(***************************************************************************)
EXTENDS Credentials, Permissions, FiniteSetTheorems, SequenceTheorems, TLAPS

Phase ==
    {Free} \cup [at: {"verify", "count", "clear", "expire", "lock", "forget"}]
           \cup [at: {"consume", "judge", "save"}, token: Nat]

\* A request that has read a token and has not ended.
Holding(r) == attempt[r].at \in {"consume", "judge", "save"}

Works(r, t) == Holding(r) /\ attempt[r].token = t

\* The induction for ResetsOnce.  While the key is there nobody is past
\* reading it; a token in somebody's hands is in one pair of hands, and has
\* not been used yet.
ResetsInv ==
    /\ Len(uses) = Len(resets)
    /\ \A r \in Attempts : Holding(r) => attempt[r].token \in DOMAIN resets
    /\ \A t \in DOMAIN resets \ overlapped :
         /\ uses[t] <= 1
         /\ resets[t].kept => uses[t] = 0
         /\ \A r \in Attempts : Works(r, t) =>
              /\ uses[t] = 0
              /\ resets[t].kept => attempt[r].at = "consume"
              /\ \A s \in Attempts : Works(s, t) => s = r

\* Requests that counted the first failure and have not answered it.
Expiring == {r \in Attempts : attempt[r].at = "expire"}

\* The counter as far as it can go without a lock.
Unlocked == IF failures < MaxAttempts THEN failures ELSE MaxAttempts - 1

\* The induction for GuessesBounded.  A failure adds to the counter when it
\* adds an answer, now or after EXPIRE, unless it locks; whoever forgets the
\* counter leaves its own answer and those still to expire, one for each
\* request but itself.
GuessesInv == answered + Cardinality(Expiring) <= Unlocked + Cardinality(Attempts)

-----------------------------------------------------------------------------
(* Moves.                                                                  *)

LEMMA Moved ==
    ASSUME CredentialsTypeOK, NEW r \in Attempts, NEW phase \in Phase,
           attempt' = [attempt EXCEPT ![r] = phase]
    PROVE  /\ attempt' \in [Attempts -> Phase]
           /\ attempt'[r] = phase
           /\ \A s \in Attempts \ {r} : attempt'[s] = attempt[s]
<1>1. attempt \in [Attempts -> Phase]
  BY DEF CredentialsTypeOK, Phase
<1> QED BY <1>1

LEMMA Phases ==
    /\ Free \in Phase /\ Free.at = "free"
    /\ \A at \in {"verify", "count", "clear", "expire", "lock", "forget"} :
         [at |-> at] \in Phase /\ [at |-> at].at = at
    /\ \A at \in {"consume", "judge", "save"}, t \in Nat :
         /\ [at |-> at, token |-> t] \in Phase
         /\ [at |-> at, token |-> t].at = at
         /\ [at |-> at, token |-> t].token = t
BY DEF Phase, Free

LEMMA Tokened ==
    ASSUME CredentialsTypeOK, NEW r \in Attempts,
           attempt[r].at \in {"consume", "judge", "save"}, NEW at \in {"consume", "judge", "save"}
    PROVE  /\ attempt[r].token \in Nat
           /\ attempt[r] = [at |-> attempt[r].at, token |-> attempt[r].token]
           /\ [attempt[r] EXCEPT !.at = at] = [at |-> at, token |-> attempt[r].token]
<1>1. attempt[r] \in Phase
  BY DEF CredentialsTypeOK, Phase
<1>2. attempt[r] \in [at: {"consume", "judge", "save"}, token: Nat]
  BY <1>1 DEF Phase, Free
<1> QED BY <1>2

\* What CountFailure leaves its request at.
LEMMA Counted ==
    ASSUME CredentialsTypeOK, NEW r \in Attempts, CountFailure(r)
    PROVE  /\ attempt[r].at = "count"
           /\ failures' = failures + 1
           /\ UNCHANGED <<expiring, lock, resetting, lost>>
           /\ \/ /\ failures = 0
                 /\ attempt' = [attempt EXCEPT ![r] = [at |-> "expire"]]
                 /\ answered' = answered
              \/ /\ failures # 0 /\ failures' >= MaxAttempts
                 /\ attempt' = [attempt EXCEPT ![r] = [at |-> "lock"]]
                 /\ answered' = answered
              \/ /\ failures # 0 /\ failures' < MaxAttempts
                 /\ attempt' = [attempt EXCEPT ![r] = Free]
                 /\ answered' = answered + 1
<1> DEFINE phase == CASE failures' = 1 -> [at |-> "expire"]
                      [] Reached(failures') -> [at |-> "lock"]
                      [] OTHER -> Free
<1>1. /\ attempt[r].at = "count" /\ failures' = failures + 1
      /\ UNCHANGED <<expiring, lock, resetting, lost>>
      /\ attempt' = [attempt EXCEPT ![r] = phase]
      /\ answered' = answered + (IF attempt'[r] = Free THEN 1 ELSE 0)
  BY DEF CountFailure, Moves
<1>2. /\ failures \in Nat /\ answered \in Nat /\ failures' \in Nat
      /\ MaxAttempts \in Nat /\ MaxAttempts > 1
  BY <1>1, CredentialsConstants DEF CredentialsTypeOK
<1>3. \/ failures = 0 /\ phase = [at |-> "expire"]
      \/ failures # 0 /\ failures' >= MaxAttempts /\ phase = [at |-> "lock"]
      \/ failures # 0 /\ failures' < MaxAttempts /\ phase = Free
  BY <1>1, <1>2 DEF Reached
<1>4. /\ [at |-> "expire"] \in Phase /\ [at |-> "lock"] \in Phase /\ Free \in Phase
      /\ [at |-> "expire"] # Free /\ [at |-> "lock"] # Free
  BY Phases DEF Free
<1>5. phase \in Phase
  BY <1>3, <1>4
<1>6. attempt'[r] = phase
  BY <1>1, <1>5, Moved
<1> HIDE DEF phase
<1>7. answered' = IF phase = Free THEN answered + 1 ELSE answered
  BY <1>1, <1>2, <1>6
<1> QED BY <1>1, <1>3, <1>4, <1>7

\* Judged: it goes on or it ends.
LEMMA Judged ==
    ASSUME CredentialsTypeOK, NEW r \in Attempts, JudgeReset(r)
    PROVE  /\ attempt[r].at = "judge"
           /\ \/ attempt' = [attempt EXCEPT ![r] = Free]
              \/ attempt' = [attempt EXCEPT ![r] = [at |-> "save", token |-> attempt[r].token]]
           /\ UNCHANGED <<lockout, resetting, lost>>
<1>1. attempt[r].at = "judge"
  BY DEF JudgeReset
<1>2. [attempt[r] EXCEPT !.at = "save"] = [at |-> "save", token |-> attempt[r].token]
  BY <1>1, Tokened
<1> QED BY <1>1, <1>2 DEF JudgeReset, Moves

LEMMA Deleted ==
    ASSUME CredentialsTypeOK, NEW r \in Attempts, DeleteReset(r)
    PROVE  /\ attempt[r].at = "consume"
           /\ attempt' = [attempt EXCEPT ![r] = [at |-> "judge", token |-> attempt[r].token]]
           /\ resets' = [resets EXCEPT ![attempt[r].token].kept = FALSE]
           /\ UNCHANGED <<lockout, lost, uses, overlapped>>
<1>1. attempt[r].at = "consume"
  BY DEF DeleteReset
<1>2. [attempt[r] EXCEPT !.at = "judge"] = [at |-> "judge", token |-> attempt[r].token]
  BY <1>1, Tokened
<1> QED BY <1>1, <1>2 DEF DeleteReset, Moves

-----------------------------------------------------------------------------
(* Types.                                                                  *)

LEMMA CredentialsInitTyped == CredentialsInit => CredentialsTypeOK
<1> SUFFICES ASSUME CredentialsInit PROVE CredentialsTypeOK
  OBVIOUS
<1>1. MaxLost \in Nat
  BY CredentialsConstants
<1>2. resets \in Seq(Reset) /\ uses \in Seq(Nat) /\ overlapped \subseteq DOMAIN resets
  BY DEF CredentialsInit
<1>3. expiring \in BOOLEAN /\ lock \in BOOLEAN
  BY DEF CredentialsInit
<1>4. attempt \in [Attempts -> Phase]
  BY Phases DEF CredentialsInit
<1>5. failures \in Nat /\ answered \in Nat /\ lost \in 0..MaxLost
  BY <1>1 DEF CredentialsInit
<1> QED BY <1>2, <1>3, <1>4, <1>5 DEF CredentialsTypeOK, Phase

\* What Redis keeps of the tokens when one is deleted or ages.
LEMMA Rewritten ==
    ASSUME resets \in Seq(Reset), NEW t,
           \/ resets' = [resets EXCEPT ![t].kept = FALSE]
           \/ resets' = [resets EXCEPT ![t] = IF @.late THEN [@ EXCEPT !.kept = FALSE]
                                                       ELSE [@ EXCEPT !.late = TRUE]]
    PROVE  /\ resets' \in Seq(Reset) /\ Len(resets') = Len(resets)
           /\ DOMAIN resets' = DOMAIN resets
           /\ \A q \in DOMAIN resets : resets'[q].kept => resets[q].kept
<1>1. ASSUME t \in DOMAIN resets
      PROVE  /\ [resets[t] EXCEPT !.kept = FALSE] \in Reset
             /\ [resets[t] EXCEPT !.late = TRUE] \in Reset
             /\ [resets[t] EXCEPT !.late = TRUE].kept = resets[t].kept
             /\ [resets[t] EXCEPT !.kept = FALSE].kept = FALSE
  <2>1. resets[t] \in Reset
    BY <1>1
  <2> QED BY <2>1 DEF Reset
<1>2. PICK row :
        /\ t \in DOMAIN resets => row \in Reset /\ (row.kept => resets[t].kept)
        /\ resets' = [resets EXCEPT ![t] = row]
  BY <1>1
<1>3. CASE t \in DOMAIN resets
  BY <1>2, <1>3
<1>4. CASE t \notin DOMAIN resets
  <2>1. resets' = resets
    BY <1>2, <1>4
  <2> QED BY <2>1
<1> QED BY <1>3, <1>4

\* The keys of a step that writes none, and of one that loses its request.
LEMMA MoveTyped ==
    ASSUME CredentialsTypeOK, NEW r \in Attempts, NEW phase \in Phase,
           attempt' = [attempt EXCEPT ![r] = phase], lost' \in 0..MaxLost,
           UNCHANGED <<lockout, resetting>>
    PROVE  CredentialsTypeOK'
BY Moved DEF CredentialsTypeOK, Phase, lockout, resetting

LEMMA LockoutTyped ==
    ASSUME CredentialsTypeOK, attempt' \in [Attempts -> Phase], lost' = lost,
           failures' \in Nat, answered' \in Nat, expiring' \in BOOLEAN, lock' \in BOOLEAN,
           UNCHANGED resetting
    PROVE  CredentialsTypeOK'
BY DEF CredentialsTypeOK, Phase, resetting

LEMMA ResetsTyped ==
    ASSUME CredentialsTypeOK, attempt' \in [Attempts -> Phase], lost' = lost,
           resets' \in Seq(Reset), uses' \in Seq(Nat), overlapped' \subseteq DOMAIN resets',
           UNCHANGED lockout
    PROVE  CredentialsTypeOK'
BY DEF CredentialsTypeOK, Phase, lockout

LEMMA CredentialsStepTyped ==
    CredentialsTypeOK /\ [CredentialsNext]_credentialVars => CredentialsTypeOK'
<1> SUFFICES ASSUME CredentialsTypeOK, [CredentialsNext]_credentialVars
             PROVE  CredentialsTypeOK'
  OBVIOUS
<1>0. /\ MaxLost \in Nat /\ failures \in Nat /\ answered \in Nat
      /\ expiring \in BOOLEAN /\ lock \in BOOLEAN /\ lost \in 0..MaxLost
      /\ resets \in Seq(Reset) /\ uses \in Seq(Nat) /\ overlapped \subseteq DOMAIN resets
      /\ attempt \in [Attempts -> Phase]
  BY CredentialsConstants DEF CredentialsTypeOK, Phase
<1>1. ASSUME NEW r \in Attempts, CheckLock(r) \/ WrongPassword(r) \/ RightPassword(r)
      PROVE  CredentialsTypeOK'
  <2>1. PICK phase \in Phase : attempt' = [attempt EXCEPT ![r] = phase]
    BY <1>1, Phases DEF CheckLock, WrongPassword, RightPassword, Moves
  <2>2. UNCHANGED <<lockout, resetting, lost>>
    BY <1>1 DEF CheckLock, WrongPassword, RightPassword, Moves
  <2> QED BY <1>0, <2>1, <2>2, MoveTyped
<1>2. ASSUME NEW r \in Attempts, CountFailure(r) PROVE CredentialsTypeOK'
  <2>1. attempt' \in [Attempts -> Phase]
    BY <1>2, Counted, Moved, Phases
  <2>2. failures' \in Nat /\ answered' \in Nat /\ UNCHANGED <<expiring, lock, resetting, lost>>
    BY <1>0, <1>2, Counted
  <2> QED BY <1>0, <2>1, <2>2, LockoutTyped
<1>3. ASSUME NEW r \in Attempts,
             ExpireCounter(r) \/ SetLock(r) \/ ForgetFailures(r) \/ ClearLockout(r)
      PROVE  CredentialsTypeOK'
  <2>1. attempt' \in [Attempts -> Phase] /\ lost' = lost
    BY <1>3, Moved, Phases DEF ExpireCounter, SetLock, ForgetFailures, ClearLockout, Moves
  <2>2. failures' \in Nat /\ answered' \in Nat /\ UNCHANGED resetting
    BY <1>0, <1>3 DEF ExpireCounter, SetLock, ForgetFailures, ClearLockout, Uncounted
  <2>3. expiring' = expiring \/ expiring' = FALSE \/ expiring' = (failures > 0)
    BY <1>3 DEF ExpireCounter, SetLock, ForgetFailures, ClearLockout, Uncounted
  <2>4. lock' = lock \/ lock' = TRUE \/ lock' = FALSE
    BY <1>3 DEF ExpireCounter, SetLock, ForgetFailures, ClearLockout, Uncounted
  <2>5. (failures > 0) \in BOOLEAN
    OBVIOUS
  <2>6. expiring' \in BOOLEAN /\ lock' \in BOOLEAN
    BY <1>0, <2>3, <2>4, <2>5, Zenon
  <2> QED BY <2>1, <2>2, <2>6, LockoutTyped
<1>4. ASSUME NEW r \in Attempts, LoseLogin(r) \/ LoseReset(r) PROVE CredentialsTypeOK'
  <2>1. /\ attempt' = [attempt EXCEPT ![r] = Free]
        /\ lost < MaxLost /\ lost' = lost + 1
        /\ UNCHANGED <<lockout, resetting>>
    BY <1>4 DEF LoseLogin, LoseReset, Loses
  <2>2. lost' \in 0..MaxLost
    BY <1>0, <2>1
  <2> QED BY <2>1, <2>2, Phases, MoveTyped
<1>5. ASSUME NEW r \in Attempts, NEW t \in DOMAIN resets, ReadReset(r, t)
      PROVE  CredentialsTypeOK'
  <2>1. t \in Nat
    BY <1>0
  <2>2. attempt' \in [Attempts -> Phase] /\ lost' = lost
    BY <1>5, <2>1, Moved, Phases DEF ReadReset, Moves
  <2>3. UNCHANGED <<lockout, resets, uses>> /\ overlapped' \subseteq overlapped \cup {t}
    BY <1>5 DEF ReadReset
  <2> QED BY <1>0, <2>2, <2>3, ResetsTyped
<1>6. ASSUME NEW r \in Attempts, DeleteReset(r) PROVE CredentialsTypeOK'
  <2>1. attempt' \in [Attempts -> Phase]
    <3>1. [at |-> "judge", token |-> attempt[r].token] \in Phase
      BY <1>6, Deleted, Tokened, Phases
    <3> QED BY <1>6, <3>1, Deleted, Moved
  <2>2. resets' \in Seq(Reset) /\ DOMAIN resets' = DOMAIN resets
    BY <1>0, <1>6, Deleted, Rewritten
  <2> QED BY <1>0, <1>6, <2>1, <2>2, Deleted, ResetsTyped
<1>7. ASSUME NEW r \in Attempts, JudgeReset(r) PROVE CredentialsTypeOK'
  <2>1. PICK phase \in Phase : attempt' = [attempt EXCEPT ![r] = phase]
    <3>1. [at |-> "save", token |-> attempt[r].token] \in Phase /\ Free \in Phase
      BY <1>7, Judged, Tokened, Phases
    <3> QED BY <1>7, <3>1, Judged
  <2> QED BY <1>0, <1>7, <2>1, Judged, MoveTyped
<1>8. ASSUME NEW r \in Attempts, SavePassword(r) PROVE CredentialsTypeOK'
  <2>1. attempt' \in [Attempts -> Phase] /\ lost' = lost
    BY <1>8, Moved, Phases DEF SavePassword, Moves
  <2>2. uses' \in Seq(Nat)
    <3> DEFINE t == attempt[r].token
    <3>1. uses' = [uses EXCEPT ![t] = uses[t] + 1]
      BY <1>8 DEF SavePassword
    <3> HIDE DEF t
    <3>2. CASE t \in DOMAIN uses
      <4>1. uses[t] + 1 \in Nat
        BY <1>0, <3>2
      <4>2. t \in 1..Len(uses)
        BY <1>0, <3>2
      <4> QED BY <1>0, <3>1, <4>1, <4>2, ExceptSeq
    <3>3. CASE t \notin DOMAIN uses
      <4>1. uses' = uses
        BY <1>0, <3>1, <3>3
      <4> QED BY <1>0, <4>1
    <3> QED BY <3>2, <3>3
  <2> QED BY <1>0, <1>8, <2>1, <2>2, ResetsTyped DEF SavePassword
<1>9. CASE WindowEnds \/ LockEnds
  <2>1. /\ failures' \in Nat /\ answered' \in Nat
        /\ UNCHANGED <<resetting, attempt, lost>>
    BY <1>0, <1>9 DEF WindowEnds, LockEnds, Uncounted
  <2>2. /\ expiring' = expiring \/ expiring' = FALSE
        /\ lock' = lock \/ lock' = FALSE
    BY <1>9 DEF WindowEnds, LockEnds, Uncounted
  <2>3. expiring' \in BOOLEAN /\ lock' \in BOOLEAN
    BY <1>0, <2>2
  <2> QED BY <1>0, <2>1, <2>3, LockoutTyped
<1>10. CASE ForgotPassword
  <2>1. resets' = Append(resets, [kept |-> TRUE, late |-> FALSE]) /\ uses' = Append(uses, 0)
    BY <1>10 DEF ForgotPassword
  <2>2. resets' \in Seq(Reset) /\ uses' \in Seq(Nat) /\ DOMAIN resets \subseteq DOMAIN resets'
    BY <1>0, <2>1 DEF Reset
  <2> QED BY <1>0, <1>10, <2>2, ResetsTyped DEF ForgotPassword
<1>11. ASSUME NEW t \in DOMAIN resets, ResetAges(t) PROVE CredentialsTypeOK'
  <2>1. resets' \in Seq(Reset) /\ DOMAIN resets' = DOMAIN resets
    BY <1>0, <1>11, Rewritten DEF ResetAges
  <2> QED BY <1>0, <1>11, <2>1, ResetsTyped DEF ResetAges
<1>12. CASE UNCHANGED credentialVars
  BY <1>12 DEF credentialVars, lockout, resetting, CredentialsTypeOK
<1> QED BY <1>1, <1>2, <1>3, <1>4, <1>5, <1>6, <1>7, <1>8, <1>9, <1>10, <1>11, <1>12
        DEF CredentialsNext

-----------------------------------------------------------------------------
(* ResetsOnce.                                                             *)

LEMMA InitResets == CredentialsInit => ResetsInv
<1> SUFFICES ASSUME CredentialsInit PROVE ResetsInv
  OBVIOUS
<1>1. Len(uses) = Len(resets) /\ DOMAIN resets = {}
  BY DEF CredentialsInit
<1>2. \A r \in Attempts : ~Holding(r)
  BY Phases DEF CredentialsInit, Holding
<1> QED BY <1>1, <1>2 DEF ResetsInv

\* A step that leaves the tokens as they are and only ends or advances
\* requests that read theirs.
LEMMA MoveResets ==
    ASSUME ResetsInv, UNCHANGED <<uses, overlapped>>, Len(resets') = Len(resets),
           DOMAIN resets' = DOMAIN resets,
           \A t \in DOMAIN resets : resets'[t].kept => resets[t].kept,
           \A r \in Attempts : Holding(r)' =>
             /\ Holding(r) /\ attempt'[r].token = attempt[r].token
             /\ attempt[r].at = "consume" /\ resets'[attempt[r].token].kept
                  => attempt'[r].at = "consume"
    PROVE  ResetsInv'
<1>0. \A r \in Attempts : \A t : Works(r, t)' =>
        /\ Works(r, t)
        /\ attempt[r].at = "consume" /\ resets'[t].kept => attempt'[r].at = "consume"
  BY DEF Works
<1>1. /\ Len(uses') = Len(resets')
      /\ \A r \in Attempts : Holding(r)' => attempt'[r].token \in DOMAIN resets'
  BY DEF ResetsInv
<1>2. ASSUME NEW t \in DOMAIN resets' \ overlapped'
      PROVE  /\ t \in DOMAIN resets \ overlapped
             /\ uses'[t] = uses[t] /\ (resets'[t].kept => resets[t].kept)
  OBVIOUS
<1>3. ASSUME NEW t \in DOMAIN resets' \ overlapped', NEW r \in Attempts, Works(r, t)'
      PROVE  /\ uses'[t] = 0
             /\ resets'[t].kept => attempt'[r].at = "consume"
             /\ \A s \in Attempts : Works(s, t)' => s = r
  BY <1>0, <1>2, <1>3 DEF ResetsInv
<1>4. ASSUME NEW t \in DOMAIN resets' \ overlapped'
      PROVE  uses'[t] <= 1 /\ (resets'[t].kept => uses'[t] = 0)
  BY <1>2 DEF ResetsInv
<1> QED BY <1>1, <1>3, <1>4 DEF ResetsInv

\* Requests of the login, and requests that end, have no token.
LEMMA NoToken ==
    ASSUME CredentialsTypeOK, NEW r \in Attempts, NEW phase \in Phase,
           phase.at \notin {"consume", "judge", "save"},
           attempt' = [attempt EXCEPT ![r] = phase], UNCHANGED resetting, ResetsInv
    PROVE  ResetsInv'
<1>1. \A s \in Attempts : Holding(s)' => Holding(s) /\ attempt'[s] = attempt[s]
  BY Moved DEF Holding
<1> QED BY <1>1, MoveResets DEF resetting

LEMMA StepResets ==
    CredentialsTypeOK /\ ResetsInv /\ [CredentialsNext]_credentialVars => ResetsInv'
<1> SUFFICES ASSUME CredentialsTypeOK, ResetsInv, [CredentialsNext]_credentialVars
             PROVE  ResetsInv'
  OBVIOUS
<1>0. /\ resets \in Seq(Reset) /\ uses \in Seq(Nat) /\ overlapped \subseteq DOMAIN resets
      /\ Len(uses) = Len(resets)
  BY DEF CredentialsTypeOK, ResetsInv
<1>1. ASSUME NEW r \in Attempts,
             \/ CheckLock(r) \/ WrongPassword(r) \/ RightPassword(r)
             \/ ExpireCounter(r) \/ SetLock(r) \/ ForgetFailures(r) \/ ClearLockout(r)
             \/ LoseLogin(r) \/ LoseReset(r)
      PROVE  ResetsInv'
  <2>1. PICK phase \in Phase :
          /\ attempt' = [attempt EXCEPT ![r] = phase]
          /\ phase.at \notin {"consume", "judge", "save"}
    BY <1>1, Phases DEF CheckLock, WrongPassword, RightPassword, ExpireCounter, SetLock,
       ForgetFailures, ClearLockout, LoseLogin, LoseReset, Moves, Loses
  <2>2. UNCHANGED resetting
    BY <1>1 DEF CheckLock, WrongPassword, RightPassword, ExpireCounter, SetLock,
       ForgetFailures, ClearLockout, LoseLogin, LoseReset
  <2> QED BY <2>1, <2>2, NoToken
<1>2. ASSUME NEW r \in Attempts, CountFailure(r) PROVE ResetsInv'
  <2>1. PICK phase \in Phase :
          /\ attempt' = [attempt EXCEPT ![r] = phase]
          /\ phase.at \notin {"consume", "judge", "save"}
    BY <1>2, Counted, Phases
  <2> QED BY <1>2, <2>1, Counted, NoToken
<1>3. ASSUME NEW r \in Attempts, NEW t \in DOMAIN resets, ReadReset(r, t)
      PROVE  ResetsInv'
  <2>1. /\ resets[t].kept /\ UNCHANGED <<resets, uses>>
        /\ overlapped' = overlapped \cup (IF Reading(t) = {} THEN {} ELSE {t})
        /\ attempt' = [attempt EXCEPT ![r] = [at |-> "consume", token |-> t]]
    BY <1>3 DEF ReadReset, Moves
  <2>2. t \in Nat /\ [at |-> "consume", token |-> t] \in Phase
    BY <1>0, Phases
  <2>3. /\ attempt'[r] = [at |-> "consume", token |-> t]
        /\ \A s \in Attempts \ {r} : attempt'[s] = attempt[s]
    BY <2>1, <2>2, Moved
  <2>4. /\ Works(r, t)' /\ attempt'[r].at = "consume"
        /\ \A q \in DOMAIN resets : Works(r, q)' => q = t
        /\ \A s \in Attempts \ {r}, q \in DOMAIN resets : Works(s, q)' => Works(s, q)
    BY <2>3 DEF Works, Holding
  <2>5. ASSUME t \notin overlapped'
        PROVE  uses[t] = 0 /\ \A s \in Attempts : ~Works(s, t)
    <3>1. t \notin overlapped /\ Reading(t) = {}
      BY <2>1, <2>5
    <3>2. ASSUME NEW s \in Attempts, Works(s, t) PROVE FALSE
      <4>1. attempt[s].at = "consume" /\ attempt[s].token = t
        BY <2>1, <3>1, <3>2 DEF ResetsInv, Works
      <4>2. attempt[s] = [at |-> "consume", token |-> t]
        BY <4>1, Tokened, Zenon
      <4> QED BY <3>1, <4>2 DEF Reading
    <3> QED BY <2>1, <3>1, <3>2 DEF ResetsInv
  <2>6. ASSUME NEW q \in DOMAIN resets' \ overlapped', NEW s \in Attempts, Works(s, q)'
        PROVE  /\ uses'[q] = 0
               /\ resets'[q].kept => attempt'[s].at = "consume"
               /\ \A p \in Attempts : Works(p, q)' => p = s
    <3>1. CASE q = t
      BY <2>1, <2>4, <2>5, <2>6, <3>1
    <3>2. CASE q # t
      <4>1. q \in DOMAIN resets \ overlapped /\ s # r /\ Works(s, q)
        BY <2>1, <2>4, <2>6, <3>2
      <4>2. \A p \in Attempts : Works(p, q)' => p # r /\ Works(p, q)
        BY <2>4, <3>2, <4>1
      <4> QED BY <2>1, <2>3, <4>1, <4>2 DEF ResetsInv
    <3> QED BY <3>1, <3>2
  <2>7. ASSUME NEW q \in DOMAIN resets' \ overlapped'
        PROVE  uses'[q] <= 1 /\ (resets'[q].kept => uses'[q] = 0)
    BY <2>1 DEF ResetsInv
  <2>8. \A s \in Attempts : Holding(s)' => attempt'[s].token \in DOMAIN resets'
    BY <2>1, <2>3 DEF ResetsInv, Holding
  <2> QED BY <1>0, <2>1, <2>6, <2>7, <2>8 DEF ResetsInv
<1>4. ASSUME NEW r \in Attempts, DeleteReset(r) PROVE ResetsInv'
  <2> DEFINE t == attempt[r].token
  <2>1. /\ attempt[r].at = "consume" /\ UNCHANGED <<uses, overlapped>>
        /\ resets' = [resets EXCEPT ![t].kept = FALSE]
        /\ attempt' = [attempt EXCEPT ![r] = [at |-> "judge", token |-> t]]
    BY <1>4, Deleted
  <2>2. t \in Nat /\ [at |-> "judge", token |-> t] \in Phase
    BY <2>1, Tokened, Phases
  <2>3. /\ attempt'[r] = [at |-> "judge", token |-> t]
        /\ \A s \in Attempts \ {r} : attempt'[s] = attempt[s]
    BY <2>1, <2>2, Moved
  <2>4. /\ Len(resets') = Len(resets) /\ DOMAIN resets' = DOMAIN resets
        /\ \A q \in DOMAIN resets : resets'[q].kept => resets[q].kept
    BY <1>0, <2>1, Rewritten
  <2>5. t \in DOMAIN resets /\ ~resets'[t].kept
    <3>1. t \in DOMAIN resets
      BY <2>1 DEF ResetsInv, Holding
    <3>2. resets'[t] = [resets[t] EXCEPT !.kept = FALSE] /\ resets[t] \in Reset
      BY <1>0, <2>1, <3>1
    <3> QED BY <3>1, <3>2 DEF Reset
  <2>6. \A s \in Attempts : Holding(s)' =>
          /\ Holding(s) /\ attempt'[s].token = attempt[s].token
          /\ attempt[s].at = "consume" /\ resets'[attempt[s].token].kept
               => attempt'[s].at = "consume"
    BY <2>1, <2>3, <2>5 DEF Holding
  <2> QED BY <2>1, <2>4, <2>6, MoveResets
<1>5. ASSUME NEW r \in Attempts, JudgeReset(r) PROVE ResetsInv'
  <2>1. CASE attempt' = [attempt EXCEPT ![r] = Free]
    BY <1>5, <2>1, Judged, Phases, NoToken
  <2>2. CASE attempt' = [attempt EXCEPT ![r] = [at |-> "save", token |-> attempt[r].token]]
    <3>1. attempt[r].at = "judge" /\ [at |-> "save", token |-> attempt[r].token] \in Phase
      BY <1>5, Judged, Tokened, Phases
    <3>2. /\ attempt'[r] = [at |-> "save", token |-> attempt[r].token]
          /\ \A s \in Attempts \ {r} : attempt'[s] = attempt[s]
      BY <2>2, <3>1, Moved
    <3>3. \A s \in Attempts : Holding(s)' =>
            /\ Holding(s) /\ attempt'[s].token = attempt[s].token
            /\ attempt[s].at = "consume" => attempt'[s].at = "consume"
      BY <3>1, <3>2 DEF Holding
    <3> QED BY <1>5, <3>3, Judged, MoveResets DEF resetting
  <2> QED BY <1>5, <2>1, <2>2, Judged
<1>6. ASSUME NEW r \in Attempts, SavePassword(r) PROVE ResetsInv'
  <2>1. PICK t : t = attempt[r].token
    OBVIOUS
  <2>2. /\ attempt[r].at = "save" /\ UNCHANGED <<resets, overlapped>>
        /\ uses' = [uses EXCEPT ![t] = uses[t] + 1]
        /\ attempt' = [attempt EXCEPT ![r] = Free]
    BY <1>6, <2>1 DEF SavePassword, Moves
  <2>3. /\ attempt'[r] = Free
        /\ \A s \in Attempts \ {r} : attempt'[s] = attempt[s]
    BY <2>2, Moved, Phases
  <2>4. \A s \in Attempts, q \in DOMAIN resets : Works(s, q)' =>
          Works(s, q) /\ s # r /\ attempt'[s] = attempt[s]
    BY <2>3, Phases DEF Works, Holding
  <2>5. Works(r, t)
    BY <2>1, <2>2 DEF Works, Holding
  <2>6. Len(uses') = Len(resets')
    BY <1>0, <2>2
  <2>7. ASSUME NEW q \in DOMAIN resets' \ overlapped', q # t
        PROVE  q \in DOMAIN resets \ overlapped /\ uses'[q] = uses[q] /\ resets'[q] = resets[q]
    BY <1>0, <2>2, <2>7
  <2>8. ASSUME t \in DOMAIN resets' \ overlapped'
        PROVE  /\ uses'[t] = 1 /\ ~resets'[t].kept
               /\ \A s \in Attempts : ~Works(s, t)'
    <3>1. t \in DOMAIN resets \ overlapped
      BY <2>2, <2>8
    <3>2. uses[t] = 0 /\ ~resets[t].kept /\ \A s \in Attempts : Works(s, t) => s = r
      BY <2>2, <2>5, <3>1 DEF ResetsInv
    <3> QED BY <1>0, <2>2, <2>4, <3>1, <3>2
  <2>9. ASSUME NEW q \in DOMAIN resets' \ overlapped'
        PROVE  /\ uses'[q] <= 1
               /\ resets'[q].kept => uses'[q] = 0
               /\ \A s \in Attempts : Works(s, q)' =>
                    /\ uses'[q] = 0
                    /\ resets'[q].kept => attempt'[s].at = "consume"
                    /\ \A p \in Attempts : Works(p, q)' => p = s
    <3>1. CASE q = t
      BY <2>8, <2>9, <3>1
    <3>2. CASE q # t
      BY <2>4, <2>7, <2>9, <3>2 DEF ResetsInv
    <3> QED BY <3>1, <3>2
  <2>10. \A s \in Attempts : Holding(s)' => attempt'[s].token \in DOMAIN resets'
    BY <2>2, <2>3, Phases DEF ResetsInv, Holding
  <2> QED BY <2>6, <2>9, <2>10 DEF ResetsInv
<1>7. CASE WindowEnds \/ LockEnds
  BY <1>7, MoveResets DEF WindowEnds, LockEnds, resetting, Holding
<1>8. CASE ForgotPassword
  <2>1. /\ resets' = Append(resets, [kept |-> TRUE, late |-> FALSE]) /\ uses' = Append(uses, 0)
        /\ UNCHANGED <<attempt, overlapped>>
    BY <1>8 DEF ForgotPassword
  <2>2. /\ Len(uses') = Len(resets') /\ DOMAIN resets' = DOMAIN resets \cup {Len(resets) + 1}
        /\ uses'[Len(resets) + 1] = 0
        /\ \A q \in DOMAIN resets : uses'[q] = uses[q] /\ resets'[q] = resets[q]
    BY <1>0, <2>1
  <2>3. \A r \in Attempts : \A t : Works(r, t)' => Works(r, t) /\ t \in DOMAIN resets
    BY <2>1 DEF ResetsInv, Works, Holding
  <2>4. ASSUME NEW q \in DOMAIN resets' \ overlapped'
        PROVE  /\ uses'[q] <= 1
               /\ resets'[q].kept => uses'[q] = 0
               /\ \A s \in Attempts : Works(s, q)' =>
                    /\ uses'[q] = 0
                    /\ resets'[q].kept => attempt'[s].at = "consume"
                    /\ \A p \in Attempts : Works(p, q)' => p = s
    <3>1. CASE q = Len(resets) + 1
      BY <1>0, <2>2, <2>3, <3>1
    <3>2. CASE q # Len(resets) + 1
      BY <2>1, <2>2, <2>3, <2>4, <3>2 DEF ResetsInv
    <3> QED BY <3>1, <3>2
  <2>5. \A s \in Attempts : Holding(s)' => attempt'[s].token \in DOMAIN resets'
    BY <2>1, <2>2 DEF ResetsInv, Holding
  <2> QED BY <2>2, <2>4, <2>5 DEF ResetsInv
<1>9. ASSUME NEW t \in DOMAIN resets, ResetAges(t) PROVE ResetsInv'
  <2>1. /\ Len(resets') = Len(resets) /\ DOMAIN resets' = DOMAIN resets
        /\ \A q \in DOMAIN resets : resets'[q].kept => resets[q].kept
    BY <1>0, <1>9, Rewritten DEF ResetAges
  <2> QED BY <1>9, <2>1, MoveResets DEF ResetAges, Holding
<1>10. CASE UNCHANGED credentialVars
  BY <1>10, MoveResets DEF credentialVars, resetting, Holding
<1> QED BY <1>1, <1>2, <1>3, <1>4, <1>5, <1>6, <1>7, <1>8, <1>9, <1>10
        DEF CredentialsNext

-----------------------------------------------------------------------------
(* GuessesBounded.                                                         *)

\* What one request's move does to how many have EXPIRE still to send.
LEMMA ExpiringMoves ==
    ASSUME CredentialsTypeOK, NEW r \in Attempts, NEW phase \in Phase,
           attempt' = [attempt EXCEPT ![r] = phase]
    PROVE  /\ IsFiniteSet(Expiring)
           /\ phase.at # "expire" => Expiring' = Expiring \ {r}
           /\ phase.at = "expire" => Expiring' = Expiring \cup {r}
<1>1. IsFiniteSet(Expiring)
  BY CredentialsConstants, FS_Subset DEF Expiring
<1> QED BY <1>1, Moved DEF Expiring

\* How many can be about to send EXPIRE.
FewExpiring ==
    /\ IsFiniteSet(Expiring)
    /\ Cardinality(Expiring) \in Nat /\ Cardinality(Attempts) \in Nat
    /\ Cardinality(Expiring) <= Cardinality(Attempts)
    /\ \A r \in Attempts : attempt[r].at # "expire" =>
         Cardinality(Expiring) <= Cardinality(Attempts) - 1

LEMMA ExpiringFinite == CredentialsTypeOK => FewExpiring
<1> SUFFICES ASSUME CredentialsTypeOK PROVE FewExpiring
  OBVIOUS
<1>1. IsFiniteSet(Attempts)
  BY CredentialsConstants
<1>2. /\ Expiring \subseteq Attempts /\ IsFiniteSet(Expiring)
      /\ Cardinality(Expiring) <= Cardinality(Attempts)
  BY <1>1, FS_Subset DEF Expiring
<1>3. Cardinality(Expiring) \in Nat /\ Cardinality(Attempts) \in Nat
  BY <1>1, <1>2, FS_CardinalityType
<1>4. ASSUME NEW r \in Attempts, attempt[r].at # "expire"
      PROVE  Cardinality(Expiring) <= Cardinality(Attempts) - 1
  <2>1. Expiring \subseteq Attempts \ {r}
    BY <1>4 DEF Expiring
  <2>2. IsFiniteSet(Attempts \ {r}) /\ Cardinality(Attempts \ {r}) = Cardinality(Attempts) - 1
    BY <1>1, FS_RemoveElement
  <2> QED BY <2>1, <2>2, FS_Subset
<1> QED BY <1>2, <1>3, <1>4 DEF FewExpiring

UnlockedOK == /\ Unlocked \in Nat /\ Unlocked <= MaxAttempts - 1
              /\ MaxAttempts \in Nat /\ MaxAttempts > 1

LEMMA UnlockedBound == CredentialsTypeOK => UnlockedOK
BY CredentialsConstants DEF CredentialsTypeOK, Unlocked, UnlockedOK

LEMMA InitGuesses == CredentialsInit => GuessesInv
<1> SUFFICES ASSUME CredentialsInit PROVE GuessesInv
  OBVIOUS
<1>1. Expiring = {}
  BY Phases DEF CredentialsInit, Expiring
<1>2. answered = 0 /\ Unlocked = 0
  BY CredentialsConstants DEF CredentialsInit, Unlocked
<1>3. Cardinality(Attempts) \in Nat /\ Cardinality(Expiring) = 0
  BY <1>1, CredentialsConstants, FS_CardinalityType, FS_EmptySet
<1> QED BY <1>2, <1>3 DEF GuessesInv

\* A step that leaves the counter alone and sends nobody to EXPIRE.
LEMMA FewerExpiring ==
    ASSUME CredentialsTypeOK, GuessesInv, CredentialsTypeOK',
           failures' = failures, answered' = answered, Expiring' \subseteq Expiring
    PROVE  GuessesInv'
<1>0. FewExpiring /\ UnlockedOK /\ FewExpiring'
  BY ExpiringFinite, UnlockedBound, PTL
<1>1. Cardinality(Expiring') <= Cardinality(Expiring)
  BY <1>0, FS_Subset DEF FewExpiring
<1>2. Unlocked' = Unlocked
  BY DEF Unlocked
<1>3. Cardinality(Expiring) \in Nat /\ Cardinality(Expiring') \in Nat
      /\ Cardinality(Attempts) \in Nat /\ answered \in Nat /\ Unlocked \in Nat
  BY <1>0 DEF CredentialsTypeOK, FewExpiring, UnlockedOK
<1> QED BY <1>1, <1>2, <1>3 DEF GuessesInv

\* A step that deletes the counter and leaves the answer of its request, which
\* was not before EXPIRE, or none.
LEMMA CounterDeleted ==
    ASSUME CredentialsTypeOK, CredentialsTypeOK',
           \/ answered' = 0
           \/ answered' = 1 /\ \E r \in Attempts : attempt'[r].at # "expire"
    PROVE  GuessesInv'
<1>1. FewExpiring' /\ UnlockedOK'
  BY ExpiringFinite, UnlockedBound, PTL
<1>2. /\ Cardinality(Expiring') \in Nat /\ Cardinality(Attempts) \in Nat /\ Unlocked' \in Nat
      /\ Cardinality(Expiring') <= Cardinality(Attempts)
      /\ \A r \in Attempts : attempt'[r].at # "expire" =>
           Cardinality(Expiring') <= Cardinality(Attempts) - 1
  BY <1>1 DEF FewExpiring, UnlockedOK
<1> QED BY <1>1, <1>2 DEF GuessesInv

LEMMA StepGuesses ==
    CredentialsTypeOK /\ GuessesInv /\ [CredentialsNext]_credentialVars => GuessesInv'
<1> SUFFICES ASSUME CredentialsTypeOK, GuessesInv, [CredentialsNext]_credentialVars
             PROVE  GuessesInv'
  OBVIOUS
<1>0. /\ CredentialsTypeOK'
      /\ failures \in Nat /\ answered \in Nat /\ MaxAttempts \in Nat /\ MaxAttempts > 1
      /\ Cardinality(Expiring) \in Nat /\ Cardinality(Attempts) \in Nat
      /\ answered + Cardinality(Expiring) <= Unlocked + Cardinality(Attempts)
  BY CredentialsStepTyped, ExpiringFinite, UnlockedBound
  DEF CredentialsTypeOK, GuessesInv, FewExpiring, UnlockedOK
<1>1. ASSUME NEW r \in Attempts, NEW phase \in Phase, phase.at # "expire",
             attempt' = [attempt EXCEPT ![r] = phase], UNCHANGED <<failures, answered>>
      PROVE  GuessesInv'
  BY <1>0, <1>1, ExpiringMoves, FewerExpiring
<1>2. ASSUME NEW r \in Attempts,
             CheckLock(r) \/ WrongPassword(r) \/ RightPassword(r) \/ SetLock(r)
             \/ LoseLogin(r) \/ LoseReset(r)
      PROVE  GuessesInv'
  <2>1. PICK phase \in Phase : attempt' = [attempt EXCEPT ![r] = phase] /\ phase.at # "expire"
    BY <1>2, Phases DEF CheckLock, WrongPassword, RightPassword, SetLock, LoseLogin, LoseReset,
       Moves, Loses
  <2>2. UNCHANGED <<failures, answered>>
    BY <1>2 DEF CheckLock, WrongPassword, RightPassword, SetLock, LoseLogin, LoseReset, lockout
  <2> QED BY <1>1, <2>1, <2>2
<1>3. ASSUME NEW r \in Attempts, CountFailure(r) PROVE GuessesInv'
  <2>1. failures' = failures + 1 /\ attempt[r].at = "count"
    BY <1>3, Counted
  <2>2. CASE /\ failures = 0
             /\ attempt' = [attempt EXCEPT ![r] = [at |-> "expire"]]
             /\ answered' = answered
    <3>1. Expiring' = Expiring \cup {r} /\ r \notin Expiring
      BY <2>1, <2>2, ExpiringMoves, Phases DEF Expiring
    <3>2. Cardinality(Expiring') = Cardinality(Expiring) + 1
      BY <3>1, ExpiringFinite, FS_AddElement DEF FewExpiring
    <3>3. Unlocked = 0 /\ Unlocked' = 1
      BY <1>0, <2>1, <2>2 DEF Unlocked
    <3> QED BY <1>0, <2>2, <3>2, <3>3 DEF GuessesInv
  <2>3. CASE /\ failures # 0 /\ failures' >= MaxAttempts
             /\ attempt' = [attempt EXCEPT ![r] = [at |-> "lock"]]
             /\ answered' = answered
    <3>1. Expiring' = Expiring
      BY <2>1, <2>3, ExpiringMoves, Phases DEF Expiring
    <3>2. Unlocked = Unlocked'
      BY <1>0, <2>1, <2>3 DEF Unlocked
    <3> QED BY <1>0, <2>3, <3>1, <3>2 DEF GuessesInv
  <2>4. CASE /\ failures # 0 /\ failures' < MaxAttempts
             /\ attempt' = [attempt EXCEPT ![r] = Free]
             /\ answered' = answered + 1
    <3>1. Expiring' = Expiring
      BY <2>1, <2>4, ExpiringMoves, Phases DEF Expiring
    <3>2. Unlocked' = Unlocked + 1
      BY <1>0, <2>1, <2>4 DEF Unlocked
    <3>3. Unlocked \in Nat
      BY UnlockedBound DEF UnlockedOK
    <3> QED BY <1>0, <2>4, <3>1, <3>2, <3>3 DEF GuessesInv
  <2> QED BY <1>3, <2>2, <2>3, <2>4, Counted
<1>4. ASSUME NEW r \in Attempts, ExpireCounter(r) PROVE GuessesInv'
  <2>1. /\ attempt[r].at = "expire" /\ attempt' = [attempt EXCEPT ![r] = Free]
        /\ answered' = answered + 1 /\ failures' = failures
    BY <1>4 DEF ExpireCounter, Moves
  <2>2. Expiring' = Expiring \ {r} /\ r \in Expiring
    BY <2>1, ExpiringMoves, Phases DEF Expiring
  <2>3. Cardinality(Expiring') = Cardinality(Expiring) - 1
    BY <2>2, ExpiringFinite, FS_RemoveElement DEF FewExpiring
  <2>4. Unlocked' = Unlocked /\ Unlocked \in Nat
    BY <2>1, UnlockedBound DEF Unlocked, UnlockedOK
  <2> QED BY <1>0, <2>1, <2>3, <2>4 DEF GuessesInv
<1>5. ASSUME NEW r \in Attempts, ForgetFailures(r) PROVE GuessesInv'
  <2>1. attempt' = [attempt EXCEPT ![r] = Free] /\ answered' = 1
    BY <1>5 DEF ForgetFailures, Moves
  <2>2. attempt'[r].at # "expire"
    BY <2>1, Moved, Phases
  <2> QED BY <1>0, <2>1, <2>2, CounterDeleted
<1>6. ASSUME (\E r \in Attempts : ClearLockout(r)) \/ WindowEnds PROVE GuessesInv'
  BY <1>0, <1>6, CounterDeleted DEF ClearLockout, WindowEnds
<1>7. CASE LockEnds \/ ForgotPassword \/ \E t \in DOMAIN resets : ResetAges(t)
  BY <1>0, <1>7, FewerExpiring DEF LockEnds, ForgotPassword, ResetAges, lockout, Expiring
<1>8. ASSUME NEW r \in Attempts, NEW t \in DOMAIN resets, ReadReset(r, t)
      PROVE  GuessesInv'
  <2>1. t \in Nat
    BY DEF CredentialsTypeOK
  <2> QED BY <1>1, <1>8, <2>1, Phases DEF ReadReset, Moves, lockout
<1>9. ASSUME NEW r \in Attempts, DeleteReset(r) \/ JudgeReset(r) \/ SavePassword(r)
      PROVE  GuessesInv'
  <2>1. PICK phase \in Phase : attempt' = [attempt EXCEPT ![r] = phase] /\ phase.at # "expire"
    <3>1. CASE DeleteReset(r)
      <4>1. [at |-> "judge", token |-> attempt[r].token] \in Phase
        BY <3>1, Deleted, Tokened, Phases
      <4> QED BY <3>1, <4>1, Deleted, Phases
    <3>2. CASE JudgeReset(r)
      <4>1. [at |-> "save", token |-> attempt[r].token] \in Phase
        BY <3>2, Judged, Tokened, Phases
      <4> QED BY <3>2, <4>1, Judged, Phases
    <3>3. CASE SavePassword(r)
      BY <3>3, Phases DEF SavePassword, Moves
    <3> QED BY <1>9, <3>1, <3>2, <3>3
  <2>2. UNCHANGED <<failures, answered>>
    BY <1>9 DEF DeleteReset, JudgeReset, SavePassword, lockout
  <2> QED BY <1>1, <2>1, <2>2
<1>10. CASE UNCHANGED credentialVars
  BY <1>0, <1>10, FewerExpiring DEF credentialVars, lockout, Expiring
<1> QED BY <1>2, <1>3, <1>4, <1>5, <1>6, <1>7, <1>8, <1>9, <1>10 DEF CredentialsNext

LEMMA GuessesFollow == CredentialsTypeOK /\ GuessesInv => GuessesBounded
<1> SUFFICES ASSUME CredentialsTypeOK, GuessesInv PROVE GuessesBounded
  OBVIOUS
<1>1. /\ Cardinality(Expiring) \in Nat /\ Cardinality(Attempts) \in Nat
      /\ Unlocked \in Nat /\ Unlocked <= MaxAttempts - 1 /\ MaxAttempts \in Nat
      /\ answered \in Nat
  BY ExpiringFinite, UnlockedBound DEF CredentialsTypeOK, FewExpiring, UnlockedOK
<1> QED BY <1>1 DEF GuessesInv, GuessesBounded

-----------------------------------------------------------------------------
\* Requests in progress and the keys of Redis are always well typed.
THEOREM CredentialsTypeCorrect == CredentialsSpec => []CredentialsTypeOK
<1> QED BY CredentialsInitTyped, CredentialsStepTyped, PTL DEF CredentialsSpec

\* "De un solo uso", but for requests that overlap: a token no two of them
\* read at once changes the password at most once.
THEOREM ResetsUsedOnce == CredentialsSpec => []ResetsOnce
<1>1. ResetsInv => ResetsOnce
  BY DEF ResetsInv, ResetsOnce
<1> QED BY <1>1, CredentialsInitTyped, CredentialsStepTyped, InitResets, StepResets, PTL DEF CredentialsSpec

\* Between two deletions of the counter of failures no more wrong passwords
\* are answered than the limit, and one for each other request in progress.
THEOREM GuessesLimited == CredentialsSpec => []GuessesBounded
<1> QED BY CredentialsInitTyped, CredentialsStepTyped, InitGuesses, StepGuesses, GuessesFollow, PTL
        DEF CredentialsSpec

-----------------------------------------------------------------------------
(* Permissions.                                                            *)

\* What revisions up to r have brought is what owners have at least.
Due(r) == ALL_PERMISSIONS \ UNION {Brings[later] : later \in (r + 1)..Latest}

\* The induction: owners have what was brought so far, the other roles what
\* no release changed, and from revision 3 on every column is an array.
RolesInv ==
    \A o \in Created :
        /\ Due(revision) \subseteq ParsePermissions(Owner(o))
        /\ ParsePermissions(permissions[o].admin) = ADMIN_PERMISSIONS
        /\ ParsePermissions(permissions[o].maintenance) = MAINTENANCE_PERMISSIONS
        /\ revision >= 3 => Owner(o).array

-----------------------------------------------------------------------------
(* The catalogue.                                                          *)

LEMMA RolesTyped ==
    /\ ADMIN_PERMISSIONS \subseteq ALL_PERMISSIONS
    /\ MAINTENANCE_PERMISSIONS \subseteq ALL_PERMISSIONS
    /\ \A role \in RoleNames : ROLE_DEFINITIONS[role] \subseteq ALL_PERMISSIONS
<1>1. MAINTENANCE_PERMISSIONS \subseteq ALL_PERMISSIONS
  BY DEF MAINTENANCE_PERMISSIONS, ALL_PERMISSIONS
<1>2. ADMIN_PERMISSIONS \subseteq ALL_PERMISSIONS
  BY DEF ADMIN_PERMISSIONS
<1> QED BY <1>1, <1>2 DEF RoleNames, ROLE_DEFINITIONS

\* What a release brings is for owners alone.
LEMMA BroughtToOwners ==
    ASSUME NEW k \in 1..Latest
    PROVE  /\ Brings[k] \cap ADMIN_PERMISSIONS = {}
           /\ Brings[k] \cap MAINTENANCE_PERMISSIONS = {}
<1>1. k \in 1..4
  BY DEF Latest
<1>2. Brings[k] \subseteq {"landlord:set-commission", "contract:terminate", "contract:delete"}
  BY <1>1 DEF Brings
<1>3. {"landlord:set-commission", "contract:terminate", "contract:delete"}
        \cap ADMIN_PERMISSIONS = {}
  BY DEF ADMIN_PERMISSIONS
<1>4. {"landlord:set-commission", "contract:terminate", "contract:delete"}
        \cap MAINTENANCE_PERMISSIONS = {}
  BY DEF MAINTENANCE_PERMISSIONS
<1> QED BY <1>2, <1>3, <1>4

LEMMA CatalogueOf ==
    ASSUME NEW r \in 0..Latest
    PROVE  /\ Catalogue("owner", r) = Due(r)
           /\ Catalogue("admin", r) = ADMIN_PERMISSIONS
           /\ Catalogue("maintenance", r) = MAINTENANCE_PERMISSIONS
<1> DEFINE Later == UNION {Brings[later] : later \in (r + 1)..Latest}
<1>1. \A later \in (r + 1)..Latest : later \in 1..Latest
  BY DEF Latest
<1>2. Later \cap ADMIN_PERMISSIONS = {} /\ Later \cap MAINTENANCE_PERMISSIONS = {}
  BY <1>1, BroughtToOwners
<1>3. /\ ROLE_DEFINITIONS["owner"] = ALL_PERMISSIONS
      /\ ROLE_DEFINITIONS["admin"] = ADMIN_PERMISSIONS
      /\ ROLE_DEFINITIONS["maintenance"] = MAINTENANCE_PERMISSIONS
  BY DEF ROLE_DEFINITIONS
<1> QED BY <1>2, <1>3 DEF Catalogue, Due

LEMMA CatalogueTyped ==
    ASSUME NEW role \in RoleNames, NEW r \in 0..Latest
    PROVE  Catalogue(role, r) \in SUBSET ALL_PERMISSIONS
BY RolesTyped DEF Catalogue

\* Revisions nearer to the latest leave less to bring.
LEMMA DueGrows ==
    ASSUME NEW r \in 0..Latest, NEW s \in 0..Latest, r <= s
    PROVE  Due(r) \subseteq Due(s)
<1>1. (s + 1)..Latest \subseteq (r + 1)..Latest
  BY DEF Latest
<1> QED BY <1>1 DEF Due

LEMMA DueNext ==
    ASSUME NEW r \in 1..Latest
    PROVE  Due(r) \subseteq Due(r - 1) \cup Brings[r]
<1>1. (r - 1 + 1)..Latest = {r} \cup ((r + 1)..Latest)
  BY DEF Latest
<1> QED BY <1>1 DEF Due

LEMMA DueNever ==
    ASSUME NEW r \in 1..Latest
    PROVE  Due(r - 1) \cap Brings[r] = {}
<1>1. r \in (r - 1 + 1)..Latest
  BY DEF Latest
<1> QED BY <1>1 DEF Due

-----------------------------------------------------------------------------
(* The columns.                                                            *)

LEMMA GrantedKeeps ==
    ASSUME NEW c \in Column, NEW p \in ALL_PERMISSIONS
    PROVE  /\ Granted(c, p) \in Column
           /\ ParsePermissions(Granted(c, p)) = ParsePermissions(c) \cup {p}
           /\ c.array => Granted(c, p).array
<1>1. CASE Holds(c, p)
  BY <1>1 DEF Granted, Holds, Column, ParsePermissions
<1>2. CASE ~Holds(c, p)
  BY <1>2 DEF Granted, Concatenate, Column, ParsePermissions
<1> QED BY <1>1, <1>2

LEMMA RevokedKeeps ==
    ASSUME NEW c \in Column, NEW p \in ALL_PERMISSIONS
    PROVE  /\ Revoked(c, p) \in Column
           /\ ParsePermissions(c) \ {p} \subseteq ParsePermissions(Revoked(c, p))
           /\ Revoked(c, p).array = c.array
BY DEF Revoked, Without, Column, ParsePermissions

LEMMA PlainTyped ==
    ASSUME NEW names \in SUBSET ALL_PERMISSIONS
    PROVE  /\ Plain(names) \in Column
           /\ Plain(names).array
           /\ ParsePermissions(Plain(names)) = names
BY DEF Plain, Column, ParsePermissions

LEMMA DumpedTwiceTyped ==
    ASSUME NEW names \in SUBSET ALL_PERMISSIONS
    PROVE  /\ DumpedTwice(names) \in Column
           /\ ParsePermissions(DumpedTwice(names)) = names
BY DEF DumpedTwice, Column, ParsePermissions

LEMMA ParseTyped ==
    ASSUME NEW c \in Column
    PROVE  ParsePermissions(c) \in SUBSET ALL_PERMISSIONS
BY DEF Column, ParsePermissions

LEMMA NormalizeKeeps ==
    ASSUME NEW c \in Column
    PROVE  /\ Normalize(c) \in Column
           /\ Normalize(c).array
           /\ ParsePermissions(Normalize(c)) = ParsePermissions(c)
BY ParseTyped, PlainTyped DEF Normalize

-----------------------------------------------------------------------------
(* Types.                                                                  *)

USE DEF RoleNames

LEMMA PermissionsInitTyped == PermissionsInit => PermissionsTypeOK
<1> SUFFICES ASSUME PermissionsInit PROVE PermissionsTypeOK
  OBVIOUS
<1>1. MaxDowngrades \in Nat
  BY PermissionsConstants
<1> QED BY <1>1 DEF PermissionsInit, PermissionsTypeOK, Latest

LEMMA OwnersTyped ==
    ASSUME PermissionsTypeOK, NEW columns \in [Created -> Column], UpdateOwners(columns)
    PROVE  /\ permissions' \in [Orgs -> [RoleNames -> Column] \cup {NotCreated}]
           /\ Created' = Created
           /\ \A o \in Created :
                /\ permissions'[o].owner = columns[o]
                /\ permissions'[o].admin = permissions[o].admin
                /\ permissions'[o].maintenance = permissions[o].maintenance
<1>1. ASSUME NEW o \in Created
      PROVE  /\ permissions[o] \in [RoleNames -> Column]
             /\ permissions'[o] = [permissions[o] EXCEPT !.owner = columns[o]]
  BY DEF Created, PermissionsTypeOK, UpdateOwners
<1>2. ASSUME NEW o \in Orgs, o \notin Created
      PROVE  permissions'[o] = NotCreated
  BY <1>2 DEF UpdateOwners
<1>3. ASSUME NEW o \in Created
      PROVE  /\ permissions'[o] \in [RoleNames -> Column]
             /\ permissions'[o].owner = columns[o]
             /\ permissions'[o].admin = permissions[o].admin
             /\ permissions'[o].maintenance = permissions[o].maintenance
  <2>1. columns[o] \in Column
    OBVIOUS
  <2>2. PICK roles \in [RoleNames -> Column] :
          permissions[o] = roles /\ permissions'[o] = [roles EXCEPT !["owner"] = columns[o]]
    BY <1>1
  <2>3. [roles EXCEPT !["owner"] = columns[o]] \in [RoleNames -> Column]
    BY <2>1
  <2> QED BY <2>2, <2>3
<1>4. permissions' \in [Orgs -> [RoleNames -> Column] \cup {NotCreated}]
  BY <1>2, <1>3 DEF UpdateOwners
<1>5. Created' = Created
  BY <1>2, <1>3, PermissionsConstants DEF Created
<1> QED BY <1>3, <1>4, <1>5

LEMMA CreatedColumns ==
    ASSUME PermissionsTypeOK, NEW o \in Created
    PROVE  /\ o \in Orgs
           /\ permissions[o] \in [RoleNames -> Column]
           /\ Owner(o) \in Column
           /\ permissions[o].admin \in Column
           /\ permissions[o].maintenance \in Column
BY DEF PermissionsTypeOK, Created, Owner

\* What each edit of the owners' columns writes.
LEMMA GrantTyped ==
    ASSUME PermissionsTypeOK, NEW p \in ALL_PERMISSIONS
    PROVE  [o \in Created |-> Granted(Owner(o), p)] \in [Created -> Column]
BY CreatedColumns, GrantedKeeps

LEMMA RevokeTyped ==
    ASSUME PermissionsTypeOK, NEW p \in ALL_PERMISSIONS
    PROVE  [o \in Created |-> Revoked(Owner(o), p)] \in [Created -> Column]
BY CreatedColumns, RevokedKeeps

DeleteGranted ==
    [o \in Created |->
        IF Owner(o).array THEN Granted(Owner(o), "contract:delete") ELSE Owner(o)]

LEMMA Atoms ==
    {"landlord:set-commission", "contract:terminate", "contract:delete"} \subseteq ALL_PERMISSIONS
BY DEF ALL_PERMISSIONS

LEMMA DeleteGrantedTyped ==
    ASSUME PermissionsTypeOK
    PROVE  DeleteGranted \in [Created -> Column]
BY CreatedColumns, GrantedKeeps, Atoms DEF DeleteGranted

LEMMA Upgrading ==
    ASSUME PermissionsTypeOK,
           AddSetCommission \/ AddTerminate \/ NormalizeColumns \/ AddDelete
    PROVE  /\ revision \in 0..(Latest - 1) /\ revision' = revision + 1
           /\ release >= revision' /\ release' = release
           /\ downgrades' = downgrades
BY DEF AddSetCommission, AddTerminate, NormalizeColumns, AddDelete, Upgrades, PermissionsTypeOK,
       Latest

LEMMA Downgrading ==
    ASSUME PermissionsTypeOK,
           RemoveSetCommission \/ RemoveTerminate \/ KeepNormalized \/ RemoveDelete
    PROVE  /\ revision \in 1..Latest /\ revision' = revision - 1
           /\ release' = release
           /\ downgrades < MaxDowngrades /\ downgrades' = downgrades + 1
BY DEF RemoveSetCommission, RemoveTerminate, KeepNormalized, RemoveDelete, Downgrade,
       PermissionsTypeOK, Latest

LEMMA CreateColumns ==
    ASSUME PermissionsTypeOK, NEW o \in Orgs, CreateOrganization(o)
    PROVE  /\ permissions' \in [Orgs -> [RoleNames -> Column] \cup {NotCreated}]
           /\ o \notin Created
           /\ Created' = Created \cup {o}
           /\ \A q \in Created : permissions'[q] = permissions[q]
           /\ \A role \in RoleNames :
                ParsePermissions(permissions'[o][role]) = Catalogue(role, release)
           /\ release >= 3 => permissions'[o].owner.array
<1> DEFINE columns == [role \in RoleNames |->
              IF release < 3 THEN DumpedTwice(Catalogue(role, release))
                             ELSE Plain(Catalogue(role, release))]
<1>1. release \in 0..Latest
  BY DEF PermissionsTypeOK
<1>2. \A role \in RoleNames :
        /\ columns[role] \in Column
        /\ ParsePermissions(columns[role]) = Catalogue(role, release)
  BY <1>1, CatalogueTyped, DumpedTwiceTyped, PlainTyped
<1>3. release >= 3 => columns["owner"].array
  <2>1. release >= 3 => columns["owner"] = Plain(Catalogue("owner", release))
    BY <1>1 DEF Latest
  <2> QED BY <2>1, <1>1, CatalogueTyped, PlainTyped
<1>4. columns \in [RoleNames -> Column]
  BY <1>2
<1>5. /\ permissions' = [permissions EXCEPT ![o] = columns]
      /\ permissions[o] = NotCreated
  BY DEF CreateOrganization
<1>6. permissions \in [Orgs -> [RoleNames -> Column] \cup {NotCreated}]
  BY DEF PermissionsTypeOK
<1> HIDE DEF columns
<1>7. columns # NotCreated
  BY <1>4, PermissionsConstants
<1>8. permissions'[o] = columns /\ \A q \in Orgs \ {o} : permissions'[q] = permissions[q]
  BY <1>5, <1>6
<1>9. o \notin Created /\ Created' = Created \cup {o}
  BY <1>5, <1>7, <1>8 DEF Created
<1>10. permissions' \in [Orgs -> [RoleNames -> Column] \cup {NotCreated}]
  BY <1>4, <1>5, <1>6
<1> QED BY <1>2, <1>3, <1>8, <1>9, <1>10 DEF Created

LEMMA NormalizedColumns ==
    ASSUME PermissionsTypeOK, NormalizeColumns
    PROVE  /\ permissions' \in [Orgs -> [RoleNames -> Column] \cup {NotCreated}]
           /\ Created' = Created
           /\ \A o \in Created : \A role \in RoleNames :
                /\ ParsePermissions(permissions'[o][role]) = ParsePermissions(permissions[o][role])
                /\ permissions'[o][role].array
<1>1. ASSUME NEW o \in Created, NEW role \in RoleNames
      PROVE  /\ permissions'[o][role] = Normalize(permissions[o][role])
             /\ permissions[o][role] \in Column
  BY CreatedColumns DEF NormalizeColumns
<1>2. ASSUME NEW o \in Created
      PROVE  permissions'[o] \in [RoleNames -> Column]
  <2>1. permissions'[o] = [role \in RoleNames |-> Normalize(permissions[o][role])]
    BY CreatedColumns DEF NormalizeColumns
  <2> QED BY <2>1, <1>1, NormalizeKeeps
<1>3. ASSUME NEW o \in Orgs, o \notin Created
      PROVE  permissions'[o] = NotCreated
  BY <1>3 DEF NormalizeColumns
<1>4. permissions' \in [Orgs -> [RoleNames -> Column] \cup {NotCreated}]
  BY <1>2, <1>3 DEF NormalizeColumns
<1>5. Created' = Created
  BY <1>2, <1>3, PermissionsConstants DEF Created
<1> QED BY <1>1, <1>4, <1>5, NormalizeKeeps

-----------------------------------------------------------------------------
(* The steps that edit the owners' columns, by what they leave of them.    *)

LEMMA Granting ==
    ASSUME PermissionsTypeOK, NEW p \in ALL_PERMISSIONS,
           UpdateOwners([o \in Created |-> Granted(Owner(o), p)])
    PROVE  /\ permissions' \in [Orgs -> [RoleNames -> Column] \cup {NotCreated}]
           /\ Created' = Created
           /\ \A o \in Created :
                /\ ParsePermissions(permissions'[o].owner) = ParsePermissions(Owner(o)) \cup {p}
                /\ Owner(o).array => permissions'[o].owner.array
                /\ permissions'[o].admin = permissions[o].admin
                /\ permissions'[o].maintenance = permissions[o].maintenance
<1>1. PICK columns \in [Created -> Column] : columns = [o \in Created |-> Granted(Owner(o), p)]
  BY GrantTyped
<1>2. UpdateOwners(columns)
  BY <1>1 DEF UpdateOwners
<1>3. \A o \in Created :
        /\ ParsePermissions(columns[o]) = ParsePermissions(Owner(o)) \cup {p}
        /\ Owner(o).array => columns[o].array
  BY <1>1, CreatedColumns, GrantedKeeps
<1> QED BY <1>2, <1>3, OwnersTyped

LEMMA GrantingDelete ==
    ASSUME PermissionsTypeOK, UpdateOwners(DeleteGranted)
    PROVE  /\ permissions' \in [Orgs -> [RoleNames -> Column] \cup {NotCreated}]
           /\ Created' = Created
           /\ \A o \in Created :
                /\ ParsePermissions(Owner(o)) \subseteq ParsePermissions(permissions'[o].owner)
                /\ Owner(o).array =>
                     /\ "contract:delete" \in ParsePermissions(permissions'[o].owner)
                     /\ permissions'[o].owner.array
                /\ permissions'[o].admin = permissions[o].admin
                /\ permissions'[o].maintenance = permissions[o].maintenance
<1>1. PICK columns \in [Created -> Column] : columns = DeleteGranted
  BY DeleteGrantedTyped
<1>2. UpdateOwners(columns)
  BY <1>1 DEF UpdateOwners
<1>3. \A o \in Created :
        /\ ParsePermissions(Owner(o)) \subseteq ParsePermissions(columns[o])
        /\ Owner(o).array => /\ "contract:delete" \in ParsePermissions(columns[o])
                             /\ columns[o].array
  BY <1>1, CreatedColumns, GrantedKeeps, Atoms DEF DeleteGranted
<1> QED BY <1>2, <1>3, OwnersTyped

LEMMA Revoking ==
    ASSUME PermissionsTypeOK, NEW p \in ALL_PERMISSIONS,
           UpdateOwners([o \in Created |-> Revoked(Owner(o), p)])
    PROVE  /\ permissions' \in [Orgs -> [RoleNames -> Column] \cup {NotCreated}]
           /\ Created' = Created
           /\ \A o \in Created :
                /\ ParsePermissions(Owner(o)) \ {p}
                     \subseteq ParsePermissions(permissions'[o].owner)
                /\ permissions'[o].owner.array = Owner(o).array
                /\ permissions'[o].admin = permissions[o].admin
                /\ permissions'[o].maintenance = permissions[o].maintenance
<1>1. PICK columns \in [Created -> Column] : columns = [o \in Created |-> Revoked(Owner(o), p)]
  BY RevokeTyped
<1>2. UpdateOwners(columns)
  BY <1>1 DEF UpdateOwners
<1>3. \A o \in Created :
        /\ ParsePermissions(Owner(o)) \ {p} \subseteq ParsePermissions(columns[o])
        /\ columns[o].array = Owner(o).array
  BY <1>1, CreatedColumns, RevokedKeeps
<1> QED BY <1>2, <1>3, OwnersTyped

-----------------------------------------------------------------------------
(* Every step.                                                             *)

LEMMA PermissionsStepTyped ==
    PermissionsTypeOK /\ [PermissionsNext]_permissionVars => PermissionsTypeOK'
<1> SUFFICES ASSUME PermissionsTypeOK, [PermissionsNext]_permissionVars
             PROVE  PermissionsTypeOK'
  OBVIOUS
<1> USE DEF PermissionsTypeOK
<1>0. MaxDowngrades \in Nat
  BY PermissionsConstants
<1>1. CASE Deploy
  BY <1>1 DEF Deploy, Latest
<1>2. ASSUME NEW o \in Orgs, CreateOrganization(o) PROVE PermissionsTypeOK'
  BY <1>2, CreateColumns DEF CreateOrganization
<1>3. ASSUME AddSetCommission \/ AddTerminate \/ NormalizeColumns \/ AddDelete,
             permissions' \in [Orgs -> [RoleNames -> Column] \cup {NotCreated}]
      PROVE  PermissionsTypeOK'
  BY <1>3, Upgrading DEF Latest
<1>4. ASSUME RemoveSetCommission \/ RemoveTerminate \/ KeepNormalized \/ RemoveDelete,
             permissions' \in [Orgs -> [RoleNames -> Column] \cup {NotCreated}]
      PROVE  PermissionsTypeOK'
  BY <1>0, <1>4, Downgrading DEF Latest
<1>5. CASE AddSetCommission
  BY <1>3, <1>5, Granting, Atoms DEF AddSetCommission
<1>6. CASE AddTerminate
  BY <1>3, <1>6, Granting, Atoms DEF AddTerminate
<1>7. CASE NormalizeColumns
  BY <1>3, <1>7, NormalizedColumns
<1>8. CASE AddDelete
  BY <1>3, <1>8, GrantingDelete DEF AddDelete, DeleteGranted
<1>9. CASE RemoveSetCommission
  BY <1>4, <1>9, Revoking, Atoms DEF RemoveSetCommission
<1>10. CASE RemoveTerminate
  BY <1>4, <1>10, Revoking, Atoms DEF RemoveTerminate
<1>11. CASE KeepNormalized
  BY <1>4, <1>11 DEF KeepNormalized
<1>12. CASE RemoveDelete
  BY <1>4, <1>12, Revoking, Atoms DEF RemoveDelete
<1>13. CASE UNCHANGED permissionVars
  BY <1>13 DEF permissionVars
<1> QED BY <1>1, <1>2, <1>5, <1>6, <1>7, <1>8, <1>9, <1>10, <1>11, <1>12, <1>13
        DEF PermissionsNext

\* Created' under a step that leaves the columns alone.
LEMMA SameColumns ==
    ASSUME RolesInv, UNCHANGED permissions, revision' = revision
    PROVE  RolesInv'
BY DEF RolesInv, Created, Owner

LEMMA UpgradeRoles ==
    ASSUME PermissionsTypeOK, RolesInv, NEW k \in 1..Latest,
           revision' = k, revision = k - 1, Created' = Created,
           \A o \in Created :
             /\ ParsePermissions(Owner(o)) \cup Brings[k]
                  \subseteq ParsePermissions(permissions'[o].owner)
             /\ k >= 3 => permissions'[o].owner.array
             /\ ParsePermissions(permissions'[o].admin) = ParsePermissions(permissions[o].admin)
             /\ ParsePermissions(permissions'[o].maintenance)
                  = ParsePermissions(permissions[o].maintenance)
    PROVE  RolesInv'
<1>1. Due(k) \subseteq Due(k - 1) \cup Brings[k]
  BY DueNext
<1> QED BY <1>1 DEF RolesInv, Owner

LEMMA DowngradeRoles ==
    ASSUME PermissionsTypeOK, RolesInv, NEW k \in 1..Latest,
           revision' = k - 1, revision = k, Created' = Created,
           \A o \in Created :
             /\ ParsePermissions(Owner(o)) \ Brings[k]
                  \subseteq ParsePermissions(permissions'[o].owner)
             /\ permissions'[o].owner.array = Owner(o).array
             /\ permissions'[o].admin = permissions[o].admin
             /\ permissions'[o].maintenance = permissions[o].maintenance
    PROVE  RolesInv'
<1>1. k \in 0..Latest /\ k - 1 \in 0..Latest /\ k - 1 <= k
  BY DEF Latest
<1>2. Due(k - 1) \subseteq Due(k) \ Brings[k]
  BY <1>1, DueGrows, DueNever
<1>3. k - 1 >= 3 => k >= 3
  BY <1>1
<1> QED BY <1>2, <1>3 DEF RolesInv, Owner

LEMMA BringsEach ==
    /\ 1 \in 1..Latest /\ Brings[1] = {"landlord:set-commission"}
    /\ 2 \in 1..Latest /\ Brings[2] = {"contract:terminate"}
    /\ 3 \in 1..Latest /\ Brings[3] = {}
    /\ 4 \in 1..Latest /\ Brings[4] = {"contract:delete"}
BY DEF Brings, Latest

LEMMA StepRoles ==
    PermissionsTypeOK /\ RolesInv /\ [PermissionsNext]_permissionVars => RolesInv'
<1> SUFFICES ASSUME PermissionsTypeOK, RolesInv, [PermissionsNext]_permissionVars
             PROVE  RolesInv'
  OBVIOUS
<1>1. CASE Deploy
  BY <1>1, SameColumns DEF Deploy
<1>2. ASSUME NEW o \in Orgs, CreateOrganization(o) PROVE RolesInv'
  <2>1. /\ release \in 0..Latest /\ revision \in 0..Latest /\ revision <= release
        /\ revision >= 3 => release >= 3
    BY DEF PermissionsTypeOK, Latest
  <2>2. Due(revision) \subseteq Catalogue("owner", release)
    BY <2>1, DueGrows, CatalogueOf
  <2>3. /\ ParsePermissions(permissions'[o].owner) = Catalogue("owner", release)
        /\ ParsePermissions(permissions'[o].admin) = ADMIN_PERMISSIONS
        /\ ParsePermissions(permissions'[o].maintenance) = MAINTENANCE_PERMISSIONS
        /\ revision >= 3 => permissions'[o].owner.array
    BY <1>2, <2>1, CreateColumns, CatalogueOf
  <2>4. revision' = revision
    BY <1>2 DEF CreateOrganization
  <2>5. ASSUME NEW q \in Created' PROVE q = o \/ (q \in Created /\ permissions'[q] = permissions[q])
    BY <1>2, CreateColumns
  <2> QED BY <2>2, <2>3, <2>4, <2>5 DEF RolesInv, Owner
<1>3. CASE AddSetCommission
  <2>1. UpdateOwners([o \in Created |-> Granted(Owner(o), "landlord:set-commission")])
        /\ revision = 1 - 1 /\ revision' = 1
    BY <1>3 DEF AddSetCommission, Upgrades
  <2> QED BY <2>1, BringsEach, Atoms, Granting, UpgradeRoles
<1>4. CASE AddTerminate
  <2>1. UpdateOwners([o \in Created |-> Granted(Owner(o), "contract:terminate")])
        /\ revision = 2 - 1 /\ revision' = 2
    BY <1>4 DEF AddTerminate, Upgrades
  <2> QED BY <2>1, BringsEach, Atoms, Granting, UpgradeRoles
<1>5. CASE NormalizeColumns
  <2>1. revision = 3 - 1 /\ revision' = 3
    BY <1>5 DEF NormalizeColumns, Upgrades
  <2>2. \A o \in Created :
          /\ ParsePermissions(permissions'[o].owner) = ParsePermissions(Owner(o))
          /\ ParsePermissions(permissions'[o].admin) = ParsePermissions(permissions[o].admin)
          /\ ParsePermissions(permissions'[o].maintenance)
               = ParsePermissions(permissions[o].maintenance)
          /\ permissions'[o].owner.array
    BY <1>5, NormalizedColumns DEF Owner
  <2> QED BY <1>5, <2>1, <2>2, BringsEach, NormalizedColumns, UpgradeRoles
<1>6. CASE AddDelete
  <2>1. UpdateOwners(DeleteGranted) /\ revision = 4 - 1 /\ revision' = 4
    BY <1>6 DEF AddDelete, Upgrades, DeleteGranted
  <2>2. \A o \in Created : Owner(o).array
    BY <2>1 DEF RolesInv
  <2> QED BY <2>1, <2>2, BringsEach, GrantingDelete, UpgradeRoles
<1>7. CASE RemoveSetCommission
  <2>1. UpdateOwners([o \in Created |-> Revoked(Owner(o), "landlord:set-commission")])
        /\ revision = 1 /\ revision' = 1 - 1
    BY <1>7 DEF RemoveSetCommission, Downgrade
  <2> QED BY <2>1, BringsEach, Atoms, Revoking, DowngradeRoles
<1>8. CASE RemoveTerminate
  <2>1. UpdateOwners([o \in Created |-> Revoked(Owner(o), "contract:terminate")])
        /\ revision = 2 /\ revision' = 2 - 1
    BY <1>8 DEF RemoveTerminate, Downgrade
  <2> QED BY <2>1, BringsEach, Atoms, Revoking, DowngradeRoles
<1>9. CASE KeepNormalized
  <2>1. UNCHANGED permissions /\ revision = 3 /\ revision' = 3 - 1
    BY <1>9 DEF KeepNormalized, Downgrade
  <2>2. Due(2) \subseteq Due(3)
    BY DueGrows DEF Latest
  <2> QED BY <2>1, <2>2 DEF RolesInv, Created, Owner
<1>10. CASE RemoveDelete
  <2>1. UpdateOwners([o \in Created |-> Revoked(Owner(o), "contract:delete")])
        /\ revision = 4 /\ revision' = 4 - 1
    BY <1>10 DEF RemoveDelete, Downgrade
  <2> QED BY <2>1, BringsEach, Atoms, Revoking, DowngradeRoles
<1>11. CASE UNCHANGED permissionVars
  BY <1>11, SameColumns DEF permissionVars
<1> QED BY <1>1, <1>2, <1>3, <1>4, <1>5, <1>6, <1>7, <1>8, <1>9, <1>10, <1>11
        DEF PermissionsNext

LEMMA InitRoles == PermissionsInit => RolesInv
BY DEF PermissionsInit, RolesInv, Created

LEMMA RolesAtLatest == PermissionsTypeOK /\ RolesInv => RolesHold
<1> SUFFICES ASSUME PermissionsTypeOK, RolesInv, revision = Latest, NEW o \in Created
             PROVE  \A role \in RoleNames :
                      ParsePermissions(permissions[o][role]) = ROLE_DEFINITIONS[role]
  BY DEF RolesHold
<1>1. (Latest + 1)..Latest = {}
  BY DEF Latest
<1>2. Due(Latest) = ALL_PERMISSIONS
  BY <1>1 DEF Due
<1>3. ParsePermissions(Owner(o)) = ALL_PERMISSIONS
  BY <1>2, CreatedColumns, ParseTyped DEF RolesInv
<1> QED BY <1>3 DEF RolesInv, Owner, ROLE_DEFINITIONS

\* A step that takes no revision back leaves every role what it had.
LEMMA StepKeepsAccess ==
    ASSUME PermissionsTypeOK, PermissionsNext, revision' >= revision,
           NEW o \in Created, NEW role \in RoleNames
    PROVE  ParsePermissions(permissions[o][role]) \subseteq ParsePermissions(permissions'[o][role])
<1>1. role = "owner" \/ role = "admin" \/ role = "maintenance"
  OBVIOUS
<1>2. ASSUME ParsePermissions(Owner(o)) \subseteq ParsePermissions(permissions'[o].owner),
             permissions'[o].admin = permissions[o].admin,
             permissions'[o].maintenance = permissions[o].maintenance
      PROVE  ParsePermissions(permissions[o][role])
               \subseteq ParsePermissions(permissions'[o][role])
  BY <1>1, <1>2 DEF Owner
<1>3. CASE Deploy
  BY <1>3 DEF Deploy
<1>4. ASSUME NEW q \in Orgs, CreateOrganization(q)
      PROVE  permissions'[o] = permissions[o]
  BY <1>4, CreateColumns
<1>5. CASE AddSetCommission
  BY <1>2, <1>5, Granting, Atoms DEF AddSetCommission
<1>6. CASE AddTerminate
  BY <1>2, <1>6, Granting, Atoms DEF AddTerminate
<1>7. CASE NormalizeColumns
  BY <1>7, NormalizedColumns
<1>8. CASE AddDelete
  BY <1>2, <1>8, GrantingDelete DEF AddDelete, DeleteGranted
<1>9. CASE RemoveSetCommission \/ RemoveTerminate \/ KeepNormalized \/ RemoveDelete
  BY <1>9, Downgrading DEF Latest
<1> QED BY <1>3, <1>4, <1>5, <1>6, <1>7, <1>8, <1>9 DEF PermissionsNext

-----------------------------------------------------------------------------
(* The catalogue and the endpoints.                                        *)

\* A router agrees with the summary of authorizations.
Agrees(router) ==
    /\ Reachable(router, ALL_PERMISSIONS) = DOMAIN router
    /\ Reachable(router, ADMIN_PERMISSIONS) = DOMAIN router \ OwnerEndpoints
    /\ Reachable(router, MAINTENANCE_PERMISSIONS) = DOMAIN router \cap MaintenanceEndpoints

LEMMA RoutersAgree == \A router \in Routers : Agrees(router)
<1> USE DEF Agrees, Reachable, OwnerEndpoints, MaintenanceEndpoints, UserEndpoints,
            FieldPermissions, NotificationEndpoints,
            ALL_PERMISSIONS, ADMIN_PERMISSIONS, MAINTENANCE_PERMISSIONS
<1>1. Agrees(LandlordEndpoints)
  BY DEF LandlordEndpoints
<1>2. Agrees(FieldPermissions)
  BY DEF FieldPermissions
<1>3. Agrees(RenterEndpoints)
  BY DEF RenterEndpoints
<1>4. Agrees(PropertyEndpoints)
  BY DEF PropertyEndpoints
<1>5. Agrees(ServiceAccountEndpoints)
  BY DEF ServiceAccountEndpoints
<1>6. Agrees(NeighborhoodEndpoints)
  BY DEF NeighborhoodEndpoints
<1>7. Agrees(ContractEndpoints)
  BY DEF ContractEndpoints
<1>8. Agrees(AdjustmentEndpoints)
  BY DEF AdjustmentEndpoints
<1>9. Agrees(RentPeriodEndpoints)
  BY DEF RentPeriodEndpoints
<1>10. Agrees(PaymentEndpoints)
  BY DEF PaymentEndpoints
<1>11. Agrees(ChargeEndpoints)
  BY DEF ChargeEndpoints
<1>12. Agrees(SettlementEndpoints)
  BY DEF SettlementEndpoints
<1>13. Agrees(IssueEndpoints)
  BY DEF IssueEndpoints
<1>14. Agrees(WorkOrderEndpoints)
  BY DEF WorkOrderEndpoints
<1>15. Agrees(QuoteEndpoints)
  BY DEF QuoteEndpoints
<1>16. Agrees(NotificationEndpoints)
  BY DEF NotificationEndpoints
<1>17. Agrees(UserEndpoints)
  BY DEF UserEndpoints
<1>18. Agrees(OrganizationEndpoints)
  BY DEF OrganizationEndpoints
<1> HIDE DEF Agrees
<1> QED BY <1>1, <1>2, <1>3, <1>4, <1>5, <1>6, <1>7, <1>8, <1>9,
           <1>10, <1>11, <1>12, <1>13, <1>14, <1>15, <1>16, <1>17, <1>18 DEF Routers

LEMMA MaintenanceMounted == MaintenanceEndpoints \subseteq TenantEndpoints
<1>1. MaintenanceEndpoints \subseteq DOMAIN NotificationEndpoints
          \cup DOMAIN WorkOrderEndpoints \cup DOMAIN QuoteEndpoints
  BY DEF MaintenanceEndpoints, WorkOrderEndpoints, QuoteEndpoints
<1> QED BY <1>1 DEF TenantEndpoints, Routers

LEMMA CatalogueAgrees ==
    /\ Callable(ALL_PERMISSIONS) = TenantEndpoints
    /\ Callable(ADMIN_PERMISSIONS) = TenantEndpoints \ OwnerEndpoints
    /\ Callable(MAINTENANCE_PERMISSIONS) = MaintenanceEndpoints
<1>1. Callable(ALL_PERMISSIONS) = TenantEndpoints
  BY RoutersAgree DEF Agrees, Callable, TenantEndpoints
<1>2. Callable(ADMIN_PERMISSIONS) = TenantEndpoints \ OwnerEndpoints
  BY RoutersAgree DEF Agrees, Callable, TenantEndpoints
<1>3. Callable(MAINTENANCE_PERMISSIONS) = TenantEndpoints \cap MaintenanceEndpoints
  BY RoutersAgree DEF Agrees, Callable, TenantEndpoints
<1> QED BY <1>1, <1>2, <1>3, MaintenanceMounted

-----------------------------------------------------------------------------
\* No column ever has an element outside the catalogue, and no revision runs
\* before the release that brings it.
THEOREM PermissionsTypeCorrect == PermissionsSpec => []PermissionsTypeOK
<1> QED BY PermissionsInitTyped, PermissionsStepTyped, PTL DEF PermissionsSpec

\* However releases, revisions, downgrades and new organizations follow each
\* other, once the latest release runs at the latest revision every role of
\* every organization reads as the catalogue of modules/superadmin has it.
THEOREM RolesCorrect == PermissionsSpec => []RolesHold
<1>1. PermissionsInit => PermissionsTypeOK /\ RolesInv
  BY PermissionsInitTyped, InitRoles
<1>2. PermissionsTypeOK /\ RolesInv /\ [PermissionsNext]_permissionVars
        => (PermissionsTypeOK /\ RolesInv)'
  BY PermissionsStepTyped, StepRoles
<1> QED BY <1>1, <1>2, RolesAtLatest, PTL DEF PermissionsSpec

\* The summary of authorizations is true of every organization, at the latest
\* release and revision.
THEOREM MatrixCorrect == PermissionsSpec => []MatrixHolds
<1>1. RolesHold => MatrixHolds
  BY CatalogueAgrees DEF RolesHold, MatrixHolds, May, ROLE_DEFINITIONS
<1> QED BY <1>1, RolesCorrect, PTL

\* No migration takes a permission from a role unless it is a downgrade: an
\* owner's column is edited as it is, a string of JSON or an array.
THEOREM AccessKept == PermissionsSpec => UpgradesKeepAccess
<1>1. PermissionsTypeOK /\ [PermissionsNext]_permissionVars =>
        [revision' >= revision =>
           \A o \in Created : \A role \in RoleNames :
              ParsePermissions(permissions[o][role]) \subseteq
                  ParsePermissions(permissions'[o][role])]_permissionVars
  BY StepKeepsAccess
<1> QED BY <1>1, PermissionsTypeCorrect, PTL DEF PermissionsSpec, UpgradesKeepAccess

=============================================================================
