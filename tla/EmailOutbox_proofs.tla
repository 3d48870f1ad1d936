--------------------------- MODULE EmailOutbox_proofs ---------------------------
(***************************************************************************)
(* What the outbox guarantees for any number of events, users, workers,    *)
(* retries and losses: TypeOK, NoticeSentOnce, NothingForgotten and        *)
(* LettersRarelyRepeat.  The induction of the first three is OutboxInv:    *)
(* besides them, a row is locked by one worker at most and by none once    *)
(* its email is recorded, and a recorded email is one some task has ended  *)
(* with; and what is being sent has been committed.  That of the last is   *)
(* LettersInv: the copies made, and the attempts still to come, are within *)
(* those of one message, and of one more for each worker lost.             *)
(***************************************************************************)
EXTENDS EmailOutbox, FiniteSetTheorems, TLAPS

RowLock ==
    \A n \in Notices :
        /\ n \in sentAt => ~Locked(n)
        /\ \A v, w \in Running(n, {"sending", "accepted"}) : v = w

\* Only the rows of committed transactions are sent.
SentIsVisible ==
    \A w \in Workers : worker[w].phase \in {"sending", "accepted"} =>
        worker[w].mail \in Visible \cup Letters

SentHasEnded == \A n \in sentAt : ended[n] # {}

OutboxInv == TypeOK /\ RowLock /\ SentIsVisible /\ SentHasEnded
               /\ NoticeSentOnce /\ NothingForgotten

-----------------------------------------------------------------------------
(* What the steps leave of the rows.                                       *)

\* The visible rows depend on the transactions and on what they inserted.
LEMMA VisibleKept ==
    ASSUME UNCHANGED <<tx, recipients>>
    PROVE  Visible' = Visible
  BY DEF Visible, Rows

\* Opening or aborting a transaction shows no row.
LEMMA VisibleUnopened ==
    ASSUME TypeOK, NEW e \in Events, tx[e] # "committed", NEW s, s # "committed",
           tx' = [tx EXCEPT ![e] = s],
           \A f \in Events : f # e => recipients'[f] = recipients[f]
    PROVE  Visible' = Visible
  <1>1. tx \in [Events -> {"none", "open", "committed", "aborted"}]
    BY DEF TypeOK, NoticesTypeOK
  <1>2. \A f \in Events : /\ tx'[f] = "committed" <=> tx[f] = "committed"
                          /\ tx[f] = "committed" => recipients'[f] = recipients[f]
    BY <1>1
  <1> QED  BY <1>2 DEF Visible, Rows

\* Committing shows the rows of the event.
LEMMA VisibleCommitted ==
    ASSUME TypeOK, NEW e \in Events, Commit(e)
    PROVE  Visible' = Visible \cup Rows(e)
  <1>1. tx \in [Events -> {"none", "open", "committed", "aborted"}]
    BY DEF TypeOK, NoticesTypeOK
  <1>2. recipients' = recipients /\ \A f \in Events : tx'[f] = "committed" <=> f = e \/ tx[f] = "committed"
    BY <1>1 DEF Commit
  <1> QED  BY <1>2 DEF Visible, Rows

LEMMA VisibleNotices ==
    ASSUME TypeOK
    PROVE  Visible \subseteq Notices
  BY DEF TypeOK, NoticesTypeOK, Visible, Rows, Notices

LEMMA UnreadIsCounted ==
    ASSUME TypeOK, NEW u \in Users
    PROVE  count_unread(u) \in Nat
  <1>1. UnreadRows(u) \subseteq Events \X {u}
    BY VisibleNotices DEF UnreadRows, Notices
  <1>2. IsFiniteSet(Events \X {u})
    BY NotificationConstants, FS_Product, FS_Singleton
  <1>3. IsFiniteSet(UnreadRows(u))
    BY <1>1, <1>2, FS_Subset
  <1> QED  BY <1>3, FS_CardinalityType DEF count_unread

\* What a task is, when it is not idle.
LEMMA TaskOf ==
    ASSUME TypeOK, NEW w \in Workers, worker[w] # Idle
    PROVE  /\ worker[w] \in Task
           /\ worker[w].mail \in Mails
           /\ worker[w].retries \in 0..MaxRetries
  BY DEF TypeOK, Task

LEMMA BusyIsNotIdle ==
    ASSUME NEW w \in Workers, worker[w].phase # "idle"
    PROVE  worker[w] # Idle
  BY DEF Idle

-----------------------------------------------------------------------------
(* Type correctness.                                                       *)

\* The rows, the badge and what depends on them, under a step that may only
\* show more rows.
LEMMA RowsStayVisible ==
    ASSUME TypeOK, Visible \subseteq Visible'
    PROVE  readAt \subseteq Visible' /\ toEnqueue \subseteq Visible' /\ sentAt \subseteq Visible'
  BY DEF TypeOK, NoticesTypeOK

\* Emitting, committing and aborting.
LEMMA BusinessTyped ==
    ASSUME TypeOK, NEW e \in Events,
           \/ CommitAndQueue(e)
           \/ Abandon(e)
           \/ (Emit(e) \/ Abort(e)) /\ UNCHANGED mailVars
    PROVE  TypeOK' /\ Visible \subseteq Visible'
  <1> USE DEF mailVars, badgeVars
  <1>1. CASE CommitAndQueue(e)
    <2>1. Visible' = Visible \cup Rows(e)
      BY <1>1, VisibleCommitted DEF CommitAndQueue
    <2>2. tx' \in [Events -> {"none", "open", "committed", "aborted"}]
      BY <1>1 DEF CommitAndQueue, Commit, TypeOK, NoticesTypeOK
    <2>3. toEnqueue' \subseteq Visible'
      BY <1>1, <2>1, RowsStayVisible DEF CommitAndQueue
    <2> QED
      BY <1>1, <2>1, <2>2, <2>3, RowsStayVisible DEF CommitAndQueue, Commit, TypeOK, NoticesTypeOK
  <1>2. CASE Abandon(e)
    <2>1. Visible' = Visible
      BY <1>2, VisibleKept DEF Abandon
    <2>2. ended' \in [Mails -> SUBSET {"sent", "dead-letter", "rejected", "crashed", "abandoned"}]
      BY <1>2 DEF Abandon, TypeOK
    <2>3. deaths' \in 0..MaxDeaths
      BY <1>2, NotificationConstants DEF Abandon, TypeOK, NoticesTypeOK
    <2> QED
      BY <1>2, <2>1, <2>2, <2>3 DEF Abandon, TypeOK, NoticesTypeOK
  <1>3. CASE Emit(e) /\ UNCHANGED mailVars
    <2>1. PICK us \in SUBSET Users : recipients' = [recipients EXCEPT ![e] = us] /\ cache' = Dropped(us)
      BY <1>3 DEF Emit
    <2>2. tx' \in [Events -> {"none", "open", "committed", "aborted"}]
          /\ recipients' \in [Events -> SUBSET Users]
      BY <1>3, <2>1 DEF Emit, TypeOK, NoticesTypeOK
    <2>3. cache' \in [Users -> Nat \cup {NoCount}]
      BY <2>1 DEF Dropped, TypeOK, NoticesTypeOK
    <2>4. \A f \in Events : f # e => recipients'[f] = recipients[f]
      BY <2>1 DEF TypeOK, NoticesTypeOK
    <2>5. Visible' = Visible
      <3>1. tx[e] # "committed" /\ tx' = [tx EXCEPT ![e] = "open"] /\ "open" # "committed"
        BY <1>3 DEF Emit
      <3> QED  BY <2>4, <3>1, VisibleUnopened
    <2> QED
      BY <1>3, <2>2, <2>3, <2>5 DEF Emit, TypeOK, NoticesTypeOK
  <1>4. CASE Abort(e) /\ UNCHANGED mailVars
    <2>1. tx' \in [Events -> {"none", "open", "committed", "aborted"}]
      BY <1>4 DEF Abort, TypeOK, NoticesTypeOK
    <2>2. Visible' = Visible
      <3>1. tx[e] # "committed" /\ tx' = [tx EXCEPT ![e] = "aborted"] /\ "aborted" # "committed"
            /\ recipients' = recipients
        BY <1>4 DEF Abort
      <3> QED  BY <3>1, VisibleUnopened
    <2> QED
      BY <1>4, <2>1, <2>2 DEF Abort, TypeOK, NoticesTypeOK
  <1> QED  BY <1>1, <1>2, <1>3, <1>4

\* The panel.
LEMMA PanelTyped ==
    ASSUME TypeOK, NEW u \in Users, Panel(u), UNCHANGED mailVars
    PROVE  TypeOK' /\ Visible' = Visible
  <1> USE DEF mailVars
  <1>1. UNCHANGED <<tx, recipients>>
    BY DEF Panel, CountUnread, SetCount, MarkRead, MarkAllRead, Invalidate, PanelDies, Expire
  <1>2. Visible' = Visible
    BY <1>1, VisibleKept
  <1>3. cache' \in [Users -> Nat \cup {NoCount}]
    BY DEF Panel, CountUnread, SetCount, MarkRead, MarkAllRead, Invalidate, PanelDies, Expire,
           Dropped, TypeOK, NoticesTypeOK
  <1>4. counted' \in [Users -> Nat \cup {NoCount}]
    BY UnreadIsCounted
       DEF Panel, CountUnread, SetCount, MarkRead, MarkAllRead, Invalidate, PanelDies, Expire,
           TypeOK, NoticesTypeOK
  <1>5. readAt' \subseteq Visible
    BY DEF Panel, CountUnread, SetCount, MarkRead, MarkAllRead, Invalidate, PanelDies, Expire,
           UnreadRows, TypeOK, NoticesTypeOK
  <1>6. marking' \subseteq Users
    BY DEF Panel, CountUnread, SetCount, MarkRead, MarkAllRead, Invalidate, PanelDies, Expire,
           TypeOK, NoticesTypeOK
  <1>7. deaths' \in 0..MaxDeaths
    BY NotificationConstants
       DEF Panel, CountUnread, SetCount, MarkRead, MarkAllRead, Invalidate, PanelDies, Expire,
           TypeOK, NoticesTypeOK
  <1> QED
    BY <1>1, <1>2, <1>3, <1>4, <1>5, <1>6, <1>7 DEF TypeOK, NoticesTypeOK

LEMMA SentTyped ==
    ASSUME TypeOK, NEW m \in Mails, NEW r \in 0..MaxRetries
    PROVE  Sent(m, r) \in [Mails \X (0..MaxRetries) -> Nat]
  BY DEF Sent, TypeOK

LEMMA UnrecordedTyped ==
    ASSUME TypeOK, NEW w \in Workers
    PROVE  Unrecorded(w) \in [Mails -> Int]
  <1>1. \A m \in Mails : copies[m] - 1 \in Int
    BY DEF TypeOK
  <1> QED  BY <1>1 DEF Unrecorded, TypeOK, Mails

\* A step of the task of w changes its phase and no other worker.
LEMMA PhaseStep ==
    ASSUME TypeOK, NEW w \in Workers, worker[w] # Idle,
           NEW p \in {"sending", "accepted", "done"}, Phase(w, p)
    PROVE  /\ worker' \in [Workers -> Task \cup {Idle}]
           /\ worker'[w].phase = p
           /\ worker'[w].mail = worker[w].mail
           /\ \A v \in Workers \ {w} : worker'[v] = worker[v]
  BY TaskOf DEF Phase, TypeOK, Task

\* Messages and tasks.
LEMMA MailTyped ==
    ASSUME TypeOK, SentIsVisible,
           \/ \E n \in Notices : Enqueue(n)
           \/ \E l \in Letters : PostLetter(l)
           \/ \E w \in Workers : Receive(w) \/ TaskStep(w) \/ LoseWorker(w)
    PROVE  TypeOK' /\ Visible' = Visible
  <1> USE DEF noticeVars, badgeVars
  <1>1. UNCHANGED noticeVars
    BY DEF Enqueue, PostLetter, Receive, Take, TaskStep, Accepted, MarkSent, Retry, GiveUp, Crash,
           Acknowledge, LoseWorker
  <1>2. Visible' = Visible
    BY <1>1, VisibleKept
  <1>3. NoticesTypeOK'
    BY <1>1, <1>2 DEF NoticesTypeOK, TypeOK
  <1>4. ASSUME NEW n \in Notices, Enqueue(n) PROVE TypeOK'
    <2>1. n \in Mails /\ 0 \in 0..MaxRetries
      BY OutboxConstants DEF Mails
    <2> QED  BY <1>2, <1>3, <1>4, <2>1, SentTyped DEF Enqueue, TypeOK
  <1>5. ASSUME NEW l \in Letters, PostLetter(l) PROVE TypeOK'
    <2>1. l \in Mails /\ 0 \in 0..MaxRetries
      BY OutboxConstants DEF Mails
    <2> QED  BY <1>2, <1>3, <1>5, <2>1, SentTyped DEF PostLetter, TypeOK
  <1>6. ASSUME NEW w \in Workers, Receive(w) PROVE TypeOK'
    <2>1. PICK m \in Mails, r \in 0..MaxRetries : Take(w, m, r)
      BY <1>6 DEF Receive
    <2>2. queue' \in [Mails \X (0..MaxRetries) -> Nat]
      BY <2>1 DEF Take, TypeOK
    <2>3. worker' \in [Workers -> Task \cup {Idle}]
      BY <2>1 DEF Take, TypeOK, Task
    <2> QED  BY <1>2, <1>3, <2>1, <2>2, <2>3 DEF Take, TypeOK
  <1>7. ASSUME NEW w \in Workers, TaskStep(w) PROVE TypeOK'
    <2>1. worker[w] # Idle
      BY <1>7, BusyIsNotIdle
         DEF TaskStep, Accepted, MarkSent, Retry, GiveUp, Crash, Acknowledge
    <2>2. /\ worker[w] \in Task
          /\ worker[w].mail \in Mails
          /\ worker[w].retries \in 0..MaxRetries
      BY <2>1, TaskOf
    <2>3. worker' \in [Workers -> Task \cup {Idle}]
      <3>1. CASE Acknowledge(w)
        BY <3>1 DEF Acknowledge, TypeOK
      <3>2. CASE ~Acknowledge(w)
        <4>1. Phase(w, "accepted") \/ Phase(w, "done")
          BY <1>7, <3>2 DEF TaskStep, Accepted, MarkSent, Retry, GiveUp, Crash
        <4> QED  BY <2>1, <4>1, PhaseStep
      <3> QED  BY <3>1, <3>2
    <2>4. queue' \in [Mails \X (0..MaxRetries) -> Nat]
      <3>1. CASE Retry(w)
        <4>1. worker[w].retries + 1 \in 0..MaxRetries
          BY <2>2, <3>1, OutboxConstants DEF Retry
        <4> QED  BY <2>2, <3>1, <4>1, SentTyped DEF Retry
      <3>2. CASE ~Retry(w)
        BY <1>7, <3>2 DEF TaskStep, Accepted, MarkSent, GiveUp, Crash, Acknowledge, TypeOK
      <3> QED  BY <3>1, <3>2
    <2>5. copies' \in [Mails -> Int]
      <3>1. CASE Accepted(w)
        <4>1. copies[worker[w].mail] + 1 \in Int
          BY <2>2 DEF TypeOK
        <4> QED  BY <2>2, <3>1, <4>1 DEF Accepted, TypeOK
      <3>2. CASE ~Accepted(w)
        BY <1>7, <3>2, UnrecordedTyped
           DEF TaskStep, MarkSent, Retry, GiveUp, Crash, Acknowledge, TypeOK
      <3> QED  BY <3>1, <3>2
    <2>6. ended' \in [Mails -> SUBSET {"sent", "dead-letter", "rejected", "crashed", "abandoned"}]
      BY <1>7 DEF TaskStep, Accepted, MarkSent, Retry, GiveUp, Crash, Acknowledge, Ended, TypeOK
    <2>7. sentAt' \subseteq Visible
      <3>1. CASE MarkSent(w)
        <4>1. {worker[w].mail} \cap Notices \subseteq Visible
          BY <3>1, OutboxConstants DEF MarkSent, SentIsVisible
        <4> QED  BY <3>1, <4>1 DEF MarkSent, TypeOK
      <3>2. CASE ~MarkSent(w)
        BY <1>7, <3>2 DEF TaskStep, Accepted, Retry, GiveUp, Crash, Acknowledge, TypeOK
      <3> QED  BY <3>1, <3>2
    <2>8. toEnqueue' = toEnqueue /\ losses' = losses
      BY <1>7 DEF TaskStep, Accepted, MarkSent, Retry, GiveUp, Crash, Acknowledge
    <2> QED  BY <1>2, <1>3, <2>3, <2>4, <2>5, <2>6, <2>7, <2>8 DEF TypeOK
  <1>8. ASSUME NEW w \in Workers, LoseWorker(w) PROVE TypeOK'
    <2>1. worker[w].mail \in Mails /\ worker[w].retries \in 0..MaxRetries
      BY <1>8, TaskOf DEF LoseWorker
    <2>2. queue' \in [Mails \X (0..MaxRetries) -> Nat]
      BY <1>8, <2>1, SentTyped DEF LoseWorker
    <2>3. copies' \in [Mails -> Int]
      BY <1>8, UnrecordedTyped DEF LoseWorker
    <2>4. losses' \in 0..MaxLosses
      BY <1>8, OutboxConstants DEF LoseWorker, TypeOK
    <2> QED  BY <1>2, <1>3, <1>8, <2>2, <2>3, <2>4 DEF LoseWorker, TypeOK
  <1> QED  BY <1>2, <1>4, <1>5, <1>6, <1>7, <1>8

-----------------------------------------------------------------------------
(* The row lock and the count of copies.                                   *)

\* What the induction says of the tasks.
TasksInv == RowLock /\ SentIsVisible /\ SentHasEnded /\ NoticeSentOnce

\* Steps of no worker.
LEMMA TasksLeftAlone ==
    ASSUME TasksInv, Visible \subseteq Visible', UNCHANGED <<worker, sentAt, copies>>,
           \A n \in sentAt : ended[n] \subseteq ended'[n]
    PROVE  TasksInv'
  <1>1. RowLock'
    BY DEF TasksInv, RowLock, Locked, Running
  <1>2. SentIsVisible'
    BY DEF TasksInv, SentIsVisible
  <1>3. SentHasEnded'
    BY DEF TasksInv, SentHasEnded
  <1>4. NoticeSentOnce'
    BY DEF TasksInv, NoticeSentOnce, Running
  <1> QED  BY <1>1, <1>2, <1>3, <1>4 DEF TasksInv

\* The tasks of a mail after a step of worker w.
LEMMA RunningAfter ==
    ASSUME NEW w \in Workers, \A v \in Workers \ {w} : worker'[v] = worker[v], NEW m, NEW P
    PROVE  Running(m, P)' = (Running(m, P) \ {w}) \cup
               {v \in {w} : worker'[v].phase \in P /\ worker'[v].mail = m}
  BY DEF Running

\* A worker that locks no row after its step.
LEMMA Released ==
    ASSUME TasksInv, NEW w \in Workers, \A v \in Workers \ {w} : worker'[v] = worker[v],
           worker'[w].phase \in {"idle", "done"}, Visible' = Visible,
           \/ sentAt' = sentAt
           \/ worker[w].phase = "accepted" /\ sentAt' = sentAt \cup ({worker[w].mail} \cap Notices)
    PROVE  RowLock' /\ SentIsVisible'
  <1>1. \A n \in Notices : Running(n, {"sending", "accepted"})' = Running(n, {"sending", "accepted"}) \ {w}
    BY RunningAfter
  <1>2. SentIsVisible'
    BY DEF TasksInv, SentIsVisible
  <1>3. ASSUME NEW n \in Notices, n \in sentAt' PROVE ~Locked(n)'
    <2>1. CASE n \in sentAt
      BY <1>1, <2>1 DEF TasksInv, RowLock, Locked
    <2>2. CASE n \notin sentAt
      <3>1. w \in Running(n, {"sending", "accepted"})
        BY <1>3, <2>2 DEF Running
      <3> QED  BY <1>1, <3>1 DEF TasksInv, RowLock, Locked
    <2> QED  BY <2>1, <2>2
  <1>4. \A n \in Notices : \A u, v \in Running(n, {"sending", "accepted"})' : u = v
    BY <1>1 DEF TasksInv, RowLock
  <1> QED  BY <1>2, <1>3, <1>4 DEF RowLock

\* A message is taken: its row is locked only if no other task has it.
LEMMA TakeKeepsTasks ==
    ASSUME TypeOK, TasksInv, NEW w \in Workers, NEW m \in Mails, NEW r \in 0..MaxRetries,
           Take(w, m, r), Visible' = Visible
    PROVE  TasksInv'
  <1>1. /\ \A v \in Workers \ {w} : worker'[v] = worker[v]
        /\ worker'[w].mail = m
        /\ worker'[w].phase = IF m \in Letters \/ Pending(m) THEN "sending" ELSE "done"
    BY DEF Take, TypeOK
  <1>2. \A n, P : w \notin Running(n, P) \/ "idle" \in P
    BY DEF Take, Running, Idle
  <1>3. UNCHANGED <<sentAt, copies, ended>>
    BY DEF Take
  <1>4. SentHasEnded'
    BY <1>3 DEF TasksInv, SentHasEnded
  <1>5. SentIsVisible'
    BY <1>1 DEF TasksInv, SentIsVisible, Pending
  <1>6. NoticeSentOnce'
    <2>1. \A n \in Notices : Running(n, {"accepted"})' = Running(n, {"accepted"})
      BY <1>1, <1>2, RunningAfter
    <2> QED  BY <1>3, <2>1 DEF TasksInv, NoticeSentOnce
  <1>7. RowLock'
    <2>1. ASSUME NEW n \in Notices, n # m \/ ~Pending(m)
          PROVE  Running(n, {"sending", "accepted"})' = Running(n, {"sending", "accepted"})
      BY <1>1, <1>2, <2>1, RunningAfter, OutboxConstants
    <2>2. ASSUME NEW n \in Notices, n = m, Pending(m)
          PROVE  Running(n, {"sending", "accepted"})' \subseteq {w} /\ n \notin sentAt
      BY <1>1, <2>2, RunningAfter DEF Pending, Locked
    <2> QED  BY <1>3, <2>1, <2>2 DEF TasksInv, RowLock, Locked
  <1> QED  BY <1>4, <1>5, <1>6, <1>7 DEF TasksInv

\* The provider accepts an email.
LEMMA AcceptedKeepsTasks ==
    ASSUME TypeOK, TasksInv, NEW w \in Workers, Accepted(w), Visible' = Visible
    PROVE  TasksInv'
  <1>1. worker[w] # Idle /\ worker[w].mail \in Mails
    BY BusyIsNotIdle, TaskOf DEF Accepted
  <1>2. /\ \A v \in Workers \ {w} : worker'[v] = worker[v]
        /\ worker'[w].mail = worker[w].mail
        /\ worker'[w].phase = "accepted"
    BY <1>1, PhaseStep DEF Accepted
  <1>3. UNCHANGED <<sentAt, ended>>
    BY DEF Accepted
  <1>4. SentHasEnded'
    BY <1>3 DEF TasksInv, SentHasEnded
  <1>5. SentIsVisible'
    BY <1>2 DEF TasksInv, SentIsVisible, Accepted
  <1>6. \A n \in Notices : Running(n, {"sending", "accepted"})' = Running(n, {"sending", "accepted"})
    BY <1>2, RunningAfter DEF Running, Accepted
  <1>7. RowLock'
    BY <1>3, <1>6 DEF TasksInv, RowLock, Locked
  <1>8. NoticeSentOnce'
    <2> SUFFICES ASSUME NEW n \in Notices
                 PROVE  copies'[n] = IF n \in sentAt' \/ Running(n, {"accepted"})' # {} THEN 1 ELSE 0
      BY DEF NoticeSentOnce
    <2>1. CASE n # worker[w].mail
      <3>1. Running(n, {"accepted"})' = Running(n, {"accepted"})
        BY <1>2, <2>1, RunningAfter DEF Running
      <3>2. copies'[n] = copies[n]
        BY <2>1 DEF Accepted, TypeOK, Mails
      <3> QED  BY <1>3, <3>1, <3>2 DEF TasksInv, NoticeSentOnce
    <2>2. CASE n = worker[w].mail
      <3>1. w \in Running(n, {"sending", "accepted"})
        BY <2>2 DEF Running, Accepted
      <3>2. n \notin sentAt
        BY <3>1 DEF TasksInv, RowLock, Locked
      <3>3. Running(n, {"accepted"}) = {}
        <4>1. \A v \in Running(n, {"accepted"}) : v = w
          BY <3>1 DEF TasksInv, RowLock, Running
        <4> QED  BY <4>1 DEF Running, Accepted
      <3>4. copies[n] = 0
        BY <3>2, <3>3 DEF TasksInv, NoticeSentOnce
      <3>5. copies'[n] = 1
        BY <2>2, <3>4 DEF Accepted, TypeOK, Mails
      <3>6. w \in Running(n, {"accepted"})'
        BY <1>2, <2>2 DEF Running
      <3> QED  BY <3>5, <3>6
    <2> QED  BY <2>1, <2>2
  <1> QED  BY <1>4, <1>5, <1>7, <1>8 DEF TasksInv

\* A task ends, retries or is lost: the copy it had just sent is recorded or
\* counts no more.
LEMMA ReleaseKeepsTasks ==
    ASSUME TypeOK, TasksInv, NEW w \in Workers, Visible' = Visible,
           MarkSent(w) \/ Retry(w) \/ GiveUp(w) \/ Crash(w) \/ Acknowledge(w) \/ LoseWorker(w)
    PROVE  TasksInv'
  <1>1. worker[w] # Idle /\ worker[w].mail \in Mails
    BY BusyIsNotIdle, TaskOf DEF MarkSent, Retry, GiveUp, Crash, Acknowledge, LoseWorker
  <1>2. /\ \A v \in Workers \ {w} : worker'[v] = worker[v]
        /\ worker'[w].phase \in {"idle", "done"}
    <2>1. CASE Phase(w, "done")
      BY <1>1, <2>1, PhaseStep
    <2>2. CASE worker' = [worker EXCEPT ![w] = Idle]
      BY <2>2 DEF TypeOK, Idle
    <2> QED  BY <2>1, <2>2 DEF MarkSent, Retry, GiveUp, Crash, Acknowledge, LoseWorker
  <1>3. \/ sentAt' = sentAt
        \/ worker[w].phase = "accepted" /\ sentAt' = sentAt \cup ({worker[w].mail} \cap Notices)
    BY DEF MarkSent, Retry, GiveUp, Crash, Acknowledge, LoseWorker
  <1>4. RowLock' /\ SentIsVisible'
    BY <1>2, <1>3, Released
  <1>5. SentHasEnded'
    <2>1. \A m \in Mails : ended[m] \subseteq ended'[m]
      BY DEF MarkSent, Retry, GiveUp, Crash, Acknowledge, LoseWorker, Ended, TypeOK
    <2>2. CASE MarkSent(w)
      <3>1. ended'[worker[w].mail] # {}
        BY <1>1, <2>2 DEF MarkSent, Ended, TypeOK
      <3> QED  BY <2>1, <2>2, <3>1, VisibleNotices
               DEF MarkSent, TasksInv, SentHasEnded, TypeOK, Mails
    <2>3. CASE ~MarkSent(w)
      <3>1. sentAt' = sentAt
        BY <2>3 DEF Retry, GiveUp, Crash, Acknowledge, LoseWorker
      <3> QED  BY <2>1, <3>1, VisibleNotices DEF TasksInv, SentHasEnded, TypeOK, Mails
    <2> QED  BY <2>2, <2>3
  <1>6. NoticeSentOnce'
    <2> SUFFICES ASSUME NEW n \in Notices
                 PROVE  copies'[n] = IF n \in sentAt' \/ Running(n, {"accepted"})' # {} THEN 1 ELSE 0
      BY DEF NoticeSentOnce
    <2>1. Running(n, {"accepted"})' = Running(n, {"accepted"}) \ {w}
      BY <1>2, RunningAfter
    <2>2. CASE n # worker[w].mail \/ worker[w].phase # "accepted"
      <3>1. w \notin Running(n, {"accepted"})
        BY <2>2 DEF Running
      <3>2. n \in sentAt' <=> n \in sentAt
        BY <1>3, <2>2
      <3>3. copies'[n] = copies[n]
        BY <2>2 DEF MarkSent, Retry, GiveUp, Crash, Acknowledge, LoseWorker, Unrecorded, TypeOK, Mails
      <3> QED  BY <2>1, <3>1, <3>2, <3>3 DEF TasksInv, NoticeSentOnce
    <2>3. CASE n = worker[w].mail /\ worker[w].phase = "accepted"
      <3>1. w \in Running(n, {"accepted"}) /\ w \in Running(n, {"sending", "accepted"})
        BY <2>3 DEF Running
      <3>2. Running(n, {"accepted"})' = {}
        <4>1. \A v \in Running(n, {"accepted"}) : v = w
          BY <3>1 DEF TasksInv, RowLock, Running
        <4> QED  BY <2>1, <4>1
      <3>3. n \notin sentAt /\ copies[n] = 1
        BY <3>1 DEF TasksInv, RowLock, Locked, NoticeSentOnce
      <3>4. CASE MarkSent(w)
        BY <2>3, <3>3, <3>4 DEF MarkSent
      <3>5. CASE Retry(w) \/ GiveUp(w) \/ Crash(w) \/ LoseWorker(w)
        <4>1. copies' = Unrecorded(w) /\ sentAt' = sentAt
          BY <3>5 DEF Retry, GiveUp, Crash, LoseWorker
        <4>2. copies'[n] = 0
          BY <2>3, <3>3, <4>1 DEF Unrecorded, TypeOK, Mails
        <4> QED  BY <3>2, <3>3, <4>1, <4>2
      <3>6. ~Acknowledge(w)
        BY <2>3 DEF Acknowledge
      <3> QED  BY <3>4, <3>5, <3>6
    <2> QED  BY <2>2, <2>3
  <1> QED  BY <1>4, <1>5, <1>6 DEF TasksInv

-----------------------------------------------------------------------------
(* No notification is forgotten.                                           *)

\* Messages that wait go on waiting when others are sent.
LEMMA SentWaits ==
    ASSUME TypeOK, NEW m \in Mails, NEW r \in 0..MaxRetries, queue' = Sent(m, r)
    PROVE  /\ Waiting(m)'
           /\ \A n \in Mails : Waiting(n) => Waiting(n)'
  <1>1. queue \in [Mails \X (0..MaxRetries) -> Nat]
    BY DEF TypeOK
  <1>2. queue'[<<m, r>>] > 0
    BY <1>1 DEF Sent
  <1>3. \A n \in Mails, q \in 0..MaxRetries : queue[<<n, q>>] > 0 => queue'[<<n, q>>] > 0
    BY <1>1 DEF Sent
  <1> QED  BY <1>2, <1>3 DEF Waiting

LEMMA BusinessForgetsNothing ==
    ASSUME TypeOK, NothingForgotten, NEW e \in Events,
           \/ CommitAndQueue(e)
           \/ Abandon(e)
           \/ (Emit(e) \/ Abort(e)) /\ UNCHANGED mailVars
    PROVE  NothingForgotten'
  <1> USE DEF mailVars
  <1>1. \A n : Held(n)' <=> Held(n)
    BY DEF CommitAndQueue, Abandon, Held, Waiting, Locked, Running
  <1>2. CASE CommitAndQueue(e)
    <2>1. Visible' = Visible \cup Rows(e)
      BY <1>2, VisibleCommitted DEF CommitAndQueue
    <2> QED  BY <1>1, <1>2, <2>1 DEF CommitAndQueue, NothingForgotten
  <1>3. CASE Abandon(e)
    <2>1. Visible' = Visible
      BY <1>3, VisibleKept DEF Abandon
    <2>2. \A n \in Visible : ended'[n] = {} => ended[n] = {} /\ n \notin toEnqueue \cap Rows(e)
      BY <1>3, VisibleNotices DEF Abandon, Mails
    <2> QED  BY <1>1, <1>3, <2>1, <2>2 DEF Abandon, NothingForgotten
  <1>4. CASE (Emit(e) \/ Abort(e)) /\ UNCHANGED mailVars
    <2>1. Visible' = Visible
      <3>1. PICK s \in {"open", "aborted"} : tx' = [tx EXCEPT ![e] = s] /\ tx[e] # "committed"
        BY <1>4 DEF Emit, Abort
      <3>2. \A f \in Events : f # e => recipients'[f] = recipients[f]
        BY <1>4 DEF Emit, Abort, TypeOK, NoticesTypeOK
      <3>3. s # "committed"
        OBVIOUS
      <3> QED  BY <3>1, <3>2, <3>3, VisibleUnopened
    <2> QED  BY <1>1, <1>4, <2>1 DEF NothingForgotten
  <1> QED  BY <1>2, <1>3, <1>4

\* A task ends a mail only to stay ended.
LEMMA EndedStays ==
    ASSUME TypeOK, NEW m \in Mails,
           \/ \E n \in Notices : Enqueue(n)
           \/ \E l \in Letters : PostLetter(l)
           \/ \E w \in Workers : Receive(w) \/ TaskStep(w) \/ LoseWorker(w)
    PROVE  ended[m] \subseteq ended'[m]
  <1>1. CASE UNCHANGED ended
    BY <1>1
  <1>2. ASSUME NEW w \in Workers, NEW how, Ended(worker[w].mail, how) PROVE ended[m] \subseteq ended'[m]
    BY <1>2 DEF Ended, TypeOK
  <1> QED
    BY <1>1, <1>2
       DEF Enqueue, PostLetter, Receive, Take, TaskStep, Accepted, MarkSent, Retry, GiveUp, Crash,
           Acknowledge, LoseWorker

\* A mail that waits or is being sent goes on so until it ends.
LEMMA HeldOnward ==
    ASSUME TypeOK, NEW n \in Mails, n \in Letters \/ n \in Visible \ sentAt, Held(n), ended'[n] = {},
           \/ \E k \in Notices : Enqueue(k)
           \/ \E l \in Letters : PostLetter(l)
           \/ \E w \in Workers : Receive(w) \/ TaskStep(w) \/ LoseWorker(w)
    PROVE  Held(n)'
  <1>1. ASSUME NEW k \in Notices, Enqueue(k) PROVE Held(n)'
    <2>1. 0 \in 0..MaxRetries /\ k \in Mails
      BY OutboxConstants DEF Mails
    <2>2. Waiting(k)' /\ (Waiting(n) => Waiting(n)')
      BY <1>1, <2>1, SentWaits DEF Enqueue
    <2>3. Locked(n)' <=> Locked(n)
      BY <1>1 DEF Enqueue, Locked, Running
    <2> QED  BY <1>1, <2>2, <2>3 DEF Enqueue, Held
  <1>2. ASSUME NEW l \in Letters, PostLetter(l) PROVE Held(n)'
    <2>1. 0 \in 0..MaxRetries /\ l \in Mails
      BY OutboxConstants DEF Mails
    <2>2. Waiting(n) => Waiting(n)'
      BY <1>2, <2>1, SentWaits DEF PostLetter
    <2>3. Locked(n)' <=> Locked(n)
      BY <1>2 DEF PostLetter, Locked, Running
    <2> QED  BY <1>2, <2>2, <2>3 DEF PostLetter, Held
  <1>3. ASSUME NEW w \in Workers, NEW m \in Mails, NEW r \in 0..MaxRetries, Take(w, m, r)
        PROVE  Held(n)'
    <2>1. \A v \in Workers \ {w} : worker'[v] = worker[v]
      BY <1>3 DEF Take, TypeOK
    <2>2. Locked(n) => Locked(n)'
      BY <1>3, <2>1 DEF Take, Locked, Running, Idle
    <2>3. CASE n # m
      <3>1. Waiting(n) => Waiting(n)'
        BY <1>3, <2>3 DEF Take, Waiting, TypeOK
      <3> QED  BY <1>3, <2>2, <3>1 DEF Take, Held
    <2>4. CASE n = m /\ Locked(n)
      BY <2>2, <2>4 DEF Held
    <2>5. CASE n = m /\ ~Locked(n)
      <3>1. m \in Letters \/ Pending(m)
        BY <2>5 DEF Pending
      <3>2. worker'[w].phase = "sending" /\ worker'[w].mail = n
        BY <1>3, <2>5, <3>1 DEF Take, TypeOK
      <3> QED  BY <3>2 DEF Held, Locked, Running
    <2> QED  BY <2>3, <2>4, <2>5
  <1>4. ASSUME NEW w \in Workers, Accepted(w) PROVE Held(n)'
    <2>1. worker[w] # Idle
      BY <1>4, BusyIsNotIdle DEF Accepted
    <2>2. /\ \A v \in Workers \ {w} : worker'[v] = worker[v]
          /\ worker'[w].mail = worker[w].mail
          /\ worker'[w].phase = "accepted"
      BY <1>4, <2>1, PhaseStep DEF Accepted
    <2>3. Locked(n) => Locked(n)'
      BY <1>4, <2>2 DEF Accepted, Locked, Running
    <2> QED  BY <1>4, <2>3 DEF Accepted, Held, Waiting
  <1>5. ASSUME NEW w \in Workers, MarkSent(w) \/ GiveUp(w) \/ Crash(w) PROVE Held(n)'
    <2>1. worker[w] # Idle
      BY <1>5, BusyIsNotIdle DEF MarkSent, GiveUp, Crash
    <2>2. \A v \in Workers \ {w} : worker'[v] = worker[v]
      BY <1>5, <2>1, PhaseStep DEF MarkSent, GiveUp, Crash
    <2>3. worker[w].mail # n
      <3>1. worker[w].mail \in Mails
        BY <2>1, TaskOf
      <3>2. ended'[worker[w].mail] # {}
        BY <1>5, <3>1 DEF MarkSent, GiveUp, Crash, Ended, TypeOK
      <3> QED  BY <3>2
    <2>4. Locked(n) => Locked(n)'
      BY <2>2, <2>3 DEF Locked, Running
    <2> QED  BY <1>5, <2>4 DEF MarkSent, GiveUp, Crash, Held, Waiting
  <1>6. ASSUME NEW w \in Workers, Retry(w) \/ LoseWorker(w) PROVE Held(n)'
    <2>1. worker[w] # Idle
      BY <1>6, BusyIsNotIdle DEF Retry, LoseWorker
    <2>2. worker[w].mail \in Mails /\ worker[w].retries \in 0..MaxRetries
      BY <2>1, TaskOf
    <2>3. \A v \in Workers \ {w} : worker'[v] = worker[v]
      <3>1. CASE Retry(w)
        BY <2>1, <3>1, PhaseStep DEF Retry
      <3>2. CASE LoseWorker(w)
        BY <3>2 DEF LoseWorker, TypeOK
      <3> QED  BY <1>6, <3>1, <3>2
    <2>4. PICK m \in Mails : m = worker[w].mail
      BY <2>2
    <2>5. PICK r \in 0..MaxRetries : queue' = Sent(m, r)
      <3>1. CASE Retry(w)
        <4>1. worker[w].retries + 1 \in 0..MaxRetries
          BY <2>2, <3>1, OutboxConstants DEF Retry
        <4> QED  BY <2>4, <3>1, <4>1 DEF Retry
      <3>2. CASE LoseWorker(w)
        BY <2>2, <2>4, <3>2 DEF LoseWorker
      <3> QED  BY <1>6, <3>1, <3>2
    <2>6. Waiting(m)' /\ (Waiting(n) => Waiting(n)')
      BY <2>5, SentWaits
    <2>7. CASE m = n
      BY <2>6, <2>7 DEF Held
    <2>8. CASE m # n
      <3>1. Locked(n) => Locked(n)'
        BY <2>3, <2>4, <2>8 DEF Locked, Running
      <3> QED  BY <1>6, <2>6, <3>1 DEF Retry, LoseWorker, Held
    <2> QED  BY <2>7, <2>8
  <1>7. ASSUME NEW w \in Workers, Acknowledge(w) PROVE Held(n)'
    <2>1. Locked(n) => Locked(n)'
      BY <1>7 DEF Acknowledge, Locked, Running, TypeOK
    <2> QED  BY <1>7, <2>1 DEF Acknowledge, Held, Waiting
  <1> QED
    BY <1>1, <1>2, <1>3, <1>4, <1>5, <1>6, <1>7 DEF Receive, TaskStep

LEMMA MailForgetsNothing ==
    ASSUME TypeOK, TasksInv, NothingForgotten, Visible' = Visible,
           \/ \E n \in Notices : Enqueue(n)
           \/ \E l \in Letters : PostLetter(l)
           \/ \E w \in Workers : Receive(w) \/ TaskStep(w) \/ LoseWorker(w)
    PROVE  NothingForgotten'
  <1> SUFFICES ASSUME NEW n \in Visible, ended'[n] = {}
               PROVE  n \in toEnqueue' \/ Held(n)'
    BY DEF NothingForgotten
  <1>1. n \in Mails /\ n \in Notices
    BY VisibleNotices DEF Mails
  <1>2. ended[n] = {}
    BY <1>1, EndedStays
  <1>3. n \in toEnqueue \/ Held(n)
    BY <1>2 DEF NothingForgotten
  <1>4. CASE Held(n)
    <2>1. n \notin sentAt
      BY <1>2 DEF TasksInv, SentHasEnded
    <2> QED  BY <1>1, <1>4, <2>1, HeldOnward
  <1>5. CASE n \in toEnqueue /\ Enqueue(n)
    <2>1. 0 \in 0..MaxRetries
      BY OutboxConstants
    <2> QED  BY <1>1, <1>5, <2>1, SentWaits DEF Enqueue, Held
  <1>6. CASE n \in toEnqueue /\ ~Enqueue(n)
    BY <1>6 DEF Enqueue, PostLetter, Receive, Take, TaskStep, Accepted, MarkSent, Retry, GiveUp,
                Crash, Acknowledge, LoseWorker
  <1> QED  BY <1>3, <1>4, <1>5, <1>6

-----------------------------------------------------------------------------
(* The theorems.                                                           *)

LEMMA InitOutboxInv ==
    ASSUME Init
    PROVE  OutboxInv
  <1> USE DEF Init, InitNotices
  <1>1. Visible = {}
    BY DEF Visible
  <1>2. TypeOK
    BY <1>1, NotificationConstants, OutboxConstants DEF TypeOK, NoticesTypeOK
  <1>3. \A n, P : Running(n, P) = {} \/ "idle" \in P
    BY DEF Running, Idle
  <1>4. RowLock
    BY <1>3 DEF RowLock, Locked
  <1>5. SentIsVisible
    BY DEF SentIsVisible, Idle
  <1>6. SentHasEnded /\ NothingForgotten
    BY <1>1 DEF SentHasEnded, NothingForgotten
  <1>7. NoticeSentOnce
    BY <1>3 DEF NoticeSentOnce, Mails
  <1> QED  BY <1>2, <1>4, <1>5, <1>6, <1>7 DEF OutboxInv

LEMMA StepOutboxInv ==
    ASSUME OutboxInv, [Next]_vars
    PROVE  OutboxInv'
  <1>1. TypeOK /\ TasksInv /\ NothingForgotten
    BY DEF OutboxInv, TasksInv
  <1> SUFFICES TypeOK' /\ TasksInv' /\ NothingForgotten'
    BY DEF OutboxInv, TasksInv
  <1>2. ASSUME NEW e \in Events,
               \/ CommitAndQueue(e) \/ Abandon(e)
               \/ (Emit(e) \/ Abort(e)) /\ UNCHANGED mailVars
        PROVE  TypeOK' /\ TasksInv' /\ NothingForgotten'
    <2>1. TypeOK' /\ Visible \subseteq Visible'
      BY <1>1, <1>2, BusinessTyped
    <2>2. NothingForgotten'
      BY <1>1, <1>2, BusinessForgetsNothing
    <2>3. UNCHANGED <<worker, sentAt, copies>>
      BY <1>2 DEF CommitAndQueue, Abandon, mailVars
    <2>4. \A n \in sentAt : ended[n] \subseteq ended'[n]
      BY <1>1, <1>2, VisibleNotices DEF CommitAndQueue, Abandon, mailVars, TypeOK, Mails
    <2> QED  BY <1>1, <2>1, <2>2, <2>3, <2>4, TasksLeftAlone
  <1>3. ASSUME NEW u \in Users, Panel(u), UNCHANGED mailVars
        PROVE  TypeOK' /\ TasksInv' /\ NothingForgotten'
    <2>1. TypeOK' /\ Visible' = Visible
      BY <1>1, <1>3, PanelTyped
    <2>2. TasksInv'
      BY <1>1, <1>3, <2>1, TasksLeftAlone DEF mailVars
    <2>3. NothingForgotten'
      BY <1>1, <1>3, <2>1 DEF mailVars, NothingForgotten, Held, Waiting, Locked, Running
    <2> QED  BY <2>1, <2>2, <2>3
  <1>4. ASSUME \/ \E n \in Notices : Enqueue(n)
               \/ \E l \in Letters : PostLetter(l)
               \/ \E w \in Workers : Receive(w) \/ TaskStep(w) \/ LoseWorker(w)
        PROVE  TypeOK' /\ TasksInv' /\ NothingForgotten'
    <2>1. TypeOK' /\ Visible' = Visible
      BY <1>1, <1>4, MailTyped DEF TasksInv
    <2>2. NothingForgotten'
      BY <1>1, <1>4, <2>1, MailForgetsNothing
    <2>3. CASE (\E n \in Notices : Enqueue(n)) \/ (\E l \in Letters : PostLetter(l))
      <3>1. UNCHANGED <<worker, sentAt, copies, ended>>
        BY <2>3 DEF Enqueue, PostLetter
      <3> QED  BY <1>1, <2>1, <2>2, <3>1, TasksLeftAlone
    <2>4. ASSUME NEW w \in Workers, Receive(w) PROVE TasksInv'
      BY <1>1, <2>1, <2>4, TakeKeepsTasks DEF Receive
    <2>5. ASSUME NEW w \in Workers, TaskStep(w) \/ LoseWorker(w) PROVE TasksInv'
      BY <1>1, <2>1, <2>5, AcceptedKeepsTasks, ReleaseKeepsTasks DEF TaskStep
    <2> QED  BY <1>4, <2>1, <2>2, <2>3, <2>4, <2>5
  <1>5. CASE UNCHANGED vars
    <2>1. Visible' = Visible
      BY <1>5, VisibleKept DEF vars, noticeVars
    <2>2. TypeOK'
      BY <1>1, <1>5, <2>1 DEF vars, noticeVars, badgeVars, mailVars, TypeOK, NoticesTypeOK
    <2>3. TasksInv'
      BY <1>1, <1>5, <2>1, TasksLeftAlone DEF vars, mailVars
    <2>4. NothingForgotten'
      BY <1>1, <1>5, <2>1 DEF vars, mailVars, NothingForgotten, Held, Waiting, Locked, Running
    <2> QED  BY <2>2, <2>3, <2>4
  <1> QED  BY <1>2, <1>3, <1>4, <1>5 DEF Next

LEMMA OutboxInvariant == Spec => []OutboxInv
  <1>1. Init => OutboxInv
    BY InitOutboxInv
  <1>2. OutboxInv /\ [Next]_vars => OutboxInv'
    BY StepOutboxInv
  <1> QED  BY <1>1, <1>2, PTL DEF Spec

(* The rows, the cache, the queue and the tasks keep their types; in       *)
(* particular only rows of committed transactions are enqueued, recorded   *)
(* as sent or marked read (emit is called before the commit and            *)
(* enqueue_pending_emails after it).                                       *)
THEOREM OutboxTyped == Spec => []TypeOK
  <1>1. OutboxInv => TypeOK
    BY DEF OutboxInv
  <1> QED  BY <1>1, OutboxInvariant, PTL

(* The recorded email of a notification went out once, for any number of   *)
(* workers, retries and losses: lock_pending_email's row lock and its test *)
(* of email_sent_at are enough.                                            *)
THEOREM EmailSentOnce == Spec => []NoticeSentOnce
  <1>1. OutboxInv => NoticeSentOnce
    BY DEF OutboxInv
  <1> QED  BY <1>1, OutboxInvariant, PTL

(* A committed notification whose email was neither sent nor given up is   *)
(* in the hands of its process, of a message or of a task: late            *)
(* acknowledgement and SKIP LOCKED lose none between them.                 *)
THEOREM EmailNotForgotten == Spec => []NothingForgotten
  <1>1. OutboxInv => NothingForgotten
    BY DEF OutboxInv
  <1> QED  BY <1>1, OutboxInvariant, PTL

-----------------------------------------------------------------------------
(* Letters.  Messages and tasks are pairs, of the first attempt there may  *)
(* still be and what tells them apart, and what they may make is one copy  *)
(* for each attempt from that one on.                                      *)

Waitings(q, m) == UNION {{r} \X (1..q[<<m, r>>]) : r \in 0..MaxRetries}
Messages(m) == Waitings(queue, m)

FirstOf(t) == IF t.phase = "accepted" THEN t.retries + 1 ELSE t.retries
Tasks(m) == {<<FirstOf(worker[w]), w>> : w \in Running(m, {"sending", "accepted"})}

Attempts(S) == {t \in S \X (0..MaxRetries) : t[1][1] <= t[2]}
Weight(S) == Cardinality(Attempts(S))

CopiesToCome ==
    \A l \in Letters :
        /\ IsFiniteSet(Messages(l)) /\ IsFiniteSet(Tasks(l))
        /\ copies[l] + Weight(Messages(l)) + Weight(Tasks(l)) <= (1 + MaxRetries) * (1 + losses)

\* A letter that was sent is held by a message or a task, or has ended.
SentIsHeld == \A l \in Letters : copies[l] # 0 /\ ended[l] = {} => Held(l)

LettersInv == CopiesToCome /\ SentIsHeld

LEMMA WeightIsNat ==
    ASSUME NEW S, IsFiniteSet(S)
    PROVE  IsFiniteSet(Attempts(S)) /\ Weight(S) \in Nat
  <1>1. IsFiniteSet(S \X (0..MaxRetries))
    <2>1. 0 \in Int /\ MaxRetries \in Int
      BY OutboxConstants
    <2>2. IsFiniteSet(0..MaxRetries)
      BY <2>1, FS_Interval
    <2> QED  BY <2>2, FS_Product
  <1>2. Attempts(S) \subseteq S \X (0..MaxRetries)
    BY DEF Attempts
  <1> QED  BY <1>1, <1>2, FS_Subset, FS_CardinalityType DEF Weight

\* One more message or task adds the attempts it has left.
LEMMA WeightAdded ==
    ASSUME NEW S, IsFiniteSet(S), NEW f \in 0..(MaxRetries + 1), NEW i, <<f, i>> \notin S
    PROVE  /\ IsFiniteSet(S \cup {<<f, i>>})
           /\ Weight(S \cup {<<f, i>>}) = Weight(S) + (MaxRetries + 1 - f)
  <1> DEFINE x == <<f, i>>
             new == {x} \X (f..MaxRetries)
  <1>1. Attempts(S \cup {x}) = Attempts(S) \cup new
    <2>1. ASSUME NEW t \in Attempts(S \cup {x}) PROVE t \in Attempts(S) \cup new
      BY OutboxConstants DEF Attempts
    <2>2. Attempts(S) \subseteq Attempts(S \cup {x})
      BY DEF Attempts
    <2>3. ASSUME NEW t \in new PROVE t \in Attempts(S \cup {x})
      BY OutboxConstants DEF Attempts
    <2> QED  BY <2>1, <2>2, <2>3
  <1>2. Attempts(S) \cap new = {}
    BY DEF Attempts
  <1>3. IsFiniteSet(new) /\ Cardinality(new) = MaxRetries + 1 - f
    <2>1. /\ IsFiniteSet(f..MaxRetries)
          /\ Cardinality(f..MaxRetries) = MaxRetries + 1 - f
      <3>1. f \in Int /\ MaxRetries \in Int
        BY OutboxConstants
      <3>2. /\ IsFiniteSet(f..MaxRetries)
            /\ Cardinality(f..MaxRetries) = IF f > MaxRetries THEN 0 ELSE MaxRetries - f + 1
        BY <3>1, FS_Interval
      <3>3. f > MaxRetries => f = MaxRetries + 1
        BY <3>1
      <3> QED  BY <3>1, <3>2, <3>3
    <2>2. IsFiniteSet({x}) /\ Cardinality({x}) = 1
      BY FS_Singleton
    <2>3. IsFiniteSet(new) /\ Cardinality(new) = Cardinality({x}) * Cardinality(f..MaxRetries)
      BY <2>1, <2>2, FS_Product
    <2>4. MaxRetries + 1 - f \in Nat
      BY OutboxConstants
    <2> QED  BY <2>1, <2>2, <2>3, <2>4
  <1>4. IsFiniteSet(Attempts(S))
    BY WeightIsNat
  <1>5. Cardinality(Attempts(S) \cup new) = Cardinality(Attempts(S)) + Cardinality(new)
    <2>1. Cardinality(Attempts(S) \cup new) =
             Cardinality(Attempts(S)) + Cardinality(new) - Cardinality(Attempts(S) \cap new)
      BY <1>3, <1>4, FS_Union
    <2>2. Cardinality(Attempts(S) \cap new) = 0
      BY <1>2, FS_EmptySet
    <2>3. Cardinality(Attempts(S)) \in Nat /\ Cardinality(new) \in Nat
      BY <1>3, <1>4, FS_CardinalityType
    <2> HIDE DEF new
    <2> QED  BY <2>1, <2>2, <2>3
  <1>6. IsFiniteSet(S \cup {x})
    BY FS_AddElement
  <1> HIDE DEF new
  <1> QED  BY <1>1, <1>3, <1>5, <1>6 DEF Weight

LEMMA WeightDropped ==
    ASSUME NEW S, IsFiniteSet(S), NEW f \in 0..(MaxRetries + 1), NEW i, <<f, i>> \in S
    PROVE  /\ IsFiniteSet(S \ {<<f, i>>})
           /\ Weight(S \ {<<f, i>>}) = Weight(S) - (MaxRetries + 1 - f)
  <1> DEFINE T == S \ {<<f, i>>}
  <1>1. IsFiniteSet(T) /\ <<f, i>> \notin T
    BY FS_Subset
  <1>2. S = T \cup {<<f, i>>}
    OBVIOUS
  <1>3. Weight(T \cup {<<f, i>>}) = Weight(T) + (MaxRetries + 1 - f)
    <2> HIDE DEF T
    <2> QED  BY <1>1, WeightAdded
  <1>4. Weight(S) \in Nat /\ Weight(T) \in Nat /\ MaxRetries + 1 - f \in Nat
    BY <1>1, WeightIsNat, OutboxConstants
  <1>5. Weight(S) = Weight(T) + (MaxRetries + 1 - f)
    BY <1>2, <1>3
  <1> HIDE DEF T
  <1>6. Weight(T) = Weight(S) - (MaxRetries + 1 - f)
    BY <1>4, <1>5
  <1> QED  BY <1>1, <1>6 DEF T

LEMMA WaitingIs ==
    ASSUME NEW q, NEW m, NEW r \in 0..MaxRetries, NEW i
    PROVE  <<r, i>> \in Waitings(q, m) <=> i \in 1..q[<<m, r>>]
  <1>1. ASSUME <<r, i>> \in Waitings(q, m) PROVE i \in 1..q[<<m, r>>]
    <2>1. PICK s \in 0..MaxRetries : <<r, i>> \in {s} \X (1..q[<<m, s>>])
      BY <1>1 DEF Waitings
    <2> QED  BY <2>1
  <1>2. ASSUME i \in 1..q[<<m, r>>] PROVE <<r, i>> \in Waitings(q, m)
    <2>1. <<r, i>> \in {r} \X (1..q[<<m, r>>])
      BY <1>2
    <2> QED  BY <2>1 DEF Waitings
  <1> QED  BY <1>1, <1>2

LEMMA WaitingIsPair ==
    ASSUME NEW q, NEW m, NEW x \in Waitings(q, m)
    PROVE  \E r \in 0..MaxRetries : \E i : x = <<r, i>>
  <1>1. PICK s \in 0..MaxRetries : x \in {s} \X (1..q[<<m, s>>])
    BY DEF Waitings
  <1> QED  BY <1>1

\* A message more is an element more.
LEMMA OneMore ==
    ASSUME NEW q, NEW p, NEW m, NEW r \in 0..MaxRetries,
           q[<<m, r>>] \in Nat, p[<<m, r>>] = q[<<m, r>>] + 1,
           \A s \in 0..MaxRetries \ {r} : p[<<m, s>>] = q[<<m, s>>]
    PROVE  /\ <<r, q[<<m, r>>] + 1>> \notin Waitings(q, m)
           /\ Waitings(p, m) = Waitings(q, m) \cup {<<r, q[<<m, r>>] + 1>>}
  <1> DEFINE n == q[<<m, r>>]
             x == <<r, n + 1>>
  <1>1. n \in Nat /\ p[<<m, r>>] = n + 1 /\ \A s \in 0..MaxRetries \ {r} : p[<<m, s>>] = q[<<m, s>>]
    OBVIOUS
  <1>2. x \notin Waitings(q, m)
    BY <1>1, WaitingIs
  <1>3. x \in Waitings(p, m)
    <2>1. n + 1 \in 1..p[<<m, r>>]
      BY <1>1
    <2> QED  BY <2>1, WaitingIs
  <1>4. ASSUME NEW y \in Waitings(q, m) PROVE y \in Waitings(p, m)
    <2>1. PICK s \in 0..MaxRetries : \E i : y = <<s, i>>
      BY WaitingIsPair
    <2>2. PICK i : y = <<s, i>>
      BY <2>1
    <2>3. i \in 1..q[<<m, s>>]
      BY <2>2, WaitingIs
    <2>4. i \in 1..p[<<m, s>>]
      BY <1>1, <2>3
    <2> QED  BY <2>2, <2>4, WaitingIs
  <1>5. ASSUME NEW y \in Waitings(p, m) PROVE y \in Waitings(q, m) \cup {x}
    <2>1. PICK s \in 0..MaxRetries : \E i : y = <<s, i>>
      BY WaitingIsPair
    <2>2. PICK i : y = <<s, i>>
      BY <2>1
    <2>3. i \in 1..p[<<m, s>>]
      BY <2>2, WaitingIs
    <2>4. CASE s = r /\ i = n + 1
      BY <2>2, <2>4
    <2>5. CASE ~(s = r /\ i = n + 1)
      <3>1. i \in 1..q[<<m, s>>]
        BY <1>1, <2>3, <2>5
      <3> QED  BY <2>2, <3>1, WaitingIs
    <2> QED  BY <2>4, <2>5
  <1>6. Waitings(p, m) = Waitings(q, m) \cup {x}
    BY <1>3, <1>4, <1>5
  <1> QED  BY <1>2, <1>6

\* Sending a message adds one to those of its mail, and taking it drops one.
LEMMA MessageSent ==
    ASSUME TypeOK, NEW m \in Mails, NEW r \in 0..MaxRetries, queue' = Sent(m, r)
    PROVE  /\ \A l \in Mails \ {m} : Messages(l)' = Messages(l)
           /\ IsFiniteSet(Messages(m)) =>
                /\ IsFiniteSet(Messages(m)')
                /\ Weight(Messages(m)') = Weight(Messages(m)) + (MaxRetries + 1 - r)
  <1>1. queue \in [Mails \X (0..MaxRetries) -> Nat]
    BY DEF TypeOK
  <1>2. \A l \in Mails, s \in 0..MaxRetries :
            queue'[<<l, s>>] = IF l = m /\ s = r THEN queue[<<l, s>>] + 1 ELSE queue[<<l, s>>]
    BY <1>1 DEF Sent
  <1>3. \A l \in Mails \ {m} : Messages(l)' = Messages(l)
    BY <1>2 DEF Messages, Waitings
  <1>4. /\ queue[<<m, r>>] \in Nat /\ queue'[<<m, r>>] = queue[<<m, r>>] + 1
        /\ \A s \in 0..MaxRetries \ {r} : queue'[<<m, s>>] = queue[<<m, s>>]
    BY <1>1, <1>2
  <1>5. /\ <<r, queue[<<m, r>>] + 1>> \notin Waitings(queue, m)
        /\ Waitings(queue', m) = Waitings(queue, m) \cup {<<r, queue[<<m, r>>] + 1>>}
    <2>1. PICK q, p : q = queue /\ p = queue'
      OBVIOUS
    <2>2. /\ q[<<m, r>>] \in Nat /\ p[<<m, r>>] = q[<<m, r>>] + 1
          /\ \A s \in 0..MaxRetries \ {r} : p[<<m, s>>] = q[<<m, s>>]
      BY <1>4, <2>1
    <2>3. /\ <<r, q[<<m, r>>] + 1>> \notin Waitings(q, m)
          /\ Waitings(p, m) = Waitings(q, m) \cup {<<r, q[<<m, r>>] + 1>>}
      BY <2>2, OneMore
    <2> QED  BY <2>1, <2>3
  <1>6. r \in 0..(MaxRetries + 1) /\ Messages(m) = Waitings(queue, m) /\ Messages(m)' = Waitings(queue', m)
    BY OutboxConstants DEF Messages
  <1> QED  BY <1>3, <1>5, <1>6, WeightAdded

LEMMA MessageTaken ==
    ASSUME TypeOK, NEW w \in Workers, NEW m \in Mails, NEW r \in 0..MaxRetries, Take(w, m, r)
    PROVE  /\ \A l \in Mails \ {m} : Messages(l)' = Messages(l)
           /\ IsFiniteSet(Messages(m)) =>
                /\ IsFiniteSet(Messages(m)')
                /\ Weight(Messages(m)) = Weight(Messages(m)') + (MaxRetries + 1 - r)
  <1>1. \A l \in Mails, s \in 0..MaxRetries :
            queue'[<<l, s>>] = IF l = m /\ s = r THEN queue[<<l, s>>] - 1 ELSE queue[<<l, s>>]
    BY DEF Take, TypeOK
  <1>2. \A l \in Mails \ {m} : Messages(l)' = Messages(l)
    BY <1>1 DEF Messages, Waitings
  <1>3. /\ queue'[<<m, r>>] \in Nat /\ queue[<<m, r>>] = queue'[<<m, r>>] + 1
        /\ \A s \in 0..MaxRetries \ {r} : queue[<<m, s>>] = queue'[<<m, s>>]
    BY <1>1 DEF Take, TypeOK
  <1>4. /\ <<r, queue'[<<m, r>>] + 1>> \notin Waitings(queue', m)
        /\ Waitings(queue, m) = Waitings(queue', m) \cup {<<r, queue'[<<m, r>>] + 1>>}
    BY <1>3, OneMore
  <1>5. r \in 0..(MaxRetries + 1) /\ Messages(m) = Waitings(queue, m) /\ Messages(m)' = Waitings(queue', m)
    BY OutboxConstants DEF Messages
  <1>6. IsFiniteSet(Messages(m)) => IsFiniteSet(Messages(m)')
    BY <1>4, <1>5, FS_Subset
  <1> QED  BY <1>2, <1>4, <1>5, <1>6, WeightAdded

\* The tasks of a letter, when that of w begins, goes on or ends.
LEMMA TasksAfter ==
    ASSUME TypeOK, NEW w \in Workers, \A v \in Workers \ {w} : worker'[v] = worker[v], NEW m
    PROVE  /\ w \notin Running(m, {"sending", "accepted"})' =>
                  Tasks(m)' = Tasks(m) \ {<<FirstOf(worker[w]), w>>}
           /\ w \in Running(m, {"sending", "accepted"})' =>
                  Tasks(m)' = (Tasks(m) \ {<<FirstOf(worker[w]), w>>}) \cup {<<FirstOf(worker'[w]), w>>}
  <1> DEFINE P == {"sending", "accepted"}
  <1>1. /\ \A v \in Workers \ {w} : v \in Running(m, P)' <=> v \in Running(m, P)
        /\ Running(m, P) \subseteq Workers /\ Running(m, P)' \subseteq Workers
    BY DEF Running
  <1>2. Tasks(m) = {<<FirstOf(worker[v]), v>> : v \in Running(m, P)}
    BY DEF Tasks
  <1>3. Tasks(m)' = {<<FirstOf(worker'[v]), v>> : v \in Running(m, P)'}
    BY DEF Tasks, FirstOf
  <1>4. \A x : x \in Tasks(m) \ {<<FirstOf(worker[w]), w>>}
                 <=> \E v \in Running(m, P) \ {w} : x = <<FirstOf(worker[v]), v>>
    BY <1>2
  <1>5. \A x : x \in Tasks(m)'
                 <=> \/ \E v \in Running(m, P) \ {w} : x = <<FirstOf(worker[v]), v>>
                     \/ w \in Running(m, P)' /\ x = <<FirstOf(worker'[w]), w>>
    BY <1>1, <1>3
  <1> HIDE DEF P
  <1> QED  BY <1>4, <1>5 DEF P

\* One task more than before, or the task of w gone.
LEMMA TaskBegins ==
    ASSUME TypeOK, NEW w \in Workers, \A v \in Workers \ {w} : worker'[v] = worker[v], NEW m,
           w \notin Running(m, {"sending", "accepted"}), w \in Running(m, {"sending", "accepted"})',
           FirstOf(worker'[w]) \in 0..(MaxRetries + 1), IsFiniteSet(Tasks(m))
    PROVE  /\ IsFiniteSet(Tasks(m)')
           /\ Weight(Tasks(m)') = Weight(Tasks(m)) + (MaxRetries + 1 - FirstOf(worker'[w]))
  <1>1. Tasks(m) \ {<<FirstOf(worker[w]), w>>} = Tasks(m) /\ <<FirstOf(worker'[w]), w>> \notin Tasks(m)
    BY DEF Tasks
  <1>2. Tasks(m)' = Tasks(m) \cup {<<FirstOf(worker'[w]), w>>}
    BY <1>1, TasksAfter
  <1> QED  BY <1>1, <1>2, WeightAdded

LEMMA TaskEnds ==
    ASSUME TypeOK, NEW w \in Workers, \A v \in Workers \ {w} : worker'[v] = worker[v], NEW m,
           w \notin Running(m, {"sending", "accepted"})', IsFiniteSet(Tasks(m)),
           w \in Running(m, {"sending", "accepted"}) => FirstOf(worker[w]) \in 0..(MaxRetries + 1)
    PROVE  /\ IsFiniteSet(Tasks(m)')
           /\ Weight(Tasks(m)') = IF w \in Running(m, {"sending", "accepted"})
                                  THEN Weight(Tasks(m)) - (MaxRetries + 1 - FirstOf(worker[w]))
                                  ELSE Weight(Tasks(m))
  <1>1. Tasks(m)' = Tasks(m) \ {<<FirstOf(worker[w]), w>>}
    BY TasksAfter
  <1>2. CASE w \in Running(m, {"sending", "accepted"})
    <2>1. <<FirstOf(worker[w]), w>> \in Tasks(m)
      BY <1>2 DEF Tasks
    <2> QED  BY <1>1, <1>2, <2>1, WeightDropped
  <1>3. CASE w \notin Running(m, {"sending", "accepted"})
    <2>1. <<FirstOf(worker[w]), w>> \notin Tasks(m)
      BY <1>3 DEF Tasks
    <2>2. Tasks(m)' = Tasks(m)
      BY <1>1, <2>1
    <2> QED  BY <1>3, <2>2
  <1> QED  BY <1>2, <1>3

-----------------------------------------------------------------------------
(* A step leaves of the letters what it does not touch.                    *)

\* Steps of no task, and the ends of tasks that were not to send a letter.
LEMMA LettersLeftAlone ==
    ASSUME LettersInv, UNCHANGED <<queue, copies, losses>>,
           \A l \in Letters : ended[l] \subseteq ended'[l] /\ Tasks(l)' = Tasks(l),
           \A l \in Letters : Held(l) /\ ended'[l] = {} => Held(l)'
    PROVE  LettersInv'
  <1>1. CopiesToCome'
    BY DEF LettersInv, CopiesToCome, Messages, Weight, Attempts
  <1>2. SentIsHeld'
    BY DEF LettersInv, SentIsHeld
  <1> QED  BY <1>1, <1>2 DEF LettersInv

\* The copies a message and as many lost workers can make.
LEMMA Allowed ==
    ASSUME NEW n \in Nat
    PROVE  /\ (1 + MaxRetries) * (1 + n) \in Nat
           /\ (1 + MaxRetries) * (1 + n) >= 1 + MaxRetries
           /\ (1 + MaxRetries) * (1 + (n + 1)) = (1 + MaxRetries) * (1 + n) + (1 + MaxRetries)
  <1>1. \A a, b \in Nat : a * (1 + b) \in Nat /\ a * (1 + b) >= a
                         /\ a * (1 + (b + 1)) = a * (1 + b) + a
    <2>1. \A a, b \in Nat : a * b \in Nat /\ a * (1 + b) = a + a * b
                            /\ a * (1 + (b + 1)) = a * (1 + b) + a
      OBVIOUS
    <2> QED  BY <2>1
  <1>2. 1 + MaxRetries \in Nat
    BY OutboxConstants
  <1> QED  BY <1>1, <1>2

LEMMA NothingWeighsNothing == Weight({}) = 0
  <1>1. Attempts({}) = {}
    BY DEF Attempts
  <1> QED  BY <1>1, FS_EmptySet DEF Weight

LEMMA PostKeepsLetters ==
    ASSUME TypeOK, LettersInv, NEW l \in Letters, PostLetter(l)
    PROVE  LettersInv'
  <1>1. l \in Mails /\ 0 \in 0..MaxRetries /\ queue' = Sent(l, 0)
    BY OutboxConstants DEF Mails, PostLetter
  <1>2. /\ \A k \in Mails \ {l} : Messages(k)' = Messages(k)
        /\ IsFiniteSet(Messages(l)') /\ Weight(Messages(l)') = Weight(Messages(l)) + (MaxRetries + 1)
    <2>1. IsFiniteSet(Messages(l)) /\ MaxRetries + 1 - 0 = MaxRetries + 1
      BY OutboxConstants DEF LettersInv, CopiesToCome
    <2>2. /\ \A k \in Mails \ {l} : Messages(k)' = Messages(k)
          /\ IsFiniteSet(Messages(l)')
          /\ Weight(Messages(l)') = Weight(Messages(l)) + (MaxRetries + 1 - 0)
      BY <1>1, <2>1, MessageSent
    <2> QED  BY <2>1, <2>2
  <1>3. \A k : Tasks(k)' = Tasks(k)
    BY DEF PostLetter, Tasks, Running, FirstOf
  <1>4. copies[l] = 0 /\ Messages(l) = {} /\ Tasks(l) = {}
    <2>1. copies[l] = 0
      BY DEF PostLetter, LettersInv, SentIsHeld, InFlight
    <2>2. \A r \in 0..MaxRetries : queue[<<l, r>>] = 0
      BY <1>1 DEF PostLetter, InFlight, Held, Waiting, TypeOK
    <2>3. Messages(l) = {}
      <3>1. \A r \in 0..MaxRetries : 1..queue[<<l, r>>] = {}
        BY <2>2
      <3> QED  BY <3>1 DEF Messages, Waitings
    <2> QED  BY <2>1, <2>3 DEF PostLetter, InFlight, Held, Locked, Tasks
  <1>5. losses \in Nat /\ UNCHANGED <<copies, losses, ended, worker>>
    BY DEF PostLetter, TypeOK
  <1>6. CopiesToCome'
    <2> SUFFICES ASSUME NEW k \in Letters
                 PROVE  /\ IsFiniteSet(Messages(k)') /\ IsFiniteSet(Tasks(k)')
                        /\ copies'[k] + Weight(Messages(k)') + Weight(Tasks(k)')
                              <= (1 + MaxRetries) * (1 + losses')
      BY DEF CopiesToCome, Weight, Attempts
    <2>1. CASE k = l
      <3>1. /\ IsFiniteSet(Tasks(k)') /\ Weight(Tasks(k)') = 0
            /\ Weight(Messages(k)') = MaxRetries + 1
        BY <1>2, <1>3, <1>4, <2>1, FS_EmptySet, NothingWeighsNothing, OutboxConstants
      <3> QED  BY <1>2, <1>4, <1>5, <2>1, <3>1, Allowed, OutboxConstants
    <2>2. CASE k # l
      BY <1>2, <1>3, <1>5, <2>2 DEF LettersInv, CopiesToCome, Mails
    <2> QED  BY <2>1, <2>2
  <1>7. SentIsHeld'
    <2> SUFFICES ASSUME NEW k \in Letters, copies'[k] # 0, ended'[k] = {} PROVE Held(k)'
      BY DEF SentIsHeld
    <2>1. Held(k) /\ k \in Mails
      BY <1>5 DEF LettersInv, SentIsHeld, Mails
    <2> QED  BY <2>1, HeldOnward
  <1> QED  BY <1>6, <1>7 DEF LettersInv

\* A message is taken: what it could make, the task can.
LEMMA TakeKeepsLetters ==
    ASSUME TypeOK, LettersInv, NEW w \in Workers, NEW m \in Mails, NEW r \in 0..MaxRetries,
           Take(w, m, r)
    PROVE  CopiesToCome'
  <1>1. /\ \A v \in Workers \ {w} : worker'[v] = worker[v]
        /\ worker'[w].mail = m /\ worker'[w].retries = r
        /\ m \in Letters => worker'[w].phase = "sending"
    BY DEF Take, TypeOK
  <1>2. \A k : w \notin Running(k, {"sending", "accepted"})
    BY DEF Take, Running, Idle
  <1>3. UNCHANGED <<copies, losses>>
    BY DEF Take
  <1> SUFFICES ASSUME NEW k \in Letters
               PROVE  /\ IsFiniteSet(Messages(k)') /\ IsFiniteSet(Tasks(k)')
                      /\ copies'[k] + Weight(Messages(k)') + Weight(Tasks(k)')
                            <= (1 + MaxRetries) * (1 + losses')
    BY DEF CopiesToCome, Weight, Attempts
  <1>4. /\ IsFiniteSet(Messages(k)) /\ IsFiniteSet(Tasks(k))
        /\ copies[k] + Weight(Messages(k)) + Weight(Tasks(k)) <= (1 + MaxRetries) * (1 + losses)
    BY DEF LettersInv, CopiesToCome
  <1>5. CASE k = m
    <2>1. w \in Running(k, {"sending", "accepted"})' /\ FirstOf(worker'[w]) = r
      BY <1>1, <1>5 DEF Running, FirstOf
    <2>2. IsFiniteSet(Tasks(k)') /\ Weight(Tasks(k)') = Weight(Tasks(k)) + (MaxRetries + 1 - r)
      <3>1. FirstOf(worker'[w]) \in 0..(MaxRetries + 1)
        BY <2>1, OutboxConstants
      <3>2. /\ IsFiniteSet(Tasks(k)')
            /\ Weight(Tasks(k)') = Weight(Tasks(k)) + (MaxRetries + 1 - FirstOf(worker'[w]))
        BY <1>1, <1>2, <1>4, <2>1, <3>1, TaskBegins
      <3> QED  BY <2>1, <3>2
    <2>3. IsFiniteSet(Messages(k)') /\ Weight(Messages(k)) = Weight(Messages(k)') + (MaxRetries + 1 - r)
      BY <1>4, <1>5, MessageTaken
    <2>4. /\ copies[k] \in Int /\ (1 + MaxRetries) * (1 + losses) \in Nat
          /\ Weight(Messages(k)') \in Nat /\ Weight(Tasks(k)) \in Nat
          /\ MaxRetries + 1 - r \in Nat
      BY <1>4, <2>3, WeightIsNat, Allowed, OutboxConstants DEF TypeOK, Mails
    <2> QED  BY <1>3, <1>4, <2>2, <2>3, <2>4
  <1>6. CASE k # m
    <2>1. Tasks(k)' = Tasks(k)
      <3>1. w \notin Running(k, {"sending", "accepted"})'
        BY <1>1, <1>6 DEF Running
      <3>2. <<FirstOf(worker[w]), w>> \notin Tasks(k)
        BY <1>2 DEF Tasks
      <3> QED  BY <1>1, <3>1, <3>2, TasksAfter
    <2>2. Messages(k)' = Messages(k)
      BY <1>6, MessageTaken DEF Mails
    <2> QED  BY <1>3, <1>4, <2>1, <2>2
  <1> QED  BY <1>5, <1>6

\* What the task of w, of letter k, may still make, before and after.
LEMMA OwnTask ==
    ASSUME TypeOK, NEW w \in Workers, NEW k \in Letters, IsFiniteSet(Tasks(k)),
           TaskStep(w) \/ LoseWorker(w)
    PROVE  /\ IsFiniteSet(Tasks(k)') /\ Weight(Tasks(k)') \in Nat
           /\ Weight(Tasks(k)') <= Weight(Tasks(k))
           /\ Accepted(w) /\ worker[w].mail = k => Weight(Tasks(k)') = Weight(Tasks(k)) - 1
           /\ Retry(w) /\ worker[w].mail = k =>
                 Weight(Tasks(k)') + (MaxRetries + 1 - (worker[w].retries + 1)) <= Weight(Tasks(k))
  <1> DEFINE m == worker[w].mail
             r == worker[w].retries
             f == FirstOf(worker[w])
             was == w \in Running(k, {"sending", "accepted"})
  <1>1. worker[w] # Idle
    BY BusyIsNotIdle
       DEF TaskStep, Accepted, MarkSent, Retry, GiveUp, Crash, Acknowledge, LoseWorker
  <1>2. m \in Mails /\ r \in 0..MaxRetries /\ worker[w] \in Task
    BY <1>1, TaskOf
  <1>3. f \in 0..(MaxRetries + 1) /\ f <= r + 1 /\ Weight(Tasks(k)) \in Nat /\ MaxRetries \in Nat
    BY <1>2, OutboxConstants, WeightIsNat DEF FirstOf
  <1>4. CASE Accepted(w)
    <2>1. /\ \A v \in Workers \ {w} : worker'[v] = worker[v]
          /\ worker'[w] = [worker[w] EXCEPT !.phase = "accepted"]
      BY <1>1, <1>4, PhaseStep DEF Accepted, Phase, TypeOK
    <2>2. worker'[w].phase = "accepted" /\ worker'[w].mail = m /\ worker'[w].retries = r
      BY <1>2, <2>1 DEF Task
    <2>3. ~Retry(w)
      <3>1. Retry(w) => worker'[w].phase = "done"
        BY <1>1, PhaseStep DEF Retry
      <3> QED  BY <2>2, <3>1
    <2>4. CASE m = k
      <3>1. was /\ w \in Running(k, {"sending", "accepted"})' /\ f = r /\ FirstOf(worker'[w]) = r + 1
        BY <1>4, <2>2, <2>4 DEF Accepted, Running, FirstOf
      <3> DEFINE rest == Tasks(k) \ {<<r, w>>}
      <3>2. Tasks(k)' = rest \cup {<<r + 1, w>>}
        BY <2>1, <3>1, TasksAfter
      <3>3. <<r, w>> \in Tasks(k) /\ <<r + 1, w>> \notin rest
        BY <1>2, <3>1 DEF Tasks
      <3>4. IsFiniteSet(rest) /\ Weight(rest) = Weight(Tasks(k)) - (MaxRetries + 1 - r)
        BY <1>2, <3>3, WeightDropped, OutboxConstants
      <3>5. /\ IsFiniteSet(rest \cup {<<r + 1, w>>})
            /\ Weight(rest \cup {<<r + 1, w>>}) = Weight(rest) + (MaxRetries + 1 - (r + 1))
        <4> r + 1 \in 0..(MaxRetries + 1)
          BY <1>2, OutboxConstants
        <4> HIDE DEF rest
        <4> QED  BY <3>3, <3>4, WeightAdded
      <3>6. IsFiniteSet(Tasks(k)') /\ Weight(Tasks(k)') = Weight(Tasks(k)) - 1
        <4> HIDE DEF rest
        <4> QED  BY <1>2, <1>3, <3>2, <3>4, <3>5
      <3>7. Weight(Tasks(k)') \in Nat
        BY <3>6, WeightIsNat
      <3> QED  BY <1>3, <2>3, <2>4, <3>6, <3>7
    <2>5. CASE m # k
      <3>1. ~was /\ w \notin Running(k, {"sending", "accepted"})'
        BY <2>2, <2>5 DEF Running
      <3>2. IsFiniteSet(Tasks(k)') /\ Weight(Tasks(k)') = Weight(Tasks(k))
        BY <2>1, <3>1, TaskEnds
      <3> QED  BY <1>3, <2>5, <3>2
    <2> QED  BY <2>4, <2>5
  <1>5. CASE ~Accepted(w)
    <2>1. /\ \A v \in Workers \ {w} : worker'[v] = worker[v]
          /\ worker'[w].phase \in {"done", "idle"}
      <3>1. CASE Acknowledge(w) \/ LoseWorker(w)
        BY <3>1 DEF Acknowledge, LoseWorker, TypeOK, Idle
      <3>2. CASE ~(Acknowledge(w) \/ LoseWorker(w))
        <4>1. Phase(w, "done")
          BY <1>5, <3>2 DEF TaskStep, MarkSent, Retry, GiveUp, Crash
        <4> QED  BY <1>1, <4>1, PhaseStep
      <3> QED  BY <3>1, <3>2
    <2>2. w \notin Running(k, {"sending", "accepted"})'
      BY <2>1 DEF Running
    <2>3. /\ IsFiniteSet(Tasks(k)')
          /\ Weight(Tasks(k)') = IF was THEN Weight(Tasks(k)) - (MaxRetries + 1 - f) ELSE Weight(Tasks(k))
      BY <1>3, <2>1, <2>2, TaskEnds
    <2>4. Weight(Tasks(k)') \in Nat
      BY <2>3, WeightIsNat
    <2>5. Retry(w) /\ m = k => was
      BY DEF Retry, Running
    <2>6. Weight(Tasks(k)') <= Weight(Tasks(k))
      BY <1>3, <2>3, <2>4
    <2>7. Retry(w) /\ m = k =>
             Weight(Tasks(k)') + (MaxRetries + 1 - (r + 1)) <= Weight(Tasks(k))
      BY <1>2, <1>3, <2>3, <2>4, <2>5
    <2> QED  BY <1>5, <2>3, <2>4, <2>6, <2>7
  <1> QED  BY <1>4, <1>5

\* A step of a task, or its loss, moves what may still come of its mail to a
\* new message, or to the copies made.
LEMMA TaskKeepsLetters ==
    ASSUME TypeOK, LettersInv, NEW w \in Workers, TaskStep(w) \/ LoseWorker(w)
    PROVE  CopiesToCome'
  <1> DEFINE m == worker[w].mail
             r == worker[w].retries
  <1>1. m \in Mails /\ r \in 0..MaxRetries
    <2>1. worker[w] # Idle
      BY BusyIsNotIdle
         DEF TaskStep, Accepted, MarkSent, Retry, GiveUp, Crash, Acknowledge, LoseWorker
    <2> QED  BY <2>1, TaskOf
  <1> SUFFICES ASSUME NEW k \in Letters
               PROVE  /\ IsFiniteSet(Messages(k)') /\ IsFiniteSet(Tasks(k)')
                      /\ copies'[k] + Weight(Messages(k)') + Weight(Tasks(k)')
                            <= (1 + MaxRetries) * (1 + losses')
    BY DEF CopiesToCome, Weight, Attempts
  <1>2. /\ IsFiniteSet(Messages(k)) /\ IsFiniteSet(Tasks(k))
        /\ copies[k] + Weight(Messages(k)) + Weight(Tasks(k)) <= (1 + MaxRetries) * (1 + losses)
    BY DEF LettersInv, CopiesToCome
  <1>3. /\ k \in Mails /\ k \notin Notices /\ copies[k] \in Int /\ losses \in Nat
        /\ Weight(Messages(k)) \in Nat /\ Weight(Tasks(k)) \in Nat
        /\ MaxRetries \in Nat
    BY <1>2, OutboxConstants, WeightIsNat DEF TypeOK, Mails
  <1>4. /\ IsFiniteSet(Tasks(k)') /\ Weight(Tasks(k)') \in Nat
        /\ Weight(Tasks(k)') <= Weight(Tasks(k))
        /\ Accepted(w) /\ m = k => Weight(Tasks(k)') = Weight(Tasks(k)) - 1
        /\ Retry(w) /\ m = k => Weight(Tasks(k)') + (MaxRetries + 1 - (r + 1)) <= Weight(Tasks(k))
    BY <1>2, OwnTask
  <1>5. (1 + MaxRetries) * (1 + losses) \in Nat
    BY <1>3, Allowed
  <1>6. copies'[k] = IF Accepted(w) /\ m = k THEN copies[k] + 1 ELSE copies[k]
    <2>1. CASE Accepted(w)
      BY <1>3, <2>1 DEF Accepted, TypeOK
    <2>2. CASE ~Accepted(w)
      <3>1. copies' = copies \/ copies' = Unrecorded(w)
        BY <2>2 DEF TaskStep, MarkSent, Retry, GiveUp, Crash, Acknowledge, LoseWorker
      <3> QED  BY <1>3, <2>2, <3>1 DEF Unrecorded, TypeOK
    <2> QED  BY <2>1, <2>2
  <1>7. CASE Retry(w)
    <2>1. r + 1 \in 0..MaxRetries /\ queue' = Sent(m, r + 1) /\ losses' = losses
      BY <1>1, <1>7, OutboxConstants DEF Retry
    <2>2. copies'[k] = copies[k]
      <3>1. ~Accepted(w)
        BY <1>1, <1>7, <2>1, SentTyped DEF Accepted, Sent, TypeOK
      <3> QED  BY <1>6, <3>1
    <2>3. CASE k = m
      <3>1. IsFiniteSet(Messages(k)')
            /\ Weight(Messages(k)') = Weight(Messages(k)) + (MaxRetries + 1 - (r + 1))
        BY <1>1, <1>2, <2>1, <2>3, MessageSent
      <3> QED  BY <1>1, <1>2, <1>3, <1>4, <1>5, <1>7, <2>1, <2>2, <2>3, <3>1
    <2>4. CASE k # m
      <3>1. Messages(k)' = Messages(k)
        BY <1>1, <1>3, <2>1, <2>4, MessageSent
      <3> QED  BY <1>2, <1>3, <1>4, <1>5, <2>1, <2>2, <3>1
    <2> QED  BY <2>3, <2>4
  <1>8. CASE LoseWorker(w)
    <2>1. queue' = Sent(m, r) /\ losses' = losses + 1
      BY <1>8 DEF LoseWorker
    <2>2. copies'[k] = copies[k]
      <3>1. ~Accepted(w)
        BY <1>3, <2>1 DEF Accepted
      <3> QED  BY <1>6, <3>1
    <2>3. /\ (1 + MaxRetries) * (1 + losses') = (1 + MaxRetries) * (1 + losses) + (1 + MaxRetries)
          /\ (1 + MaxRetries) * (1 + losses') \in Nat
      BY <1>3, <1>5, <2>1, Allowed
    <2>4. CASE k = m
      <3>1. IsFiniteSet(Messages(k)')
            /\ Weight(Messages(k)') = Weight(Messages(k)) + (MaxRetries + 1 - r)
        BY <1>1, <1>2, <2>1, <2>4, MessageSent
      <3>2. MaxRetries + 1 - r <= 1 + MaxRetries
        BY <1>1, <1>3
      <3> QED  BY <1>1, <1>2, <1>3, <1>4, <1>5, <2>2, <2>3, <3>1, <3>2
    <2>5. CASE k # m
      <3>1. Messages(k)' = Messages(k)
        BY <1>1, <1>3, <2>1, <2>5, MessageSent
      <3> QED  BY <1>2, <1>3, <1>4, <1>5, <2>2, <2>3, <3>1
    <2> QED  BY <2>4, <2>5
  <1>9. CASE ~Retry(w) /\ ~LoseWorker(w)
    <2>1. Messages(k)' = Messages(k) /\ losses' = losses
      BY <1>9 DEF TaskStep, Accepted, MarkSent, GiveUp, Crash, Acknowledge, Messages
    <2> QED  BY <1>2, <1>3, <1>4, <1>5, <1>6, <2>1
  <1> QED  BY <1>7, <1>8, <1>9

LEMMA StepLetters ==
    ASSUME OutboxInv, LettersInv, [Next]_vars
    PROVE  LettersInv'
  <1>0. TypeOK
    BY DEF OutboxInv
  <1>1. CASE /\ UNCHANGED <<queue, worker, copies, losses>>
             /\ \A l \in Letters : ended[l] \subseteq ended'[l]
    <2>1. \A l \in Letters : Tasks(l)' = Tasks(l) /\ (Held(l) => Held(l)')
      BY <1>1 DEF Tasks, FirstOf, Running, Held, Waiting, Locked
    <2> QED  BY <1>1, <2>1, LettersLeftAlone
  <1>2. CASE \/ \E n \in Notices : Enqueue(n)
             \/ \E l \in Letters : PostLetter(l)
             \/ \E w \in Workers : Receive(w) \/ TaskStep(w) \/ LoseWorker(w)
    <2>1. CopiesToCome'
      <3>1. ASSUME NEW n \in Notices, Enqueue(n) PROVE CopiesToCome'
        <4>1. n \in Mails /\ 0 \in 0..MaxRetries /\ queue' = Sent(n, 0)
          BY <3>1, OutboxConstants DEF Mails, Enqueue
        <4>2. \A l \in Letters : Messages(l)' = Messages(l)
          BY <1>0, <4>1, MessageSent, OutboxConstants DEF Mails
        <4>3. \A l \in Letters : Tasks(l)' = Tasks(l)
          BY <3>1 DEF Enqueue, Tasks, FirstOf, Running
        <4> QED  BY <3>1, <4>2, <4>3 DEF Enqueue, LettersInv, CopiesToCome, Weight, Attempts
      <3>2. ASSUME NEW l \in Letters, PostLetter(l) PROVE CopiesToCome'
        BY <1>0, <3>2, PostKeepsLetters DEF LettersInv
      <3> QED  BY <1>0, <1>2, <3>1, <3>2, TakeKeepsLetters, TaskKeepsLetters DEF Receive
    <2>2. SentIsHeld'
      <3> SUFFICES ASSUME NEW k \in Letters, copies'[k] # 0, ended'[k] = {} PROVE Held(k)'
        BY DEF SentIsHeld
      <3>1. k \in Mails /\ k \notin Notices /\ ended[k] = {}
        <4>1. k \in Mails /\ ended[k] \subseteq ended'[k]
          BY <1>0, <1>2, EndedStays DEF Mails
        <4> QED  BY <4>1, OutboxConstants
      <3>2. CASE copies[k] # 0
        <4>1. Held(k)
          BY <3>1, <3>2 DEF LettersInv, SentIsHeld
        <4> QED  BY <1>0, <1>2, <3>1, <4>1, HeldOnward
      <3>3. CASE copies[k] = 0
        <4>1. PICK w \in Workers : Accepted(w) /\ worker[w].mail = k
          <5>1. ASSUME NEW w \in Workers, TaskStep(w) \/ LoseWorker(w)
                PROVE  Accepted(w) /\ worker[w].mail = k
            <6>1. CASE ~Accepted(w)
              <7>1. copies' = copies \/ copies' = Unrecorded(w)
                BY <5>1, <6>1 DEF TaskStep, MarkSent, Retry, GiveUp, Crash, Acknowledge, LoseWorker
              <7> QED  BY <1>0, <3>1, <3>3, <7>1 DEF Unrecorded, TypeOK
            <6>2. CASE Accepted(w)
              BY <1>0, <3>1, <3>3, <6>2 DEF Accepted, TypeOK
            <6> QED  BY <6>1, <6>2
          <5> QED  BY <1>2, <3>3, <5>1 DEF Enqueue, PostLetter, Receive, Take
        <4>2. worker'[w].phase = "accepted" /\ worker'[w].mail = k
          BY <1>0, <4>1, BusyIsNotIdle, PhaseStep DEF Accepted
        <4> QED  BY <4>2 DEF Held, Locked, Running
      <3> QED  BY <3>2, <3>3
    <2> QED  BY <2>1, <2>2 DEF LettersInv
  <1>3. CASE \/ \E e \in Events : Abandon(e) \/ CommitAndQueue(e)
             \/ \E e \in Events : (Emit(e) \/ Abort(e)) /\ UNCHANGED mailVars
             \/ \E u \in Users : Panel(u) /\ UNCHANGED mailVars
             \/ UNCHANGED vars
    <2>1. UNCHANGED <<queue, worker, copies, losses>>
      BY <1>3 DEF Abandon, CommitAndQueue, mailVars, vars
    <2>2. \A l \in Letters : ended[l] \subseteq ended'[l]
      BY <1>3 DEF Abandon, CommitAndQueue, mailVars, vars, Mails
    <2> QED  BY <1>1, <2>1, <2>2
  <1> QED  BY <1>2, <1>3 DEF Next

(* A letter has one copy at most for each attempt the policy allows, and   *)
(* as many again for each worker lost, timeouts after the provider took it *)
(* included: a retry is a new message for the one it comes from, at the    *)
(* next count, and send_transactional_email is called once for each.       *)
THEOREM LettersRarelyRepeatHolds == Spec => []LettersRarelyRepeat
  <1>1. Init => OutboxInv /\ LettersInv
    <2>1. ASSUME Init PROVE LettersInv
      <3>1. \A l \in Letters : Messages(l) = {}
        <4>1. \A l \in Letters, r \in 0..MaxRetries : 1..queue[<<l, r>>] = {}
          BY <2>1 DEF Init, Mails
        <4> QED  BY <4>1 DEF Messages, Waitings
      <3>2. \A l \in Letters : Tasks(l) = {} /\ copies[l] = 0 /\ losses = 0
        BY <2>1 DEF Init, Mails, Tasks, Running, Idle
      <3>3. (1 + MaxRetries) * (1 + 0) \in Nat
        BY Allowed
      <3>4. CopiesToCome
        <4> SUFFICES ASSUME NEW l \in Letters
                     PROVE  /\ IsFiniteSet(Messages(l)) /\ IsFiniteSet(Tasks(l))
                            /\ copies[l] + Weight(Messages(l)) + Weight(Tasks(l))
                                  <= (1 + MaxRetries) * (1 + losses)
          BY DEF CopiesToCome
        <4>1. /\ Messages(l) = {} /\ Tasks(l) = {} /\ copies[l] = 0 /\ losses = 0
              /\ Weight({}) = 0 /\ IsFiniteSet({})
          BY <3>1, <3>2, FS_EmptySet, NothingWeighsNothing
        <4> QED  BY <3>3, <4>1
      <3> QED  BY <3>2, <3>4 DEF LettersInv, SentIsHeld
    <2> QED  BY <2>1, InitOutboxInv
  <1>2. OutboxInv /\ LettersInv /\ [Next]_vars => (OutboxInv /\ LettersInv)'
    BY StepOutboxInv, StepLetters
  <1>3. OutboxInv /\ LettersInv => LettersRarelyRepeat
    <2> SUFFICES ASSUME OutboxInv, LettersInv, NEW l \in Letters
                 PROVE  copies[l] <= (1 + MaxRetries) * (1 + losses)
      BY DEF LettersRarelyRepeat
    <2>1. /\ copies[l] + Weight(Messages(l)) + Weight(Tasks(l)) <= (1 + MaxRetries) * (1 + losses)
          /\ Weight(Messages(l)) \in Nat /\ Weight(Tasks(l)) \in Nat
      BY WeightIsNat DEF LettersInv, CopiesToCome
    <2>2. copies[l] \in Int /\ (1 + MaxRetries) * (1 + losses) \in Nat
      <3>1. copies[l] \in Int /\ losses \in Nat
        BY DEF OutboxInv, TypeOK, Mails
      <3> QED  BY <3>1, Allowed
    <2> QED  BY <2>1, <2>2
  <1> QED  BY <1>1, <1>2, <1>3, PTL DEF Spec
============================================================================
