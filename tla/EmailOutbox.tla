------------------------------ MODULE EmailOutbox ------------------------------
(***************************************************************************)
(* The emails of the notification worker (workers/notification_worker.py): *)
(* of notifications, enqueued after the commit that made them, and the     *)
(* transactional ones (invitations, password resets), which have no row.   *)
(* Celery keeps a message until its task ends and sends it to another      *)
(* worker when the first is lost; a retry is a new message.  The email     *)
(* leaves before email_sent_at is committed.                               *)
(***************************************************************************)
EXTENDS Notifications

CONSTANTS Letters,     \* transactional emails
          Workers,     \* worker processes
          MaxRetries,  \* MAX_RETRIES
          MaxLosses    \* bound on the workers lost

ASSUME OutboxConstants ==
    /\ MaxRetries \in Nat
    /\ MaxLosses \in Nat
    /\ Letters \cap Notices = {}

VARIABLES toEnqueue,  \* notices a live process has yet to enqueue
          queue,      \* messages waiting: how many of each mail and retry count
          worker,     \* the task each worker runs
          sentAt,     \* rows with email_sent_at set
          ended,      \* mails some task has finished with, and how
          copies,     \* emails accepted, but for those of notices no task records
          losses

mailVars == <<toEnqueue, queue, worker, sentAt, ended, copies, losses>>
vars == <<noticeVars, mailVars>>

Mails == Notices \cup Letters

Idle == [phase |-> "idle"]
Task == [phase: {"sending", "accepted", "done"}, mail: Mails, retries: 0..MaxRetries]

Running(m, phases) == {w \in Workers : worker[w].phase \in phases /\ worker[w].mail = m}

\* lock_pending_email's row lock is held until the transaction ends.
Locked(m) == Running(m, {"sending", "accepted"}) # {}

Waiting(m) == \E r \in 0..MaxRetries : queue[<<m, r>>] > 0

Held(m) == Waiting(m) \/ Locked(m)

InFlight(m) == Held(m) \/ Running(m, {"done"}) # {}

\* apply_async, or the message put back.
Sent(m, r) == [queue EXCEPT ![<<m, r>>] = @ + 1]

Ended(m, how) == ended' = [ended EXCEPT ![m] = @ \cup {how}]

\* The task of w will not record the email it has sent.
Unrecorded(w) ==
    IF worker[w].phase = "accepted" /\ worker[w].mail \in Notices
    THEN [copies EXCEPT ![worker[w].mail] = @ - 1] ELSE copies

Phase(w, phase) == worker' = [worker EXCEPT ![w].phase = phase]

TypeOK ==
    /\ NoticesTypeOK
    /\ toEnqueue \subseteq Visible
    /\ queue \in [Mails \X (0..MaxRetries) -> Nat]
    /\ worker \in [Workers -> Task \cup {Idle}]
    /\ sentAt \subseteq Visible
    /\ ended \in [Mails -> SUBSET {"sent", "dead-letter", "rejected", "crashed", "abandoned"}]
    /\ copies \in [Mails -> Int]
    /\ losses \in 0..MaxLosses

Init ==
    /\ InitNotices
    /\ toEnqueue = {}
    /\ queue = [x \in Mails \X (0..MaxRetries) |-> 0]
    /\ worker = [w \in Workers |-> Idle]
    /\ sentAt = {}
    /\ ended = [m \in Mails |-> {}]
    /\ copies = [m \in Mails |-> 0]
    /\ losses = 0

-----------------------------------------------------------------------------
(* The process that ran the business operation.                            *)

CommitAndQueue(e) ==
    /\ Commit(e)
    /\ toEnqueue' = toEnqueue \cup Rows(e)
    /\ UNCHANGED <<queue, worker, sentAt, ended, copies, losses>>

\* enqueue_pending_emails: one message after the other.
Enqueue(n) ==
    /\ n \in toEnqueue
    /\ queue' = Sent(n, 0)
    /\ toEnqueue' = toEnqueue \ {n}
    /\ UNCHANGED <<noticeVars, worker, sentAt, ended, copies, losses>>

\* The process dies, or the broker refuses a message: no one looks for the
\* rows whose message was not sent.
Abandon(e) ==
    /\ toEnqueue \cap Rows(e) # {}
    /\ deaths < MaxDeaths
    /\ deaths' = deaths + 1
    /\ toEnqueue' = toEnqueue \ Rows(e)
    /\ ended' = [m \in Mails |-> ended[m] \cup (IF m \in toEnqueue \cap Rows(e) THEN {"abandoned"} ELSE {})]
    /\ UNCHANGED <<tx, recipients, badgeVars, queue, worker, sentAt, copies, losses>>

\* send_transactional_email.delay, each letter once.
PostLetter(l) ==
    /\ ~InFlight(l)
    /\ ended[l] = {}
    /\ queue' = Sent(l, 0)
    /\ UNCHANGED <<noticeVars, toEnqueue, worker, sentAt, ended, copies, losses>>

-----------------------------------------------------------------------------
(* The worker.                                                             *)

\* MUTANT: the row is read without its lock.
Unsent(m) == m \in Visible \ sentAt

\* lock_pending_email: committed, email_sent_at IS NULL, and not locked by
\* another transaction (SKIP LOCKED).
Pending(m) ==
    /\ m \in Visible \ sentAt
    /\ ~Locked(m)

\* A task takes a message; with no row to send it returns at once.
Take(w, m, r) ==
    /\ worker[w] = Idle
    /\ queue[<<m, r>>] > 0
    /\ queue' = [queue EXCEPT ![<<m, r>>] = @ - 1]
    /\ worker' = [worker EXCEPT ![w] =
                    [phase |-> IF m \in Letters \/ Pending(m) THEN "sending" ELSE "done",
                     mail |-> m, retries |-> r]]
    /\ UNCHANGED <<noticeVars, toEnqueue, sentAt, ended, copies, losses>>

\* The provider has the email; its answer may still not come in time.
Accepted(w) ==
    /\ worker[w].phase = "sending"
    /\ copies' = [copies EXCEPT ![worker[w].mail] = @ + 1]
    /\ Phase(w, "accepted")
    /\ UNCHANGED <<noticeVars, toEnqueue, queue, sentAt, ended, losses>>

\* mark_email_sent and the commit; a letter has nothing to mark.
MarkSent(w) ==
    /\ worker[w].phase = "accepted"
    /\ sentAt' = sentAt \cup ({worker[w].mail} \cap Notices)
    /\ Ended(worker[w].mail, "sent")
    /\ Phase(w, "done")
    /\ UNCHANGED <<noticeVars, toEnqueue, queue, copies, losses>>

\* MUTANT: the retry repeats the count it was given.
RetryUncounted(w) ==
    /\ worker[w].phase \in {"sending", "accepted"}
    /\ worker[w].retries < MaxRetries
    /\ queue' = Sent(worker[w].mail, worker[w].retries)
    /\ copies' = Unrecorded(w)
    /\ Phase(w, "done")
    /\ UNCHANGED <<noticeVars, toEnqueue, sentAt, ended, losses>>

\* MUTANT: the message of a task to be retried is put back as well.
RetryAndRequeue(w) ==
    /\ worker[w].phase \in {"sending", "accepted"}
    /\ worker[w].retries < MaxRetries
    /\ queue' = [Sent(worker[w].mail, worker[w].retries + 1)
                    EXCEPT ![<<worker[w].mail, worker[w].retries>>] = @ + 1]
    /\ copies' = Unrecorded(w)
    /\ Phase(w, "done")
    /\ UNCHANGED <<noticeVars, toEnqueue, sentAt, ended, losses>>

\* 429, 5xx or a timeout, which the provider's acceptance does not exclude:
\* the transaction is rolled back and a new message sent.
Retry(w) ==
    /\ worker[w].phase \in {"sending", "accepted"}
    /\ worker[w].retries < MaxRetries
    /\ queue' = Sent(worker[w].mail, worker[w].retries + 1)
    /\ copies' = Unrecorded(w)
    /\ Phase(w, "done")
    /\ UNCHANGED <<noticeVars, toEnqueue, sentAt, ended, losses>>

\* The same answers to the last retry, or a 4xx: logged, and that is all.
GiveUp(w) ==
    /\ \/ /\ worker[w].phase \in {"sending", "accepted"} /\ worker[w].retries >= MaxRetries
          /\ Ended(worker[w].mail, "dead-letter")
       \/ worker[w].phase = "sending" /\ Ended(worker[w].mail, "rejected")
    /\ copies' = Unrecorded(w)
    /\ Phase(w, "done")
    /\ UNCHANGED <<noticeVars, toEnqueue, queue, sentAt, losses>>

(* Any other exception ends the task without a retry: a connection refused *)
(* (httpx.ConnectError is no TimeoutException), or, once the email is      *)
(* accepted, an answer that is not JSON or a commit that fails.            *)
Crash(w) ==
    /\ worker[w].phase \in {"sending", "accepted"}
    /\ Ended(worker[w].mail, "crashed")
    /\ copies' = Unrecorded(w)
    /\ Phase(w, "done")
    /\ UNCHANGED <<noticeVars, toEnqueue, queue, sentAt, losses>>

Acknowledge(w) ==
    /\ worker[w].phase = "done"
    /\ worker' = [worker EXCEPT ![w] = Idle]
    /\ UNCHANGED <<noticeVars, toEnqueue, queue, sentAt, ended, copies, losses>>

\* MUTANT: messages are acknowledged when they are received.
LoseMessage(w) ==
    /\ worker[w] # Idle
    /\ losses < MaxLosses
    /\ losses' = losses + 1
    /\ worker' = [worker EXCEPT ![w] = Idle]
    /\ UNCHANGED <<noticeVars, toEnqueue, queue, sentAt, ended, copies>>

\* task_reject_on_worker_lost: the transaction is rolled back and the
\* message delivered again, with the retry count it had.
LoseWorker(w) ==
    /\ worker[w] # Idle
    /\ losses < MaxLosses
    /\ losses' = losses + 1
    /\ queue' = Sent(worker[w].mail, worker[w].retries)
    /\ copies' = Unrecorded(w)
    /\ worker' = [worker EXCEPT ![w] = Idle]
    /\ UNCHANGED <<noticeVars, toEnqueue, sentAt, ended>>

TaskStep(w) == Accepted(w) \/ MarkSent(w) \/ Retry(w) \/ GiveUp(w) \/ Crash(w) \/ Acknowledge(w)

Receive(w) == \E m \in Mails, r \in 0..MaxRetries : Take(w, m, r)

Next ==
    \/ \E e \in Events : Abandon(e) \/ CommitAndQueue(e)
    \/ \E e \in Events : (Emit(e) \/ Abort(e)) /\ UNCHANGED mailVars
    \/ \E u \in Users : Panel(u) /\ UNCHANGED mailVars
    \/ \E n \in Notices : Enqueue(n)
    \/ \E l \in Letters : PostLetter(l)
    \/ \E w \in Workers : Receive(w) \/ TaskStep(w) \/ LoseWorker(w)

Fairness ==
    /\ BadgeFairness
    /\ \A w \in Workers : WF_vars(Receive(w)) /\ WF_vars(TaskStep(w))

Spec == Init /\ [][Next]_vars /\ Fairness

-----------------------------------------------------------------------------
(* However messages are delivered again or retried, and whichever workers  *)
(* overlap, the recorded email of a notification went out once: of one not *)
(* yet recorded there is at most the copy a live task is about to record.  *)
(* A second copy takes a worker lost, a crash or a timeout between the     *)
(* provider's acceptance and the commit of email_sent_at.  It is the row   *)
(* lock, and the test of email_sent_at under it, that see to this.         *)
NoticeSentOnce ==
    \A n \in Notices :
        copies[n] = IF n \in sentAt \/ Running(n, {"accepted"}) # {} THEN 1 ELSE 0

(* Letters have no row to lock, and a timeout may hide that the provider   *)
(* took one, so each attempt may deliver it: still, a letter arrives at    *)
(* most once for each attempt of the policy, and for each of those a lost  *)
(* worker's message may repeat.  A retry replaces the message it comes     *)
(* from, at the next count, and MAX_RETRIES bounds that count.             *)
LettersRarelyRepeat == \A l \in Letters : copies[l] <= (1 + MaxRetries) * (1 + losses)

(* A committed notification whose email was neither sent nor given up is   *)
(* still in somebody's hands: the process that made it, a message waiting, *)
(* or a task that is sending it.  A task that finds the row locked returns *)
(* for good, because the task that holds the lock has its own message.     *)
NothingForgotten ==
    \A n \in Visible : ended[n] = {} => n \in toEnqueue \/ Held(n)

(* The queue empties: no mail is retried for ever, whatever the provider   *)
(* answers, and the workers come to rest.                                  *)
MailDrains ==
    <>[](\A m \in Mails : ~InFlight(m))
=============================================================================
