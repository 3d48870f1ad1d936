----------------------------- MODULE Notifications -----------------------------
(***************************************************************************)
(* In-app notifications and the unread badge.  A business operation emits  *)
(* an event inside its own transaction (shared/notifications/service.py);  *)
(* the panel reads and marks rows (modules/notifications/service.py); the  *)
(* unread count of each user is kept in Redis (unread_cache.py), which     *)
(* takes no part in any transaction.  EmailOutbox adds the emails.         *)
(***************************************************************************)
EXTENDS Integers, FiniteSets

CONSTANTS Events,     \* business operations that emit, each once
          Users,      \* the members of the organization
          MaxDeaths,  \* bound on the requests that die after their commit
          NoCount     \* no value: key absent from Redis, no count in hand

ASSUME NotificationConstants == IsFiniteSet(Events) /\ MaxDeaths \in Nat /\ NoCount \notin Nat

VARIABLES tx,          \* the transaction of each event's operation
          recipients,  \* the users whose row the operation has inserted
          readAt,      \* rows with read_at set
          cache,       \* notifications_unread_count:<org>:<user>
          counted,     \* what a GET counted on a miss and has yet to SET
          marking,     \* users whose marking is committed, DEL to come
          deaths

badgeVars == <<readAt, cache, counted, marking>>
noticeVars == <<tx, recipients, badgeVars, deaths>>

Notices == Events \X Users   \* RN-02: one row per event and recipient

Rows(e) == {e} \X recipients[e]

Visible == UNION {Rows(e) : e \in {f \in Events : tx[f] = "committed"}}

UnreadRows(u) == {n \in Visible \ readAt : n[2] = u}

count_unread(u) == Cardinality(UnreadRows(u))

NoticesTypeOK ==
    /\ tx \in [Events -> {"none", "open", "committed", "aborted"}]
    /\ recipients \in [Events -> SUBSET Users]
    /\ readAt \subseteq Visible
    /\ cache \in [Users -> Nat \cup {NoCount}]
    /\ counted \in [Users -> Nat \cup {NoCount}]
    /\ marking \subseteq Users
    /\ deaths \in 0..MaxDeaths

InitNotices ==
    /\ tx = [e \in Events |-> "none"]
    /\ recipients = [e \in Events |-> {}]
    /\ readAt = {}
    /\ cache = [u \in Users |-> NoCount]
    /\ counted = [u \in Users |-> NoCount]
    /\ marking = {}
    /\ deaths = 0

Dropped(us) == [u \in Users |-> IF u \in us THEN NoCount ELSE cache[u]]

-----------------------------------------------------------------------------
(* The business operation.                                                 *)

\* emit: a row for each active member of the event's roles, whose key is
\* deleted from Redis here, before the rows can be seen by anyone.
Emit(e) ==
    /\ tx[e] = "none"
    /\ \E us \in SUBSET Users :
         /\ recipients' = [recipients EXCEPT ![e] = us]
         /\ cache' = Dropped(us)
    /\ tx' = [tx EXCEPT ![e] = "open"]
    /\ UNCHANGED <<readAt, counted, marking, deaths>>

Commit(e) ==
    /\ tx[e] = "open"
    /\ tx' = [tx EXCEPT ![e] = "committed"]
    /\ UNCHANGED <<recipients, badgeVars, deaths>>

\* A later statement fails, Redis refuses the DEL, or the process is lost.
Abort(e) ==
    /\ tx[e] = "open"
    /\ tx' = [tx EXCEPT ![e] = "aborted"]
    /\ UNCHANGED <<recipients, badgeVars, deaths>>

-----------------------------------------------------------------------------
(* The panel of one user.                                                  *)

\* unread_count on a miss: count now, set later.  A hit changes nothing.
CountUnread(u) ==
    /\ cache[u] = NoCount
    /\ counted[u] = NoCount
    /\ counted' = [counted EXCEPT ![u] = count_unread(u)]
    /\ UNCHANGED <<tx, recipients, readAt, cache, marking, deaths>>

SetCount(u) ==
    /\ counted[u] # NoCount
    /\ cache' = [cache EXCEPT ![u] = counted[u]]
    /\ counted' = [counted EXCEPT ![u] = NoCount]
    /\ UNCHANGED <<tx, recipients, readAt, marking, deaths>>

\* The row is marked, unless it already was, and the update committed.
MarkRead(u) ==
    /\ u \notin marking
    /\ \E n \in Visible : n[2] = u /\ readAt' = readAt \cup {n}
    /\ marking' = marking \cup {u}
    /\ UNCHANGED <<tx, recipients, cache, counted, deaths>>

MarkAllRead(u) ==
    /\ u \notin marking
    /\ readAt' = readAt \cup UnreadRows(u)
    /\ marking' = marking \cup {u}
    /\ UNCHANGED <<tx, recipients, cache, counted, deaths>>

Invalidate(u) ==
    /\ u \in marking
    /\ cache' = Dropped({u})
    /\ marking' = marking \ {u}
    /\ UNCHANGED <<tx, recipients, readAt, counted, deaths>>

\* The request dies before its SET or its DEL.
PanelDies(u) ==
    /\ deaths < MaxDeaths
    /\ \/ counted[u] # NoCount /\ counted' = [counted EXCEPT ![u] = NoCount] /\ UNCHANGED marking
       \/ u \in marking /\ marking' = marking \ {u} /\ UNCHANGED counted
    /\ deaths' = deaths + 1
    /\ UNCHANGED <<tx, recipients, readAt, cache>>

\* MUTANT: the key is set without a time to live.
NeverExpires(u) == FALSE /\ UNCHANGED noticeVars

\* Five minutes after the SET.
Expire(u) ==
    /\ cache[u] # NoCount
    /\ cache' = Dropped({u})
    /\ UNCHANGED <<tx, recipients, readAt, counted, marking, deaths>>

Panel(u) == CountUnread(u) \/ SetCount(u) \/ MarkRead(u) \/ MarkAllRead(u) \/ Invalidate(u)
              \/ PanelDies(u) \/ Expire(u)

BadgeFairness == \A u \in Users :
    /\ WF_noticeVars(SetCount(u))
    /\ WF_noticeVars(Invalidate(u))
    /\ WF_noticeVars(Expire(u))

-----------------------------------------------------------------------------
(* The badge always comes back to the rows: from some time on the cached   *)
(* count, if there is one, is the number of unread rows, whatever counts   *)
(* were set late and whichever deletions never happened.  The time to live *)
(* is what repairs them (unread_cache.py, _TTL_SECONDS).                   *)
BadgeSettles == <>[](\A u \in Users : cache[u] # NoCount => cache[u] = count_unread(u))

(* Reading everything leaves the badge at zero (CA-NT-04), and a committed *)
(* notification is counted, for requests that do not die.  Neither holds:  *)
(* a count taken before the change can be set after its deletion, and emit *)
(* deletes the key before the rows it inserted can be counted.             *)
ReadAllEmptiesBadge ==
    deaths = 0 => \A u \in Users \ marking : UnreadRows(u) = {} => cache[u] \in {NoCount, 0}

NewNoticesCounted ==
    deaths = 0 /\ readAt = {} => \A u \in Users \ marking : cache[u] \in {NoCount, count_unread(u)}
=============================================================================
