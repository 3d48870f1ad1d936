------------------------- MODULE ContractLifecycle -------------------------
(***************************************************************************)
(* Contracts, their index adjustments, the properties they occupy and the  *)
(* rent periods that come out of them: modules/contracts/service.py,       *)
(* adjustment_service.py, rent_period_hook.py and the Beat jobs of         *)
(* workers/notification_worker.py that move them as time passes.           *)
(*                                                                         *)
(* Days are numbered from 0 and months have DaysPerMonth days.  Each       *)
(* service call is one transaction and one step, except the application of *)
(* an adjustment and the jobs, which decide on what they read before       *)
(* another transaction may have committed: a job lists its contracts in    *)
(* one step and writes in another, an application reads the adjustment,    *)
(* then the contract, then writes both.                                    *)
(*                                                                         *)
(* A rent period is the amount_due it was given (0: no such period); what  *)
(* is paid of it is RentLedger's business.                                 *)
(***************************************************************************)
EXTENDS Integers, Sequences, FiniteSets, FiniteSetsExt

CONSTANTS
    Contracts, Properties,
    PropertyOf,        \* the property each contract is for
    Terms,             \* conditions a contract can be created with
    MaxAmount,         \* bound on amounts
    DaysPerMonth,
    FirstDay, MaxDay,  \* the days of the run
    NoticeDays,        \* organizations.settings.contract_expiry_notice_days
    MaxApplying        \* bound on the applications under way at once

Days == 0..MaxDay
MonthOf(day) == day \div DaysPerMonth
FirstDayOf(month) == month * DaysPerMonth
Months == 0..MonthOf(MaxDay)
Amounts == 1..MaxAmount

TermsRow == [start_date : Days, end_date : Days, initial_amount : Amounts,
             frequency : Nat]

ASSUME LifecycleAssumption ==
    /\ DaysPerMonth \in Nat \ {0} /\ MaxDay \in Nat /\ FirstDay \in Days
    /\ MaxAmount \in Nat \ {0} /\ NoticeDays \in Nat /\ MaxApplying \in Nat
    /\ PropertyOf \in [Contracts -> Properties]
    /\ Terms \subseteq TermsRow
    /\ \A t \in Terms : t.start_date < t.end_date  \* ContractCreate validator

VARIABLES
    today,             \* datetime.now(UTC).date()
    jobs,              \* Beat's jobs of the day that have not run, in order
    running,           \* whether the first of them has listed its contracts
    listed,            \* their current_amount as it listed them; 0: not listed
    contracts,         \* contracts
    properties,        \* properties.status, "deleted" if deleted_at is set
    adjustments,       \* contract_adjustments, by contract and due_period
    rent_periods,      \* rent_periods.amount_due, by contract and period
    applying,          \* POST /adjustments/:id/apply past their checks
    overlapped         \* history: contracts an application of which met another
                       \* one, or the detection job that had listed them

vars == <<today, jobs, running, listed, contracts, properties, adjustments,
          rent_periods, applying, overlapped>>
calendar == <<today, jobs, running, listed>>
requests == <<applying, overlapped>>

ContractStatus == {"draft", "active", "expired", "terminated"}
PropertyStatus == {"available", "rented", "unavailable"}
JobNames == {"generate_rent_periods", "detect_due_adjustments",
             "detect_expiring_contracts"}

ContractRow == [status : ContractStatus \cup {"absent"}, deleted : BOOLEAN,
                start_date : Days, end_date : Days, initial_amount : 0..MaxAmount,
                current_amount : 0..MaxAmount, frequency : Nat, notified : BOOLEAN]
AdjustmentRow == [status : {"none", "pending", "applied"},
                  previous : 0..MaxAmount, new : 0..MaxAmount]
ApplyRequest == [contract : Contracts, period : Months, new : Amounts,
                 selected : BOOLEAN]

NoContract == [status |-> "absent", deleted |-> FALSE, start_date |-> 0,
               end_date |-> 0, initial_amount |-> 0, current_amount |-> 0,
               frequency |-> 0, notified |-> FALSE]
NoAdjustment == [status |-> "none", previous |-> 0, new |-> 0]
NothingListed == [c \in Contracts |-> 0]

TypeOK ==
    /\ today \in Days
    /\ jobs \in Seq(JobNames)
    /\ running \in BOOLEAN
    /\ listed \in [Contracts -> 0..MaxAmount]
    /\ contracts \in [Contracts -> ContractRow]
    /\ properties \in [Properties -> PropertyStatus \cup {"deleted"}]
    /\ adjustments \in [Contracts -> [Months -> AdjustmentRow]]
    /\ rent_periods \in [Contracts -> [Months -> 0..MaxAmount]]
    /\ applying \subseteq ApplyRequest
    /\ overlapped \subseteq Contracts

Init ==
    /\ today = FirstDay
    /\ jobs = <<>>
    /\ running = FALSE
    /\ listed = NothingListed
    /\ contracts = [c \in Contracts |-> NoContract]
    /\ properties = [p \in Properties |-> "available"]
    /\ adjustments = [c \in Contracts |-> [m \in Months |-> NoAdjustment]]
    /\ rent_periods = [c \in Contracts |-> [m \in Months |-> 0]]
    /\ applying = {}
    /\ overlapped = {}
----------------------------------------------------------------------------
(* Queries the operations share.                                           *)

Visible(c) == contracts[c].status # "absent" /\ ~ contracts[c].deleted
Active(c) == contracts[c].status = "active" /\ ~ contracts[c].deleted
ActiveOn(p) == {c \in Contracts : PropertyOf[c] = p /\ Active(c)}

\* Both days of both ranges included, as daterange(.., '[]') has them.
Overlaps(a, b) == a.start_date <= b.end_date /\ b.start_date <= a.end_date

\* find_overlapping_active_contract, and the EXCLUDE constraint behind it.
Conflicts(c, row) ==
    {d \in ActiveOn(PropertyOf[c]) \ {c} : Overlaps(contracts[d], row)}


Pending(c) == {m \in Months : adjustments[c][m].status = "pending"}
AppliedMonths(c) == {m \in Months : adjustments[c][m].status = "applied"}
Applied(c) == [m \in AppliedMonths(c) |-> adjustments[c][m].new]

\* compute_monthly_amounts for one month: the last raise due by then.
AmountInMonth(initial, raises, month) ==
    LET due == {m \in DOMAIN raises : m <= month}
    IN  IF due = {} THEN initial ELSE raises[Max(due)]

\* MUTANT: the period is written over.
WithPeriodUpsert(periods, month, amount) == [periods EXCEPT ![month] = amount]

\* insert_pending / insert_paid: ON CONFLICT (contract_id, period) DO NOTHING.
WithPeriod(periods, month, amount) ==
    IF periods[month] = 0 THEN [periods EXCEPT ![month] = amount] ELSE periods

\* PropertyRepository.update does nothing for a deleted property.
Occupancy(ps, p, status) ==
    IF ps[p] = "deleted" THEN ps ELSE [ps EXCEPT ![p] = status]
----------------------------------------------------------------------------
(* POST /contracts.                                                        *)

\* The months a creation may declare raises for: all the adjustment windows
\* gone by (historical_amounts) or one month (current_amount_since), or none.
Windows(t) ==
    {m \in Months : /\ t.frequency > 0 /\ m <= MonthOf(today)
                    /\ m > MonthOf(t.start_date)
                    /\ (m - MonthOf(t.start_date)) % t.frequency = 0}
SinceMonths(t) ==
    {m \in Months : t.frequency = 0 /\ FirstDayOf(m) \in t.start_date..today}
Declarable(t) == {{}} \cup {Windows(t)} \cup {{m} : m \in SinceMonths(t)}

\* Months that enter as already paid: from the start to the month before this.
PastMonths(t) ==
    {m \in Months : m \in MonthOf(t.start_date)..MonthOf(t.end_date)
                       /\ m < MonthOf(today)}

Create(c, t) ==
    /\ contracts[c].status = "absent"
    /\ properties[PropertyOf[c]] # "deleted"
    /\ Conflicts(c, t) = {}
    /\ \E declared \in Declarable(t) : \E raises \in [declared -> Amounts] :
          LET amount(m) == AmountInMonth(t.initial_amount, raises, m)
          IN  /\ contracts' = [contracts EXCEPT ![c] =
                   [status |-> "draft", deleted |-> FALSE,
                    start_date |-> t.start_date, end_date |-> t.end_date,
                    initial_amount |-> t.initial_amount,
                    current_amount |-> amount(MonthOf(today)),
                    frequency |-> t.frequency, notified |-> FALSE]]
              /\ adjustments' = [adjustments EXCEPT ![c] =
                   [m \in Months |-> IF m \in declared
                      THEN [status |-> "applied", previous |-> amount(m - 1),
                            new |-> raises[m]]
                      ELSE NoAdjustment]]
              /\ rent_periods' = [rent_periods EXCEPT ![c] =
                   [m \in Months |-> IF m \in PastMonths(t) THEN amount(m) ELSE 0]]
    /\ UNCHANGED <<calendar, properties, requests>>
----------------------------------------------------------------------------
(* PATCH, activate, terminate, DELETE.                                     *)

\* MUTANT: the new end is not compared with the other contracts.
UpdateEndDateUnchecked(c, end) ==
    /\ Visible(c)
    /\ contracts[c].start_date < end
    /\ contracts' = [contracts EXCEPT ![c].end_date = end]
    /\ UNCHANGED <<calendar, properties, adjustments, rent_periods, requests>>

\* The service checks nothing; CHECK (end_date > start_date) and the EXCLUDE
\* constraint refuse the UPDATE.
UpdateEndDate(c, end) ==
    /\ Visible(c)
    /\ contracts[c].start_date < end
    /\ Active(c) => Conflicts(c, [contracts[c] EXCEPT !.end_date = end]) = {}
    /\ contracts' = [contracts EXCEPT ![c].end_date = end]
    /\ UNCHANGED <<calendar, properties, adjustments, rent_periods, requests>>

\* maybe_generate_current_month_rent_period.
ActivationPeriod(c) ==
    IF contracts[c].start_date > today \/ MonthOf(today) \in Pending(c)
    THEN rent_periods[c]
    ELSE WithPeriod(rent_periods[c], MonthOf(today), contracts[c].current_amount)

Activate(c) ==
    /\ Visible(c) /\ contracts[c].status = "draft"
    /\ Conflicts(c, contracts[c]) = {}
    /\ contracts' = [contracts EXCEPT ![c].status = "active"]
    /\ properties' = Occupancy(properties, PropertyOf[c], "rented")
    /\ rent_periods' = [rent_periods EXCEPT ![c] = ActivationPeriod(c)]
    /\ UNCHANGED <<calendar, adjustments, requests>>

\* MUTANT: the property is forgotten.
TerminateKeepsRented(c) ==
    /\ Active(c)
    /\ contracts' = [contracts EXCEPT ![c].status = "terminated"]
    /\ UNCHANGED <<calendar, properties, adjustments, rent_periods, requests>>

Terminate(c) ==
    /\ Active(c)
    /\ contracts' = [contracts EXCEPT ![c].status = "terminated"]
    /\ properties' = Occupancy(properties, PropertyOf[c], "available")
    /\ UNCHANGED <<calendar, adjustments, rent_periods, requests>>

Delete(c) ==
    /\ Visible(c)
    /\ contracts' = [contracts EXCEPT ![c].deleted = TRUE]
    /\ properties' = IF Active(c)
                     THEN Occupancy(properties, PropertyOf[c], "available")
                     ELSE properties
    /\ UNCHANGED <<calendar, adjustments, rent_periods, requests>>
----------------------------------------------------------------------------
(* POST /adjustments/:id/apply.                                            *)

\* The checks: it exists (the contract is not looked at) and is pending.  Any
\* pct is accepted, so any new amount; it is computed from previous_amount.
ApplyRead(c, m, new) ==
    /\ m \in Pending(c)
    /\ Cardinality(applying) < MaxApplying
    /\ applying' = applying \cup {[contract |-> c, period |-> m, new |-> new,
                                  selected |-> FALSE]}
    /\ overlapped' = overlapped \cup {r.contract : r \in {q \in applying : q.contract = c}}
    /\ UNCHANGED <<calendar, contracts, properties, adjustments, rent_periods>>

\* The UPDATE of the adjustment, whose row stays locked until the end, and the
\* select of the contract: one that is deleted is not found, 404 and rollback.
ApplySelect(r) ==
    /\ ~ r.selected
    /\ Visible(r.contract)
    /\ ~ \E q \in applying : /\ q.contract = r.contract /\ q.period = r.period
                             /\ q.selected
    /\ applying' = (applying \ {r}) \cup {[r EXCEPT !.selected = TRUE]}
    /\ UNCHANGED <<calendar, contracts, properties, adjustments, rent_periods, overlapped>>

\* MUTANT: the contract keeps its old amount.
ApplyCommitKeepsAmount(r) ==
    LET c == r.contract
        m == r.period
    IN  /\ r.selected
        /\ adjustments' = [adjustments EXCEPT ![c][m].status = "applied",
                                              ![c][m].new = r.new]
        /\ rent_periods' = [rent_periods EXCEPT ![c] =
                              WithPeriod(rent_periods[c], m, r.new)]
        /\ applying' = applying \ {r}
        /\ UNCHANGED <<calendar, contracts, properties, overlapped>>

\* Whether the detection job under way has listed c.
Detecting(c) ==
    /\ running /\ Head(jobs) = "detect_due_adjustments"
    /\ listed[c] # 0

\* The UPDATE of the contract, by its key, the rent period if it is not there,
\* and the commit of the three: that the contract was deleted since its select
\* is not seen.
ApplyCommit(r) ==
    LET c == r.contract
        m == r.period
    IN  /\ r.selected
        /\ adjustments' = [adjustments EXCEPT ![c][m].status = "applied",
                                              ![c][m].new = r.new]
        /\ contracts' = [contracts EXCEPT ![c].current_amount = r.new]
        /\ rent_periods' = [rent_periods EXCEPT ![c] =
                              WithPeriod(rent_periods[c], m, r.new)]
        /\ applying' = applying \ {r}
        /\ overlapped' = IF Detecting(c) THEN overlapped \cup {c} ELSE overlapped
        /\ UNCHANGED <<calendar, properties>>

\* A request that fails, or dies, before its commit.
ApplyDrop(r) ==
    /\ applying' = applying \ {r}
    /\ UNCHANGED <<calendar, contracts, properties, adjustments, rent_periods, overlapped>>
----------------------------------------------------------------------------
(* Properties of the organization.                                         *)

\* PATCH /properties/:id with a status: refused while a contract is active.
SetPropertyStatus(p, status) ==
    /\ properties[p] # "deleted" /\ ActiveOn(p) = {}
    /\ properties' = [properties EXCEPT ![p] = status]
    /\ UNCHANGED <<calendar, contracts, adjustments, rent_periods, requests>>

DeleteProperty(p) ==
    /\ properties[p] # "deleted" /\ ActiveOn(p) = {}
    /\ properties' = [properties EXCEPT ![p] = "deleted"]
    /\ UNCHANGED <<calendar, contracts, adjustments, rent_periods, requests>>
----------------------------------------------------------------------------
(* The jobs, each one transaction for the organization: the query that     *)
(* lists the contracts, then the statements that write what was listed.    *)

\* MUTANT: the query does not look at deleted_at.
CandidatesDeletedToo(name) ==
    {c \in Contracts : /\ contracts[c].status = "active"
                       /\ \/ name = "generate_rent_periods"
                          \/ name = "detect_due_adjustments" /\ contracts[c].frequency > 0
                          \/ /\ name = "detect_expiring_contracts"
                             /\ contracts[c].end_date < today}

PastEnd == {c \in Contracts : Active(c) /\ contracts[c].end_date < today}

\* list_active, list_ars_contracts_due_for_adjustment_check and
\* list_active_past_end_date.
Candidates(name) ==
    {c \in Contracts : /\ Active(c)
                       /\ \/ name = "generate_rent_periods"
                          \/ name = "detect_due_adjustments" /\ contracts[c].frequency > 0
                          \/ name = "detect_expiring_contracts" /\ c \in PastEnd}

\* The rows listed stay in the session as they were: their current_amount is
\* the one of this moment.
StartJob(name) ==
    /\ jobs # <<>> /\ Head(jobs) = name
    /\ ~ running
    /\ running' = TRUE
    /\ listed' = [c \in Contracts |->
          IF c \in Candidates(name) THEN contracts[c].current_amount ELSE 0]
    /\ UNCHANGED <<today, jobs, contracts, properties, adjustments, rent_periods, requests>>

Listed == {c \in Contracts : listed[c] # 0}

\* MUTANT: contracts are charged whether or not an adjustment is pending.
ChargedTodayAll == Listed

\* Those of the contracts listed that a period is inserted for: the pending
\* adjustment is looked for now, the contract is not read again.
ChargedToday == {c \in Listed : MonthOf(today) \notin Pending(c)}

GenerateRentPeriods ==
    /\ rent_periods' = [c \in Contracts |-> IF c \in ChargedToday
          THEN WithPeriod(rent_periods[c], MonthOf(today), listed[c])
          ELSE rent_periods[c]]
    /\ UNCHANGED <<contracts, properties, adjustments>>

\* MUTANT: the anchor is always the start of the contract.
NextDueFromStart(c) == MonthOf(contracts[c].start_date) + contracts[c].frequency

\* frequency months after the last applied adjustment, or after the start.
NextDue(c) ==
    contracts[c].frequency + IF AppliedMonths(c) = {}
                             THEN MonthOf(contracts[c].start_date)
                             ELSE Max(AppliedMonths(c))

\* Those of the contracts listed whose next adjustment has come and that have
\* none pending: both are looked up now.
DueForAdjustment ==
    {c \in Listed : Pending(c) = {} /\ NextDue(c) <= MonthOf(today)}

\* previous_amount is the amount as it was listed.
DetectDueAdjustments ==
    /\ adjustments' = [c \in Contracts |-> IF c \in DueForAdjustment
          THEN [adjustments[c] EXCEPT ![NextDue(c)] =
                  [status |-> "pending", previous |-> listed[c], new |-> 0]]
          ELSE adjustments[c]]
    /\ UNCHANGED <<contracts, properties, rent_periods>>

ToNotify ==
    {c \in Contracts : /\ Active(c) /\ ~ contracts[c].notified
                       /\ contracts[c].end_date \in today..today + NoticeDays}

\* MUTANT: a contract that was never notified does not expire.
DetectExpiringNotified ==
    /\ contracts' = [c \in Contracts |->
          IF c \in Listed /\ Visible(c) /\ contracts[c].notified
          THEN [contracts[c] EXCEPT !.status = "expired"]
          ELSE IF c \in ToNotify THEN [contracts[c] EXCEPT !.notified = TRUE]
          ELSE contracts[c]]
    /\ UNCHANGED <<properties, adjustments, rent_periods>>

\* Expiry of those listed, whatever has become of them: each is selected again
\* and, of those deleted meanwhile, the ones whose select came before the
\* deletion expire all the same.  Then the notices to those still active.
DetectExpiringContracts ==
    \E deleted \in SUBSET {c \in Listed : contracts[c].deleted} :
      /\ contracts' = [c \in Contracts |->
            IF c \in Listed
            THEN IF Visible(c) \/ c \in deleted
                 THEN [contracts[c] EXCEPT !.status = "expired"] ELSE contracts[c]
            ELSE IF c \in ToNotify THEN [contracts[c] EXCEPT !.notified = TRUE]
            ELSE contracts[c]]
      /\ properties' = [p \in Properties |->
            IF (\E c \in Listed : PropertyOf[c] = p) /\ properties[p] # "deleted"
            THEN "available" ELSE properties[p]]
      /\ UNCHANGED <<adjustments, rent_periods>>

\* A worker lost after its commit has not acknowledged the task (acks_late):
\* the broker delivers it again, after those that are waiting.
RunJob(name, acked) ==
    /\ jobs # <<>> /\ Head(jobs) = name
    /\ running
    /\ \/ name = "generate_rent_periods" /\ GenerateRentPeriods
       \/ name = "detect_due_adjustments" /\ DetectDueAdjustments
       \/ name = "detect_expiring_contracts" /\ DetectExpiringContracts
    /\ running' = FALSE /\ listed' = NothingListed
    /\ jobs' = IF acked THEN Tail(jobs) ELSE Append(Tail(jobs), name)
    /\ UNCHANGED <<today, requests>>

\* A run that raises is rolled back and not retried before the next tick; one
\* whose worker is lost before the commit is delivered again.
LoseJob(requeued) ==
    /\ jobs # <<>>
    /\ jobs' = IF requeued THEN Append(Tail(jobs), Head(jobs)) ELSE Tail(jobs)
    /\ running' = FALSE /\ listed' = NothingListed
    /\ UNCHANGED <<today, contracts, properties, adjustments, rent_periods, requests>>

\* The beat_schedule of a day: 00:30 on the 1st, 01:00 and 01:30 every day.
Beat(day) ==
    (IF day % DaysPerMonth = 0 THEN <<"generate_rent_periods">> ELSE <<>>)
        \o <<"detect_due_adjustments", "detect_expiring_contracts">>

\* The last day of the bound stands for the ones after it: its daily jobs run
\* again and again, the date does not move.
NextDay ==
    /\ jobs = <<>>
    /\ IF today < MaxDay
       THEN today' = today + 1 /\ jobs' = Beat(today + 1)
       ELSE today' = today /\ jobs' = <<"detect_due_adjustments",
                                        "detect_expiring_contracts">>
    /\ UNCHANGED <<running, listed, contracts, properties, adjustments, rent_periods, requests>>
----------------------------------------------------------------------------
Operate ==
    \/ \E c \in Contracts :
          \/ \E t \in Terms : Create(c, t)
          \/ \E end \in Days : UpdateEndDate(c, end)
          \/ Activate(c) \/ Terminate(c) \/ Delete(c)
          \/ \E m \in Months, new \in Amounts : ApplyRead(c, m, new)
    \/ \E r \in applying : ApplySelect(r) \/ ApplyCommit(r) \/ ApplyDrop(r)
    \/ \E p \in Properties :
          \/ \E status \in {"available", "unavailable"} : SetPropertyStatus(p, status)
          \/ DeleteProperty(p)

Next ==
    \/ Operate \/ NextDay
    \/ \E name \in JobNames : StartJob(name)
    \/ \E requeued \in BOOLEAN : LoseJob(requeued)
    \/ \E name \in JobNames, acked \in BOOLEAN : RunJob(name, acked)

Spec == Init /\ [][Next]_vars

\* Days go by, a queued job is not delivered again for ever, and the expiry job
\* does not get lost every day, before it lists nor after.  Nobody has to call
\* the API.
FairSpec ==
    /\ Spec
    /\ WF_vars(NextDay)
    /\ SF_vars(StartJob("detect_expiring_contracts"))
    /\ WF_vars(LoseJob(FALSE) \/ \E name \in JobNames : RunJob(name, TRUE))
    /\ SF_vars(\E acked \in BOOLEAN : RunJob("detect_expiring_contracts", acked))
----------------------------------------------------------------------------
(* Properties.                                                             *)

\* RN-01: two active contracts of one property never have a day in common,
\* whatever is created, activated or extended in whatever order.
NoActiveOverlap ==
    \A c, d \in Contracts :
        c # d /\ PropertyOf[c] = PropertyOf[d] /\ Active(c) /\ Active(d)
            => ~ Overlaps(contracts[c], contracts[d])

\* RN-04: the amount in force is what the applied adjustments make of the
\* initial one: that of the last month monthly_amounts lists for today.  No
\* month is charged at an amount that came into force after it: a period's
\* amount_due is the initial one or that of a raise due by its month.  Said, as
\* the next one, of the contracts no application of which met another one or
\* committed between the list of the detection job and what it writes.
AmountFollowsAdjustments ==
    \A c \in Contracts \ overlapped : contracts[c].status # "absent" =>
        /\ contracts[c].current_amount =
              AmountInMonth(contracts[c].initial_amount, Applied(c), MonthOf(today))
        /\ \A m \in Months : rent_periods[c][m] # 0 =>
              \/ rent_periods[c][m] = contracts[c].initial_amount
              \/ \E n \in AppliedMonths(c) : n <= m /\ rent_periods[c][m] = Applied(c)[n]

\* The adjustments of a contract are a chain: at most one is pending, it comes
\* after all those applied, and each starts from the amount the one before
\* left.  With a frequency, they are that many months apart.
AdjustmentsChain ==
    \A c \in Contracts \ overlapped : \A m \in Pending(c) \cup AppliedMonths(c) :
        LET row == contracts[c]
        IN  /\ adjustments[c][m].previous =
                  AmountInMonth(row.initial_amount, Applied(c), m - 1)
            /\ m \in Pending(c) => \A n \in AppliedMonths(c) \cup Pending(c) : n <= m
            /\ row.frequency > 0 =>
                  (m - MonthOf(row.start_date)) % row.frequency = 0

\* The half of rented <=> active that the code keeps: a rented property has
\* an active contract.
RentedHasActive ==
    \A p \in Properties : properties[p] = "rented" => ActiveOn(p) # {}

\* RN-P01: while an adjustment is pending, the period of its month, if it is
\* not there yet, is created by no operation.
PendingHoldsPeriodBack ==
    [][\A c \in Contracts, m \in Months :
         m \in Pending(c) /\ rent_periods[c][m] = 0
             => rent_periods'[c][m] = 0 \/ m \notin Pending(c)']_vars

\* The applications past their select of c.
Selected(c) == {r \in applying : r.contract = c /\ r.selected}

\* RN-C08: nothing that begins after the deletion of a contract touches it.  No
\* job lists it and no application selects it from then on, and once those
\* that had are over it gets no period, no adjustment and no change of status
\* or amount (the mark of the expiry notice aside).
DeletedStaysSilent ==
    [][\A c \in Contracts : contracts[c].deleted =>
         /\ Selected(c)' \subseteq Selected(c)
         /\ listed'[c] # 0 => listed[c] # 0
         /\ Selected(c) = {} /\ listed[c] = 0 =>
              /\ contracts'[c] = [contracts[c] EXCEPT !.notified = contracts'[c].notified]
              /\ adjustments'[c] = adjustments[c]
              /\ rent_periods'[c] = rent_periods[c]]_vars

\* RN-C08 as it is written: a deleted contract generates no period, whatever
\* was under way when it was deleted.
DeletedGenerateNothing ==
    [][\A c \in Contracts : contracts[c].deleted => rent_periods'[c] = rent_periods[c]]_vars

\* RF-03: a contract whose end has passed does not stay active, whether it was
\* active then, was shortened or was activated late.
PastEndLeavesActive ==
    \A c \in Contracts : c \in PastEnd ~> c \notin PastEnd

\* RF-03 and RN-C05: only an active contract whose end has passed expires.
ExpiresPastEnd ==
    [][\A c \in Contracts :
         contracts'[c].status = "expired" /\ contracts[c].status # "expired" => c \in PastEnd]_vars

\* RF-04 of module 1: rented <=> there is an active contract on the property.
RentedIffActive ==
    \A p \in Properties : properties[p] # "deleted" =>
        (properties[p] = "rented" <=> ActiveOn(p) # {})

\* RN-P01: while the adjustment of a month is pending, its period has not been
\* generated.
PendingMeansNoPeriod ==
    \A c \in Contracts : \A m \in Pending(c) : rent_periods[c][m] = 0

\* RN-C05: an expired or terminated contract generates no new period.
ClosedGenerateNothing ==
    [][\A c \in Contracts : contracts[c].status \in {"expired", "terminated"} =>
         rent_periods'[c] = rent_periods[c]]_vars

\* What was charged or applied stays: no later run, activation or adjustment
\* rewrites the amount_due of a period that exists nor, sdd_02, 2.8, an
\* adjustment once it is applied, unless two applications of it overlapped.
PastMonthsFrozen ==
    [][\A c \in Contracts :
         /\ c \notin overlapped =>
              \A m \in AppliedMonths(c) : adjustments'[c][m] = adjustments[c][m]
         /\ \A m \in Months :
              rent_periods[c][m] # 0 => rent_periods'[c][m] = rent_periods[c][m]]_vars
============================================================================
