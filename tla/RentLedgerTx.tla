--------------------------- MODULE RentLedgerTx ---------------------------
(***************************************************************************)
(* The payments service as it runs: register_payment and void_payment are  *)
(* transactions of several statements on PostgreSQL at READ COMMITTED,     *)
(* each with its own SQLAlchemy session, and nothing in them locks what    *)
(* they read.  The tables below hold committed rows.  A request            *)
(*   - reads the rows it decides on (obj is its session's copy of the      *)
(*     rent_period row: the identity map never reads it again),            *)
(*   - writes the columns that differ from that copy, which takes the row  *)
(*     lock until the end of the transaction and waits for another holder, *)
(*   - commits, or is rolled back at any earlier point (an error, a lost   *)
(*     connection, a killed process).                                      *)
(* Operations that only insert a row or set a flag are single steps.       *)
(*                                                                         *)
(* With OneAtATime a request, or the deletion of its contract, starts only *)
(* when no other request on the same period is under way; this is the case *)
(* in which the service implements RentLedger.                             *)
(***************************************************************************)
EXTENDS Integers, FiniteSets

CONSTANTS
    Periods, Contracts, ContractOf, MaxAmount,
    Requests,     \* API calls that can be made, one use each
    OneAtATime    \* TRUE: no two overlapping requests on one period

\* A request inserts at most one payment, known by the request's name; the
\* payment that a loaded month starts with is known by the month's.
Payments == Requests \cup Periods

VARIABLES
    rent_periods, payments, contract_deleted,  \* as in RentLedger
    audit_trail,   \* audit_logs, with what the entries say
    pc,            \* what each request has done
    request,       \* what each request asks for
    obj,           \* each session's copy of the rent_period row
    plan,          \* the paid_total and status its handler computed
    dirty          \* whether its UPDATE of rent_periods changed a column

Trail(e) == [action |-> e.action, entity |-> e.entity]
Ledger == INSTANCE RentLedger WITH audit_log <- {Trail(e) : e \in audit_trail}

ASSUME TxAssumption ==
    /\ ContractOf \in [Periods -> Contracts]
    /\ MaxAmount \in Nat \ {0}
    /\ Requests \cap Periods = {}
    /\ "none" \notin Periods
    /\ OneAtATime \in BOOLEAN

vars == <<rent_periods, payments, contract_deleted, audit_trail,
          pc, request, obj, plan, dirty>>
tables == <<rent_periods, payments, contract_deleted, audit_trail>>

NoRequest == [op |-> "none", period |-> "none", payment |-> "none",
              amount |-> 0, forgiven |-> FALSE]
RequestRow == [op : {"none", "register", "void"}, period : Periods \cup {"none"},
               payment : Payments \cup {"none"}, amount : 0..MaxAmount,
               forgiven : BOOLEAN]
Steps == {"idle", "checked", "read", "row_written", "written", "done"}
Copy == [status : Ledger!RentPeriodStatus \cup {"absent"}, paid_total : Int]
NoCopy == [status |-> "absent", paid_total |-> 0]
CopyOf(row) == [status |-> row.status, paid_total |-> row.paid_total]
AuditRow == [action : Ledger!AuditActions, entity : Payments \cup Contracts,
             by : Requests \cup Contracts, before : Copy, after : Copy]

TypeOK ==
    /\ Ledger!TypeOK
    /\ audit_trail \subseteq AuditRow
    /\ pc \in [Requests -> Steps]
    /\ request \in [Requests -> RequestRow]
    /\ obj \in [Requests -> Copy]
    /\ plan \in [Requests -> Copy]
    /\ dirty \in [Requests -> BOOLEAN]

Init ==
    /\ rent_periods = [rp \in Periods |-> Ledger!NoPeriodRow]
    /\ payments = [p \in Payments |-> Ledger!NoPaymentRow]
    /\ contract_deleted = [c \in Contracts |-> FALSE]
    /\ audit_trail = {}
    /\ pc = [r \in Requests |-> "idle"]
    /\ request = [r \in Requests |-> NoRequest]
    /\ obj = [r \in Requests |-> NoCopy]
    /\ plan = [r \in Requests |-> NoCopy]
    /\ dirty = [r \in Requests |-> FALSE]

InFlight(r) == pc[r] \notin {"idle", "done"}
Busy(rp) == \E r \in Requests : InFlight(r) /\ request[r].period = rp
MayStart(rp) == OneAtATime => ~ Busy(rp)
Goto(r, step) == pc' = [pc EXCEPT ![r] = step]
----------------------------------------------------------------------------
(* Steps shared by the two handlers.                                       *)

\* MUTANT: the transaction keeps its row lock after it has ended.
HoldsForEver(r, rp) ==
    pc[r] \in {"row_written", "written", "done"} /\ dirty[r] /\ request[r].period = rp

Holds(r, rp) ==
    pc[r] \in {"row_written", "written"} /\ dirty[r] /\ request[r].period = rp
RowLocked(rp) == \E r \in Requests : Holds(r, rp)

PaymentLocked(p) ==
    \E r \in Requests : pc[r] = "written" /\ request[r].op = "void"
                             /\ request[r].payment = p

\* The UPDATE the flush emits sets the columns in which plan differs from obj,
\* whatever the committed row has become since it was read.
Flushed(r, row) ==
    [status |-> IF plan[r].status # obj[r].status THEN plan[r].status ELSE row.status,
     paid_total |-> IF plan[r].paid_total # obj[r].paid_total
                    THEN plan[r].paid_total ELSE row.paid_total]

\* update_after_payment: flush (waits for the row lock when it has something to
\* write) and refresh, which leaves in obj what this transaction now sees.
WriteRow(r, next) ==
    LET rp == request[r].period
        changed == plan[r] # obj[r]
    IN  /\ changed => ~ RowLocked(rp)
        /\ obj' = [obj EXCEPT ![r] = Flushed(r, rent_periods[rp])]
        /\ dirty' = [dirty EXCEPT ![r] = changed]
        /\ Goto(r, next)
        /\ UNCHANGED <<tables, request, plan>>

\* What a commit makes of the rent_periods table.
CommittedRow(r) ==
    LET rp == request[r].period
    IN  IF dirty[r]
        THEN [rent_periods EXCEPT ![rp].paid_total = obj[r].paid_total,
                                  ![rp].status = obj[r].status]
        ELSE rent_periods

\* MUTANT: the rent_period row is committed, then the request dies.
RollbackKeepsRow(r) ==
    /\ InFlight(r)
    /\ rent_periods' = IF pc[r] \in {"row_written", "written"}
                        THEN CommittedRow(r) ELSE rent_periods
    /\ Goto(r, "done")
    /\ UNCHANGED <<payments, contract_deleted, audit_trail,
                   request, obj, plan, dirty>>
\* Nothing a transaction wrote outlives it unless it commits.
Rollback(r) ==
    /\ InFlight(r)
    /\ Goto(r, "done")
    /\ UNCHANGED <<tables, request, obj, plan, dirty>>
----------------------------------------------------------------------------
(* register_payment.                                                       *)

\* _load_rent_period_and_contract and the checks; a refused request leaves no
\* trace, so only accepted ones are kept.  Interest is computed on this copy.
RegisterRead(r, rp, amount, forgiven) ==
    LET row == rent_periods[rp]
        paid == row.paid_total + amount
    IN  /\ pc[r] = "idle"
        /\ MayStart(rp)
        /\ Ledger!AcceptsPayment(rp, amount)
        /\ forgiven \in Ledger!MayForgive(row.amount_due - row.paid_total)
        /\ request' = [request EXCEPT ![r] =
             [op |-> "register", period |-> rp, payment |-> r,
              amount |-> amount, forgiven |-> forgiven]]
        /\ obj' = [obj EXCEPT ![r] = CopyOf(row)]
        /\ plan' = [plan EXCEPT ![r] =
             [status |-> Ledger!StatusAfterPayment(paid, row.amount_due),
              paid_total |-> paid]]
        /\ Goto(r, "read")
        /\ UNCHANGED <<tables, dirty>>

\* The INSERT of the payment is seen by nobody before the commit.
RegisterWrite(r) ==
    /\ pc[r] = "read" /\ request[r].op = "register"
    /\ WriteRow(r, "written")

ForgivenEntry(r) ==
    [action |-> "interest.forgiven", entity |-> r, by |-> r,
     before |-> NoCopy, after |-> NoCopy]

RegisterCommit(r) ==
    /\ pc[r] = "written" /\ request[r].op = "register"
    /\ rent_periods' = CommittedRow(r)
    /\ payments' = [payments EXCEPT ![r] =
          [origin |-> "manual", period |-> request[r].period,
           amount |-> request[r].amount, voided |-> FALSE,
           forgiven |-> request[r].forgiven]]
    /\ audit_trail' = IF request[r].forgiven
                       THEN audit_trail \cup {ForgivenEntry(r)} ELSE audit_trail
    /\ Goto(r, "done")
    /\ UNCHANGED <<contract_deleted, request, obj, plan, dirty>>
----------------------------------------------------------------------------
(* void_payment.                                                           *)

\* The payment is read and checked; its period and amount never change.
VoidCheck(r, p) ==
    /\ pc[r] = "idle"
    /\ Ledger!AcceptsVoid(p)
    /\ MayStart(payments[p].period)
    /\ request' = [request EXCEPT ![r] =
          [op |-> "void", period |-> payments[p].period, payment |-> p,
           amount |-> payments[p].amount, forgiven |-> FALSE]]
    /\ Goto(r, "checked")
    /\ UNCHANGED <<tables, obj, plan, dirty>>

VoidRead(r) ==
    LET row == rent_periods[request[r].period]
        paid == Ledger!PaidAfterVoid(row.paid_total, request[r].amount)
    IN  /\ pc[r] = "checked"
        /\ obj' = [obj EXCEPT ![r] = CopyOf(row)]
        /\ plan' = [plan EXCEPT ![r] =
             [status |-> Ledger!StatusAfterVoid(paid), paid_total |-> paid]]
        /\ Goto(r, "read")
        /\ UNCHANGED <<tables, request, dirty>>

VoidWriteRow(r) ==
    /\ pc[r] = "read" /\ request[r].op = "void"
    /\ WriteRow(r, "row_written")

\* PaymentRepository.void: waits for another void of the same payment, and
\* then sets voided_at all the same.
VoidWritePayment(r) ==
    /\ pc[r] = "row_written"
    /\ ~ PaymentLocked(request[r].payment)
    /\ Goto(r, "written")
    /\ UNCHANGED <<tables, request, obj, plan, dirty>>

\* The before state is taken from the session's copy, after its update.
VoidEntry(r) ==
    [action |-> "payment.voided", entity |-> request[r].payment, by |-> r,
     before |-> obj[r], after |-> plan[r]]

VoidCommit(r) ==
    /\ pc[r] = "written" /\ request[r].op = "void"
    /\ rent_periods' = CommittedRow(r)
    /\ payments' = [payments EXCEPT ![request[r].payment].voided = TRUE]
    /\ audit_trail' = audit_trail \cup {VoidEntry(r)}
    /\ Goto(r, "done")
    /\ UNCHANGED <<contract_deleted, request, obj, plan, dirty>>
----------------------------------------------------------------------------
(* Operations that decide and write in one statement, or that no statement *)
(* of another request can come between to any effect.                      *)

sessions == <<pc, request, obj, plan, dirty>>

GeneratePeriod(rp, amount) ==
    /\ ~ contract_deleted[ContractOf[rp]]
    /\ rent_periods[rp].status = "absent"
    /\ rent_periods' = [rent_periods EXCEPT ![rp] =
          [status |-> "pending", amount_due |-> amount, paid_total |-> 0]]
    /\ UNCHANGED <<payments, contract_deleted, audit_trail, sessions>>

LoadHistory(rp, amount) ==
    /\ ~ contract_deleted[ContractOf[rp]]
    /\ rent_periods[rp].status = "absent"
    /\ rent_periods' = [rent_periods EXCEPT ![rp] =
          [status |-> "paid", amount_due |-> amount, paid_total |-> amount]]
    /\ payments' = [payments EXCEPT ![rp] =
          [origin |-> "initial_load", period |-> rp, amount |-> amount,
           voided |-> FALSE, forgiven |-> FALSE]]
    /\ UNCHANGED <<contract_deleted, audit_trail, sessions>>

ContractEntry(action, c) ==
    [action |-> action, entity |-> c, by |-> c, before |-> NoCopy, after |-> NoCopy]

DeleteContract(c) ==
    /\ ~ contract_deleted[c]
    /\ OneAtATime => \A rp \in Periods : ContractOf[rp] = c => ~ Busy(rp)
    /\ contract_deleted' = [contract_deleted EXCEPT ![c] = TRUE]
    /\ audit_trail' = audit_trail \cup {ContractEntry("contract.deleted", c)}
    /\ UNCHANGED <<rent_periods, payments, sessions>>

IssueDebtCertificate(c) ==
    /\ ~ contract_deleted[c]
    /\ Ledger!ContractDebt(c) = {}
    /\ audit_trail' = audit_trail \cup {ContractEntry("debt_certificate.issued", c)}
    /\ UNCHANGED <<rent_periods, payments, contract_deleted, sessions>>
----------------------------------------------------------------------------
Begin(r) ==
    \/ \E rp \in Periods, amount \in Ledger!Amounts, forgiven \in BOOLEAN :
          RegisterRead(r, rp, amount, forgiven)
    \/ \E p \in Payments : VoidCheck(r, p)

Proceed(r) ==
    \/ RegisterWrite(r) \/ RegisterCommit(r)
    \/ VoidRead(r) \/ VoidWriteRow(r) \/ VoidWritePayment(r) \/ VoidCommit(r)

Rows ==
    \/ \E rp \in Periods, amount \in Ledger!Amounts :
          GeneratePeriod(rp, amount) \/ LoadHistory(rp, amount)
    \/ \E c \in Contracts : DeleteContract(c) \/ IssueDebtCertificate(c)

Next == Rows \/ \E r \in Requests : Begin(r) \/ Proceed(r) \/ Rollback(r)

Spec == Init /\ [][Next]_vars

\* The event loop and the server run a request that can go on; when and
\* whether requests arrive or die is not assumed.
FairSpec == Spec /\ \A r \in Requests : WF_vars(Proceed(r))
----------------------------------------------------------------------------
(* Properties.                                                             *)

\* One request at a time on a period, the service is RentLedger: each request
\* takes effect as the indivisible operation it stands for, or not at all.
ImplementsLedger == Ledger!Spec

\* However requests interleave, no UPDATE they send is refused by the CHECK
\* constraint on paid_total, and the capital a period shows stays within its
\* amount.
CapitalInBounds ==
    \A rp \in Periods :
        rent_periods[rp].paid_total \in 0..rent_periods[rp].amount_due

\* However requests interleave, a month loaded as history stays paid in full.
HistoryStaysPaid == Ledger!HistoryStaysPaid

\* No request waits for a row lock for ever: the two handlers take their locks
\* in one order and give them up at their end.
EveryRequestEnds == \A r \in Requests : InFlight(r) ~> ~ InFlight(r)

VoidEntriesOf(p) ==
    {e \in audit_trail : e.action = "payment.voided" /\ e.entity = p}

\* CA-04-07: the second void of a payment is a 409, so a payment has one
\* payment.voided entry if it is voided and none if it is not.
VoidedOnce ==
    \A p \in Payments :
        Cardinality(VoidEntriesOf(p)) = IF payments[p].voided THEN 1 ELSE 0

\* RN-05: the capital imputed to a period never exceeds its amount.
CapitalNeverExceedsAmount ==
    \A rp \in Periods : Ledger!Imputed(rp) <= rent_periods[rp].amount_due

\* RF-03: a period is paid when its paid_total has reached amount_due.
PaidMeansReached ==
    \A rp \in Periods : rent_periods[rp].status = "paid" =>
        rent_periods[rp].paid_total = rent_periods[rp].amount_due

\* The before state a payment.voided entry records is the one the void found:
\* it has the capital that the after state lacks.
AuditTellsTheChange ==
    \A e \in audit_trail : e.action = "payment.voided" => e.before # e.after
============================================================================
