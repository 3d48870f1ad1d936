---------------------------- MODULE RentLedger ----------------------------
(***************************************************************************)
(* The rent ledger as one operator at a time sees it: rent_periods, the    *)
(* payments imputed to them and their audit trail, with every service      *)
(* operation of modules/payments/service.py (and the operations of         *)
(* modules/contracts that touch the same rows) as one indivisible step.    *)
(* RentLedgerTx splits those operations into the statements they run and   *)
(* is compared with this module.                                           *)
(*                                                                         *)
(* A row that has not been inserted is kept with status / origin "absent". *)
(* Dates, currencies, methods and notes are not kept: no guard that is     *)
(* modelled here depends on more than what is.                             *)
(***************************************************************************)
EXTENDS Integers, FiniteSets, Functions

CONSTANTS
    Periods,      \* the (contract, month) pairs: keys of rent_periods
    Contracts,
    ContractOf,   \* the contract each period belongs to
    Payments,     \* identifiers a payment row can take
    MaxAmount     \* bound on amount_due, and so on every payment

ASSUME LedgerAssumption ==
    /\ ContractOf \in [Periods -> Contracts]
    /\ "none" \notin Periods
    /\ IsFiniteSet(Payments)
    /\ MaxAmount \in Nat \ {0}

VARIABLES
    rent_periods,      \* the rent_periods table
    payments,          \* the payments table
    contract_deleted,  \* contracts.deleted_at IS NOT NULL
    audit_log          \* the audit_logs entries about these rows

vars == <<rent_periods, payments, contract_deleted, audit_log>>

Amounts == 1..MaxAmount
RentPeriodStatus == {"pending", "partial", "paid"}
UnpaidStatuses == {"pending", "partial"}
AuditActions == {"payment.voided", "interest.forgiven",
                 "debt_certificate.issued", "contract.deleted"}

RentPeriodRow == [status : RentPeriodStatus \cup {"absent"},
                  amount_due : 0..MaxAmount, paid_total : Int]
PaymentRow == [origin : {"absent", "manual", "initial_load"},
               period : Periods \cup {"none"}, amount : 0..MaxAmount,
               voided : BOOLEAN, forgiven : BOOLEAN]
AuditEntry == [action : AuditActions, entity : Payments \cup Contracts]

NoPeriodRow == [status |-> "absent", amount_due |-> 0, paid_total |-> 0]
NoPaymentRow == [origin |-> "absent", period |-> "none", amount |-> 0,
                 voided |-> FALSE, forgiven |-> FALSE]

TypeOK ==
    /\ rent_periods \in [Periods -> RentPeriodRow]
    /\ payments \in [Payments -> PaymentRow]
    /\ contract_deleted \in [Contracts -> BOOLEAN]
    /\ audit_log \subseteq AuditEntry

Init ==
    /\ rent_periods = [rp \in Periods |-> NoPeriodRow]
    /\ payments = [p \in Payments |-> NoPaymentRow]
    /\ contract_deleted = [c \in Contracts |-> FALSE]
    /\ audit_log = {}

Exists(rp) == rent_periods[rp].status # "absent"
PeriodsOf(c) == {rp \in Periods : ContractOf[rp] = c /\ Exists(rp)}
Logged(action, entity) == [action |-> action, entity |-> entity]
----------------------------------------------------------------------------
(* The arithmetic of the two handlers that move paid_total.                *)

\* MUTANT: a period is paid only once more than its amount is imputed.
StatusAfterPaymentOffByOne(paid, due) ==
    IF paid > due THEN "paid" ELSE "partial"

\* A partial payment leaves the period partial, the last one makes it paid.
StatusAfterPayment(paid, due) == IF paid >= due THEN "paid" ELSE "partial"

PaidAfterVoid(paid, amount) == IF paid > amount THEN paid - amount ELSE 0

StatusAfterVoid(paid) == IF paid <= 0 THEN "pending" ELSE "partial"

\* RN-P04: forgiven_interest > 0 needs a positive suggestion, hence a balance.
MayForgive(balance) == IF balance > 0 THEN BOOLEAN ELSE {FALSE}
----------------------------------------------------------------------------
(* Rows created outside the payments service.                              *)

\* RentPeriodRepository.insert_pending: ON CONFLICT DO NOTHING, reached for
\* contracts that list_active / get_by_id still return.
GeneratePeriod(rp, amount) ==
    /\ ~ contract_deleted[ContractOf[rp]]
    /\ ~ Exists(rp)
    /\ rent_periods' = [rent_periods EXCEPT ![rp] =
          [status |-> "pending", amount_due |-> amount, paid_total |-> 0]]
    /\ UNCHANGED <<payments, contract_deleted, audit_log>>

\* generate_initial_load_history: a past month enters as a paid period with
\* one initial_load payment of the whole amount, in the same transaction.
LoadHistory(rp, p, amount) ==
    /\ ~ contract_deleted[ContractOf[rp]]
    /\ ~ Exists(rp)
    /\ payments[p].origin = "absent"
    /\ rent_periods' = [rent_periods EXCEPT ![rp] =
          [status |-> "paid", amount_due |-> amount, paid_total |-> amount]]
    /\ payments' = [payments EXCEPT ![p] =
          [origin |-> "initial_load", period |-> rp, amount |-> amount,
           voided |-> FALSE, forgiven |-> FALSE]]
    /\ UNCHANGED <<contract_deleted, audit_log>>

\* ContractService.delete: deleted_at and its audit entry; no payment, no
\* rent_period is touched. A contract already deleted is a 404.
DeleteContract(c) ==
    /\ ~ contract_deleted[c]
    /\ contract_deleted' = [contract_deleted EXCEPT ![c] = TRUE]
    /\ audit_log' = audit_log \cup {Logged("contract.deleted", c)}
    /\ UNCHANGED <<rent_periods, payments>>
----------------------------------------------------------------------------
(* The payments service.                                                   *)

\* MUTANT: the balance check is missing.
AcceptsAnyPayment(rp, amount) ==
    /\ Exists(rp)
    /\ ~ contract_deleted[ContractOf[rp]]
    /\ rent_periods[rp].status # "paid"

\* The checks of register_payment, in its order: 404 on a missing period or
\* a deleted contract, 409 on a paid one, 422 above the balance.
AcceptsPayment(rp, amount) ==
    /\ Exists(rp)
    /\ ~ contract_deleted[ContractOf[rp]]
    /\ rent_periods[rp].status # "paid"
    /\ amount <= rent_periods[rp].amount_due - rent_periods[rp].paid_total

RegisterPayment(rp, p, amount) ==
    LET row == rent_periods[rp]
        paid == row.paid_total + amount
    IN  /\ AcceptsPayment(rp, amount)
        /\ payments[p].origin = "absent"
        /\ \E forgiven \in MayForgive(row.amount_due - row.paid_total) :
             /\ payments' = [payments EXCEPT ![p] =
                   [origin |-> "manual", period |-> rp, amount |-> amount,
                    voided |-> FALSE, forgiven |-> forgiven]]
             /\ audit_log' = IF forgiven
                              THEN audit_log \cup {Logged("interest.forgiven", p)}
                              ELSE audit_log
        /\ rent_periods' = [rent_periods EXCEPT
             ![rp].paid_total = paid,
             ![rp].status = StatusAfterPayment(paid, row.amount_due)]
        /\ UNCHANGED contract_deleted

\* MUTANT: the initial_load exclusion is missing.
AcceptsVoidOfHistory(p) ==
    /\ payments[p].origin # "absent"
    /\ ~ payments[p].voided

\* The checks of void_payment: 404, 409 PAYMENT_ALREADY_VOIDED, and 422 on a
\* payment of the initial load. The contract is not looked at.
AcceptsVoid(p) ==
    /\ payments[p].origin = "manual"
    /\ ~ payments[p].voided

VoidPayment(p) ==
    LET rp == payments[p].period
        paid == PaidAfterVoid(rent_periods[rp].paid_total, payments[p].amount)
    IN  /\ AcceptsVoid(p)
        /\ rent_periods' = [rent_periods EXCEPT
             ![rp].paid_total = paid, ![rp].status = StatusAfterVoid(paid)]
        /\ payments' = [payments EXCEPT ![p].voided = TRUE]
        /\ audit_log' = audit_log \cup {Logged("payment.voided", p)}
        /\ UNCHANGED contract_deleted

\* MUTANT: only the periods nothing was paid of count as debt.
ContractDebtPendingOnly(c) ==
    {rp \in PeriodsOf(c) : /\ ~ contract_deleted[c]
                           /\ rent_periods[rp].status = "pending"}

\* DebtService.contract_debt: the pending and partial periods of a contract,
\* none once it is deleted (c.deleted_at IS NULL in the debt query, RN-C08).
ContractDebt(c) ==
    {rp \in PeriodsOf(c) : /\ ~ contract_deleted[c]
                           /\ rent_periods[rp].status \in UnpaidStatuses}

\* DebtCertificateService.issue: 422 CONTRACT_HAS_DEBT, else audited.
IssueDebtCertificate(c) ==
    /\ ~ contract_deleted[c]
    /\ ContractDebt(c) = {}
    /\ audit_log' = audit_log \cup {Logged("debt_certificate.issued", c)}
    /\ UNCHANGED <<rent_periods, payments, contract_deleted>>

Next ==
    \/ \E rp \in Periods, amount \in Amounts : GeneratePeriod(rp, amount)
    \/ \E rp \in Periods, p \in Payments, amount \in Amounts :
          LoadHistory(rp, p, amount)
    \/ \E rp \in Periods, p \in Payments, amount \in Amounts :
          RegisterPayment(rp, p, amount)
    \/ \E p \in Payments : VoidPayment(p)
    \/ \E c \in Contracts : DeleteContract(c) \/ IssueDebtCertificate(c)

Spec == Init /\ [][Next]_vars
----------------------------------------------------------------------------
(* Properties.                                                             *)

LivePayments(rp) ==
    {p \in Payments : payments[p].origin # "absent"
                         /\ payments[p].period = rp /\ ~ payments[p].voided}

\* The capital imputed to a period: what its live payments add up to.
AmountOf == [p \in Payments |-> payments[p].amount]
Imputed(rp) == SumFunctionOnSet(AmountOf, LivePayments(rp))

\* paid_total, which every handler rewrites from what it read, is at all times
\* the capital of the non-voided payments, and never exceeds amount_due.
LedgerBalanced ==
    \A rp \in Periods :
        /\ rent_periods[rp].paid_total = Imputed(rp)
        /\ Imputed(rp) \in 0..rent_periods[rp].amount_due

\* status is a function of the capital: pending with none, paid with all of
\* it, partial in between, whatever payments and voids led there.
StatusFollowsCapital ==
    \A rp \in Periods : Exists(rp) =>
        LET row == rent_periods[rp]
        IN  row.status = IF Imputed(rp) = row.amount_due THEN "paid"
                         ELSE IF Imputed(rp) = 0 THEN "pending" ELSE "partial"

\* The debt of a contract that is not deleted, which the query takes from the
\* status column alone, is exactly the periods some of whose amount no live
\* payment covers: no debt is shown that was paid, and none that was not is
\* missing from what a debt certificate goes by.
DebtIsUnpaidCapital ==
    \A c \in Contracts : ~ contract_deleted[c] =>
        ContractDebt(c) =
            {rp \in PeriodsOf(c) : Imputed(rp) < rent_periods[rp].amount_due}

\* A period loaded as history stays paid in full for ever: no payment can be
\* imputed to it and its payment can not be voided.
HistoryStaysPaid ==
    \A p \in Payments : payments[p].origin = "initial_load" =>
        LET row == rent_periods[payments[p].period]
        IN  /\ row.status = "paid"
            /\ row.paid_total = row.amount_due
            /\ ~ payments[p].voided

\* A registered payment is immutable but for being voided, once (RN-06).
PaymentsImmutable ==
    [][\A p \in Payments : payments[p].origin # "absent" =>
         \/ payments'[p] = payments[p]
         \/ /\ ~ payments[p].voided
            /\ payments'[p] = [payments[p] EXCEPT !.voided = TRUE]]_vars
============================================================================
