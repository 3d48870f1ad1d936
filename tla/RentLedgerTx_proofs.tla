----------------------- MODULE RentLedgerTx_proofs -----------------------
(***************************************************************************)
(* What the transactions of RentLedgerTx guarantee, for any number of      *)
(* requests, periods and contracts:                                        *)
(*   - with any interleaving, TypeOK, CapitalInBounds and HistoryStaysPaid *)
(*     (TxInv is the induction);                                           *)
(*   - with OneAtATime, every behaviour is one of RentLedger (SerialInv is *)
(*     the induction: what a request under way has read is still so).      *)
(***************************************************************************)
EXTENDS RentLedgerTx, TLAPS

PaymentsOfPeriods ==
    \A p \in Payments : payments[p].origin # "absent" =>
        /\ payments[p].period \in Periods
        /\ Ledger!Exists(payments[p].period)

\* The payment a month was loaded with is the only one the month ever has.
HistoryAlone ==
    \A p, q \in Payments :
        /\ payments[p].origin = "initial_load"
        /\ payments[q].origin # "absent"
        /\ payments[q].period = payments[p].period
        => q = p

\* A payment known by a month's name is the one the month was loaded with.
PaymentNames ==
    \A rp \in Periods : payments[rp].origin # "absent" => payments[rp].period = rp

\* A request under way is about a generated period that is not history, and
\* a void is about a payment an operator registered on it.
RequestsWellFormed ==
    \A r \in Requests : InFlight(r) =>
        /\ request[r].period \in Periods
        /\ Ledger!Exists(request[r].period)
        /\ \A p \in Payments : payments[p].origin = "initial_load" =>
              payments[p].period # request[r].period
        /\ request[r].op = "void" =>
              /\ request[r].payment \in Payments
              /\ payments[request[r].payment].origin = "manual"

\* Whatever a session read and computed was within the period's amount, which
\* never changes.
PlansInBounds ==
    \A r \in Requests : pc[r] \in {"read", "row_written", "written"} =>
        /\ plan[r].paid_total \in 0..rent_periods[request[r].period].amount_due
        /\ obj[r].paid_total \in 0..rent_periods[request[r].period].amount_due
        /\ plan[r].status \in Ledger!RentPeriodStatus
        /\ obj[r].status \in Ledger!RentPeriodStatus

TxInv ==
    /\ TypeOK
    /\ CapitalInBounds
    /\ HistoryStaysPaid
    /\ PaymentsOfPeriods
    /\ HistoryAlone
    /\ PaymentNames
    /\ RequestsWellFormed
    /\ PlansInBounds

\* The parts of the type invariant, one by one.
LEMMA Types ==
    TypeOK <=>
    /\ rent_periods \in [Periods -> Ledger!RentPeriodRow]
    /\ payments \in [Payments -> Ledger!PaymentRow]
    /\ contract_deleted \in [Contracts -> BOOLEAN]
    /\ audit_trail \subseteq AuditRow
    /\ pc \in [Requests -> Steps]
    /\ request \in [Requests -> RequestRow]
    /\ obj \in [Requests -> Copy]
    /\ plan \in [Requests -> Copy]
    /\ dirty \in [Requests -> BOOLEAN]
<1>1. audit_trail \subseteq AuditRow
      => {Trail(e) : e \in audit_trail} \subseteq Ledger!AuditEntry
  BY DEF AuditRow, Trail, Ledger!AuditEntry
<1> QED BY <1>1 DEF TypeOK, Ledger!TypeOK

\* The same parts are what a step must preserve.
LEMMA TypesNext ==
    ASSUME rent_periods' \in [Periods -> Ledger!RentPeriodRow],
           payments' \in [Payments -> Ledger!PaymentRow],
           contract_deleted' \in [Contracts -> BOOLEAN],
           audit_trail' \subseteq AuditRow,
           pc' \in [Requests -> Steps],
           request' \in [Requests -> RequestRow],
           obj' \in [Requests -> Copy],
           plan' \in [Requests -> Copy],
           dirty' \in [Requests -> BOOLEAN]
    PROVE  TypeOK'
<1>1. {Trail(e) : e \in audit_trail'} \subseteq Ledger!AuditEntry
  BY DEF AuditRow, Trail, Ledger!AuditEntry
<1> QED BY <1>1 DEF TypeOK, Ledger!TypeOK

LEMMA InitInv == Init => TxInv
<1> SUFFICES ASSUME Init PROVE TxInv
  OBVIOUS
<1>1. TypeOK
  BY TxAssumption, Types DEF Init, Ledger!RentPeriodRow, Ledger!PaymentRow,
     Ledger!NoPeriodRow, Ledger!NoPaymentRow, Steps, RequestRow, NoRequest,
     Copy, NoCopy
<1>2. CapitalInBounds
  BY DEF Init, CapitalInBounds, Ledger!NoPeriodRow
<1>3. HistoryStaysPaid /\ PaymentsOfPeriods /\ HistoryAlone /\ PaymentNames
  BY DEF Init, HistoryStaysPaid, Ledger!HistoryStaysPaid, PaymentsOfPeriods,
     HistoryAlone, PaymentNames, Payments, Ledger!NoPaymentRow
<1>4. RequestsWellFormed /\ PlansInBounds
  BY DEF Init, RequestsWellFormed, PlansInBounds, InFlight
<1> QED BY <1>1, <1>2, <1>3, <1>4 DEF TxInv

LEMMA RegisterReadInv ==
    ASSUME TxInv, NEW r \in Requests, NEW rp \in Periods, NEW amount \in Ledger!Amounts,
           NEW forgiven \in BOOLEAN, RegisterRead(r, rp, amount, forgiven)
    PROVE  TxInv'
<1> DEFINE row == rent_periods[rp]
           asked == [op |-> "register", period |-> rp, payment |-> r,
                     amount |-> amount, forgiven |-> forgiven]
           paid == row.paid_total + amount
           status == Ledger!StatusAfterPayment(paid, row.amount_due)
<1>1. /\ pc[r] = "idle" /\ Ledger!Exists(rp) /\ row.status # "paid"
      /\ amount <= row.amount_due - row.paid_total
      /\ request' = [request EXCEPT ![r] = asked]
      /\ obj' = [obj EXCEPT ![r] = CopyOf(row)]
      /\ plan' = [plan EXCEPT ![r] = [status |-> status, paid_total |-> paid]]
      /\ pc' = [pc EXCEPT ![r] = "read"]
      /\ UNCHANGED <<tables, dirty>>
  BY DEF RegisterRead, Ledger!AcceptsPayment, Goto
<1>2. /\ row \in Ledger!RentPeriodRow /\ amount \in Int /\ amount > 0
      /\ amount \in 0..MaxAmount
  BY TxAssumption, Types DEF TxInv, Ledger!Amounts
<1>3. /\ paid \in 0..row.amount_due /\ row.paid_total \in 0..row.amount_due
      /\ status \in Ledger!RentPeriodStatus /\ row.status \in Ledger!RentPeriodStatus
  BY <1>1, <1>2 DEF TxInv, CapitalInBounds, Ledger!RentPeriodRow, Ledger!Exists,
     Ledger!StatusAfterPayment, Ledger!RentPeriodStatus
<1>4. TypeOK'
  <2>1. asked \in RequestRow
    BY <1>2 DEF RequestRow, Payments
  <2>2. CopyOf(row) \in Copy
    BY <1>2 DEF CopyOf, Copy, Ledger!RentPeriodRow
  <2>3. [status |-> status, paid_total |-> paid] \in Copy
    BY <1>3 DEF Copy
  <2> HIDE DEF asked, row, status, paid
  <2> QED BY <1>1, <2>1, <2>2, <2>3, Types, TypesNext DEF TxInv, tables, Steps
<1>5. \A p \in Payments : payments[p].origin = "initial_load" => payments[p].period # rp
  BY <1>1 DEF TxInv, HistoryStaysPaid, Ledger!HistoryStaysPaid
<1>6. RequestsWellFormed'
  BY <1>1, <1>5, Types DEF TxInv, RequestsWellFormed, InFlight, tables, Ledger!Exists
<1>7. PlansInBounds'
  <2> HIDE DEF status
  <2> QED BY <1>1, <1>3, Types DEF TxInv, PlansInBounds, tables, CopyOf
<1>8. (CapitalInBounds /\ HistoryStaysPaid /\ PaymentsOfPeriods /\ HistoryAlone
      /\ PaymentNames)'
  BY <1>1 DEF TxInv, CapitalInBounds, HistoryStaysPaid, Ledger!HistoryStaysPaid,
     PaymentsOfPeriods, HistoryAlone, PaymentNames, tables, Ledger!Exists
<1> QED BY <1>4, <1>6, <1>7, <1>8 DEF TxInv

\* An UPDATE of the period's row, not committed yet.
LEMMA WriteRowInv ==
    ASSUME TxInv, NEW r \in Requests, NEW next \in {"row_written", "written"},
           pc[r] = "read", WriteRow(r, next)
    PROVE  TxInv'
<1> DEFINE rp == request[r].period
           due == rent_periods[rp].amount_due
           copy == Flushed(r, rent_periods[rp])
<1>1. /\ obj' = [obj EXCEPT ![r] = copy]
      /\ dirty' = [dirty EXCEPT ![r] = (plan[r] # obj[r])]
      /\ pc' = [pc EXCEPT ![r] = next]
      /\ UNCHANGED <<tables, request, plan>>
  BY DEF WriteRow, Goto
<1>2. /\ InFlight(r) /\ rp \in Periods
      /\ rent_periods[rp] \in Ledger!RentPeriodRow /\ plan[r] \in Copy
  BY Types DEF TxInv, InFlight, RequestsWellFormed
<1>3. copy \in Copy
  BY <1>2 DEF Flushed, Copy, Ledger!RentPeriodRow
<1>4. /\ plan[r].paid_total \in 0..due /\ copy.paid_total \in 0..due
      /\ plan[r].status \in Ledger!RentPeriodStatus
      /\ copy.status \in Ledger!RentPeriodStatus
  BY <1>2 DEF TxInv, PlansInBounds, CapitalInBounds, Flushed, RequestsWellFormed,
     Ledger!Exists, Ledger!RentPeriodRow
<1>5. TypeOK'
  <2> HIDE DEF copy
  <2> QED BY <1>1, <1>3, Types, TypesNext DEF TxInv, tables, Steps
<1>6. RequestsWellFormed'
  BY <1>1, <1>2, Types DEF TxInv, RequestsWellFormed, InFlight, tables, Ledger!Exists
<1>7. PlansInBounds'
  <2> HIDE DEF copy
  <2> QED BY <1>1, <1>4, Types DEF TxInv, PlansInBounds, tables
<1>8. (CapitalInBounds /\ HistoryStaysPaid /\ PaymentsOfPeriods /\ HistoryAlone
      /\ PaymentNames)'
  BY <1>1 DEF TxInv, CapitalInBounds, HistoryStaysPaid, Ledger!HistoryStaysPaid,
     PaymentsOfPeriods, HistoryAlone, PaymentNames, tables, Ledger!Exists
<1> QED BY <1>5, <1>6, <1>7, <1>8 DEF TxInv

\* What both commits do to the rent_periods table: the row of a period that
\* exists and is not history takes a status and a paid_total within bounds.
LEMMA CommittedRowInBounds ==
    ASSUME TxInv, NEW r \in Requests, pc[r] = "written",
           rent_periods' = CommittedRow(r)
    PROVE  /\ rent_periods' \in [Periods -> Ledger!RentPeriodRow]
           /\ CapitalInBounds'
           /\ \A o \in Periods : Ledger!Exists(o)' = Ledger!Exists(o)
           /\ \A o \in Periods : /\ rent_periods'[o].amount_due = rent_periods[o].amount_due
                                 /\ o # request[r].period => rent_periods'[o] = rent_periods[o]
<1> DEFINE rp == request[r].period
           paid == obj[r].paid_total
           status == obj[r].status
<1>1. /\ InFlight(r) /\ rp \in Periods /\ Ledger!Exists(rp)
      /\ rent_periods \in [Periods -> Ledger!RentPeriodRow]
      /\ obj[r] \in Copy /\ paid \in 0..rent_periods[rp].amount_due
  BY Types DEF TxInv, InFlight, RequestsWellFormed, PlansInBounds
<1>2. \/ rent_periods' = rent_periods
      \/ rent_periods' = [rent_periods EXCEPT ![rp].paid_total = paid, ![rp].status = status]
  BY DEF CommittedRow
<1>3. paid \in Int /\ status \in Ledger!RentPeriodStatus /\ status # "absent"
  BY <1>1 DEF Copy, TxInv, PlansInBounds, Ledger!RentPeriodStatus
<1> HIDE DEF rp, paid, status
<1>4. rent_periods' \in [Periods -> Ledger!RentPeriodRow]
  BY <1>1, <1>2, <1>3 DEF Ledger!RentPeriodRow
<1>5. \A o \in Periods : /\ rent_periods'[o].amount_due = rent_periods[o].amount_due
                         /\ o # rp => rent_periods'[o] = rent_periods[o]
  BY <1>1, <1>2 DEF Ledger!RentPeriodRow
<1>6. \A o \in Periods : rent_periods'[o].paid_total \in {rent_periods[o].paid_total}
                            \cup (IF o = rp THEN {paid} ELSE {})
  BY <1>1, <1>2 DEF Ledger!RentPeriodRow
<1>7. CapitalInBounds'
  BY <1>1, <1>5, <1>6 DEF TxInv, CapitalInBounds
<1>8. \A o \in Periods : Ledger!Exists(o)' = Ledger!Exists(o)
  BY <1>1, <1>2, <1>3 DEF Ledger!RentPeriodRow, Ledger!Exists
<1> QED BY <1>4, <1>5, <1>7, <1>8 DEF rp

LEMMA RegisterCommitInv ==
    ASSUME TxInv, NEW r \in Requests, RegisterCommit(r)
    PROVE  TxInv'
<1> DEFINE rp == request[r].period
           paid == [origin |-> "manual", period |-> rp, amount |-> request[r].amount,
                    voided |-> FALSE, forgiven |-> request[r].forgiven]
<1>1. /\ pc[r] = "written" /\ rent_periods' = CommittedRow(r)
      /\ payments' = [payments EXCEPT ![r] = paid]
      /\ audit_trail' \subseteq audit_trail \cup {ForgivenEntry(r)}
      /\ pc' = [pc EXCEPT ![r] = "done"]
      /\ UNCHANGED <<contract_deleted, request, obj, plan, dirty>>
  BY DEF RegisterCommit, Goto
<1>2. /\ InFlight(r) /\ rp \in Periods /\ request[r] \in RequestRow
      /\ payments \in [Payments -> Ledger!PaymentRow] /\ r \in Payments
      /\ \A p \in Payments : payments[p].origin = "initial_load" => payments[p].period # rp
      /\ Ledger!Exists(rp)
  BY <1>1, Types DEF TxInv, InFlight, RequestsWellFormed, Payments
<1>3. /\ rent_periods' \in [Periods -> Ledger!RentPeriodRow] /\ CapitalInBounds'
      /\ \A o \in Periods : Ledger!Exists(o)' = Ledger!Exists(o)
      /\ \A o \in Periods : /\ rent_periods'[o].amount_due = rent_periods[o].amount_due
                            /\ o # rp => rent_periods'[o] = rent_periods[o]
  BY <1>1, CommittedRowInBounds
<1>4. TypeOK'
  <2>1. paid \in Ledger!PaymentRow
    BY <1>2 DEF RequestRow, Ledger!PaymentRow
  <2>2. ForgivenEntry(r) \in AuditRow
    BY <1>2 DEF ForgivenEntry, AuditRow, Ledger!AuditActions, NoCopy, Copy
  <2> HIDE DEF paid
  <2> QED BY <1>1, <1>2, <1>3, <2>1, <2>2, Types, TypesNext DEF TxInv, Steps
<1>5. /\ \A p \in Payments \ {r} : payments'[p] = payments[p]
      /\ payments'[r] = paid
  BY <1>1, <1>2
<1>6. \A p \in Payments : payments'[p].origin = "initial_load" =>
        /\ payments'[p] = payments[p]
        /\ payments[p].period \in Periods
        /\ payments[p].period # rp
  BY <1>2, <1>5 DEF TxInv, PaymentsOfPeriods
<1>7. HistoryStaysPaid'
  BY <1>3, <1>6 DEF TxInv, HistoryStaysPaid, Ledger!HistoryStaysPaid
<1>8. PaymentsOfPeriods'
  BY <1>2, <1>3, <1>5 DEF TxInv, PaymentsOfPeriods
<1>9. HistoryAlone' /\ PaymentNames'
  BY <1>2, <1>5, <1>6, TxAssumption DEF TxInv, HistoryAlone, PaymentNames, Payments
<1>10. \A s \in Requests : (InFlight(s)' => InFlight(s) /\ s # r) /\ (s # r => pc'[s] = pc[s])
  BY <1>1, Types DEF TxInv, InFlight
<1>11. RequestsWellFormed'
  <2> HIDE DEF paid
  <2>1. ASSUME NEW s \in Requests, InFlight(s)', request[s].op = "void"
        PROVE  /\ request[s].payment \in Payments
               /\ payments'[request[s].payment].origin = "manual"
    BY <1>5, <1>10, <2>1 DEF TxInv, RequestsWellFormed, paid
  <2> QED BY <1>1, <1>3, <1>6, <1>10, <2>1 DEF TxInv, RequestsWellFormed
<1>12. PlansInBounds'
  <2>1. \A s \in Requests : pc'[s] \in {"read", "row_written", "written"}
          => pc[s] \in {"read", "row_written", "written"} /\ request[s].period \in Periods
    BY <1>1, <1>10, Types DEF TxInv, RequestsWellFormed, InFlight
  <2> QED BY <1>1, <1>3, <2>1 DEF TxInv, PlansInBounds
<1> QED BY <1>3, <1>4, <1>7, <1>8, <1>9, <1>11, <1>12 DEF TxInv

LEMMA VoidCheckInv ==
    ASSUME TxInv, NEW r \in Requests, NEW p \in Payments, VoidCheck(r, p)
    PROVE  TxInv'
<1> DEFINE asked == [op |-> "void", period |-> payments[p].period, payment |-> p,
                     amount |-> payments[p].amount, forgiven |-> FALSE]
<1>1. /\ pc[r] = "idle" /\ payments[p].origin = "manual"
      /\ request' = [request EXCEPT ![r] = asked]
      /\ pc' = [pc EXCEPT ![r] = "checked"]
      /\ UNCHANGED <<tables, obj, plan, dirty>>
  BY DEF VoidCheck, Ledger!AcceptsVoid, Goto
<1>2. /\ payments[p] \in Ledger!PaymentRow /\ payments[p].period \in Periods
      /\ Ledger!Exists(payments[p].period)
      /\ \A q \in Payments : payments[q].origin = "initial_load" =>
            payments[q].period # payments[p].period
  BY <1>1, Types DEF TxInv, PaymentsOfPeriods, HistoryAlone
<1>3. TypeOK'
  <2>1. asked \in RequestRow
    BY <1>2 DEF RequestRow, Ledger!PaymentRow
  <2> HIDE DEF asked
  <2> QED BY <1>1, <2>1, Types, TypesNext DEF TxInv, tables, Steps
<1>4. RequestsWellFormed'
  BY <1>1, <1>2, Types DEF TxInv, RequestsWellFormed, InFlight, tables, Ledger!Exists
<1>5. PlansInBounds'
  BY <1>1, Types DEF TxInv, PlansInBounds, tables
<1>6. (CapitalInBounds /\ HistoryStaysPaid /\ PaymentsOfPeriods /\ HistoryAlone
      /\ PaymentNames)'
  BY <1>1 DEF TxInv, CapitalInBounds, HistoryStaysPaid, Ledger!HistoryStaysPaid,
     PaymentsOfPeriods, HistoryAlone, PaymentNames, tables, Ledger!Exists
<1> QED BY <1>3, <1>4, <1>5, <1>6 DEF TxInv

LEMMA VoidReadInv ==
    ASSUME TxInv, NEW r \in Requests, VoidRead(r)
    PROVE  TxInv'
<1> DEFINE rp == request[r].period
           row == rent_periods[rp]
           paid == Ledger!PaidAfterVoid(row.paid_total, request[r].amount)
           computed == [status |-> Ledger!StatusAfterVoid(paid), paid_total |-> paid]
<1>1. /\ pc[r] = "checked"
      /\ obj' = [obj EXCEPT ![r] = CopyOf(row)]
      /\ plan' = [plan EXCEPT ![r] = computed]
      /\ pc' = [pc EXCEPT ![r] = "read"]
      /\ UNCHANGED <<tables, request, dirty>>
  BY DEF VoidRead, Goto
<1>2. /\ InFlight(r) /\ rp \in Periods /\ row \in Ledger!RentPeriodRow
      /\ row.status \in Ledger!RentPeriodStatus
      /\ row.paid_total \in 0..row.amount_due
      /\ request[r].amount \in Nat
  BY <1>1, Types, TxAssumption DEF TxInv, InFlight, RequestsWellFormed, CapitalInBounds,
     RequestRow, Ledger!RentPeriodRow, Ledger!Exists
<1>3. paid \in 0..row.amount_due /\ paid \in Int
  BY <1>2 DEF Ledger!PaidAfterVoid, Ledger!RentPeriodRow
<1>4. /\ computed \in Copy /\ computed.paid_total \in 0..row.amount_due
      /\ computed.status \in Ledger!RentPeriodStatus
  BY <1>3 DEF Copy, Ledger!StatusAfterVoid, Ledger!RentPeriodStatus
<1>5. CopyOf(row) \in Copy
  BY <1>2 DEF CopyOf, Copy, Ledger!RentPeriodRow
<1> HIDE DEF computed
<1>6. TypeOK'
  BY <1>1, <1>4, <1>5, Types, TypesNext DEF TxInv, tables, Steps
<1>7. RequestsWellFormed'
  BY <1>1, <1>2, Types DEF TxInv, RequestsWellFormed, InFlight, tables, Ledger!Exists
<1>8. PlansInBounds'
  BY <1>1, <1>2, <1>4, Types DEF TxInv, PlansInBounds, tables, CopyOf
<1>9. (CapitalInBounds /\ HistoryStaysPaid /\ PaymentsOfPeriods /\ HistoryAlone
      /\ PaymentNames)'
  BY <1>1 DEF TxInv, CapitalInBounds, HistoryStaysPaid, Ledger!HistoryStaysPaid,
     PaymentsOfPeriods, HistoryAlone, PaymentNames, tables, Ledger!Exists
<1> QED BY <1>6, <1>7, <1>8, <1>9 DEF TxInv

\* A step of one request that leaves the tables, its request and its session
\* alone: the UPDATE of the payment, and a rollback.
LEMMA PcStepInv ==
    ASSUME TxInv, NEW r \in Requests, NEW next \in {"written", "done"},
           next = "written" => pc[r] = "row_written",
           InFlight(r), pc' = [pc EXCEPT ![r] = next],
           UNCHANGED <<tables, request, obj, plan, dirty>>
    PROVE  TxInv'
<1>1. TypeOK'
  BY Types, TypesNext DEF TxInv, tables, Steps
<1>2. RequestsWellFormed' /\ PlansInBounds'
  BY Types DEF TxInv, RequestsWellFormed, PlansInBounds, InFlight, tables, Ledger!Exists
<1>3. (CapitalInBounds /\ HistoryStaysPaid /\ PaymentsOfPeriods /\ HistoryAlone
      /\ PaymentNames)'
  BY DEF TxInv, CapitalInBounds, HistoryStaysPaid, Ledger!HistoryStaysPaid,
     PaymentsOfPeriods, HistoryAlone, PaymentNames, tables, Ledger!Exists
<1> QED BY <1>1, <1>2, <1>3 DEF TxInv

LEMMA VoidCommitInv ==
    ASSUME TxInv, NEW r \in Requests, VoidCommit(r)
    PROVE  TxInv'
<1>1. PICK p \in Payments :
        /\ request[r].payment = p /\ payments[p].origin = "manual"
        /\ pc[r] = "written" /\ InFlight(r) /\ rent_periods' = CommittedRow(r)
        /\ payments' = [payments EXCEPT ![p].voided = TRUE]
        /\ audit_trail' = audit_trail \cup {VoidEntry(r)}
        /\ pc' = [pc EXCEPT ![r] = "done"]
        /\ UNCHANGED <<contract_deleted, request, obj, plan, dirty>>
  BY DEF VoidCommit, Goto, TxInv, RequestsWellFormed, InFlight
<1>2. payments \in [Payments -> Ledger!PaymentRow]
  BY Types DEF TxInv
<1>3. /\ rent_periods' \in [Periods -> Ledger!RentPeriodRow] /\ CapitalInBounds'
      /\ \A o \in Periods : Ledger!Exists(o)' = Ledger!Exists(o)
      /\ \A o \in Periods : /\ rent_periods'[o].amount_due = rent_periods[o].amount_due
                            /\ o # request[r].period => rent_periods'[o] = rent_periods[o]
  BY <1>1, CommittedRowInBounds
<1>4. /\ \A q \in Payments : /\ payments'[q].origin = payments[q].origin
                             /\ payments'[q].period = payments[q].period
      /\ \A q \in Payments \ {p} : payments'[q] = payments[q]
      /\ payments' \in [Payments -> Ledger!PaymentRow]
  BY <1>1, <1>2 DEF Ledger!PaymentRow
<1>5. TypeOK'
  <2>1. VoidEntry(r) \in AuditRow
    BY <1>1, Types DEF TxInv, VoidEntry, AuditRow, Ledger!AuditActions
  <2> QED BY <1>1, <1>3, <1>4, <2>1, Types, TypesNext DEF TxInv, Steps
<1>6. \A q \in Payments : payments'[q].origin = "initial_load" =>
        /\ payments'[q] = payments[q]
        /\ payments[q].period \in Periods
        /\ payments[q].period # request[r].period
  BY <1>1, <1>4 DEF TxInv, PaymentsOfPeriods, RequestsWellFormed
<1>7. HistoryStaysPaid'
  BY <1>3, <1>6 DEF TxInv, HistoryStaysPaid, Ledger!HistoryStaysPaid
<1>8. PaymentsOfPeriods' /\ HistoryAlone' /\ PaymentNames'
  BY <1>3, <1>4 DEF TxInv, PaymentsOfPeriods, HistoryAlone, PaymentNames, Payments
<1>9. \A s \in Requests : (InFlight(s)' => InFlight(s) /\ s # r) /\ (s # r => pc'[s] = pc[s])
  BY <1>1, Types DEF TxInv, InFlight
<1>10. RequestsWellFormed'
  BY <1>1, <1>3, <1>4, <1>9 DEF TxInv, RequestsWellFormed
<1>11. PlansInBounds'
  <2>1. \A s \in Requests : pc'[s] \in {"read", "row_written", "written"}
          => pc[s] \in {"read", "row_written", "written"} /\ request[s].period \in Periods
    BY <1>1, <1>9, Types DEF TxInv, RequestsWellFormed, InFlight
  <2> QED BY <1>1, <1>3, <2>1 DEF TxInv, PlansInBounds
<1> QED BY <1>3, <1>5, <1>7, <1>8, <1>10, <1>11 DEF TxInv

\* A period that appears is not one a request under way is about.
LEMMA NewPeriodInv ==
    ASSUME TxInv, NEW rp \in Periods, NEW row \in Ledger!RentPeriodRow,
           ~ Ledger!Exists(rp), row.status # "absent",
           row.paid_total \in 0..row.amount_due,
           rent_periods' = [rent_periods EXCEPT ![rp] = row],
           UNCHANGED <<contract_deleted, audit_trail, sessions>>
    PROVE  /\ rent_periods' \in [Periods -> Ledger!RentPeriodRow]
           /\ CapitalInBounds' /\ PlansInBounds'
           /\ Ledger!Exists(rp)' /\ rent_periods'[rp] = row
           /\ \A o \in Periods \ {rp} : rent_periods'[o] = rent_periods[o]
           /\ \A o \in Periods : Ledger!Exists(o) => o # rp /\ Ledger!Exists(o)'
           /\ \A r \in Requests : InFlight(r)' = InFlight(r)
<1>1. rent_periods \in [Periods -> Ledger!RentPeriodRow]
  BY Types DEF TxInv
<1>2. /\ Ledger!Exists(rp)' /\ rent_periods'[rp] = row
      /\ \A o \in Periods \ {rp} : rent_periods'[o] = rent_periods[o]
      /\ \A o \in Periods : Ledger!Exists(o) => o # rp /\ Ledger!Exists(o)'
  BY <1>1 DEF Ledger!Exists
<1>3. \A r \in Requests : pc[r] \in {"read", "row_written", "written"} =>
        request[r].period \in Periods \ {rp}
  BY DEF TxInv, RequestsWellFormed, InFlight
<1>4. PlansInBounds'
  BY <1>2, <1>3 DEF TxInv, PlansInBounds, sessions
<1>5. CapitalInBounds'
  BY <1>2 DEF TxInv, CapitalInBounds
<1>6. \A r \in Requests : InFlight(r)' = InFlight(r)
  BY DEF sessions, InFlight
<1> QED BY <1>1, <1>2, <1>4, <1>5, <1>6

LEMMA GeneratePeriodInv ==
    ASSUME TxInv, NEW rp \in Periods, NEW amount \in Ledger!Amounts,
           GeneratePeriod(rp, amount)
    PROVE  TxInv'
<1> DEFINE row == [status |-> "pending", amount_due |-> amount, paid_total |-> 0]
<1>1. /\ ~ Ledger!Exists(rp)
      /\ rent_periods' = [rent_periods EXCEPT ![rp] = row]
      /\ UNCHANGED <<payments, contract_deleted, audit_trail, sessions>>
  BY DEF GeneratePeriod, Ledger!Exists
<1>2. /\ row \in Ledger!RentPeriodRow /\ row.status # "absent"
      /\ row.paid_total \in 0..row.amount_due
  BY TxAssumption DEF Ledger!RentPeriodRow, Ledger!RentPeriodStatus, Ledger!Amounts
<1> HIDE DEF row
<1>3. /\ rent_periods' \in [Periods -> Ledger!RentPeriodRow]
      /\ CapitalInBounds' /\ PlansInBounds'
      /\ \A o \in Periods \ {rp} : rent_periods'[o] = rent_periods[o]
      /\ \A o \in Periods : Ledger!Exists(o) => o # rp /\ Ledger!Exists(o)'
      /\ \A r \in Requests : InFlight(r)' = InFlight(r)
  BY <1>1, <1>2, NewPeriodInv
<1>4. TypeOK'
  BY <1>1, <1>3, Types, TypesNext DEF TxInv, sessions
<1>5. HistoryStaysPaid' /\ PaymentsOfPeriods' /\ HistoryAlone' /\ PaymentNames'
  BY <1>1, <1>3 DEF TxInv, HistoryStaysPaid, Ledger!HistoryStaysPaid,
     PaymentsOfPeriods, HistoryAlone, PaymentNames
<1>6. RequestsWellFormed'
  BY <1>1, <1>3 DEF TxInv, RequestsWellFormed, sessions
<1> QED BY <1>3, <1>4, <1>5, <1>6 DEF TxInv

LEMMA LoadHistoryInv ==
    ASSUME TxInv, NEW rp \in Periods, NEW amount \in Ledger!Amounts,
           LoadHistory(rp, amount)
    PROVE  TxInv'
<1> DEFINE row == [status |-> "paid", amount_due |-> amount, paid_total |-> amount]
           loaded == [origin |-> "initial_load", period |-> rp, amount |-> amount,
                      voided |-> FALSE, forgiven |-> FALSE]
<1>1. /\ ~ Ledger!Exists(rp) /\ payments[rp].origin = "absent"
      /\ rent_periods' = [rent_periods EXCEPT ![rp] = row]
      /\ payments' = [payments EXCEPT ![rp] = loaded]
      /\ UNCHANGED <<contract_deleted, audit_trail, sessions>>
  BY DEF LoadHistory, Ledger!Exists, TxInv, PaymentNames, PaymentsOfPeriods, Payments
<1>2. /\ row \in Ledger!RentPeriodRow /\ row.status # "absent"
      /\ row.paid_total \in 0..row.amount_due
      /\ loaded \in Ledger!PaymentRow
  BY TxAssumption DEF Ledger!RentPeriodRow, Ledger!RentPeriodStatus, Ledger!Amounts,
     Ledger!PaymentRow
<1>3. /\ rent_periods' \in [Periods -> Ledger!RentPeriodRow]
      /\ CapitalInBounds' /\ PlansInBounds'
      /\ Ledger!Exists(rp)' /\ rent_periods'[rp] = row
      /\ \A o \in Periods \ {rp} : rent_periods'[o] = rent_periods[o]
      /\ \A o \in Periods : Ledger!Exists(o) => o # rp /\ Ledger!Exists(o)'
      /\ \A r \in Requests : InFlight(r)' = InFlight(r)
  <2> HIDE DEF row
  <2> QED BY <1>1, <1>2, NewPeriodInv
<1>4. /\ payments \in [Payments -> Ledger!PaymentRow] /\ rp \in Payments
      /\ \A p \in Payments \ {rp} : payments'[p] = payments[p]
      /\ payments'[rp] = loaded
  BY <1>1, Types DEF TxInv, Payments
<1>5. TypeOK'
  <2> HIDE DEF loaded
  <2> QED BY <1>1, <1>2, <1>3, <1>4, Types, TypesNext DEF TxInv, sessions
<1>6. PaymentsOfPeriods'
  BY <1>3, <1>4 DEF TxInv, PaymentsOfPeriods
<1>7. HistoryStaysPaid'
  BY <1>3, <1>4 DEF TxInv, HistoryStaysPaid, Ledger!HistoryStaysPaid, PaymentsOfPeriods
<1>8. HistoryAlone' /\ PaymentNames'
  BY <1>1, <1>4 DEF TxInv, HistoryAlone, PaymentsOfPeriods, PaymentNames, Payments
<1>9. RequestsWellFormed'
  <2>1. ASSUME NEW r \in Requests, InFlight(r)'
        PROVE  /\ request'[r] = request[r] /\ InFlight(r)
               /\ request[r].period \in Periods /\ request[r].period # rp
    BY <1>1, <1>3, <2>1 DEF TxInv, RequestsWellFormed, sessions
  <2> QED BY <1>1, <1>3, <1>4, <2>1 DEF TxInv, RequestsWellFormed
<1> QED BY <1>3, <1>5, <1>6, <1>7, <1>8, <1>9 DEF TxInv

\* Deletions, certificates and stuttering.
LEMMA OtherStepsInv ==
    ASSUME TxInv, UNCHANGED <<rent_periods, payments, sessions>>,
           contract_deleted' \in [Contracts -> BOOLEAN], audit_trail' \subseteq AuditRow
    PROVE  TxInv'
<1>1. TypeOK'
  BY Types, TypesNext DEF TxInv, sessions
<1>2. RequestsWellFormed' /\ PlansInBounds'
  BY DEF TxInv, RequestsWellFormed, PlansInBounds, InFlight, sessions, Ledger!Exists
<1>3. (CapitalInBounds /\ HistoryStaysPaid /\ PaymentsOfPeriods /\ HistoryAlone
      /\ PaymentNames)'
  BY DEF TxInv, CapitalInBounds, HistoryStaysPaid, Ledger!HistoryStaysPaid,
     PaymentsOfPeriods, HistoryAlone, PaymentNames, Ledger!Exists
<1> QED BY <1>1, <1>2, <1>3 DEF TxInv

LEMMA StepInv == TxInv /\ [Next]_vars => TxInv'
<1> SUFFICES ASSUME TxInv, [Next]_vars PROVE TxInv'
  OBVIOUS
<1>1. ASSUME NEW rp \in Periods, NEW amount \in Ledger!Amounts,
             GeneratePeriod(rp, amount) \/ LoadHistory(rp, amount)
      PROVE  TxInv'
  BY <1>1, GeneratePeriodInv, LoadHistoryInv
<1>2. ASSUME NEW c \in Contracts, DeleteContract(c) \/ IssueDebtCertificate(c)
      PROVE  TxInv'
  <2>1. /\ contract_deleted' \in [Contracts -> BOOLEAN]
        /\ UNCHANGED <<rent_periods, payments, sessions>>
    BY <1>2, Types DEF DeleteContract, IssueDebtCertificate, TxInv
  <2>2. \A action \in {"contract.deleted", "debt_certificate.issued"} :
          ContractEntry(action, c) \in AuditRow
    BY DEF ContractEntry, AuditRow, Ledger!AuditActions, NoCopy, Copy
  <2>3. audit_trail' \subseteq AuditRow
    BY <1>2, <2>2, Types DEF DeleteContract, IssueDebtCertificate, TxInv
  <2> QED BY <2>1, <2>3, OtherStepsInv
<1>3. ASSUME NEW r \in Requests, Begin(r) PROVE TxInv'
  BY <1>3, RegisterReadInv, VoidCheckInv DEF Begin
<1>4. ASSUME NEW r \in Requests, Proceed(r) PROVE TxInv'
  <2>1. CASE RegisterWrite(r)
    BY <2>1, WriteRowInv DEF RegisterWrite
  <2>2. CASE RegisterCommit(r)
    BY <2>2, RegisterCommitInv
  <2>3. CASE VoidRead(r)
    BY <2>3, VoidReadInv
  <2>4. CASE VoidWriteRow(r)
    BY <2>4, WriteRowInv DEF VoidWriteRow
  <2>5. CASE VoidWritePayment(r)
    BY <2>5, PcStepInv DEF VoidWritePayment, Goto, InFlight
  <2>6. CASE VoidCommit(r)
    BY <2>6, VoidCommitInv
  <2> QED BY <1>4, <2>1, <2>2, <2>3, <2>4, <2>5, <2>6 DEF Proceed
<1>5. ASSUME NEW r \in Requests, Rollback(r) PROVE TxInv'
  BY <1>5, PcStepInv DEF Rollback, Goto
<1>6. CASE UNCHANGED vars
  BY <1>6, OtherStepsInv, Types DEF vars, sessions, TxInv
<1> QED BY <1>1, <1>2, <1>3, <1>4, <1>5, <1>6 DEF Next, Rows

\* The induction, whatever the requests and their interleaving.
THEOREM Invariance == Spec => []TxInv
<1>1. Init => TxInv
  BY InitInv
<1>2. TxInv /\ [Next]_vars => TxInv'
  BY StepInv
<1> QED BY <1>1, <1>2, PTL DEF Spec

\* Every row and every session always holds values of its type.
THEOREM TypeCorrect == Spec => []TypeOK
<1>1. TxInv => TypeOK
  BY DEF TxInv
<1> QED BY <1>1, Invariance, PTL

\* No interleaving of requests takes the paid_total of a period below zero or
\* above its amount.
THEOREM CapitalBounded == Spec => []CapitalInBounds
<1>1. TxInv => CapitalInBounds
  BY DEF TxInv
<1> QED BY <1>1, Invariance, PTL

\* No interleaving of requests reopens a month that was loaded as history.
THEOREM HistoryIsFinal == Spec => []HistoryStaysPaid
<1>1. TxInv => HistoryStaysPaid
  BY DEF TxInv
<1> QED BY <1>1, Invariance, PTL
----------------------------------------------------------------------------
(* With OneAtATime, RentLedgerTx implements RentLedger.                    *)

OneRequestPerPeriod ==
    \A r, s \in Requests :
        InFlight(r) /\ InFlight(s) /\ request[r].period = request[s].period => r = s

\* What a payment request was accepted for is still so, and what its handler
\* computed is what the committed row calls for.
PaymentStands(r) ==
    LET rp == request[r].period
        row == rent_periods[rp]
        paid == row.paid_total + request[r].amount
    IN  /\ request[r].amount \in Ledger!Amounts
        /\ Ledger!AcceptsPayment(rp, request[r].amount)
        /\ request[r].forgiven \in Ledger!MayForgive(row.amount_due - row.paid_total)
        /\ plan[r].paid_total = paid
        /\ plan[r].status = Ledger!StatusAfterPayment(paid, row.amount_due)

\* The same of a request to void.
VoidStands(r) ==
    LET p == request[r].payment
        paid == Ledger!PaidAfterVoid(rent_periods[request[r].period].paid_total,
                                     request[r].amount)
    IN  /\ Ledger!AcceptsVoid(p)
        /\ request[r].period = payments[p].period
        /\ request[r].amount = payments[p].amount
        /\ pc[r] # "checked" =>
             /\ plan[r].paid_total = paid
             /\ plan[r].status = Ledger!StatusAfterVoid(paid)

\* A session's copy is the committed row until it is written, and then what
\* the handler computed.
CopyStands(r) ==
    LET row == rent_periods[request[r].period]
    IN  /\ pc[r] = "read" => obj[r] = CopyOf(row)
        /\ pc[r] \in {"row_written", "written"} =>
             /\ obj[r] = plan[r]
             /\ dirty[r] = (plan[r] # CopyOf(row))

Stands(r) ==
    InFlight(r) =>
        /\ request[r].op \in {"register", "void"}
        /\ request[r].op = "register" => pc[r] \in {"read", "written"} /\ PaymentStands(r)
        /\ request[r].op = "void" => VoidStands(r)
        /\ CopyStands(r)

NotYetInserted == \A r \in Requests : pc[r] # "done" => payments[r].origin = "absent"

SerialInv ==
    /\ OneRequestPerPeriod
    /\ \A r \in Requests : Stands(r)
    /\ NotYetInserted

LEMMA SerialInit == Init => SerialInv
BY DEF Init, SerialInv, Stands, OneRequestPerPeriod, NotYetInserted, InFlight,
   Payments, Ledger!NoPaymentRow

\* What stands for a request that takes no step goes on standing, when its
\* period, its contract and the payment it voids are left alone.
LEMMA OthersStand ==
    ASSUME NEW s \in Requests, Stands(s),
           pc'[s] = pc[s], request'[s] = request[s], obj'[s] = obj[s],
           plan'[s] = plan[s], dirty'[s] = dirty[s],
           InFlight(s) =>
             /\ rent_periods'[request[s].period] = rent_periods[request[s].period]
             /\ contract_deleted'[ContractOf[request[s].period]]
                  = contract_deleted[ContractOf[request[s].period]]
             /\ request[s].op = "void" =>
                  payments'[request[s].payment] = payments[request[s].payment]
    PROVE  Stands(s)'
BY DEF Stands, InFlight, PaymentStands, VoidStands, CopyStands,
   Ledger!AcceptsPayment, Ledger!AcceptsVoid, Ledger!Exists

\* A step of request r that leaves the tables alone and does not start it.
LEMMA SessionStepStands ==
    ASSUME TxInv, SerialInv, NEW r \in Requests, InFlight(r),
           UNCHANGED <<tables, request>>,
           pc' \in [Requests -> Steps], pc'[r] # "idle",
           \A s \in Requests \ {r} :
              /\ pc'[s] = pc[s] /\ obj'[s] = obj[s]
              /\ plan'[s] = plan[s] /\ dirty'[s] = dirty[s],
           Stands(r)'
    PROVE  SerialInv'
<1>1. \A s \in Requests : InFlight(s)' => InFlight(s)
  BY DEF InFlight
<1>2. OneRequestPerPeriod'
  BY <1>1 DEF SerialInv, OneRequestPerPeriod
<1>3. NotYetInserted'
  BY DEF SerialInv, NotYetInserted, tables, InFlight
<1>4. \A s \in Requests \ {r} : Stands(s)'
  BY OthersStand DEF SerialInv, tables
<1> QED BY <1>2, <1>3, <1>4 DEF SerialInv

LEMMA RollbackSerial ==
    ASSUME TxInv, SerialInv, NEW r \in Requests, Rollback(r) PROVE SerialInv'
<1>1. pc' = [pc EXCEPT ![r] = "done"] /\ pc \in [Requests -> Steps]
  BY Types DEF Rollback, Goto, TxInv
<1>2. pc' \in [Requests -> Steps] /\ ~ InFlight(r)'
  BY <1>1 DEF Steps, InFlight
<1>3. Stands(r)'
  BY <1>2 DEF Stands
<1> QED BY <1>1, <1>2, <1>3, SessionStepStands DEF Rollback

LEMMA WriteRowSerial ==
    ASSUME TxInv, SerialInv, NEW r \in Requests, NEW next \in {"row_written", "written"},
           pc[r] = "read", next = "row_written" => request[r].op = "void", WriteRow(r, next)
    PROVE  SerialInv'
<1> DEFINE row == rent_periods[request[r].period]
<1>1. /\ obj' = [obj EXCEPT ![r] = Flushed(r, row)]
      /\ dirty' = [dirty EXCEPT ![r] = (plan[r] # obj[r])]
      /\ pc' = [pc EXCEPT ![r] = next]
      /\ UNCHANGED <<tables, request, plan>>
  BY DEF WriteRow, Goto
<1>2. /\ pc \in [Requests -> Steps] /\ obj \in [Requests -> Copy]
      /\ dirty \in [Requests -> BOOLEAN] /\ plan[r] \in Copy
      /\ InFlight(r) /\ obj[r] = CopyOf(row)
  BY Types DEF TxInv, InFlight, SerialInv, Stands, CopyStands
<1>3. Flushed(r, row) = plan[r]
  BY <1>2 DEF Flushed, CopyOf, Copy
<1>4. /\ obj'[r] = plan'[r] /\ dirty'[r] = (plan'[r] # CopyOf(row))
      /\ pc'[r] = next /\ pc' \in [Requests -> Steps]
  BY <1>1, <1>2, <1>3 DEF Steps
<1>5. Stands(r)'
  BY <1>1, <1>2, <1>4 DEF SerialInv, Stands, InFlight, PaymentStands, VoidStands,
     CopyStands, tables, Ledger!AcceptsPayment, Ledger!AcceptsVoid, Ledger!Exists
<1> QED BY <1>1, <1>2, <1>4, <1>5, SessionStepStands

LEMMA VoidReadSerial ==
    ASSUME TxInv, SerialInv, NEW r \in Requests, VoidRead(r) PROVE SerialInv'
<1> DEFINE row == rent_periods[request[r].period]
           paid == Ledger!PaidAfterVoid(row.paid_total, request[r].amount)
<1>1. /\ pc[r] = "checked"
      /\ obj' = [obj EXCEPT ![r] = CopyOf(row)]
      /\ plan' = [plan EXCEPT ![r] =
           [status |-> Ledger!StatusAfterVoid(paid), paid_total |-> paid]]
      /\ pc' = [pc EXCEPT ![r] = "read"]
      /\ UNCHANGED <<tables, request, dirty>>
  BY DEF VoidRead, Goto
<1>2. /\ pc \in [Requests -> Steps] /\ obj \in [Requests -> Copy]
      /\ plan \in [Requests -> Copy] /\ InFlight(r)
  BY <1>1, Types DEF TxInv, InFlight
<1>3. request[r].op = "void" /\ VoidStands(r)
  BY <1>1, <1>2 DEF SerialInv, Stands
<1>4. /\ plan'[r].paid_total = paid /\ plan'[r].status = Ledger!StatusAfterVoid(paid)
      /\ obj'[r] = CopyOf(row) /\ pc'[r] = "read" /\ pc' \in [Requests -> Steps]
  BY <1>1, <1>2 DEF Steps
<1>5. Stands(r)'
  BY <1>1, <1>2, <1>3, <1>4 DEF Stands, InFlight, VoidStands, CopyStands, tables,
     Ledger!AcceptsVoid
<1> QED BY <1>1, <1>2, <1>4, <1>5, SessionStepStands

LEMMA VoidWritePaymentSerial ==
    ASSUME TxInv, SerialInv, NEW r \in Requests, VoidWritePayment(r) PROVE SerialInv'
<1>1. /\ pc[r] = "row_written" /\ pc' = [pc EXCEPT ![r] = "written"]
      /\ UNCHANGED <<tables, request, obj, plan, dirty>>
      /\ pc \in [Requests -> Steps] /\ InFlight(r)
  BY Types DEF VoidWritePayment, Goto, TxInv, InFlight
<1>2. pc' \in [Requests -> Steps] /\ pc'[r] = "written"
  BY <1>1 DEF Steps
<1>3. Stands(r)'
  BY <1>1, <1>2 DEF SerialInv, Stands, InFlight, VoidStands, CopyStands, tables,
     Ledger!AcceptsVoid
<1> QED BY <1>1, <1>2, <1>3, SessionStepStands

\* A request that starts finds no other on its period.
LEMMA StartSerial ==
    ASSUME TxInv, SerialInv, OneAtATime, NEW r \in Requests, NEW rp \in Periods,
           pc[r] = "idle", MayStart(rp), UNCHANGED <<tables, dirty>>,
           pc' \in [Requests -> Steps], pc'[r] # "done", request'[r].period = rp,
           \A s \in Requests \ {r} :
              /\ pc'[s] = pc[s] /\ request'[s] = request[s]
              /\ obj'[s] = obj[s] /\ plan'[s] = plan[s],
           Stands(r)'
    PROVE  SerialInv'
<1>1. \A s \in Requests \ {r} : /\ InFlight(s)' => InFlight(s)
                                /\ InFlight(s) => request'[s].period # rp
  BY DEF InFlight, MayStart, Busy
<1>2. OneRequestPerPeriod'
  BY <1>1 DEF SerialInv, OneRequestPerPeriod
<1>3. NotYetInserted'
  BY DEF SerialInv, NotYetInserted, tables
<1>4. \A s \in Requests \ {r} : Stands(s)'
  BY OthersStand DEF SerialInv, tables
<1> QED BY <1>2, <1>3, <1>4 DEF SerialInv

LEMMA RegisterReadSerial ==
    ASSUME TxInv, SerialInv, OneAtATime, NEW r \in Requests, NEW rp \in Periods,
           NEW amount \in Ledger!Amounts, NEW forgiven \in BOOLEAN,
           RegisterRead(r, rp, amount, forgiven)
    PROVE  SerialInv'
<1> DEFINE row == rent_periods[rp]
           paid == row.paid_total + amount
           status == Ledger!StatusAfterPayment(paid, row.amount_due)
           asked == [op |-> "register", period |-> rp, payment |-> r,
                     amount |-> amount, forgiven |-> forgiven]
<1>1. /\ pc[r] = "idle" /\ MayStart(rp) /\ Ledger!AcceptsPayment(rp, amount)
      /\ forgiven \in Ledger!MayForgive(row.amount_due - row.paid_total)
      /\ request' = [request EXCEPT ![r] = asked]
      /\ obj' = [obj EXCEPT ![r] = CopyOf(row)]
      /\ plan' = [plan EXCEPT ![r] = [status |-> status, paid_total |-> paid]]
      /\ pc' = [pc EXCEPT ![r] = "read"]
      /\ UNCHANGED <<tables, dirty>>
  BY DEF RegisterRead, Goto
<1>2. /\ pc \in [Requests -> Steps] /\ obj \in [Requests -> Copy]
      /\ plan \in [Requests -> Copy] /\ request \in [Requests -> RequestRow]
  BY Types DEF TxInv
<1>3. /\ request'[r] = asked /\ obj'[r] = CopyOf(row) /\ pc'[r] = "read"
      /\ plan'[r].paid_total = paid /\ plan'[r].status = status
      /\ pc' \in [Requests -> Steps]
  BY <1>1, <1>2 DEF Steps
<1>4. Stands(r)'
  <2> HIDE DEF status
  <2>1. PaymentStands(r)'
    BY <1>1, <1>3 DEF PaymentStands, tables, Ledger!AcceptsPayment, Ledger!Exists, status
  <2> QED BY <1>1, <1>3, <2>1 DEF Stands, CopyStands, tables
<1> QED BY <1>1, <1>2, <1>3, <1>4, StartSerial

LEMMA VoidCheckSerial ==
    ASSUME TxInv, SerialInv, OneAtATime, NEW r \in Requests, NEW p \in Payments,
           VoidCheck(r, p)
    PROVE  SerialInv'
<1> DEFINE asked == [op |-> "void", period |-> payments[p].period, payment |-> p,
                     amount |-> payments[p].amount, forgiven |-> FALSE]
<1>1. /\ pc[r] = "idle" /\ MayStart(payments[p].period) /\ Ledger!AcceptsVoid(p)
      /\ request' = [request EXCEPT ![r] = asked]
      /\ pc' = [pc EXCEPT ![r] = "checked"]
      /\ UNCHANGED <<tables, obj, plan, dirty>>
  BY DEF VoidCheck, Goto
<1>2. /\ pc \in [Requests -> Steps] /\ request \in [Requests -> RequestRow]
      /\ payments[p].period \in Periods
  BY <1>1, Types DEF TxInv, PaymentsOfPeriods, Ledger!AcceptsVoid
<1>3. request'[r] = asked /\ pc'[r] = "checked" /\ pc' \in [Requests -> Steps]
  BY <1>1, <1>2 DEF Steps
<1>4. Stands(r)'
  BY <1>1, <1>3 DEF Stands, VoidStands, CopyStands, tables, Ledger!AcceptsVoid
<1> QED BY <1>1, <1>2, <1>3, <1>4, StartSerial

\* A commit touches one period and one payment, which no other request under
\* way is about.
LEMMA CommitSerial ==
    ASSUME TxInv, SerialInv, NEW r \in Requests, NEW p \in Payments, InFlight(r),
           pc' = [pc EXCEPT ![r] = "done"],
           UNCHANGED <<contract_deleted, request, obj, plan, dirty>>,
           \A o \in Periods : o # request[r].period => rent_periods'[o] = rent_periods[o],
           \A q \in Payments \ {p} : payments'[q] = payments[q],
           \/ p = r
           \/ payments[p].period = request[r].period /\ payments[p].origin = "manual"
    PROVE  SerialInv'
<1>1. /\ pc \in [Requests -> Steps] /\ pc'[r] = "done" /\ ~ InFlight(r)'
      /\ \A s \in Requests \ {r} : pc'[s] = pc[s] /\ InFlight(s)' = InFlight(s)
  BY Types DEF TxInv, InFlight
<1>2. OneRequestPerPeriod'
  BY <1>1 DEF SerialInv, OneRequestPerPeriod
<1>3. NotYetInserted'
  BY <1>1 DEF SerialInv, NotYetInserted, Payments
<1>4. ASSUME NEW s \in Requests \ {r} PROVE Stands(s)'
  <2>1. CASE InFlight(s)
    <3>1. request[s].period # request[r].period /\ request[s].period \in Periods
      BY <2>1 DEF SerialInv, OneRequestPerPeriod, TxInv, RequestsWellFormed
    <3>2. request[s].op = "void" =>
            /\ request[s].payment \in Payments /\ request[s].payment # p
      BY <2>1, <3>1 DEF SerialInv, Stands, VoidStands, NotYetInserted, InFlight,
         TxInv, RequestsWellFormed
    <3> QED BY <1>1, <3>1, <3>2, OthersStand DEF SerialInv
  <2>2. CASE ~ InFlight(s)
    BY <1>1, <2>2 DEF Stands
  <2> QED BY <2>1, <2>2
<1>5. Stands(r)'
  BY <1>1 DEF Stands
<1> QED BY <1>2, <1>3, <1>4, <1>5 DEF SerialInv

LEMMA RegisterCommitSerial ==
    ASSUME TxInv, SerialInv, NEW r \in Requests, RegisterCommit(r) PROVE SerialInv'
<1>1. /\ pc[r] = "written" /\ InFlight(r) /\ r \in Payments
      /\ rent_periods' = CommittedRow(r)
      /\ pc' = [pc EXCEPT ![r] = "done"]
      /\ UNCHANGED <<contract_deleted, request, obj, plan, dirty>>
      /\ \A q \in Payments \ {r} : payments'[q] = payments[q]
  BY Types DEF RegisterCommit, Goto, InFlight, Payments, TxInv
<1>2. \A o \in Periods : o # request[r].period => rent_periods'[o] = rent_periods[o]
  BY <1>1, CommittedRowInBounds
<1> QED BY <1>1, <1>2, CommitSerial

LEMMA VoidCommitSerial ==
    ASSUME TxInv, SerialInv, NEW r \in Requests, VoidCommit(r) PROVE SerialInv'
<1>1. PICK p \in Payments :
        /\ p = request[r].payment /\ payments[p].origin = "manual"
        /\ payments[p].period = request[r].period
        /\ pc[r] = "written" /\ InFlight(r)
  BY DEF VoidCommit, SerialInv, Stands, VoidStands, InFlight, TxInv,
     RequestsWellFormed
<1>2. /\ rent_periods' = CommittedRow(r)
      /\ pc' = [pc EXCEPT ![r] = "done"]
      /\ UNCHANGED <<contract_deleted, request, obj, plan, dirty>>
      /\ \A q \in Payments \ {p} : payments'[q] = payments[q]
  BY <1>1, Types DEF VoidCommit, Goto, TxInv
<1>3. \A o \in Periods : o # request[r].period => rent_periods'[o] = rent_periods[o]
  BY <1>1, <1>2, CommittedRowInBounds
<1> QED BY <1>1, <1>2, <1>3, CommitSerial

LEMMA NewPeriodSerial ==
    ASSUME TxInv, SerialInv, NEW rp \in Periods, ~ Ledger!Exists(rp),
           \A o \in Periods \ {rp} : rent_periods'[o] = rent_periods[o],
           \A p \in Payments \ {rp} : payments'[p] = payments[p],
           payments[rp].origin = "absent",
           UNCHANGED <<contract_deleted, sessions>>
    PROVE  SerialInv'
<1>1. \A r \in Requests : InFlight(r) => request[r].period \in Periods \ {rp}
  BY DEF TxInv, RequestsWellFormed
<1>2. \A r \in Requests : Stands(r)'
  <2> TAKE r \in Requests
  <2>1. InFlight(r) /\ request[r].op = "void" =>
          request[r].payment \in Payments \ {rp}
    BY DEF TxInv, RequestsWellFormed
  <2> QED BY <1>1, <2>1, OthersStand DEF SerialInv, sessions
<1>3. OneRequestPerPeriod' /\ NotYetInserted'
  BY TxAssumption DEF SerialInv, OneRequestPerPeriod, NotYetInserted, sessions,
     InFlight, Payments
<1> QED BY <1>2, <1>3 DEF SerialInv

LEMMA SerialStep ==
    ASSUME TxInv, SerialInv, OneAtATime, [Next]_vars PROVE SerialInv'
<1>1. ASSUME NEW rp \in Periods, NEW amount \in Ledger!Amounts,
             GeneratePeriod(rp, amount) \/ LoadHistory(rp, amount)
      PROVE  SerialInv'
  <2>1. ~ Ledger!Exists(rp) /\ payments[rp].origin = "absent"
    BY <1>1 DEF GeneratePeriod, LoadHistory, Ledger!Exists, TxInv, PaymentNames,
       PaymentsOfPeriods, Payments
  <2>2. /\ \A o \in Periods \ {rp} : rent_periods'[o] = rent_periods[o]
        /\ \A p \in Payments \ {rp} : payments'[p] = payments[p]
        /\ UNCHANGED <<contract_deleted, sessions>>
    BY <1>1, Types DEF GeneratePeriod, LoadHistory, TxInv
  <2> QED BY <2>1, <2>2, NewPeriodSerial
<1>2. ASSUME NEW c \in Contracts, DeleteContract(c) \/ IssueDebtCertificate(c)
      PROVE  SerialInv'
  <2>1. /\ UNCHANGED <<rent_periods, payments, sessions>>
        /\ \A r \in Requests : InFlight(r) =>
             contract_deleted'[ContractOf[request[r].period]]
               = contract_deleted[ContractOf[request[r].period]]
    <3>1. CASE DeleteContract(c)
      <4>1. /\ contract_deleted' = [contract_deleted EXCEPT ![c] = TRUE]
            /\ contract_deleted \in [Contracts -> BOOLEAN]
            /\ UNCHANGED <<rent_periods, payments, sessions>>
        BY <3>1, Types DEF DeleteContract, TxInv
      <4>2. \A r \in Requests : InFlight(r) =>
              /\ request[r].period \in Periods
              /\ ContractOf[request[r].period] \in Contracts \ {c}
        BY <3>1, TxAssumption DEF DeleteContract, Busy, TxInv, RequestsWellFormed
      <4> QED BY <4>1, <4>2
    <3>2. CASE IssueDebtCertificate(c)
      BY <3>2 DEF IssueDebtCertificate
    <3> QED BY <1>2, <3>1, <3>2
  <2>2. \A r \in Requests : Stands(r)'
    BY <2>1, OthersStand DEF SerialInv, sessions
  <2>3. OneRequestPerPeriod' /\ NotYetInserted'
    BY <2>1 DEF SerialInv, OneRequestPerPeriod, NotYetInserted, sessions, InFlight
  <2> QED BY <2>2, <2>3 DEF SerialInv
<1>3. ASSUME NEW r \in Requests, Begin(r) PROVE SerialInv'
  BY <1>3, RegisterReadSerial, VoidCheckSerial DEF Begin
<1>4. ASSUME NEW r \in Requests, Proceed(r) PROVE SerialInv'
  <2>1. CASE RegisterWrite(r)
    BY <2>1, WriteRowSerial DEF RegisterWrite
  <2>2. CASE RegisterCommit(r)
    BY <2>2, RegisterCommitSerial
  <2>3. CASE VoidRead(r)
    BY <2>3, VoidReadSerial
  <2>4. CASE VoidWriteRow(r)
    BY <2>4, WriteRowSerial DEF VoidWriteRow
  <2>5. CASE VoidWritePayment(r)
    BY <2>5, VoidWritePaymentSerial
  <2>6. CASE VoidCommit(r)
    BY <2>6, VoidCommitSerial
  <2> QED BY <1>4, <2>1, <2>2, <2>3, <2>4, <2>5, <2>6 DEF Proceed
<1>5. ASSUME NEW r \in Requests, Rollback(r) PROVE SerialInv'
  BY <1>5, RollbackSerial
<1>6. CASE UNCHANGED vars
  BY <1>6 DEF vars, SerialInv, OneRequestPerPeriod, NotYetInserted, InFlight,
     Stands, PaymentStands, VoidStands, CopyStands, Ledger!AcceptsPayment,
     Ledger!AcceptsVoid, Ledger!Exists
<1> QED BY <1>1, <1>2, <1>3, <1>4, <1>5, <1>6 DEF Next, Rows

LEMMA SerialInvariance ==
    ASSUME OneAtATime PROVE Spec => []SerialInv
<1>1. Init => SerialInv
  BY SerialInit
<1>2. TxInv /\ SerialInv /\ [Next]_vars => SerialInv'
  BY SerialStep
<1> QED BY <1>1, <1>2, Invariance, PTL DEF Spec

\* The audit trail RentLedger sees grows by what is added here.
LEMMA TrailGrows ==
    ASSUME NEW S, NEW e
    PROVE  {Trail(x) : x \in S \cup {e}} = {Trail(x) : x \in S} \cup {Trail(e)}
OBVIOUS

\* Each commit is one operation of RentLedger.
LEMMA RegisterCommitImplements ==
    ASSUME TxInv, SerialInv, NEW r \in Requests, RegisterCommit(r)
    PROVE  Ledger!Next
<1> DEFINE rp == request[r].period
           row == rent_periods[rp]
           amount == request[r].amount
           paid == row.paid_total + amount
           status == Ledger!StatusAfterPayment(paid, row.amount_due)
           trail == {Trail(e) : e \in audit_trail}
<1>1. /\ pc[r] = "written" /\ request[r].op = "register" /\ InFlight(r)
      /\ rp \in Periods /\ r \in Payments /\ request[r] \in RequestRow
      /\ rent_periods \in [Periods -> Ledger!RentPeriodRow]
  BY Types DEF RegisterCommit, InFlight, TxInv, RequestsWellFormed, Payments
<1>2. PaymentStands(r) /\ CopyStands(r) /\ payments[r].origin = "absent"
  BY <1>1 DEF SerialInv, Stands, NotYetInserted
<1>3. /\ obj[r].paid_total = paid /\ obj[r].status = status
      /\ ~ dirty[r] => row.paid_total = paid /\ row.status = status
  <2>1. plan[r].paid_total = paid /\ plan[r].status = status
    BY <1>1, <1>2 DEF PaymentStands
  <2>2. obj[r] = plan[r] /\ dirty[r] = (plan[r] # CopyOf(row))
    BY <1>1, <1>2 DEF CopyStands
  <2>3. CopyOf(row).paid_total = row.paid_total /\ CopyOf(row).status = row.status
    BY DEF CopyOf
  <2> HIDE DEF paid, status, row
  <2> QED BY <2>1, <2>2, <2>3
<1>4. rent_periods' = [rent_periods EXCEPT ![rp].paid_total = paid, ![rp].status = status]
  <2> HIDE DEF paid, status
  <2> QED BY <1>1, <1>3 DEF RegisterCommit, CommittedRow, Ledger!RentPeriodRow
<1>5. {Trail(e) : e \in audit_trail'} =
        IF request[r].forgiven
        THEN trail \cup {Ledger!Logged("interest.forgiven", r)} ELSE trail
  <2>1. Trail(ForgivenEntry(r)) = Ledger!Logged("interest.forgiven", r)
    BY DEF Trail, ForgivenEntry, Ledger!Logged
  <2>2. audit_trail' = IF request[r].forgiven
                       THEN audit_trail \cup {ForgivenEntry(r)} ELSE audit_trail
    BY DEF RegisterCommit
  <2> QED BY <2>1, <2>2, TrailGrows
<1>6. payments' = [payments EXCEPT ![r] =
        [origin |-> "manual", period |-> rp, amount |-> amount,
         voided |-> FALSE, forgiven |-> request[r].forgiven]]
      /\ contract_deleted' = contract_deleted
  BY DEF RegisterCommit
<1>7. /\ amount \in Ledger!Amounts /\ Ledger!AcceptsPayment(rp, amount)
      /\ request[r].forgiven \in Ledger!MayForgive(row.amount_due - row.paid_total)
  BY <1>2 DEF PaymentStands
<1>8. Ledger!RegisterPayment(rp, r, amount)
  <2> HIDE DEF status
  <2> QED BY <1>2, <1>4, <1>5, <1>6, <1>7 DEF Ledger!RegisterPayment, status
<1> QED BY <1>1, <1>7, <1>8 DEF Ledger!Next

LEMMA VoidCommitImplements ==
    ASSUME TxInv, SerialInv, NEW r \in Requests, VoidCommit(r)
    PROVE  Ledger!Next
<1> DEFINE p == request[r].payment
           rp == request[r].period
           row == rent_periods[rp]
           paid == Ledger!PaidAfterVoid(row.paid_total, request[r].amount)
           status == Ledger!StatusAfterVoid(paid)
<1>1. /\ pc[r] = "written" /\ request[r].op = "void" /\ InFlight(r)
      /\ rp \in Periods /\ p \in Payments
      /\ rent_periods \in [Periods -> Ledger!RentPeriodRow]
  BY Types DEF VoidCommit, InFlight, TxInv, RequestsWellFormed
<1>2. VoidStands(r) /\ CopyStands(r)
  BY <1>1 DEF SerialInv, Stands
<1>3. /\ obj[r].paid_total = paid /\ obj[r].status = status
      /\ ~ dirty[r] => row.paid_total = paid /\ row.status = status
  <2>1. plan[r].paid_total = paid /\ plan[r].status = status
    BY <1>1, <1>2 DEF VoidStands
  <2>2. obj[r] = plan[r] /\ dirty[r] = (plan[r] # CopyOf(row))
    BY <1>1, <1>2 DEF CopyStands
  <2>3. CopyOf(row).paid_total = row.paid_total /\ CopyOf(row).status = row.status
    BY DEF CopyOf
  <2> HIDE DEF paid, status, row
  <2> QED BY <2>1, <2>2, <2>3
<1>4. rent_periods' = [rent_periods EXCEPT ![rp].paid_total = paid, ![rp].status = status]
  <2> HIDE DEF paid, status
  <2> QED BY <1>1, <1>3 DEF VoidCommit, CommittedRow, Ledger!RentPeriodRow
<1>5. {Trail(e) : e \in audit_trail'} =
        {Trail(e) : e \in audit_trail} \cup {Ledger!Logged("payment.voided", p)}
  <2>1. Trail(VoidEntry(r)) = Ledger!Logged("payment.voided", p)
    BY DEF Trail, VoidEntry, Ledger!Logged
  <2>2. audit_trail' = audit_trail \cup {VoidEntry(r)}
    BY DEF VoidCommit
  <2> QED BY <2>1, <2>2, TrailGrows
<1>6. /\ Ledger!AcceptsVoid(p) /\ rp = payments[p].period
      /\ request[r].amount = payments[p].amount
  BY <1>2 DEF VoidStands
<1>7. payments' = [payments EXCEPT ![p].voided = TRUE] /\ contract_deleted' = contract_deleted
  BY DEF VoidCommit
<1>8. Ledger!VoidPayment(p)
  BY <1>4, <1>5, <1>6, <1>7 DEF Ledger!VoidPayment
<1> QED BY <1>1, <1>8 DEF Ledger!Next

LEMMA RowsImplement ==
    ASSUME TxInv, Rows PROVE Ledger!Next
<1>1. ASSUME NEW rp \in Periods, NEW amount \in Ledger!Amounts, GeneratePeriod(rp, amount)
      PROVE  Ledger!Next
  <2>1. Ledger!GeneratePeriod(rp, amount)
    BY <1>1 DEF GeneratePeriod, Ledger!GeneratePeriod, Ledger!Exists
  <2> QED BY <2>1 DEF Ledger!Next
<1>2. ASSUME NEW rp \in Periods, NEW amount \in Ledger!Amounts, LoadHistory(rp, amount)
      PROVE  Ledger!Next
  <2>1. payments[rp].origin = "absent" /\ rp \in Payments
    BY <1>2 DEF LoadHistory, TxInv, PaymentNames, PaymentsOfPeriods, Payments,
       Ledger!Exists
  <2>2. Ledger!LoadHistory(rp, rp, amount)
    BY <1>2, <2>1 DEF LoadHistory, Ledger!LoadHistory, Ledger!Exists
  <2> QED BY <2>1, <2>2 DEF Ledger!Next
<1>3. ASSUME NEW c \in Contracts, DeleteContract(c) PROVE Ledger!Next
  <2>1. {Trail(e) : e \in audit_trail'} =
          {Trail(e) : e \in audit_trail} \cup {Ledger!Logged("contract.deleted", c)}
    <3>1. Trail(ContractEntry("contract.deleted", c)) = Ledger!Logged("contract.deleted", c)
      BY DEF Trail, ContractEntry, Ledger!Logged
    <3>2. audit_trail' = audit_trail \cup {ContractEntry("contract.deleted", c)}
      BY <1>3 DEF DeleteContract
    <3> QED BY <3>1, <3>2, TrailGrows
  <2>2. Ledger!DeleteContract(c)
    BY <1>3, <2>1 DEF DeleteContract, Ledger!DeleteContract
  <2> QED BY <2>2 DEF Ledger!Next
<1>4. ASSUME NEW c \in Contracts, IssueDebtCertificate(c) PROVE Ledger!Next
  <2>1. {Trail(e) : e \in audit_trail'} =
          {Trail(e) : e \in audit_trail} \cup {Ledger!Logged("debt_certificate.issued", c)}
    <3>1. Trail(ContractEntry("debt_certificate.issued", c)) = Ledger!Logged("debt_certificate.issued", c)
      BY DEF Trail, ContractEntry, Ledger!Logged
    <3>2. audit_trail' = audit_trail \cup {ContractEntry("debt_certificate.issued", c)}
      BY <1>4 DEF IssueDebtCertificate
    <3> QED BY <3>1, <3>2, TrailGrows
  <2>2. Ledger!IssueDebtCertificate(c)
    BY <1>4, <2>1 DEF IssueDebtCertificate, Ledger!IssueDebtCertificate
  <2> QED BY <2>2 DEF Ledger!Next
<1> QED BY <1>1, <1>2, <1>3, <1>4 DEF Rows

\* When requests on a period do not overlap, every behaviour of the service is
\* one of RentLedger: each request takes effect as one operation, or not at all.
THEOREM Refinement ==
    ASSUME OneAtATime PROVE Spec => ImplementsLedger
<1>1. Init => Ledger!Init
  BY DEF Init, Ledger!Init
<1>2. TxInv /\ SerialInv /\ [Next]_vars => [Ledger!Next]_(Ledger!vars)
  <2> SUFFICES ASSUME TxInv, SerialInv, [Next]_vars PROVE [Ledger!Next]_(Ledger!vars)
    OBVIOUS
  <2>1. ASSUME UNCHANGED tables PROVE UNCHANGED Ledger!vars
    BY <2>1 DEF tables, Ledger!vars
  <2>2. CASE Rows
    BY <2>2, RowsImplement
  <2>3. ASSUME NEW r \in Requests, Begin(r) \/ Rollback(r) PROVE UNCHANGED tables
    BY <2>3 DEF Begin, RegisterRead, VoidCheck, Rollback
  <2>4. ASSUME NEW r \in Requests, Proceed(r)
        PROVE  UNCHANGED tables \/ Ledger!Next
    BY <2>4, RegisterCommitImplements, VoidCommitImplements
       DEF Proceed, RegisterWrite, VoidWriteRow, WriteRow, VoidRead, VoidWritePayment
  <2>5. CASE UNCHANGED vars
    BY <2>1, <2>5 DEF vars, tables
  <2> QED BY <2>1, <2>2, <2>3, <2>4, <2>5 DEF Next
<1> QED BY <1>1, <1>2, Invariance, SerialInvariance, PTL DEF Spec, ImplementsLedger, Ledger!Spec
============================================================================
