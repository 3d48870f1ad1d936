----------------------------- MODULE Settlements -----------------------------
(***************************************************************************)
(* The monthly settlements of one landlord: the requests of                *)
(* modules/settlements/service.py, the jobs of workers/documents_worker.py *)
(* that calculate them, the job states kept in Redis, and what they read:  *)
(* payments, charges of the month and work orders, which go on changing    *)
(* meanwhile.  A request commits its row, then records the job as pending, *)
(* then sends the task; a worker records the job as processing, reads,     *)
(* writes in one transaction, and reports; a task is acknowledged last.    *)
(***************************************************************************)
EXTENDS WorkOrders, FiniteSetsExt

CONSTANTS Periods,
          Payments,         \* identifiers of payments entered by hand
          PaymentOf,        \* period, amount (capital + interest), currency, destination of each
          ChargeAmounts,    \* amounts of the charge of a month
          Pcts,             \* values of landlords.commission_pct, in 1 / PctScale of a percent
          PctScale,
          Rates,            \* exchange rates a body may carry, in 1 / RateScale of a peso
          RateScale,        \* 10000 in the code: exchange_rate keeps four decimals
          Workers,          \* processes of the documents worker
          MaxCalls,         \* bound: generate and regenerate requests; settlements are numbered by theirs
          ActiveContract,   \* the landlord has a contract in force
          Idle

Settlement == 1..MaxCalls
NoRate == 0   \* exchange_rate IS NULL, or absent from the body

PaymentData == [period: Periods, amount: Nat, currency: {"ARS", "USD"},
                destination: {"agency_account", "landlord_account"}]

VARIABLES payments,      \* "none", "live" or "voided"
          charges,       \* the charge entry of each period, 0: not loaded
          pct,           \* landlords.commission_pct now
          calls,         \* how many generate and regenerate requests were accepted
          settlements,   \* rows; status "none": no such row
          lines,         \* settlement_line_items of each settlement
          flagged,       \* the last needs_regeneration entry is later than updated_at
          job,           \* Redis settlement_job:<id>; "none": no such key
          sending,       \* requests between their checks and apply_async
          tasks,         \* tasks waiting in the documents queue
          worker         \* what each worker process is doing

\* History: what the lagging job states and the jobs run side by side did.
VARIABLES early,         \* settlements issued while their generation was under way
          repeated,      \* settlements asked for again with a job of theirs under way,
                         \* or with a generation delivered again after its commit
          contested      \* repairs that two calculations side by side may both deduct

historyVars == <<early, repeated, contested>>
settlementVars == <<payments, charges, pct, calls, settlements, lines, flagged,
                    job, sending, tasks, worker, historyVars>>
vars == <<orderVars, settlementVars>>

JobStatus == {"none", "pending", "processing", "completed", "failed"}
Busy == {"pending", "processing"}
Task == [op: {"generate", "regenerate"}, call: 1..MaxCalls, settlement: Settlement,
         rate: Rates \cup {NoRate}, redelivered: BOOLEAN]

Phase == {"started", "read", "applied", "reported", "failed"}

\* batch tells apart the lines two calculations insert one after the other.
Line == [batch: 1..2, amount: Nat, source: Payments \cup Periods \cup Orders \cup {"landlord"},
         type: {"rent_collected", "already_settled", "tax_charge", "repair", "commission"}]

Totals == [collected: Nat, commission: Nat, charges: Nat, repairs: Nat, already: Nat, net: Int]
NoTotals == [collected |-> 0, commission |-> 0, charges |-> 0, repairs |-> 0, already |-> 0, net |-> 0]

Row == [status: {"none", "draft", "issued"}, period: Periods, rate: Rates \cup {NoRate},
        pct: Pcts, totals: Totals, regenerated: Nat]
NoRow == [status |-> "none", period |-> CHOOSE m \in Periods : TRUE, rate |-> NoRate,
          pct |-> CHOOSE p \in Pcts : TRUE, totals |-> NoTotals, regenerated |-> 0]

\* What a worker process has of its task: lines and regenerated are what it
\* computed from the rows it read.
Working == [phase: Phase, task: Task, lines: SUBSET Line, regenerated: Nat]

ASSUME SettlementConstants ==
    /\ PaymentOf \in [Payments -> PaymentData]
    /\ IsFiniteSet(Payments) /\ IsFiniteSet(Orders) /\ Periods # {}
    /\ ChargeAmounts \subseteq Nat \ {0}
    /\ PctScale \in Nat \ {0} /\ RateScale \in Nat \ {0}
    /\ Pcts \subseteq 0..(100 * PctScale)
    /\ Rates \subseteq Nat \ {0}
    /\ MaxCalls \in Nat
    /\ ActiveContract \in BOOLEAN
    /\ NoSettlement \notin Settlement /\ Idle \notin Working

Exists(s) == settlements[s].status # "none"

-----------------------------------------------------------------------------
(* The calculation: what the three queries return, and the formula.        *)

\* n / d, ties to even (Decimal.quantize with ROUND_HALF_EVEN).
RoundHalfEven(n, d) ==
    LET q == n \div d
        r == n % d
    IN  IF 2 * r > d \/ (2 * r = d /\ q % 2 = 1) THEN q + 1 ELSE q

SettledPayments(period) == {p \in Payments : payments[p] = "live" /\ PaymentOf[p].period = period}

HasUSD(S) == \E p \in S : PaymentOf[p].currency = "USD"

\* MUTANT: settled_in_settlement_id is not looked at.
RepairsAgain(current) == {o \in Orders : /\ orders[o].status = "closed" /\ orders[o].payer = "agency"
                                         /\ orders[o].final_cost # NoCost}

\* MUTANT: a regeneration takes only the repairs not settled yet.
RepairsNotSettled(current) == {o \in Orders : /\ orders[o].status = "closed" /\ orders[o].payer = "agency"
                                              /\ orders[o].settled = NoSettlement
                                              /\ orders[o].final_cost # NoCost}

\* current is the settlement being regenerated; none when it is generated.
Repairs(current) == {o \in Orders : /\ orders[o].status = "closed" /\ orders[o].payer = "agency"
                                    /\ orders[o].settled \in {NoSettlement, current}
                                    /\ orders[o].final_cost # NoCost}

\* In pesos and unrounded, in 1 / RateScale of the smallest unit.
Converted(p, rate) ==
    PaymentOf[p].amount * (IF PaymentOf[p].currency = "USD" THEN rate ELSE RateScale)

\* What the line of the payment says.
InArs(p, rate) == RoundHalfEven(Converted(p, rate), RateScale)

Amount(S) == MapThenSumSet(LAMBDA l : l.amount, S)

\* What the payments S, to either side, come to unrounded.
CommissionBase(S, rate) == Amount({[payment |-> p, amount |-> Converted(p, rate)] : p \in S})

\* MUTANT: the percentage of the rounded lines.
CommissionOfLines(S, commission_pct, rate) ==
    RoundHalfEven(Amount({[payment |-> p, amount |-> InArs(p, rate)] : p \in S}) * commission_pct,
                  100 * PctScale)

Commission(S, commission_pct, rate) ==
    RoundHalfEven(CommissionBase(S, rate) * commission_pct, 100 * PctScale * RateScale)

(* The lines of a calculation, from what is in the tables when it reads.   *)
CalculatedLines(current, period, commission_pct, rate, batch) ==
    LET New(type, source, amount) == [batch |-> batch, type |-> type, source |-> source, amount |-> amount]
        rents == {New(IF PaymentOf[p].destination = "agency_account"
                      THEN "rent_collected" ELSE "already_settled", p, InArs(p, rate))
                    : p \in SettledPayments(period)}
    IN  rents
        \cup {New("commission", "landlord", Commission(SettledPayments(period), commission_pct, rate))}
        \cup {New("tax_charge", period, c) : c \in {charges[period]} \ {0}}
        \cup {New("repair", o, orders[o].final_cost) : o \in Repairs(current)}

OfType(S, type) == {l \in S : l.type = type}

TotalsOf(S) ==
    LET collected == Amount(OfType(S, "rent_collected"))
        commission == Amount(OfType(S, "commission"))
        chargesTotal == Amount(OfType(S, "tax_charge"))
        repairs == Amount(OfType(S, "repair"))
    IN  [collected |-> collected, commission |-> commission, charges |-> chargesTotal,
         repairs |-> repairs, already |-> Amount(OfType(S, "already_settled")),
         net |-> collected - commission - chargesTotal - repairs]

RepairsIn(S) == {l.source : l \in OfType(S, "repair")}

Rents(S) == OfType(S, "rent_collected") \cup OfType(S, "already_settled")

-----------------------------------------------------------------------------
(* What else happens to the tables.                                        *)

WorkOrderStep == OrderNext /\ UNCHANGED settlementVars

RegisterPayment(p) ==
    /\ payments[p] = "none"
    /\ payments' = [payments EXCEPT ![p] = "live"]
    /\ UNCHANGED <<orderVars, charges, pct, calls, settlements, lines, flagged, job, sending, tasks, worker,
                   historyVars>>

\* A void flags the settlements already issued that carry the payment.
VoidPayment(p) ==
    /\ payments[p] = "live"
    /\ payments' = [payments EXCEPT ![p] = "voided"]
    /\ flagged' = [s \in Settlement |->
                      flagged[s] \/ (settlements[s].status = "issued" /\ \E l \in lines[s] : l.source = p)]
    /\ UNCHANGED <<orderVars, charges, pct, calls, settlements, lines, job, sending, tasks, worker,
                   historyVars>>

\* The charge of the month, loaded or corrected.
SetCharge(period, amount) ==
    /\ charges[period] # amount
    /\ charges' = [charges EXCEPT ![period] = amount]
    /\ UNCHANGED <<orderVars, payments, pct, calls, settlements, lines, flagged, job, sending, tasks, worker,
                   historyVars>>

ChangeCommission(p) ==
    /\ pct' = p /\ pct # p
    /\ UNCHANGED <<orderVars, payments, charges, calls, settlements, lines, flagged, job, sending, tasks, worker,
                   historyVars>>

-----------------------------------------------------------------------------
(* Requests.  One that commits a settlement or passes its checks still has *)
(* to record the job and send the task, and may die before either.         *)

UnderWayTasks ==
    {r.task : r \in sending} \cup tasks \cup {worker[w].task : w \in {v \in Workers : worker[v] # Idle}}

UnderWay(s) == \E t \in UnderWayTasks : t.settlement = s

Call(op, s, rate) == [step |-> "checked",
                      task |-> [op |-> op, call |-> calls + 1, settlement |-> s, rate |-> rate,
                               redelivered |-> FALSE]]

Generate(period, rate) ==
    LET s == calls + 1 IN
    /\ calls < MaxCalls
    /\ \A other \in Settlement : Exists(other) => settlements[other].period # period
    /\ HasUSD(SettledPayments(period)) => rate # NoRate
    /\ ActiveContract \/ SettledPayments(period) # {} \/ charges[period] # 0
    /\ settlements' = [settlements EXCEPT ![s] =
          [status |-> "draft", period |-> period, rate |-> rate, pct |-> pct,
           totals |-> NoTotals, regenerated |-> 0]]
    /\ calls' = calls + 1
    /\ sending' = sending \cup {Call("generate", s, NoRate)}
    /\ UNCHANGED <<orderVars, payments, charges, pct, lines, flagged, job, tasks, worker,
                   historyVars>>

\* MUTANT: the landlord's percentage of the day.
CommissionPctNow(s) == pct

\* Frozen when the settlement is generated; a regeneration uses it again.
CommissionPct(s) == settlements[s].pct

EffectiveRate(s, rate) == IF rate # NoRate THEN rate ELSE settlements[s].rate

\* No key means calculated: the job state is only looked at to refuse.
MayAsk(s) == job[s] \notin Busy

Regenerate(s, rate) ==
    /\ calls < MaxCalls
    /\ Exists(s) /\ MayAsk(s)
    /\ HasUSD(SettledPayments(settlements[s].period)) => EffectiveRate(s, rate) # NoRate
    /\ calls' = calls + 1
    /\ sending' = sending \cup {Call("regenerate", s, rate)}
    /\ repeated' = IF UnderWay(s) THEN repeated \cup {s} ELSE repeated
    /\ UNCHANGED <<orderVars, payments, charges, pct, settlements, lines, flagged, job, tasks, worker,
                   early, contested>>

MarkPending(r) ==
    /\ r.step = "checked"
    /\ job' = [job EXCEPT ![r.task.settlement] = "pending"]
    /\ sending' = (sending \ {r}) \cup {[r EXCEPT !.step = "pending"]}
    /\ UNCHANGED <<orderVars, payments, charges, pct, calls, settlements, lines, flagged, tasks, worker,
                   historyVars>>

Send(r) ==
    /\ r.step = "pending"
    /\ tasks' = tasks \cup {r.task}
    /\ sending' = sending \ {r}
    /\ UNCHANGED <<orderVars, payments, charges, pct, calls, settlements, lines, flagged, job, worker,
                   historyVars>>

RequestDies(r) ==
    /\ sending' = sending \ {r}
    /\ UNCHANGED <<orderVars, payments, charges, pct, calls, settlements, lines, flagged, job, tasks, worker,
                   historyVars>>

Issue(s) ==
    /\ settlements[s].status = "draft" /\ MayAsk(s)
    /\ settlements' = [settlements EXCEPT ![s].status = "issued"]
    /\ flagged' = [flagged EXCEPT ![s] = FALSE]
    /\ early' = IF \E t \in UnderWayTasks : t.op = "generate" /\ t.settlement = s
                THEN early \cup {s} ELSE early
    /\ UNCHANGED <<orderVars, payments, charges, pct, calls, lines, job, sending, tasks, worker,
                   repeated, contested>>

\* MUTANT: only the states of jobs that ended expire.
ExpireEndedJob(s) ==
    /\ job[s] \notin Busy \cup {"none"}
    /\ job' = [job EXCEPT ![s] = "none"]
    /\ UNCHANGED <<orderVars, payments, charges, pct, calls, settlements, lines, flagged, sending, tasks, worker,
                   historyVars>>

\* Job states live 24 hours, and no longer than Redis does.
ExpireJob(s) ==
    /\ job[s] # "none"
    /\ job' = [job EXCEPT ![s] = "none"]
    /\ UNCHANGED <<orderVars, payments, charges, pct, calls, settlements, lines, flagged, sending, tasks, worker,
                   historyVars>>

-----------------------------------------------------------------------------
(* Workers.  phase: "started", then "read", then "applied" or "failed";    *)
(* lines and regenerated are what was computed from the rows read.         *)

In(w, phase) == worker[w] # Idle /\ worker[w].phase = phase
Of(w) == worker[w].task.settlement

Start(w, t) ==
    /\ worker[w] = Idle /\ t \in tasks
    /\ tasks' = tasks \ {t}
    /\ job' = [job EXCEPT ![t.settlement] = "processing"]
    /\ worker' = [worker EXCEPT ![w] = [phase |-> "started", task |-> t, lines |-> {}, regenerated |-> 0]]
    /\ UNCHANGED <<orderVars, payments, charges, pct, calls, settlements, lines, flagged, sending,
                   historyVars>>

\* The settlement is gone: nothing is done and the job stays as it was marked.
Skip(w) ==
    /\ In(w, "started") \/ (In(w, "read") /\ worker[w].task.op = "regenerate")
    /\ ~Exists(Of(w))
    /\ worker' = [worker EXCEPT ![w] = Idle]
    /\ UNCHANGED <<orderVars, payments, charges, pct, calls, settlements, lines, flagged, job, sending, tasks,
                   historyVars>>

\* The calculation of v is to deduct o too, or to replace the lines of s.
Contends(v, o, s) ==
    /\ In(v, "read")
    /\ o \in RepairsIn(worker[v].lines) \/ (worker[v].task.op = "regenerate" /\ Of(v) = s)

(* A generation looks only for repairs not yet in a settlement and adds    *)
(* its lines to those there are; a regeneration also takes the repairs     *)
(* already in this settlement and replaces the lines.                      *)
Read(w) ==
    LET s == Of(w)
        row == settlements[s]
        again == worker[w].task.op = "regenerate"
        rate == EffectiveRate(s, worker[w].task.rate)
        batch == IF again \/ lines[s] = {} THEN 1 ELSE 2
    IN
    /\ In(w, "started") /\ Exists(s)
    /\ HasUSD(SettledPayments(row.period)) => rate # NoRate
    /\ worker' = [worker EXCEPT ![w].phase = "read", ![w].regenerated = row.regenerated,
          ![w].lines = CalculatedLines(IF again THEN s ELSE NoSettlement, row.period, CommissionPct(s), rate, batch)]
    /\ contested' = contested \cup {o \in RepairsIn(worker'[w].lines) :
                                       \E v \in Workers \ {w} : Contends(v, o, s)}
    /\ UNCHANGED <<orderVars, payments, charges, pct, calls, settlements, lines, flagged, job, sending, tasks,
                   early, repeated>>

ClearLineItems(S) == {}

Stamped(S, s) == [o \in Orders |-> IF o \in S THEN [orders[o] EXCEPT !.settled = s] ELSE orders[o]]

ApplyCalculation(w) ==
    LET s == Of(w)
        new == worker[w].lines
    IN
    /\ In(w, "read") /\ worker[w].task.op = "generate" /\ Exists(s)
    /\ settlements' = [settlements EXCEPT ![s].totals = TotalsOf(new)]
    /\ lines' = [lines EXCEPT ![s] = @ \cup new]
    /\ orders' = Stamped(RepairsIn(new), s)
    /\ worker' = [worker EXCEPT ![w].phase = "applied"]
    /\ UNCHANGED <<quotes, payments, charges, pct, calls, flagged, job, sending, tasks,
                   historyVars>>

\* updated_at is set, which clears the flag.
ApplyRegeneration(w) ==
    LET s == Of(w)
        new == worker[w].lines
    IN
    /\ In(w, "read") /\ worker[w].task.op = "regenerate" /\ Exists(s)
    /\ settlements' = [settlements EXCEPT ![s].totals = TotalsOf(new),
                          ![s].rate = EffectiveRate(s, worker[w].task.rate),
                          ![s].regenerated = worker[w].regenerated + 1]
    /\ lines' = [lines EXCEPT ![s] = ClearLineItems(@) \cup new]
    /\ orders' = Stamped(RepairsIn(new), s)
    /\ flagged' = [flagged EXCEPT ![s] = FALSE]
    /\ worker' = [worker EXCEPT ![w].phase = "applied"]
    /\ UNCHANGED <<quotes, payments, charges, pct, calls, job, sending, tasks,
                   historyVars>>

Report(w) ==
    /\ In(w, "applied")
    /\ job' = [job EXCEPT ![Of(w)] = "completed"]
    /\ worker' = [worker EXCEPT ![w].phase = "reported"]
    /\ UNCHANGED <<orderVars, payments, charges, pct, calls, settlements, lines, flagged, sending, tasks,
                   historyVars>>

\* The exports are written in between; a failure of theirs is only logged.
Acknowledge(w) ==
    /\ In(w, "reported")
    /\ worker' = [worker EXCEPT ![w] = Idle]
    /\ UNCHANGED <<orderVars, payments, charges, pct, calls, settlements, lines, flagged, job, sending, tasks,
                   historyVars>>

\* Any exception of the calculation, a dollar payment without a rate included.
Fail(w) ==
    /\ (In(w, "started") /\ Exists(Of(w))) \/ In(w, "read")
    /\ job' = [job EXCEPT ![Of(w)] = "failed"]
    /\ worker' = [worker EXCEPT ![w].phase = "failed"]
    /\ UNCHANGED <<orderVars, payments, charges, pct, calls, settlements, lines, flagged, sending, tasks,
                   historyVars>>

\* MUTANT: a regeneration that failed deletes it too.
CleanUpAlways(w) ==
    LET s == Of(w)
        deleted == \A o \in Orders : orders[o].settled # s
    IN
    /\ In(w, "failed")
    /\ settlements' = IF deleted THEN [settlements EXCEPT ![s] = NoRow] ELSE settlements
    /\ lines' = IF deleted THEN [lines EXCEPT ![s] = {}] ELSE lines
    /\ flagged' = IF deleted THEN [flagged EXCEPT ![s] = FALSE] ELSE flagged
    /\ worker' = [worker EXCEPT ![w] = Idle]
    /\ UNCHANGED <<orderVars, payments, charges, pct, calls, job, sending, tasks,
                   historyVars>>

(* A generation that failed deletes the settlement, whatever its status,   *)
(* unless a work order refers to it (foreign key).                         *)
CleanUp(w) ==
    LET s == Of(w)
        deleted == worker[w].task.op = "generate" /\ \A o \in Orders : orders[o].settled # s
    IN
    /\ In(w, "failed")
    /\ settlements' = IF deleted THEN [settlements EXCEPT ![s] = NoRow] ELSE settlements
    /\ lines' = IF deleted THEN [lines EXCEPT ![s] = {}] ELSE lines
    /\ flagged' = IF deleted THEN [flagged EXCEPT ![s] = FALSE] ELSE flagged
    /\ worker' = [worker EXCEPT ![w] = Idle]
    /\ UNCHANGED <<orderVars, payments, charges, pct, calls, job, sending, tasks,
                   historyVars>>

(* The process is lost and its task delivered again, once (a bound).       *)
(* After the commit this repeats what was done.                            *)
LoseWorker(w) ==
    /\ worker[w] # Idle /\ ~worker[w].task.redelivered
    /\ tasks' = tasks \cup {[worker[w].task EXCEPT !.redelivered = TRUE]}
    /\ worker' = [worker EXCEPT ![w] = Idle]
    /\ repeated' = IF worker[w].task.op = "generate" /\ worker[w].phase \in {"applied", "reported"}
                   THEN repeated \cup {Of(w)} ELSE repeated
    /\ UNCHANGED <<orderVars, payments, charges, pct, calls, settlements, lines, flagged, job, sending,
                   early, contested>>

-----------------------------------------------------------------------------
Init ==
    /\ InitOrders
    /\ payments = [p \in Payments |-> "none"]
    /\ charges = [m \in Periods |-> 0]
    /\ pct \in Pcts
    /\ calls = 0
    /\ settlements = [s \in Settlement |-> NoRow]
    /\ lines = [s \in Settlement |-> {}]
    /\ flagged = [s \in Settlement |-> FALSE]
    /\ job = [s \in Settlement |-> "none"]
    /\ sending = {} /\ tasks = {}
    /\ worker = [w \in Workers |-> Idle]
    /\ early = {} /\ repeated = {} /\ contested = {}

ApiStep ==
    \/ \E p \in Payments : RegisterPayment(p) \/ VoidPayment(p)
    \/ \E m \in Periods, amount \in ChargeAmounts : SetCharge(m, amount)
    \/ \E p \in Pcts : ChangeCommission(p)
    \/ \E m \in Periods, rate \in Rates \cup {NoRate} : Generate(m, rate)
    \/ \E s \in Settlement : \/ \E rate \in Rates \cup {NoRate} : Regenerate(s, rate)
                             \/ Issue(s)
    \/ \E r \in sending : MarkPending(r) \/ Send(r) \/ RequestDies(r)

WorkerStep(w) ==
    \/ \E t \in tasks : Start(w, t)
    \/ Skip(w) \/ Read(w) \/ ApplyCalculation(w) \/ ApplyRegeneration(w)
    \/ Report(w) \/ Acknowledge(w) \/ Fail(w) \/ CleanUp(w)

Next ==
    \/ WorkOrderStep \/ ApiStep
    \/ \E w \in Workers : WorkerStep(w) \/ LoseWorker(w)
    \/ \E s \in Settlement : ExpireJob(s)

Spec == Init /\ [][Next]_vars

(* A request under way goes on or dies, a worker that lives goes on and    *)
(* takes the tasks that wait, and keys outlive their jobs by 24 hours.     *)
Fairness ==
    /\ WF_vars(\E r \in sending : MarkPending(r) \/ Send(r) \/ RequestDies(r))
    /\ \A w \in Workers : WF_vars(WorkerStep(w))
    /\ WF_vars(\E s \in Settlement : ~UnderWay(s) /\ ExpireJob(s))

FairSpec == Spec /\ Fairness

-----------------------------------------------------------------------------
TypeOK ==
    /\ orders \in [Orders -> OrderRow(Settlement)]
    /\ quotes \in [Quotes -> QuoteRow]
    /\ payments \in [Payments -> {"none", "live", "voided"}]
    /\ charges \in [Periods -> ChargeAmounts \cup {0}]
    /\ pct \in Pcts /\ calls \in 0..MaxCalls
    /\ settlements \in [Settlement -> Row]
    /\ lines \in [Settlement -> SUBSET Line]
    /\ flagged \in [Settlement -> BOOLEAN] /\ job \in [Settlement -> JobStatus]
    /\ sending \subseteq [step: {"checked", "pending"}, task: Task]
    /\ tasks \subseteq Task
    /\ worker \in [Workers -> {Idle} \cup Working]
    /\ early \subseteq Settlement /\ repeated \subseteq Settlement /\ contested \subseteq Orders

(* One rate and one percentage, those in the row, are behind all of a      *)
(* settlement: the line of a payment is what was paid at that rate,        *)
(* rounded; the commission is the percentage of what was paid, to either   *)
(* side, rounded once and not line by line; the totals are those of the    *)
(* lines (RN-L01, RN-L02, RN-L05, RN-L06).  Through regenerations, at      *)
(* other rates or none, failures and redeliveries, unless two jobs of it   *)
(* ran side by side or its generation was repeated after its commit.       *)
TotalsMatchLines ==
    \A s \in Settlement \ repeated : lines[s] # {} =>
        LET row == settlements[s]
            rents == Rents(lines[s])
        IN  /\ row.totals = TotalsOf(lines[s])
            /\ \A l \in rents : l.amount = InArs(l.source, row.rate)
            /\ row.totals.commission =
                 RoundHalfEven(CommissionBase({l.source : l \in rents}, row.rate) * row.pct,
                               100 * PctScale * RateScale)

(* A repair is deducted once: in one settlement, by one line, that of the  *)
(* settlement the order says it is settled in (RN-L04).  Whatever workers  *)
(* do side by side, only a repair that two calculations had read and not   *)
(* yet written is deducted otherwise.                                      *)
RepairDeductedOnce ==
    \A o \in Orders \ contested, s \in Settlement :
        LET deductions == {l \in OfType(lines[s], "repair") : l.source = o} IN
        deductions # {} => orders[o].settled = s /\ Cardinality(deductions) = 1

(* A settled repair stays settled at its cost through every regeneration   *)
(* and failure: a closed order that had no quotes to approve afterwards    *)
(* has a line for its final cost in the settlement it refers to, with the  *)
(* exception above.                                                        *)
SettledRepairKeepsLine ==
    \A o \in Orders \ contested :
        (orders[o].settled # NoSettlement /\ \A q \in Quotes : QuoteOrder[q] # o) =>
            \E l \in lines[orders[o].settled] :
                l.type = "repair" /\ l.source = o /\ l.amount = orders[o].final_cost

(* Every job that was recorded as pending or processing is sooner or later *)
(* no longer so, and can be asked for again: whatever died on the way.     *)
JobEnds == \A s \in Settlement : (job[s] \in Busy) ~> (job[s] \notin Busy)

(* A settlement that was issued is never deleted (RN-L03), by the clean-up *)
(* of a generation that failed or otherwise, if its generation had ended:  *)
(* whatever is asked of it since, lost or delivered again.                 *)
IssuedStays ==
    [][\A s \in Settlement \ early :
          settlements[s].status = "issued" => settlements'[s].status = "issued"]_vars

-----------------------------------------------------------------------------
(* What the documents say and the code does not do.                        *)

(* A repair in a settlement is immutable: it is not reopened and its cost  *)
(* does not change (module 6, RN-04; CA-06-07).                            *)
SettledIsFinal ==
    [][\A o \in Orders : orders[o].settled # NoSettlement =>
          orders'[o].status = orders[o].status /\ orders'[o].final_cost = orders[o].final_cost]_vars

\* An issued settlement has been calculated (job_status: no key, it ended long ago).
IssuedWasCalculated == \A s \in Settlement : settlements[s].status = "issued" => lines[s] # {}

\* An issued settlement with a payment that was voided says so (CA-05-06).
VoidedIsFlagged ==
    \A s \in Settlement : settlements[s].status = "issued" =>
        \A p \in Payments : (payments[p] = "voided" /\ \E l \in lines[s] : l.source = p) => flagged[s]
=============================================================================
