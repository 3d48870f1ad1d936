# AdminProp back end: models, checks and proofs

AdminProp is the back end of a property-administration service: a FastAPI application and Celery workers
over PostgreSQL, with Redis for sessions, locks and job states. This directory is its verification project:
TLA+ modules translated from `src/src/adminprop`, TLC configurations that check them on small instances, and
theorems that TLAPS proves for every value of the constants. `PROJECT.json` is the index: which lines each
definition stands for (`map`), what each run checks (`runs`), the seeded bug each property detects
(`mutants`), what is hard to test in this code and which property watches it (`hazards`), and the
disagreements between the code and its documents that the runs exhibit (`findings`).

    tlc -workers 2 -config RentLedger.cfg MCRentLedger      # a run: MC module + cfg
    tlapm RentLedger_proofs.tla                             # the proofs of a module

## 1. The system

Paths are below `src/src/adminprop`. Every table is tenant-scoped (`organization_id`, row-level security);
a model is one organization. Transactions run at READ COMMITTED and the services take no row lock before
they read, with the exceptions named below.

| Component | State it keeps | Operations | Interacts with |
|---|---|---|---|
| payments (`modules/payments`) | `rent_periods` (amount_due, paid_total, status), `payments` (amount, voided_at, origin) | register, void, generate the month, panel, debt, receipt | contracts generate its periods; void tells settlements; everything is audited |
| contracts (`modules/contracts`) | `contracts`, `contract_adjustments` | create (with history), update, activate, terminate, delete, detect and apply adjustments, expire, debt certificate | occupies properties; creates rent periods and historical payments; notifies |
| properties (`modules/properties`) | `properties` (status, landlord, neighborhood), service accounts, neighborhoods | create, edit, set status, delete | status follows contracts; a neighborhood with properties stays |
| people (`modules/people`) | landlords (commission percentage), renters | create, edit, delete | a renter with an active contract stays; settlements use the percentage |
| maintenance (`modules/maintenance`) | `work_orders`, `work_order_quotes` | create, quote, approve, close, cancel, attach | closed landlord-paid orders enter a settlement |
| charges (`modules/charges`) | recurring charges, monthly `charge_entries` | create, switch off, load the month, correct | entries enter a settlement |
| settlements (`modules/settlements`, `workers/documents_worker.py`) | `settlements`, line items, a job status in Redis | generate, calculate (worker), issue, regenerate, export | gathers payments, charges and repairs; flagged by voids |
| administration (`modules/administracion`) | `users`, invitations, settings | invite, accept, change role, disable | sessions are revoked; the last owner must stay |
| superadmin (`modules/superadmin`) | `organizations.status`, `roles.permissions` | provision, enable, disable, re-invite | gates login and jobs; the roles' permissions go into every access token |
| auth (`modules/auth`, `shared/auth`) | refresh token families, reset tokens, lockout counters (Redis), password hashes | login, refresh, logout, forgot/reset password | organization status, audit |
| notifications (`shared/notifications`, `workers/notification_worker.py`) | `notifications` (read_at, email_sent_at), unread cache | emit (outbox), send email, retry, read | every module emits; Celery sends |
| audit (`shared/audit`) | `audit_logs` | append | every module |
| attachments and storage (`shared/attachments`, `shared/storage`) | rows and files | upload, download | work orders, properties, people |
| documents (`shared/pdf`, exports) | none | render | reads only |
| db (`db/session.py`, migrations) | constraints, RLS | transactions, tenant context, data migrations of `roles.permissions` | every repository |
| API layer (routers, schemas, `main.py`, health) | none | validate, ask for a permission, map errors | every service |

### What is hard in it

* **Check, then write, with nothing locked.** `register_payment`, `void_payment`, `apply`, `approve`, `close`,
  `cancel` and `generate` (settlements) read rows, decide, and write values computed from that read; the ORM
  then sends only the columns that differ from its own copy of the row.
* **Jobs and users.** Beat runs the monthly generation at 00:30, the detection of adjustments at 01:00 and
  expiry at 01:30; each is late-acknowledged (runs again if its worker is lost) and is not retried if it fails.
* **Outbox.** Emails are enqueued after the commit and marked sent after they were sent.
* **Releases.** Permissions live in a column that four releases wrote in three shapes and that their revisions edit.
* **Two stores.** Job states, refresh tokens and counters are in Redis, the rows in PostgreSQL, and no
  transaction spans both.
* **Long histories.** Balances, statuses, adjustment chains and monthly amounts are kept incrementally; a
  wrong step shows many operations later.

### What makes each component right

* Ledger: `paid_total` is the sum of the live payments and never exceeds `amount_due`; `status` follows it; a
  certificate of no debt is true; payments are immutable but for one void; loaded history stays paid.
* Contracts: no two active contracts of a property overlap; the amount in force is what the applied
  adjustments say; adjustments form a chain; a period's amount is never one that came later and is frozen;
  a deleted contract is left alone; a contract past its end stops being active; property status follows.
* Settlements and work orders: a payment, charge or repair is settled once; an issued settlement whose
  payments were voided says so; a work order has one approved quote and is not settled twice.
* Notifications: every notification's email is eventually sent or given up, and sent once unless a worker died
  or a process stopped before enqueueing it; the unread badge comes back to the rows.
* Sessions and membership: a refresh token is used once, reuse kills the family, a disabled user or
  organization gets no new session; an organization keeps an owner.
* Credentials: a counted number of wrong passwords before the lock; a reset token changes one password once.
* Permissions: each role may call what the documents' matrix says, and no upgrade takes anything away.
* Register: names are unique, deleted rows stay deleted, what is referred to is there, and the audit of the
  percentages, landlords and amounts that decide who is paid tells how the column came to its value.

## 2. Modules

| Module | Models | Checked by |
|---|---|---|
| `RentLedger` | The ledger with every operation of the payments service (and what contracts does to its rows) as one step. It is the abstract specification. | `MCRentLedger`, run `ledger`; proofs in `RentLedger_proofs` |
| `RentLedgerTx` | The same service as transactions: read, compute, UPDATE, INSERT, commit or roll back, each a step, with row locks from UPDATE to commit and the ORM's column-wise flush. | `MCRentLedgerTx`, runs `tx_*`; proofs in `RentLedgerTx_proofs` |
| `ContractLifecycle` | Contracts, adjustments, property status, the amounts and months charged, the calendar and the three Beat jobs. Jobs list, then write; applications read, select, then write. | `MCContractLifecycle`, runs `schedule`, `occupancy`, `schedule_pending_month`; proofs in `ContractLifecycle_proofs` |
| `WorkOrders` | Work orders and their quotes, each handler one step. | through `Settlements` and `WorkOrdersTx` |
| `WorkOrdersTx` | The same handlers as transactions: what each read, the columns it flushes, row locks, the unique index. Implements `WorkOrders`. | `MCOrganization`, run `organization`; proofs in `Settlements_proofs` |
| `Settlements` | The settlements of a landlord: requests, documents worker, job states in Redis, and what they read changing meanwhile. Composes `WorkOrders`. | `MCSettlements`, runs `settle`, `settle_inputs`, `settled_reopened`; proofs in `Settlements_proofs` |
| `Notifications` | The rows an operation inserts in its transaction, the panel, and the unread count in Redis. | through `EmailOutbox` |
| `EmailOutbox` | The email tasks: enqueueing after the commit, the row lock, retries, lost workers; and the transactional emails. Composes `Notifications`. | `MCEmailOutbox`, run `outbox`; proofs in `EmailOutbox_proofs` |
| `Memberships` | The organization's status, its members and their roles, the invitations. | through `Sessions` |
| `Sessions` | Refresh tokens in Redis and the requests that issue, rotate and revoke them. Composes `Memberships`. | `MCOrganization`; proofs in `Sessions_proofs` |
| `Credentials` | The lockout after failed logins and the tokens that reset a password, each Redis command a step. | `MCOrganization`; proofs in `Access_proofs` |
| `Endpoints` | Every endpoint and the permission it asks for; what a set of permissions can call. | through `Permissions` |
| `Permissions` | The roles' permissions through four releases, their revisions and the way back. Composes `Endpoints`. | `MCOrganization`; proofs in `Access_proofs` |
| `Registry` | Landlords, renters, neighborhoods, properties, service accounts, charges and their entries under overlapping requests, with the audit trail. | `MCOrganization`; proofs in `Registry_proofs` |

### RentLedger

State: a `rent_periods` row per (contract, month), a `payments` row per identifier, `contract_deleted`, and
the set of audit entries. `RegisterPayment` and `VoidPayment` are `PaymentService.register_payment` and
`void_payment` whole: checks in their order, the payment row, the balance and status, the audit entries.
`GeneratePeriod` is `insert_pending` as the monthly job, the activation hook and the adjustment hook reach it
(`ON CONFLICT DO NOTHING`); `LoadHistory` is one month of `generate_initial_load_history`; `DeleteContract` and
`IssueDebtCertificate` are the two contract operations that read or write what the ledger depends on. `ContractDebt`
is the debt query: it goes by the status column, and a deleted contract has none whatever it left unpaid
(`DebtIsUnpaidCapital` speaks of the others). Amounts
are small integers: the service's arithmetic on them is addition, subtraction and comparison, which do not
depend on the two decimals of the columns. Suggested interest is reduced to whether some of it was forgiven
(that decides an audit entry); its formula is in the plan.

### RentLedgerTx

`RegisterRead` / `RegisterWrite` / `RegisterCommit` and `VoidCheck` / `VoidRead` / `VoidWriteRow` /
`VoidWritePayment` / `VoidCommit` are the statements of the two handlers between which another transaction can
commit. `obj` is the session's copy of the row (SQLAlchemy's identity map does not re-read it), `plan` what
the handler computed, `dirty` whether the flush has anything to send: `Flushed` sends only the columns in
which `plan` and `obj` differ, on top of whatever the row has become. `RowLocked` and `PaymentLocked` are
PostgreSQL's row locks, external to the code. `Rollback` may end a request at any point. `OneAtATime` is the
hypothesis under which the service is the abstract ledger: no request starts on a period on which another
is under way.

### ContractLifecycle

Days are numbers, months have `DaysPerMonth` days. `Create` takes `Terms` and, as the body allows, the raises
declared for the windows gone by (`historical_amounts`) or for one month (`current_amount_since`), and loads the
past months with `AmountInMonth`, the model of `compute_monthly_amounts`. `ContractAdjustmentService.apply` is three
steps: `ApplyRead` (the adjustment is found pending), `ApplySelect` (its contract is selected, with `deleted_at` NULL,
or the request ends in `ApplyDrop`) and `ApplyCommit` (both rows, by id, and the month's period). At most `MaxApplying`
are under way at once. A job is two steps: `StartJob` runs its query, and `listed` keeps the contracts it found with
the amount each had, as the session does; `RunJob` writes by that list, whatever has become of the contracts since
(`GenerateRentPeriods`, `DetectDueAdjustments`, `DetectExpiringContracts`; the pending adjustments that hold a month
back, and whether an adjustment is there already, are looked up at the write). It either acknowledges the job or
leaves it to be delivered again; `LoseJob` is a run that died before its commit: one that raised is not retried, one
whose worker was lost is delivered again. `overlapped` is a history variable: the contracts an application of which met
another, or met the detection job that had listed them. `NextDay` needs the day's jobs to be over: a backlog of more
than a day is not modelled.

### WorkOrders, WorkOrdersTx and Settlements

In `WorkOrdersTx` a handler is a read (`ReadsClosable`, ...) that decides, and later its writes: `FlushOrder`
sends the columns in which what is planned differs from what was loaded. Approving is `LocksQuote` (the UPDATE
locks the row), `EntersIndex` (the partial unique index: an uncommitted entry of the same order is waited for, a
committed one is a violation that the service does not catch), `DiscardsOthers` and `CommitsApproval`.
`RollsBack` is a lost process or PostgreSQL's way out of a deadlock. `serial` is whether requests are kept from
overlapping: then the handlers are shown to be those of `WorkOrders` (`ImplementsOrders`), which `Settlements`
composes. `WorkOrders` has the five state-changing handlers of `modules/maintenance/service.py`; `Settlements`
adds the payments, charge and percentage of the landlord's months, and the settlement pipeline. A `Generate` or
`Regenerate` request is its checks (and for `Generate` the committed row), then `MarkPending` and `Send`, any of
which `RequestDies` may prevent. A worker's task is `Start` (job `processing`), `Read` (the three queries and
`calculate_settlement`), `ApplyCalculation` or `ApplyRegeneration` (one transaction), `Report`, `Acknowledge`;
or `Fail` and, in a second transaction, `CleanUp`. `LoseWorker` hands the task to another delivery, once per
task. `CalculatedLines` and `TotalsOf` are the formula of `calculate_settlement`, half-even rounding included.
`completed` stands for `completed` and `with_errors`, which no decision tells apart. The `needs_regeneration`
flag, derived in the code from audit entries later than `updated_at`, is the set-and-cleared `flagged`. The
landlord's months are past, so the future-month check always passes.

A dollar payment is converted at the row's rate; its line is what that comes to, rounded, and the commission is taken
on what was collected and already settled before that rounding (`InArs`, `CommissionBase`), rounded once. Rates and
percentages are integers over `RateScale` and `PctScale`. A body's rate is taken to have no more decimals than the
column keeps: `schemas.py:46` and `:189` bound none, and a rate with a fifth decimal would be calculated with and
kept rounded.

Nothing is assumed of the workers or of the job states: `docker-compose.yml:129` starts as many processes as there
are cores, a task may be delivered again after its commit, and the key in Redis is late, absent or expired whenever
the code leaves it so. What these do is recorded in three history variables, and each property excepts those: `early`
(issued with its generation under way), `repeated` (asked for again beside a job of its own, or generated again after
the commit) and `contested` (a repair that two calculations had both read before either wrote).

### Notifications and EmailOutbox

An event is one business operation: `Emit` inserts a row per recipient and deletes their keys from Redis inside
the transaction, `Commit` or `Abort` ends it, and the process then calls `Enqueue` once per row unless it dies
(`Abandon`). The recipients are any set of users: which roles an event goes to decides nothing here. On a
cache miss the panel counts (`CountUnread`) and later sets (`SetCount`); `MarkRead` and `MarkAllRead` are the
committed update, `Invalidate` the deletion after it. Keys expire at any time.

`queue` counts the messages of each mail and retry count. A task is `Take` (with the row's lock, or nothing to
do), `Accepted` (the provider has the email), `MarkSent` (the commit), `Acknowledge`; or `Retry`, a new message
with the next count, `GiveUp`, or `Crash`, any exception the task does not catch. `Retry`, and the dead letter of the
last attempt, come after `Accepted` too: a client timeout says nothing of what the provider did (`email/sender.py:70`),
and the email is sent again. `LoseWorker` puts the message back as it was. Letters are the transactional
emails, which have no row and hence no lock; each stands for one `send_transactional_email.delay`.
`copies` is a history variable: emails accepted whose acceptance is or may yet be recorded.

### Memberships and Sessions

A request of `modules/administracion` or `accept_invitation` is two steps: what it reads and decides on
(`Begin...`), and its writes with the commit; the updates have no condition on what was read, so they fall on
whatever the row has become. Two handlers lock: the owners' rows are locked from their count to the commit and
read again once released, so that counting and writing is one step (`AnotherOwner` in `ChangeRole` and
`Deactivate`), and so is a reissue of the owner's invitation (`ResendOwner`). `Disable` and `Enable` are one step
each: an update that comes late changes nothing that the check would not have let through. Nothing makes an
owner but an owner's invitation: both schemas admit `admin` and `maintenance` only, and these two are one role here.
Who has been an owner keeps the permission in the access token. An expired invitation is one that nobody
accepts. `Accept` is the transaction of `accept_invitation`; the key of `organization_members` refuses a second
membership.

`tokens`, `familyKey` and `userFamilies` are the three kinds of key of `RefreshTokenStore`, a token being known by
its place in the order of issue and a family by its first token. Every Redis command, or `MULTI`, is a step:
issuing is `IssueFamily` then `Index`; `refresh` is `TakeToken` (or `Replay`, a token used before), `Mark`, `Rotate`
and, only then, the membership in `Check`; a revocation is `ListFamilies`, for each family `ReadMembers`,
`DeleteTokens` and `DeleteFamily`, and `ForgetFamilies`. `Leave` may end a request at any point. `forked` and
`unlisted` are history variables: the families with a token rotated by two requests at once, and those dropped
from the lists by which a revocation would find them; `alone`, in a request, is whether it overlapped no
other about the same person.

### Credentials

`failures`, `expiring` and `lock` are the two keys of `shared/auth/lockout.py`: a login is `CheckLock`,
`WrongPassword` or `RightPassword`, `CountFailure` (`INCR`), then `ExpireCounter` on the first, `SetLock` and
`ForgetFailures` on the last. `WindowEnds` and `LockEnds` are times to live. A reset is `ReadReset` and `DeleteReset`
(two commands), `JudgeReset` (late or not), `SavePassword`. Losses may come between any two commands. `answered`,
`uses` and `overlapped` are history variables.

### Endpoints and Permissions

`Endpoints` is the table of the routers; `Callable` what a set of permissions lets through, the permissions asked of a
single column of a body (`FieldPermissions`) included. `Permissions` follows the column that holds them. A
`Column` is an array, or a string that was dumped as JSON twice, or an array with such strings in it: releases before
the third wrote it doubly, and the revisions that add a permission concatenate to whatever they find.
`ParsePermissions` is how a token reads each of them. `Deploy` installs the next release, `AddSetCommission`,
`AddTerminate`, `NormalizeColumns` and `AddDelete` are the revisions, and `Remove...` and `KeepNormalized` take them
back; organizations are created at any moment, with the catalogue and the shape of the release that runs.

### Registry

One shape serves all the handlers of `people`, `properties` and `charges`: `Insert` and `Update` read and decide
(`Begins`), `SelectAgain` is the repository's second select, which finds the object the session has, and `Flush` or
`FlushInsert` writes the columns that differ, against the unique indexes, with the audit entry in the same
transaction. The percentage of a landlord is the exception: the service reads it as a bare column, so that the object
is loaded by the second select. `overlaps` is chosen once: properties that need requests one at a time say so.
`trail` is the audit as the viewer shows it, by `created_at`, which is the start of the transaction and not its
write: an entry keeps how many of the row's audits were committed when its transaction began (`Began`; with overlap,
any number up to those there are when it reads), and goes where that puts it (`Places`).
`rented` is what contracts contribute: activating one looks at neither property nor renter again.

### MCOrganization

The components of this run write no table and no key of one another, so a behaviour of them all is one behaviour of
each: `part` says which runs. They share model values (two people are also two percentages and two quotes), which
keeps the group of symmetries small.

## 3. Runs and bounds

* `ledger`: two months, three payments, amounts up to 3. Three payments of one month exercise none, partial,
  exact and refused balances, voids in any order and payment after void; the second month, history beside
  current. 19,344 states, exhaustive.
* `tx_serial`: two months, three requests, `OneAtATime`: TLC checks `RentLedgerTx` implements `RentLedger` with
  requests dying at every step.
* `tx_concurrent`: three requests on one month, every interleaving: two are enough for a lost update, the
  third observes or compounds it. What is checked is what holds in spite of the races (the capital stays within
  bounds, loaded history stays paid), and that no request waits for ever.
* `tx_lost_update`: exhibits a disagreement (section 6).
* `schedule`: one contract, days 2 to 4 of months of two days, amounts 1 and 2, adjusted every month since day 0 or
  not at all; two applications under way at once; every order of calls, lists and writes, lost and redelivered jobs.
  Starting in the second month gives an adjustment declared at creation, one in time and a late one; two
  applications and a job give every overlap of two. 3,536,370 states.
* `occupancy`: two contracts of one property over four days, extended or shortened to every end, with lost
  jobs: the shortest calendar with two disjoint ranges that an extension makes meet. The expiry job's list and
  its writes have every operation between them. 751,238 states.
* `schedule_pending_month`: as `schedule`, for one statement of the documents that does not hold.
* `settle`: two months, one repair without quotes, two workers, two requests; late and absent job states, deliveries
  before and after a commit. Two requests give two settlements competing for one repair, one generated and
  regenerated, or one task twice; payments, which change nothing of this, are left to the next run. With fairness.
  758,679 states.
* `settle_inputs`: one month, two requests, one worker, a percentage of 10 or 20, a charge, an order with a quote (the
  totals must be those of an order whose cost changes with the quote approved) and a payment of 2 dollars, at no rate or
  at 7.3: its line is of 15 and its 10% of 14.6 is 1.46, while 10% of the line would be a tie.
  The run regenerates with and without the rate. 8,499,220 states.
* `settled_reopened`: one order with one quote and one settlement, for one statement of the documents.

* `outbox`: one event, one user, one letter, two workers, one retry, one lost worker, one dying request. Two
  workers and a loss give two tasks of one row at once, one retry gives both a retry and a dead letter, and one
  row is enough for a stale count. The bound on a letter's copies is reached with no worker lost, by the retry, and with
  one. 968,716 states; deadlock is checked.

* `organization`: two overlapping requests in each of five parts, 4,068,219 states together.
  *Sessions*: two people, and three invitations with no token, two with one token, or one with two tokens in any
  families or three of one (`MCSizes`). Two invitations give two of one email or two owners at once; the third, a
  member's invitation sent again; two tokens, two sessions or a rotation; three, a rotation after another.
  *Credentials*: three attempts before the lock, two reset tokens, two losses: a counter left without time to live,
  and a lock set beside a success. *Permissions*: one organization that may be created before, one after any
  revision, three revisions taken back. *Registry*: a property that may change landlord; neighborhoods renamed and
  deleted around one property; what hangs from a property; a charge with an entry and one of a month to come
  (`MCScopes`); two audited changes, overlapping or in a row. *Work orders*: one order, two quotes, so that approvals compete for the index and for each other's rows.

Elsewhere deadlock is not checked: when every request is used, every contract is deleted or every token issued, the
modelled system may stop. Every bound is a constant of the `.cfg` files; the theorems have none.

### Fairness

`RentLedgerTx!FairSpec`: weak fairness of each request's next step, for the event loop and PostgreSQL run what
can run; requests need not arrive and may die. `ContractLifecycle!FairSpec`: days follow one another; a queued
job is run or lost (weak); the expiry job is not lost every day for ever, before its list or after it (strong),
which is what a daily schedule amounts to. `Settlements!FairSpec`: a request under way goes on or dies, a worker
that lives goes on and takes waiting tasks, and Redis keys expire (their 24 hours outlast any task).
`EmailOutbox!Fairness`: a worker takes waiting messages and goes on with its task, a reader sets what it
counted, a marking deletes the key, and keys expire; processes that enqueue may stop for ever. Nobody is assumed
to call the API. The parts of `organization` state safety only, under no fairness.

## 4. What is proved

| Theorem | Says |
|---|---|
| `RentLedger_proofs`: `TypeCorrect`, `Balanced`, `StatusCorrect`, `HistoryIsFinal`, `CertificateTruthful`, `Immutability` | every property of run `ledger`, the truth of a certificate by `DebtIsUnpaidCapital`, and that rows are typed, loaded history is final and payments immutable, for any periods, contracts, finite set of payments and bound on amounts |
| `RentLedgerTx_proofs`: `TypeCorrect`, `CapitalBounded`, `HistoryIsFinal` | the safety properties of `tx_concurrent`, and typing, for any number of requests and any interleaving |
| `RentLedgerTx_proofs`: `Refinement` | if requests on a period do not overlap, the transactions implement `RentLedger` |
| `EmailOutbox_proofs`: `OutboxTyped`, `EmailSentOnce`, `EmailNotForgotten`, `LettersRarelyRepeatHolds` | the invariants of `outbox` (a letter is delivered once per attempt of a message, and as many times again for each worker lost, at most), and typing, for any number of events, users, workers, retries and losses |
| `ContractLifecycle_proofs`: `LifecycleTypeCorrect`, `NoActiveOverlapHolds`, `RentedHasActiveHolds`, `DeletedStaysSilentHolds`, `PendingHoldsPeriodBackHolds` | whatever overlaps and whatever jobs are lost, late or repeated: typing, no two active contracts of a property overlap, a rented property has one, no job lists and no application selects a deleted contract, of which nothing changes once those that had are over, and a pending adjustment holds its month back: for any contracts, terms and calendar |
| `ContractLifecycle_proofs`: `AdjustmentsChainHolds`, `AmountFollowsAdjustmentsHolds`, `PastMonthsFrozenHolds` | charged months keep their amount; and of every contract no application of which overlapped another or the detection job, adjustments form a chain, the amount in force is what they say, and applied ones stay |
| `Settlements_proofs`: `OrdersTypeCorrect`, `OneApprovedQuoteHolds` | for any orders, quotes and interleaving of requests: typing, and an order has one approved quote at most, its own; one request at a time, none is left submitted beside it |
| `Settlements_proofs`: `SerialRequestsImplementOrders` | if requests do not overlap, the transactions implement `WorkOrders` |
| `Settlements_proofs`: `SettlementsTypeCorrect` | rows, lines, tasks and what workers hold are well typed, for any constants |
| `Settlements_proofs`: `RepairDeductedOnceHolds`, `SettledRepairKeepsLineHolds` | with any number of workers, whatever is lost, delivered again or asked for on a late or absent job state: a repair that no two calculations had read at once is deducted by one line, of the settlement its order names, and a settled repair keeps its line |
| `Settlements_proofs`: `IssuedStaysHolds` | likewise: a settlement issued once its generation had ended is not deleted |
| `Settlements_proofs`: `TotalsMatchLinesHolds` | likewise: of a settlement that was not asked for again beside its own job or generated twice, lines are at the row's rate, the commission is that of its percentage on the unrounded base, rounded half to even, and totals are those of the lines |
| `Settlements_proofs`: `RoundsToNearest` | rounding is to the nearest unit, ties to the even one, for any dividend and divisor |
| `Registry_proofs`: `RegistryTypeCorrect`, `UniqueNamesHolds`, `NeighborhoodStaysHolds`, `TrailEndsInCurrentHolds`, `DeletedStaysDeletedHolds` | the properties of the register in run `organization`, and typing, for any rows, values and number of requests |
| `Sessions_proofs`: `SessionsTypeCorrect`, `OwnerRemainsHolds`, `JoinsOnceHolds`, `NoTokenRevivesHolds`, `OneGoodTokenHolds`, `RevocationReachesAllHolds` | the properties of members and sessions in run `organization`, and typing, for any people, invitations, tokens and requests |
| `Access_proofs`: `PermissionsTypeCorrect`, `RolesCorrect`, `MatrixCorrect`, `AccessKept` | columns are of the three shapes; whenever the release in `src/` runs with its revisions applied, every role reads as the catalogue and may call what the matrix says; no upgrade takes a permission away: for any organizations and any number of revisions taken back |
| `Access_proofs`: `CredentialsTypeCorrect`, `ResetsUsedOnce`, `GuessesLimited` | a reset token that no two requests read at once changes one password at most; the wrong passwords answered without a lock stay below the maximum and the requests in progress: for any numbers of attempts, requests, tokens and losses |
| `RentLedger_proofs`: `SumProperties`, `SumAdd`, `SumDrop` | a sum over a finite set changes by what is added or dropped |

The inductive invariant of the ledger, `LedgerInv`, says of each period that `paid_total` is the sum of its
live payments, that the sum is within `amount_due` and that `status` is the one the sum calls for, and of each
payment that it has an amount and a period that exists and, if it is of the initial load, that it is the only
live one of a period paid in full. `LedgerBalanced` alone is not inductive: a void must find the amount it
takes off inside the sum, and a payment must find the status that lets it in. The sum is
`SumFunctionOnSet` of the community modules, which takes indices out in an order of its choosing; `RentLedger_proofs`
shows that any index can be taken out first, by minimal counterexample over the subsets of a finite set (the
library's induction schemas cannot be instantiated with the provers at hand).

Of the transactions, `TxInv` (any interleaving) keeps what a request read within the bounds it needs:
a session's copy and its plan are each within `0..amount_due`, amounts do not exceed what was read, and
periods of the initial load are never in a plan. `SerialInv` adds, under `OneAtATime`, that the copy of a
request under way is the row itself, which makes its commit the abstract step. Assumptions are the named
`ASSUME`s of the modules: the shape of the constants and that payments are finitely many.

Of the outbox, `OutboxInv` adds to the three properties that a row is locked by one task at most and by none
once its email is recorded (`RowLock`), that what is being sent is committed, and that a recorded email has
ended. `NothingForgotten` counts only messages and tasks that hold the lock: a task that found the row locked
is then seen to return without harm. `LettersInv` counts, for a letter, the copies made with the attempts that its
messages and tasks have left (`Weight`): together they are within those of one message, and as many for each worker lost
(`CopiesToCome`). The messages are counted as a set of pairs, retry count and place, each with an attempt for
every count from its own on, so that sending and taking add and remove a known number. A letter that was sent is
held or has ended (`SentIsHeld`), without which it could be posted again.

Of the permissions, `RolesInv` says that an owner has at least what the revisions applied so far have brought
(`Due`), that the other two roles never change what they read as, and that from the third revision on an owner's
column is an array, without which the fourth would skip it. The first part alone is not inductive for that reason.
`MatrixCorrect` then needs what the three catalogues can call, which is shown router by router (`RoutersAgree`).

Of the credentials, `ResetsInv` says of a token that no two requests read at once that it is used at most once, not at
all while its key is there or a request works on it, and that one request at most does. `GuessesInv` bounds the wrong
passwords answered together with those counted first and not answered yet (`Expiring`) by the counter as far as it can
go without a lock (`Unlocked`) and the number of requests: a counter may be deleted while as many are under way.

Of the contracts, `LifecycleInv` adds to typing and the two properties of occupancy that a contract not created yet
has no adjustment and no month and is neither listed nor selected (`AbsentClean`), that nothing pending, applied or
being applied is of a month to come (`AdjustedByToday`), and that only a job under way has a list, which for the
detection is of contracts that are adjusted (`ListingInv`). A day passes only when the day's jobs are over, which is
why the next month finds the ranges as they were. `DeletedStaysSilent` is a step property: the lists and
selections of a deleted contract only shrink, and when there are none the step leaves it as it was. `ChainInv` is of the
contracts that are not `overlapped`: an application then writes on an adjustment that is still pending, and the
detection on the amount it listed. Without that exception TLC refutes it (section 6).

Of the work orders, `OrderTxInv` relates an approval in progress to its order: what it read had no approved quote
(`OfUnapproved`), and once it is in the unique index no other request is, for that order (`EntryAlone`), so that the
quote it writes into the order is the one approved. Without the index entry the read alone would not be enough: two
approvals may read the same order. `SerialOrders` adds, for requests one at a time, that what a request read is what is
there, which makes its commit the step of `WorkOrders`.

Of settlements, `RepairsInv` says that the settlement of a line for a repair is the one in its order
(`LinesTellOrders`), that an order without quotes is settled only while it is due (`SettledIsDue`), that what a worker has
read and not written still `Stands` but for what is contested (`ReadStands`), and that two calculations that have both
read share no repair that is not contested, and that neither replaces lines to which the other adds (`Apart`). `TasksInv`
says of each call that its request, task, workers and outcome come in that order (`CallsInOrder`), and that a settlement
with a generation under way is a draft unless it was issued `early` (`DraftUntilCalculated`): the clean-up of a
generation that failed then never finds it issued. `TotalsInv` needs that a settlement not `repeated` has one
task, in one place (`OneTask`), that it has no lines until its generation is applied, so that nothing is added to lines
that are there (`FirstLines`, `NoLines`), and that what a worker has read is by the formula at the percentage and the
rate of the row (`ReadByFormula`). Without the exceptions TLC refutes the properties (section 6). `Amount`, the sum of a
set of lines, is shown not to depend on the order in which lines are taken out (`AmountIs`, `AmountParts`), as the
ledger's sum is, so that the lines of each type of a calculation add up to the totals.

Of the register, `RegistryInv` says of every request in progress what it has read and may write (`Promised`): the row
it updates was inserted, its columns are those of the table, and what an update loaded is what it had read first, but
for landlords, and it is there still if nothing of the row was audited since its transaction began. `Alone` adds that
a request that overlaps no other still reads the same. `TrailOK` is a trail: no entry is shown before all those that
were there when it began, so that an entry which began when all the others were there is the last, and was written
last (`TrailGrows`); and an entry tells the change of the row only if the row is the one that was loaded.

Of members and sessions, `SessionsInv` has four parts beside typing. `RequestsKnown` is what a request holds between
its reads and its writes: who was read as no owner is none at the write. `RotatesAlone` says of a family of which no
token was rotated by two requests at once that one request at most rotates one, which is then its only good token
until it is marked and of which nothing is good afterwards, until its successor is. `FamiliesListed` says that a
family with a good token is in its user's list, or about to enter it, unless history says how it left (`unlisted`).
`SweepsAll` says that a revocation that nothing overlaps still has in its list every family with a good token.
`OneGoodToken` and `RevocationReachesAll` follow; neither is inductive alone, as a token marked or a family read
before the step decides what the step leaves.

The assumptions on constants are the modules' own: identifiers of different tables differ (`RegistryConstants`),
people are finitely many and no member is `None` (`MembershipConstants`), payments and orders are finitely many, there
is a month, and an idle worker has no task (`SettlementConstants`), and the shapes of the rest. No theorem has a
hypothesis of its own; the exceptions the properties make are history variables of the modules.

The type invariants that are proved are left out of the runs. Every invariant and every action property of the runs
is stated by a theorem; only model-checked are `EveryRequestEnds`, `PastEndLeavesActive`, `JobEnds`, `MailDrains` and
`BadgeSettles`, which are liveness.

## 5. Not modelled

Section 1's reads, renderings and the validation of bodies (no state); exports and the per-property view of
settlements; attachments and their storage (rows and files written once); the hashing of passwords, the super
administrators' own sessions, the throttle of requests by address, and the organization's settings, a row overwritten
whole. Columns that nothing reads back (names, contacts, addresses, account numbers) are left out of `Registry`, and
with them the two updates that write no other. An organization has at most the members of `Users` and each person
belongs to it alone. Of notifications, the roles each event goes to and the content of the emails are left out.
Overlapping work-order handlers are not composed with the settlement that stamps an order. Row-level security and
the tenant context are taken as working: a model is one organization.

## 6. Known disagreements

Exhibited by a run:

* `tx_lost_update`: two overlapping payments of a period are both accepted against one balance (RN-05).
* `schedule_pending_month`: the month of an adjustment is charged at the old amount before the adjustment is
  detected, and keeps it (RN-P01). The pending check of the generation only ever decides anything when the job
  is delivered again after its first delivery was lost.
* `settled_reopened`: approving a quote looks at the order's quotes, not at its status: an order closed at its
  own cost and settled goes back to `in_progress` at the quote's (module 6, RN-04 and CA-06-07).

Found with TLC and stated in the modules, with the change of configuration that shows them:

* `RentLedgerTx!VoidedOnce` with `OneAtATime = FALSE`: two overlapping voids both answer 200 (CA-04-07).
* `RentLedgerTx!AuditTellsTheChange` in `RentLedgerTx_serial.cfg`: the before state of `payment.voided` is read from
  the object the update has just modified, so it is the after state (RN-D04).
* `RentLedgerTx!PaidMeansReached` with `OneAtATime = FALSE`, `MaxAmount = 3`: a row ends `paid` with less than
  its amount, because the flush omits the column that did not change.
* `ContractLifecycle!RentedIffActive` in `ContractLifecycle_occupancy.cfg`: ending one of two active contracts
  of a property frees the property of the other (module 1, RF-04).
* `ContractLifecycle!ClosedGenerateNothing` in `ContractLifecycle_schedule.cfg`: applying the adjustment a
  terminated contract left pending charges it a month (RN-C05).
* `ContractLifecycle!DeletedGenerateNothing` in `ContractLifecycle_schedule.cfg`: what had listed or selected a contract
  before its deletion committed writes it all the same, a month, an adjustment or an amount (RN-C08).
* `ContractLifecycle!AdjustmentsChain` and `AmountFollowsAdjustments` without their `overlapped`: a detection that
  listed a contract before an application of its committed writes the adjustment with the old amount, and the raise
  is missing from `previous_amount`. With two applications of one adjustment the second rewrites it, and
  `PastMonthsFrozen` fails too (2.8 of the domain model).
* `ContractLifecycle!ExpiresPastEnd` in `ContractLifecycle_occupancy.cfg`: a contract extended, or terminated, between
  the expiry job's list and its writes ends `expired` (RF-03).
* `contracts/service.py:476`: activation does not look at the property again, so a draft whose property was deleted
  meanwhile becomes active; creation does look. `ContractLifecycle!Activate` has it so.
* `payments/service.py:131`: a month's generation is not repeated, so a run lost on the 1st leaves the month uncharged
  until an operation on the contract charges it, as `ContractLifecycle!LoseJob` has it.
* `Settlements!TotalsMatchLines` without its `repeated`: a generation delivered again after its commit
  adds its lines to those there are, and its totals leave out the repairs it stamped the first time
  (`docs/skills/async-worker.md` asks that reprocessing repeat no effect). Likewise a regeneration asked for
  before the state of the generation is set adds its lines first.
* `Settlements!RepairDeductedOnce` without its `contested`: two calculations side by side deduct one repair in two
  settlements (RN-L04).
* `Settlements!IssuedWasCalculated`: a settlement without a job key is taken as calculated and can be issued
  empty, when its request died after the commit (`job_status.py`).
* `Settlements!IssuedStays` without its `early`: a settlement issued before its job is marked pending, or after its
  job is marked failed, is deleted by the cleanup of the failed generation (RN-L03).
* `Settlements!VoidedIsFlagged`: a payment voided while its settlement is a draft, or between the
  calculation's read and its write, is never flagged (CA-05-06).
* `Notifications!ReadAllEmptiesBadge`, `NewNoticesCounted` in `EmailOutbox.cfg`: a count taken before the change
  is set after the key was deleted, and stays for up to five minutes (CA-NT-04; `sdd_04_nonfunctional.md` 1.4).
* `EmailOutbox!Crash`: with the provider unreachable, `httpx.ConnectError` is not the `TimeoutException` that
  `send_email` turns into a retry, so the task ends at its first attempt (CA-NT-03 says it is retried).
* `EmailOutbox!Retry` from `accepted`: a client timeout after the provider took the letter is a retry
  (`email/sender.py:70-71`), so a letter is delivered again with no worker lost.
* `EmailOutbox!Abandon`: rows whose message was not sent keep `email_sent_at` NULL and no job looks for them.
* `WorkOrdersTx!NoDeadlock` in `Organization.cfg`: two quotes of one order approved at once each wait for the other's
  row or index entry; PostgreSQL rolls one back. Without the deadlock the second meets the unique index, and that
  error is not turned into `QUOTE_ALREADY_APPROVED` (module 6, RF-03 asks for a 409).
* `WorkOrdersTx!OneApprovedQuote` without its `serial`: a quote submitted while another is being approved stays
  `submitted` beside it (RF-03).
* `Registry!LandlordStays` in `Organization.cfg`: a landlord with live properties can be deleted, because the check of
  dependencies is a stub that answers no (`people/repository.py:219`; CA-02-06, `sdd_02_domain_model.md`).
* `Registry!NeighborhoodStays` without its `~overlaps`: a property moved into a neighborhood while that one is being
  deleted keeps it.
* `Registry!TrailEndsInCurrent`, for a trail as it is shown: of two overlapping changes of one value the one that started
  later may write first, and is shown last because `audit_logs.created_at` is the start of its transaction
  (`20260814_190741`, line 56). The trail then does not end in the value of the column, and is no chain.
* `Registry!TrailEndsInCurrent` for landlords under overlap: the change is compared with the percentage read first and
  flushed against the one loaded later, so a change can go without an entry, or an entry without a change (RN-D04).
* `Registry`: two overlapping deletions of a property are both answered and both audited.
* `Credentials!ResetsOnce` without its `overlapped`: two requests that read one reset token before either deletes it
  both change the password ("de un solo uso").
* `Credentials!CounterExpires` in `Organization.cfg`: a login lost between `INCR` and `EXPIRE` leaves a counter that does
  not expire, so that failures of any age add up.
* `superadmin/provisioning.py`: `notification:read` reached the maintenance role through the catalogue alone; an
  organization created before that has no revision that adds it. `Permissions` starts after it.
* `Sessions!ActiveHasMember` in `Organization.cfg`: an organization that waits for its owner, disabled and enabled, is
  active without one, and no owner can be invited to it any more.
* `Sessions!DisabledUntilEnabled`: accepting an invitation activates a disabled organization.
* `Sessions!OnePendingEach`: two overlapping invitations of one email are both pending
  (`administracion/repository.py` states one as an invariant).
* `Sessions!RevocationComplete`: a session kept alive by refreshing for longer than a token lives since the last
  login is off the user's list, so a reset of the password misses it, with no overlap at all
  (`auth/router.py` says it revokes every session). So is one whose login died before `Index`, or overlapped it.

## 7. Plan

In order: (1) the pure computations (interest, monthly series, settlement
formula) against reference definitions; (2) overlapping work-order handlers composed with the stamping of settlements;
(3) attachments: the limit counted before the insert, and files left without a row.
