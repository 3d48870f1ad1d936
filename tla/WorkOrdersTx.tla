------------------------------ MODULE WorkOrdersTx ------------------------------
(***************************************************************************)
(* The handlers of modules/maintenance/service.py as transactions: each    *)
(* selects, decides on what it selected, and updates later.  The session   *)
(* does not read again a row that it has, and sends the columns in which   *)
(* it differs from what was read.  Approving is several updates, whose     *)
(* rows stay locked until it commits, against a unique index of approved   *)
(* quotes.  One at a time, the handlers are those of WorkOrders.           *)
(***************************************************************************)
EXTENDS WorkOrders

CONSTANTS Handlers   \* places for requests in progress

VARIABLES serial,   \* whether a request begins only when no other is in progress
          handler   \* what each request has read and is about to write

orderTxVars == <<orderVars, serial, handler>>

Resting == [at |-> "rest"]

OrderTxInit ==
    /\ InitOrders
    /\ serial \in BOOLEAN
    /\ handler = [r \in Handlers |-> Resting]

HandlersAt(step) == {r \in Handlers : handler[r].at = step}

ReadsOrder(r, request) ==
    /\ handler[r] = Resting
    /\ serial => HandlersAt("rest") = Handlers
    /\ handler' = [handler EXCEPT ![r] = request]
    /\ UNCHANGED <<orderVars, serial>>

ContinuesHandler(r, request) == handler' = [handler EXCEPT ![r] = request] /\ UNCHANGED serial

EndsHandler(r) == ContinuesHandler(r, Resting)

\* The flush of an order: the columns of plan that differ from those loaded.
FlushOrder(o, loaded, plan) ==
    orders' = [orders EXCEPT ![o] =
        [column \in DOMAIN @ |->
            IF plan[column] # loaded[column] THEN plan[column] ELSE @[column]]]

CreatesOrder(o, payer) == CreateOrder(o, payer) /\ UNCHANGED <<serial, handler>>

-----------------------------------------------------------------------------
ReadsQuotable(r, q, amount) ==
    /\ quotes[q].status = "none"
    /\ \A s \in HandlersAt("insert") : handler[s].quote # q
    /\ orders[QuoteOrder[q]].status = "open"
    /\ ReadsOrder(r, [at |-> "insert", quote |-> q, amount |-> amount])

InsertsQuote(r) ==
    /\ handler[r].at = "insert"
    /\ quotes' = [quotes EXCEPT ![handler[r].quote] =
                    [status |-> "submitted", amount |-> handler[r].amount]]
    /\ EndsHandler(r)
    /\ UNCHANGED orders

ReadsClosable(r, o, cost) ==
    LET q == orders[o].approved_quote IN
    /\ orders[o].status \in {"open", "in_progress"}
    /\ cost # NoCost \/ q # NoQuote
    /\ ReadsOrder(r, [at |-> "close", order |-> o, loaded |-> orders[o],
                 cost |-> IF cost # NoCost THEN cost ELSE quotes[q].amount])

WritesClosed(r) ==
    LET h == handler[r] IN
    /\ h.at = "close"
    /\ FlushOrder(h.order, h.loaded, [h.loaded EXCEPT !.status = "closed", !.final_cost = h.cost])
    /\ EndsHandler(r)
    /\ UNCHANGED quotes

ReadsCancellable(r, o) ==
    /\ orders[o].settled = NoSettlement
    /\ orders[o].status \in {"open", "in_progress"}
    /\ ReadsOrder(r, [at |-> "cancel", order |-> o, loaded |-> orders[o]])

WritesCancelled(r) ==
    LET h == handler[r] IN
    /\ h.at = "cancel"
    /\ FlushOrder(h.order, h.loaded, [h.loaded EXCEPT !.status = "cancelled"])
    /\ EndsHandler(r)
    /\ UNCHANGED quotes

-----------------------------------------------------------------------------
(* Approving.                                                              *)

ReadsApprovable(r, q) ==
    /\ quotes[q].status \notin {"none", "approved"}
    /\ QuotesOf(QuoteOrder[q], "approved") = {}
    /\ ReadsOrder(r, [at |-> "lock", quote |-> q, loaded |-> orders[QuoteOrder[q]], others |-> {}])

\* The rows an uncommitted approval has updated.
Locked(r) ==
    IF handler[r].at \in {"index", "discard", "progress"}
    THEN {handler[r].quote} \cup handler[r].others ELSE {}

LockedByOthers(r) == UNION {Locked(s) : s \in Handlers \ {r}}

\* UPDATE of the quote: its row is locked before the index is looked at.
LocksQuote(r) ==
    /\ handler[r].at = "lock"
    /\ handler[r].quote \notin LockedByOthers(r)
    /\ ContinuesHandler(r, [handler[r] EXCEPT !.at = "index"])
    /\ UNCHANGED orderVars

\* MUTANT: no unique index.
EntersAnyway(r) ==
    /\ handler[r].at = "index"
    /\ ContinuesHandler(r, [handler[r] EXCEPT !.at = "discard"])
    /\ UNCHANGED orderVars

\* An entry of the index of the same order is waited for until it commits,
\* and is then a violation, which nothing catches.
EntersIndex(r) ==
    LET o == QuoteOrder[handler[r].quote] IN
    /\ handler[r].at = "index"
    /\ \A s \in HandlersAt("discard") \cup HandlersAt("progress") : QuoteOrder[handler[s].quote] # o
    /\ \/ /\ QuotesOf(o, "approved") = {}
          /\ ContinuesHandler(r, [handler[r] EXCEPT !.at = "discard"])
       \/ QuotesOf(o, "approved") # {} /\ EndsHandler(r)
    /\ UNCHANGED orderVars

\* MUTANT: discard_others is not called.
DiscardsNone(r) ==
    /\ handler[r].at = "discard"
    /\ ContinuesHandler(r, [handler[r] EXCEPT !.at = "progress"])
    /\ UNCHANGED orderVars

\* Waits for rows that other approvals have locked.
DiscardsOthers(r) ==
    LET q == handler[r].quote
        others == QuotesOf(QuoteOrder[q], "submitted") \ {q} IN
    /\ handler[r].at = "discard"
    /\ others \cap LockedByOthers(r) = {}
    /\ ContinuesHandler(r, [handler[r] EXCEPT !.at = "progress", !.others = others])
    /\ UNCHANGED orderVars

\* mark_in_progress and the commit.
CommitsApproval(r) ==
    LET h == handler[r] IN
    /\ h.at = "progress"
    /\ FlushOrder(QuoteOrder[h.quote], h.loaded,
             [h.loaded EXCEPT !.status = "in_progress", !.approved_quote = h.quote,
                              !.final_cost = quotes[h.quote].amount])
    /\ quotes' = [q \in Quotes |->
                    IF q = h.quote THEN [quotes[q] EXCEPT !.status = "approved"]
                    ELSE IF q \in h.others THEN [quotes[q] EXCEPT !.status = "discarded"]
                    ELSE quotes[q]]
    /\ EndsHandler(r)

\* The process is lost, or PostgreSQL breaks a deadlock: two approvals of one
\* order, each waiting for what the other has.
RollsBack(r) ==
    /\ handler[r] # Resting
    /\ EndsHandler(r)
    /\ UNCHANGED orderVars

-----------------------------------------------------------------------------
OrderTxNext ==
    \/ \E o \in Orders, payer \in {"landlord", "agency"} : CreatesOrder(o, payer)
    \/ \E r \in Handlers :
         \/ \E q \in Quotes, amount \in Costs \ {0} : ReadsQuotable(r, q, amount)
         \/ \E o \in Orders, cost \in Costs \cup {NoCost} : ReadsClosable(r, o, cost)
         \/ \E o \in Orders : ReadsCancellable(r, o)
         \/ \E q \in Quotes : ReadsApprovable(r, q)
         \/ InsertsQuote(r) \/ WritesClosed(r) \/ WritesCancelled(r)
         \/ LocksQuote(r) \/ EntersIndex(r) \/ DiscardsOthers(r) \/ CommitsApproval(r)
         \/ RollsBack(r)

OrderTxSpec == OrderTxInit /\ [][OrderTxNext]_orderTxVars

\* Requests that do not overlap take effect as WorkOrders has them, in one
\* step, or not at all.
ImplementsOrders == [][serial => OrderNext]_orderVars

\* CA-25-01 and RF-03 of module 6: whatever overlaps, an order has one
\* approved quote at most, the one it refers to, and none is in progress
\* without one.  The quotes that were submitted are discarded then, unless
\* one is submitted while another is being approved.
OneApprovedQuote ==
    \A o \in Orders :
        /\ QuotesOf(o, "approved") = {orders[o].approved_quote} \ {NoQuote}
        /\ orders[o].status = "in_progress" => QuotesOf(o, "approved") # {}
        /\ serial /\ QuotesOf(o, "approved") # {} => QuotesOf(o, "submitted") = {}

\* No approval waits for another that waits for it: refuted by two quotes of
\* one order approved at once, of which PostgreSQL rolls one back.
NoDeadlock ==
    \A r \in HandlersAt("discard"), s \in HandlersAt("index") :
        handler[s].quote \notin QuotesOf(QuoteOrder[handler[r].quote], "submitted")

=============================================================================
