-------------------------- MODULE Settlements_proofs --------------------------
(***************************************************************************)
(* Work orders, whose handlers Settlements composes as single steps, and   *)
(* settlements, for any orders, quotes, payments, charges, rates and       *)
(* numbers of requests.                                                    *)
(* Of the requests of WorkOrdersTx:                                        *)
(*   - with any interleaving, OrderTxTypeOK, and that an order has one     *)
(*     approved quote at most, the one it refers to (OrderTxInv is the     *)
(*     induction);                                                         *)
(*   - one at a time, the quotes an approval leaves behind are discarded,  *)
(*     and every step is one of WorkOrders or none (SerialOrders is the    *)
(*     induction: what a request under way has read is still so).          *)
(* Of Settlements:                                                         *)
(*   - a repair is deducted once and a settled repair keeps its line, but  *)
(*     for those two calculations had read at once (RepairsInv);           *)
(*   - a settlement issued after its generation ended stays (TasksInv);    *)
(*   - the totals are those of the lines, and both come to the rate and    *)
(*     the percentage of the row, but for the settlements asked for again  *)
(*     or generated again beside their own job (TotalsInv);                *)
(*     with any number of workers, whatever is lost or delivered again and *)
(*     however late or absent the job states are.                          *)
(***************************************************************************)
EXTENDS Settlements, WorkOrdersTx, FiniteSetTheorems, TLAPS

-----------------------------------------------------------------------------
(* Work orders: the inductions.                                            *)

UnsettledRow == OrderRow({})

Inserting == [at: {"insert"}, quote: Quotes, amount: Costs \ {0}]
Closing == [at: {"close"}, order: Orders, loaded: UnsettledRow, cost: Costs \cup {NoCost}]
Cancelling == [at: {"cancel"}, order: Orders, loaded: UnsettledRow]
Approving ==
    [at: {"lock", "index", "discard", "progress"}, quote: Quotes, loaded: UnsettledRow,
     others: SUBSET Quotes]

OrderTxTypeOK ==
    /\ orders \in [Orders -> UnsettledRow]
    /\ quotes \in [Quotes -> QuoteRow]
    /\ serial \in BOOLEAN
    /\ handler \in [Handlers -> {Resting} \cup Inserting \cup Closing \cup Cancelling
                                          \cup Approving]

Approved(o) == QuotesOf(o, "approved")

\* The reference of an order is to its approved quote, and it has none before
\* it is in progress.
ApprovedMatches ==
    \A o \in Orders :
        /\ Approved(o) = {orders[o].approved_quote} \ {NoQuote}
        /\ orders[o].status = "in_progress" => Approved(o) # {}
        /\ orders[o].status \in {"none", "open"} => Approved(o) = {}

Approves(r) == handler[r].at \in {"lock", "index", "discard", "progress"}
Entered(r) == handler[r].at \in {"discard", "progress"}

\* An approval read an order without an approved quote: what it writes differs
\* from what it read, and is sent.
OfUnapproved(h) ==
    /\ h.loaded.approved_quote = NoQuote
    /\ h.loaded.status # "in_progress"
    /\ quotes[h.quote].status # "none"
    /\ \A q \in h.others :
          QuoteOrder[q] = QuoteOrder[h.quote] /\ q # h.quote /\ quotes[q].status # "none"

\* An entry of the unique index keeps every other approval of the order out.
EntryAlone(r) ==
    /\ Approved(QuoteOrder[handler[r].quote]) = {}
    /\ \A s \in Handlers :
          Entered(s) /\ QuoteOrder[handler[s].quote] = QuoteOrder[handler[r].quote] => s = r

ApprovalsExclude ==
    \A r \in Handlers :
        /\ Approves(r) => OfUnapproved(handler[r])
        /\ Entered(r) => EntryAlone(r)

\* A quote is submitted once, for an order that was created.
QuotesBegin ==
    /\ \A q \in Quotes : quotes[q].status # "none" => orders[QuoteOrder[q]].status # "none"
    /\ \A r \in Handlers : handler[r].at = "insert" =>
          /\ quotes[handler[r].quote].status = "none"
          /\ orders[QuoteOrder[handler[r].quote]].status # "none"
          /\ \A s \in Handlers : handler[s].at = "insert" /\ handler[s].quote = handler[r].quote
                                  => s = r

\* What closing and cancelling read was an order under way.
EndsAreOfOrdersUnderWay ==
    \A r \in Handlers : handler[r].at \in {"close", "cancel"} =>
        /\ handler[r].loaded.status \in {"open", "in_progress"}
        /\ orders[handler[r].order].status # "none"

OrderTxInv ==
    OrderTxTypeOK /\ ApprovedMatches /\ ApprovalsExclude /\ QuotesBegin /\ EndsAreOfOrdersUnderWay

\* The cost CloseOrder gives an order for some body of the request.
ClosingCost(h) ==
    \E cost \in Costs \cup {NoCost} :
        /\ cost # NoCost \/ orders[h.order].approved_quote # NoQuote
        /\ h.cost = IF cost # NoCost THEN cost ELSE quotes[orders[h.order].approved_quote].amount

\* What a request under way has read is still so.
SerialRequest(r) ==
    /\ handler[r].at = "insert" => orders[QuoteOrder[handler[r].quote]].status = "open"
    /\ handler[r].at \in {"close", "cancel"} => handler[r].loaded = orders[handler[r].order]
    /\ handler[r].at = "close" => ClosingCost(handler[r])
    /\ handler[r].at = "cancel" => handler[r].loaded.settled = NoSettlement
    /\ Approves(r) =>
          /\ handler[r].loaded = orders[QuoteOrder[handler[r].quote]]
          /\ quotes[handler[r].quote].status # "approved"
          /\ Approved(QuoteOrder[handler[r].quote]) = {}
    /\ handler[r].at = "progress" =>
          handler[r].others =
              QuotesOf(QuoteOrder[handler[r].quote], "submitted") \ {handler[r].quote}

SerialOrders ==
    /\ \A r, s \in Handlers : handler[r].at # "rest" /\ handler[s].at # "rest" => r = s
    /\ \A o \in Orders : Approved(o) # {} => QuotesOf(o, "submitted") = {}
    /\ \A r \in Handlers : SerialRequest(r)

-----------------------------------------------------------------------------
\* Each step of a request has its own fields.
LEMMA HandlerTypes ==
    ASSUME OrderTxTypeOK, NEW r \in Handlers
    PROVE  /\ handler[r].at = "rest" => handler[r] = Resting
           /\ handler[r].at = "insert" => handler[r] \in Inserting
           /\ handler[r].at = "close" => handler[r] \in Closing
           /\ handler[r].at = "cancel" => handler[r] \in Cancelling
           /\ Approves(r) => handler[r] \in Approving
           /\ handler[r].at \in {"rest", "insert", "close", "cancel"} \/ Approves(r)
<1>1. \/ handler[r] = Resting \/ handler[r] \in Inserting \/ handler[r] \in Closing
      \/ handler[r] \in Cancelling \/ handler[r] \in Approving
  BY DEF OrderTxTypeOK
<1>2. CASE handler[r] = Resting
  BY <1>2 DEF Resting, Approves
<1>3. CASE handler[r] \in Inserting
  BY <1>3 DEF Inserting, Approves
<1>4. CASE handler[r] \in Closing
  BY <1>4 DEF Closing, Approves
<1>5. CASE handler[r] \in Cancelling
  BY <1>5 DEF Cancelling, Approves
<1>6. CASE handler[r] \in Approving
  BY <1>6 DEF Approving, Approves
<1> QED BY <1>1, <1>2, <1>3, <1>4, <1>5, <1>6

\* A flush sends the columns in which the plan differs from what was read.
LEMMA FlushedRow ==
    ASSUME NEW row \in UnsettledRow, NEW loaded \in UnsettledRow, NEW plan \in UnsettledRow,
           NEW new, new = [column \in DOMAIN row |->
                              IF plan[column] # loaded[column] THEN plan[column] ELSE row[column]]
    PROVE  /\ new \in UnsettledRow
           /\ new.status = IF plan.status # loaded.status THEN plan.status ELSE row.status
           /\ new.payer = IF plan.payer # loaded.payer THEN plan.payer ELSE row.payer
           /\ new.final_cost =
                 IF plan.final_cost # loaded.final_cost THEN plan.final_cost ELSE row.final_cost
           /\ new.approved_quote =
                 IF plan.approved_quote # loaded.approved_quote THEN plan.approved_quote
                 ELSE row.approved_quote
           /\ new.settled = IF plan.settled # loaded.settled THEN plan.settled ELSE row.settled
<1>1. DOMAIN row = {"status", "payer", "final_cost", "approved_quote", "settled"}
  BY DEF UnsettledRow, OrderRow
<1>2. /\ new.status = IF plan.status # loaded.status THEN plan.status ELSE row.status
      /\ new.payer = IF plan.payer # loaded.payer THEN plan.payer ELSE row.payer
      /\ new.final_cost =
            IF plan.final_cost # loaded.final_cost THEN plan.final_cost ELSE row.final_cost
      /\ new.approved_quote =
            IF plan.approved_quote # loaded.approved_quote THEN plan.approved_quote
            ELSE row.approved_quote
      /\ new.settled = IF plan.settled # loaded.settled THEN plan.settled ELSE row.settled
  BY <1>1
<1>3. new = [status |-> new.status, payer |-> new.payer, final_cost |-> new.final_cost,
             approved_quote |-> new.approved_quote, settled |-> new.settled]
  BY <1>1
<1>4. new \in UnsettledRow
  BY <1>2, <1>3 DEF UnsettledRow, OrderRow
<1> QED BY <1>2, <1>4

\* What a flush does to the table: one order changes, by the columns sent.
LEMMA FlushedOrder ==
    ASSUME OrderTxTypeOK, NEW o \in Orders, NEW loaded \in UnsettledRow, NEW plan \in UnsettledRow,
           FlushOrder(o, loaded, plan)
    PROVE  /\ orders' \in [Orders -> UnsettledRow]
           /\ \A p \in Orders \ {o} : orders'[p] = orders[p]
           /\ orders'[o].status =
                 IF plan.status # loaded.status THEN plan.status ELSE orders[o].status
           /\ orders'[o].approved_quote =
                 IF plan.approved_quote # loaded.approved_quote THEN plan.approved_quote
                 ELSE orders[o].approved_quote
           /\ loaded = orders[o] => orders'[o] = plan
<1> DEFINE new == [column \in DOMAIN orders[o] |->
                     IF plan[column] # loaded[column] THEN plan[column] ELSE orders[o][column]]
<1>1. orders' = [orders EXCEPT ![o] = new]
  BY DEF FlushOrder
<1>2. orders \in [Orders -> UnsettledRow] /\ orders[o] \in UnsettledRow
  BY DEF OrderTxTypeOK
<1>3. new = new /\ new \in UnsettledRow
  BY <1>2, FlushedRow
<1>4. /\ new.status = IF plan.status # loaded.status THEN plan.status ELSE orders[o].status
      /\ new.approved_quote =
            IF plan.approved_quote # loaded.approved_quote THEN plan.approved_quote
            ELSE orders[o].approved_quote
  BY <1>2, FlushedRow
<1>5. loaded = orders[o] => new = plan
  BY <1>2 DEF UnsettledRow, OrderRow
<1> HIDE DEF new
<1> QED BY <1>1, <1>2, <1>3, <1>4, <1>5

LEMMA OrderTxInitInv == OrderTxInit => OrderTxInv /\ SerialOrders
<1> SUFFICES ASSUME OrderTxInit PROVE OrderTxInv /\ SerialOrders
  OBVIOUS
<1>1. OrderTxTypeOK
  BY DEF OrderTxInit, InitOrders, OrderTxTypeOK, UnsettledRow, OrderRow, QuoteRow, OrderStatus, NoCost
<1>2. \A o \in Orders, status \in {"approved", "submitted"} : QuotesOf(o, status) = {}
  BY DEF OrderTxInit, InitOrders, QuotesOf
<1>3. \A r \in Handlers : handler[r].at = "rest"
  BY DEF OrderTxInit, Resting
<1>4. ApprovedMatches
  BY <1>2 DEF OrderTxInit, InitOrders, ApprovedMatches, Approved
<1>5. ApprovalsExclude /\ QuotesBegin /\ EndsAreOfOrdersUnderWay
  BY <1>3 DEF OrderTxInit, InitOrders, ApprovalsExclude, Approves, Entered, QuotesBegin,
     EndsAreOfOrdersUnderWay
<1>6. SerialOrders
  BY <1>2, <1>3 DEF SerialOrders, SerialRequest, Approved, Approves, OrderTxInit
<1> QED BY <1>1, <1>4, <1>5, <1>6 DEF OrderTxInv

-----------------------------------------------------------------------------
\* Each action preserves OrderTxInv.

LEMMA CreatesOrderInv ==
    ASSUME OrderTxInv, NEW o \in Orders, NEW payer \in {"landlord", "agency"},
           CreatesOrder(o, payer)
    PROVE  OrderTxInv'
<1>1. /\ orders[o].status = "none"
      /\ orders' = [orders EXCEPT ![o].status = "open", ![o].payer = payer]
      /\ UNCHANGED <<quotes, serial, handler>>
      /\ orders \in [Orders -> UnsettledRow]
  BY DEF CreatesOrder, CreateOrder, OrderTxInv, OrderTxTypeOK
<1>2. OrderTxTypeOK'
  BY <1>1 DEF OrderTxInv, OrderTxTypeOK, UnsettledRow, OrderRow, OrderStatus
<1>3. /\ \A p \in Orders \ {o} : orders'[p] = orders[p]
      /\ orders'[o].status = "open" /\ orders'[o].approved_quote = orders[o].approved_quote
  BY <1>1 DEF UnsettledRow, OrderRow
<1>4. \A p \in Orders : Approved(p)' = Approved(p)
  BY <1>1 DEF Approved, QuotesOf
<1>5. ApprovedMatches'
  BY <1>1, <1>3, <1>4 DEF OrderTxInv, ApprovedMatches
<1>6. ApprovalsExclude'
  <2>1. \A r \in Handlers : Entered(r) => QuoteOrder[handler[r].quote] \in Orders
    BY HandlerTypes, WorkOrderConstants DEF OrderTxInv, Entered, Approves, Approving
  <2> QED BY <1>1, <1>4, <2>1 DEF OrderTxInv, ApprovalsExclude, Approves, Entered,
          OfUnapproved, EntryAlone
<1>7. QuotesBegin' /\ EndsAreOfOrdersUnderWay'
  <2>1. \A q \in Quotes : QuoteOrder[q] \in Orders
    BY WorkOrderConstants
  <2>2. \A r \in Handlers : handler[r].at = "insert" => handler[r].quote \in Quotes
    BY HandlerTypes DEF OrderTxInv, Inserting
  <2>3. \A r \in Handlers : handler[r].at \in {"close", "cancel"} => handler[r].order \in Orders
    BY HandlerTypes DEF OrderTxInv, Closing, Cancelling
  <2> QED BY <1>1, <1>3, <2>1, <2>2, <2>3 DEF OrderTxInv, QuotesBegin, EndsAreOfOrdersUnderWay
<1> QED BY <1>2, <1>5, <1>6, <1>7 DEF OrderTxInv

\* A request that only reads or waits leaves the tables as they are.
LEMMA HandlerStepInv ==
    ASSUME OrderTxInv, NEW r \in Handlers, NEW next,
           handler' = [handler EXCEPT ![r] = next],
           UNCHANGED <<orderVars, serial>>,
           next \in {Resting} \cup Inserting \cup Closing \cup Cancelling \cup Approving,
           next.at \in {"lock", "index", "discard", "progress"} => OfUnapproved(next),
           next.at \in {"discard", "progress"} =>
              /\ Approved(QuoteOrder[next.quote]) = {}
              /\ \A s \in Handlers \ {r} :
                    Entered(s) => QuoteOrder[handler[s].quote] # QuoteOrder[next.quote],
           next.at = "insert" =>
              /\ quotes[next.quote].status = "none"
              /\ orders[QuoteOrder[next.quote]].status # "none"
              /\ \A s \in Handlers \ {r} :
                    handler[s].at = "insert" => handler[s].quote # next.quote,
           next.at \in {"close", "cancel"} =>
              /\ next.loaded.status \in {"open", "in_progress"}
              /\ orders[next.order].status # "none"
    PROVE  OrderTxInv'
<1>1. handler'[r] = next /\ \A s \in Handlers \ {r} : handler'[s] = handler[s]
  BY DEF OrderTxInv, OrderTxTypeOK
<1>2. OrderTxTypeOK'
  BY DEF OrderTxInv, OrderTxTypeOK, orderVars
<1>3. \A o : Approved(o)' = Approved(o)
  BY DEF orderVars, Approved, QuotesOf
<1>4. ApprovedMatches'
  BY <1>3 DEF OrderTxInv, ApprovedMatches, orderVars
<1>5. ApprovalsExclude'
  <2> SUFFICES ASSUME NEW t \in Handlers
               PROVE  ((Approves(t) => OfUnapproved(handler[t])) /\ (Entered(t) => EntryAlone(t)))'
    BY DEF ApprovalsExclude
  <2>1. CASE t = r
    BY <1>1, <1>3, <2>1 DEF orderVars, Approves, Entered, OfUnapproved, EntryAlone
  <2>2. CASE t # r
    BY <1>1, <1>3, <2>2 DEF OrderTxInv, ApprovalsExclude, orderVars, Approves, Entered,
       OfUnapproved, EntryAlone
  <2> QED BY <2>1, <2>2
<1>6. QuotesBegin'
  BY <1>1 DEF OrderTxInv, QuotesBegin, orderVars
<1>7. EndsAreOfOrdersUnderWay'
  BY <1>1 DEF OrderTxInv, EndsAreOfOrdersUnderWay, orderVars
<1> QED BY <1>2, <1>4, <1>5, <1>6, <1>7 DEF OrderTxInv

LEMMA ReadsQuotableInv ==
    ASSUME OrderTxInv, NEW r \in Handlers, NEW q \in Quotes, NEW amount \in Costs \ {0},
           ReadsQuotable(r, q, amount)
    PROVE  OrderTxInv'
<1> DEFINE next == [at |-> "insert", quote |-> q, amount |-> amount]
<1>1. /\ handler' = [handler EXCEPT ![r] = next]
      /\ UNCHANGED <<orderVars, serial>>
      /\ quotes[q].status = "none" /\ orders[QuoteOrder[q]].status = "open"
      /\ \A s \in HandlersAt("insert") : handler[s].quote # q
  BY DEF ReadsQuotable, ReadsOrder
<1>2. next \in Inserting
  BY DEF Inserting
<1>3. \A s \in Handlers \ {r} : handler[s].at = "insert" => handler[s].quote # q
  BY <1>1 DEF HandlersAt
<1> QED BY <1>1, <1>2, <1>3, HandlerStepInv

LEMMA ReadsClosableInv ==
    ASSUME OrderTxInv, NEW r \in Handlers, NEW o \in Orders, NEW cost \in Costs \cup {NoCost},
           ReadsClosable(r, o, cost)
    PROVE  OrderTxInv'
<1> DEFINE price == IF cost # NoCost THEN cost ELSE quotes[orders[o].approved_quote].amount
           next == [at |-> "close", order |-> o, loaded |-> orders[o], cost |-> price]
<1>1. /\ handler' = [handler EXCEPT ![r] = next]
      /\ UNCHANGED <<orderVars, serial>>
      /\ orders[o].status \in {"open", "in_progress"}
      /\ cost # NoCost \/ orders[o].approved_quote # NoQuote
  BY DEF ReadsClosable, ReadsOrder
<1>2. orders[o] \in UnsettledRow /\ orders[o].approved_quote \in Quotes \cup {NoQuote}
  BY DEF OrderTxInv, OrderTxTypeOK, UnsettledRow, OrderRow
<1>3. price \in Costs \cup {NoCost}
  BY <1>1, <1>2 DEF OrderTxInv, OrderTxTypeOK, QuoteRow
<1> HIDE DEF price
<1>4. next \in Closing
  BY <1>2, <1>3 DEF Closing
<1> QED BY <1>1, <1>4, HandlerStepInv

LEMMA ReadsCancellableInv ==
    ASSUME OrderTxInv, NEW r \in Handlers, NEW o \in Orders, ReadsCancellable(r, o)
    PROVE  OrderTxInv'
<1> DEFINE next == [at |-> "cancel", order |-> o, loaded |-> orders[o]]
<1>1. /\ handler' = [handler EXCEPT ![r] = next]
      /\ UNCHANGED <<orderVars, serial>>
      /\ orders[o].status \in {"open", "in_progress"}
  BY DEF ReadsCancellable, ReadsOrder
<1>2. next \in Cancelling
  BY DEF OrderTxInv, OrderTxTypeOK, Cancelling
<1> QED BY <1>1, <1>2, HandlerStepInv

LEMMA ReadsApprovableInv ==
    ASSUME OrderTxInv, NEW r \in Handlers, NEW q \in Quotes, ReadsApprovable(r, q)
    PROVE  OrderTxInv'
<1> DEFINE o == QuoteOrder[q]
           next == [at |-> "lock", quote |-> q, loaded |-> orders[o], others |-> {}]
<1>1. /\ handler' = [handler EXCEPT ![r] = next]
      /\ UNCHANGED <<orderVars, serial>>
      /\ quotes[q].status # "none" /\ Approved(o) = {}
  BY DEF ReadsApprovable, ReadsOrder, Approved
<1>2. o \in Orders /\ orders[o] \in UnsettledRow
  BY WorkOrderConstants DEF OrderTxInv, OrderTxTypeOK
<1>3. orders[o].approved_quote = NoQuote /\ orders[o].status # "in_progress"
  BY <1>1, <1>2 DEF OrderTxInv, ApprovedMatches
<1> HIDE DEF o
<1>4. next \in Approving
  BY <1>2 DEF Approving
<1>5. OfUnapproved(next)
  BY <1>1, <1>3 DEF OfUnapproved
<1> QED BY <1>1, <1>4, <1>5, HandlerStepInv

LEMMA LocksQuoteInv ==
    ASSUME OrderTxInv, NEW r \in Handlers, LocksQuote(r)
    PROVE  OrderTxInv'
<1> DEFINE next == [handler[r] EXCEPT !.at = "index"]
<1>1. /\ handler[r].at = "lock" /\ handler' = [handler EXCEPT ![r] = next]
      /\ UNCHANGED <<orderVars, serial>>
  BY DEF LocksQuote, ContinuesHandler
<1>2. handler[r] \in Approving /\ OfUnapproved(handler[r])
  BY <1>1, HandlerTypes DEF OrderTxInv, ApprovalsExclude, Approves
<1>3. next \in Approving /\ next.at = "index"
  BY <1>2 DEF Approving
<1>4. OfUnapproved(next)
  BY <1>2 DEF OfUnapproved, Approving
<1> HIDE DEF next
<1> QED BY <1>1, <1>3, <1>4, HandlerStepInv

LEMMA EntersIndexInv ==
    ASSUME OrderTxInv, NEW r \in Handlers, EntersIndex(r)
    PROVE  OrderTxInv'
<1> DEFINE next == [handler[r] EXCEPT !.at = "discard"]
           o == QuoteOrder[handler[r].quote]
<1>1. /\ handler[r].at = "index"
      /\ UNCHANGED <<orderVars, serial>>
      /\ \A s \in HandlersAt("discard") \cup HandlersAt("progress") :
            QuoteOrder[handler[s].quote] # o
      /\ \/ Approved(o) = {} /\ handler' = [handler EXCEPT ![r] = next]
         \/ handler' = [handler EXCEPT ![r] = Resting]
  BY DEF EntersIndex, ContinuesHandler, EndsHandler, Approved
<1>2. handler[r] \in Approving /\ OfUnapproved(handler[r])
  BY <1>1, HandlerTypes DEF OrderTxInv, ApprovalsExclude, Approves
<1>3. next \in Approving /\ next.at = "discard" /\ next.quote = handler[r].quote
  BY <1>2 DEF Approving
<1>4. OfUnapproved(next)
  BY <1>2 DEF OfUnapproved, Approving
<1>5. \A s \in Handlers \ {r} : Entered(s) => QuoteOrder[handler[s].quote] # o
  BY <1>1 DEF Entered, HandlersAt
<1> HIDE DEF next
<1>6. CASE Approved(o) = {} /\ handler' = [handler EXCEPT ![r] = next]
  BY <1>1, <1>3, <1>4, <1>5, <1>6, HandlerStepInv
<1>7. CASE handler' = [handler EXCEPT ![r] = Resting]
  <2>1. Resting.at = "rest"
    BY DEF Resting
  <2> QED BY <1>1, <1>7, <2>1, HandlerStepInv
<1> QED BY <1>1, <1>6, <1>7

LEMMA RollsBackInv ==
    ASSUME OrderTxInv, NEW r \in Handlers, RollsBack(r)
    PROVE  OrderTxInv'
<1>1. handler' = [handler EXCEPT ![r] = Resting] /\ UNCHANGED <<orderVars, serial>>
  BY DEF RollsBack, EndsHandler, ContinuesHandler
<1>2. Resting.at = "rest"
  BY DEF Resting
<1> QED BY <1>1, <1>2, HandlerStepInv

LEMMA DiscardsOthersInv ==
    ASSUME OrderTxInv, NEW r \in Handlers, DiscardsOthers(r)
    PROVE  OrderTxInv'
<1> DEFINE o == QuoteOrder[handler[r].quote]
           others == QuotesOf(o, "submitted") \ {handler[r].quote}
           next == [handler[r] EXCEPT !.at = "progress", !.others = others]
<1>1. /\ handler[r].at = "discard" /\ handler' = [handler EXCEPT ![r] = next]
      /\ UNCHANGED <<orderVars, serial>>
  BY DEF DiscardsOthers, ContinuesHandler
<1>2. handler[r] \in Approving /\ OfUnapproved(handler[r]) /\ EntryAlone(r) /\ Entered(r)
  BY <1>1, HandlerTypes DEF OrderTxInv, ApprovalsExclude, Approves, Entered
<1>3. others \subseteq Quotes
  BY DEF QuotesOf
<1>4. \A q \in others : QuoteOrder[q] = o /\ q # handler[r].quote /\ quotes[q].status # "none"
  BY DEF QuotesOf
<1> HIDE DEF others
<1>5. /\ next \in Approving /\ next.at = "progress" /\ next.quote = handler[r].quote
      /\ next.loaded = handler[r].loaded /\ next.others = others
  BY <1>2, <1>3 DEF Approving
<1> HIDE DEF next
<1>6. OfUnapproved(next)
  BY <1>2, <1>4, <1>5 DEF OfUnapproved
<1>7. \A s \in Handlers \ {r} : Entered(s) => QuoteOrder[handler[s].quote] # o
  BY <1>2 DEF EntryAlone
<1> QED BY <1>1, <1>2, <1>5, <1>6, <1>7, HandlerStepInv DEF EntryAlone

\* The parts of a request that refer to rows.
LEMMA HandlerRows ==
    ASSUME OrderTxTypeOK, NEW r \in Handlers
    PROVE  /\ handler[r].at = "insert" \/ Approves(r) =>
                 /\ handler[r].quote \in Quotes
                 /\ QuoteOrder[handler[r].quote] \in Orders
           /\ Approves(r) => handler[r].others \subseteq Quotes /\ handler[r].loaded \in UnsettledRow
           /\ handler[r].at \in {"close", "cancel"} =>
                 handler[r].order \in Orders /\ handler[r].loaded \in UnsettledRow
           /\ Entered(r) => Approves(r)
BY HandlerTypes, WorkOrderConstants DEF Inserting, Approving, Closing, Cancelling, Entered,
   Approves

LEMMA InsertsQuoteInv ==
    ASSUME OrderTxInv, NEW r \in Handlers, InsertsQuote(r)
    PROVE  OrderTxInv'
<1> DEFINE q == handler[r].quote
           row == [status |-> "submitted", amount |-> handler[r].amount]
<1>1. /\ handler[r].at = "insert" /\ handler' = [handler EXCEPT ![r] = Resting]
      /\ quotes' = [quotes EXCEPT ![q] = row] /\ UNCHANGED <<orders, serial>>
  BY DEF InsertsQuote, EndsHandler, ContinuesHandler
<1>2. /\ q \in Quotes /\ row \in QuoteRow /\ row.status = "submitted"
      /\ quotes[q].status = "none" /\ orders[QuoteOrder[q]].status # "none"
      /\ \A s \in Handlers \ {r} : handler[s].at = "insert" => handler[s].quote # q
  BY <1>1, HandlerTypes DEF OrderTxInv, QuotesBegin, Inserting, QuoteRow
<1> HIDE DEF row
<1>3. /\ handler'[r].at = "rest" /\ \A s \in Handlers \ {r} : handler'[s] = handler[s]
      /\ quotes'[q] = row /\ \A u \in Quotes \ {q} : quotes'[u] = quotes[u]
  BY <1>1, <1>2 DEF OrderTxInv, OrderTxTypeOK, Resting
<1>4. OrderTxTypeOK'
  BY <1>1, <1>2 DEF OrderTxInv, OrderTxTypeOK
<1>5. \A o : Approved(o)' = Approved(o)
  BY <1>2, <1>3 DEF Approved, QuotesOf
<1>6. ApprovedMatches'
  BY <1>1, <1>5 DEF OrderTxInv, ApprovedMatches
<1>7. ApprovalsExclude'
  <2> SUFFICES ASSUME NEW t \in Handlers
               PROVE  ((Approves(t) => OfUnapproved(handler[t])) /\ (Entered(t) => EntryAlone(t)))'
    BY DEF ApprovalsExclude
  <2>1. CASE t = r
    BY <1>3, <2>1 DEF Approves, Entered
  <2>2. CASE t # r
    <3>1. (Approves(t) => OfUnapproved(handler[t]))'
      <4>1. Approves(t) => handler[t].quote \in Quotes /\ handler[t].others \subseteq Quotes
        BY HandlerRows DEF OrderTxInv
      <4> QED BY <1>2, <1>3, <2>2, <4>1 DEF OrderTxInv, ApprovalsExclude, Approves, OfUnapproved
    <3>2. (Entered(t) => EntryAlone(t))'
      BY <1>3, <1>5, <2>2 DEF OrderTxInv, ApprovalsExclude, Entered, EntryAlone
    <3> QED BY <3>1, <3>2
  <2> QED BY <2>1, <2>2
<1>8. QuotesBegin'
  <2>1. \A s \in Handlers : handler[s].at = "insert" => handler[s].quote \in Quotes
    BY HandlerRows DEF OrderTxInv
  <2> QED BY <1>1, <1>2, <1>3, <2>1 DEF OrderTxInv, QuotesBegin
<1>9. EndsAreOfOrdersUnderWay'
  BY <1>1, <1>3 DEF OrderTxInv, EndsAreOfOrdersUnderWay
<1> QED BY <1>4, <1>6, <1>7, <1>8, <1>9 DEF OrderTxInv

\* Closing and cancelling write a status, and never the reference to the
\* approved quote.
LEMMA EndsOrderInv ==
    ASSUME OrderTxInv, NEW r \in Handlers, NEW plan \in UnsettledRow, NEW o \in Orders,
           handler[r].at \in {"close", "cancel"},
           o = handler[r].order,
           FlushOrder(o, handler[r].loaded, plan),
           plan.status \in {"closed", "cancelled"},
           plan.approved_quote = handler[r].loaded.approved_quote,
           EndsHandler(r), UNCHANGED quotes
    PROVE  OrderTxInv'
<1>1. handler' = [handler EXCEPT ![r] = Resting] /\ UNCHANGED <<quotes, serial>>
  BY DEF EndsHandler, ContinuesHandler
<1>2. handler[r].loaded \in UnsettledRow /\ handler[r].loaded.status \in {"open", "in_progress"}
  BY HandlerRows DEF OrderTxInv, EndsAreOfOrdersUnderWay
<1>3. /\ orders' \in [Orders -> UnsettledRow]
      /\ \A p \in Orders \ {o} : orders'[p] = orders[p]
      /\ orders'[o].status = plan.status
      /\ orders'[o].approved_quote = orders[o].approved_quote
  BY <1>2, FlushedOrder DEF OrderTxInv
<1>4. /\ handler'[r].at = "rest" /\ \A s \in Handlers \ {r} : handler'[s] = handler[s]
  BY <1>1 DEF OrderTxInv, OrderTxTypeOK, Resting
<1>5. OrderTxTypeOK'
  BY <1>1, <1>3 DEF OrderTxInv, OrderTxTypeOK
<1>6. \A p : Approved(p)' = Approved(p)
  BY <1>1 DEF Approved, QuotesOf
<1>7. ApprovedMatches'
  BY <1>3, <1>6 DEF OrderTxInv, ApprovedMatches
<1>8. ApprovalsExclude'
  <2> SUFFICES ASSUME NEW t \in Handlers
               PROVE  ((Approves(t) => OfUnapproved(handler[t])) /\ (Entered(t) => EntryAlone(t)))'
    BY DEF ApprovalsExclude
  <2>1. CASE t = r
    BY <1>4, <2>1 DEF Approves, Entered
  <2>2. CASE t # r
    BY <1>1, <1>4, <1>6, <2>2 DEF OrderTxInv, ApprovalsExclude, Approves, Entered,
       OfUnapproved, EntryAlone
  <2> QED BY <2>1, <2>2
<1>9. \A p \in Orders : orders[p].status # "none" => orders'[p].status # "none"
  BY <1>3
<1>10. QuotesBegin'
  <2>1. \A q \in Quotes : QuoteOrder[q] \in Orders
    BY WorkOrderConstants
  <2>2. \A s \in Handlers : handler[s].at = "insert" => handler[s].quote \in Quotes
    BY HandlerRows DEF OrderTxInv
  <2> QED BY <1>1, <1>4, <1>9, <2>1, <2>2 DEF OrderTxInv, QuotesBegin
<1>11. EndsAreOfOrdersUnderWay'
  <2>1. \A s \in Handlers : handler[s].at \in {"close", "cancel"} => handler[s].order \in Orders
    BY HandlerRows DEF OrderTxInv
  <2> QED BY <1>4, <1>9, <2>1 DEF OrderTxInv, EndsAreOfOrdersUnderWay
<1> QED BY <1>5, <1>7, <1>8, <1>10, <1>11 DEF OrderTxInv

LEMMA WritesClosedInv ==
    ASSUME OrderTxInv, NEW r \in Handlers, WritesClosed(r)
    PROVE  OrderTxInv'
<1> DEFINE h == handler[r]
           plan == [h.loaded EXCEPT !.status = "closed", !.final_cost = h.cost]
<1>1. /\ h.at = "close" /\ FlushOrder(h.order, h.loaded, plan)
      /\ EndsHandler(r) /\ UNCHANGED quotes
  BY DEF WritesClosed
<1>2. h \in Closing
  BY <1>1, HandlerTypes DEF OrderTxInv
<1>3. /\ h.order \in Orders /\ plan \in UnsettledRow /\ plan.status = "closed"
      /\ plan.approved_quote = h.loaded.approved_quote
  BY <1>2 DEF Closing, UnsettledRow, OrderRow, OrderStatus
<1> HIDE DEF plan
<1> QED BY <1>1, <1>3, EndsOrderInv

LEMMA WritesCancelledInv ==
    ASSUME OrderTxInv, NEW r \in Handlers, WritesCancelled(r)
    PROVE  OrderTxInv'
<1> DEFINE h == handler[r]
           plan == [h.loaded EXCEPT !.status = "cancelled"]
<1>1. /\ h.at = "cancel" /\ FlushOrder(h.order, h.loaded, plan)
      /\ EndsHandler(r) /\ UNCHANGED quotes
  BY DEF WritesCancelled
<1>2. h \in Cancelling
  BY <1>1, HandlerTypes DEF OrderTxInv
<1>3. /\ h.order \in Orders /\ plan \in UnsettledRow /\ plan.status = "cancelled"
      /\ plan.approved_quote = h.loaded.approved_quote
  BY <1>2 DEF Cancelling, UnsettledRow, OrderRow, OrderStatus
<1> HIDE DEF plan
<1> QED BY <1>1, <1>3, EndsOrderInv

\* The commit of an approval sends both columns; the rest of the order's
\* quotes are none of them approved.
LEMMA CommitsApprovalRows ==
    ASSUME OrderTxInv, NEW r \in Handlers, CommitsApproval(r), NEW o \in Orders,
           o = QuoteOrder[handler[r].quote]
    PROVE  /\ Entered(r) /\ handler[r] \in Approving /\ EntryAlone(r)
           /\ handler' = [handler EXCEPT ![r] = Resting] /\ UNCHANGED serial
           /\ handler'[r].at = "rest" /\ \A s \in Handlers \ {r} : handler'[s] = handler[s]
           /\ orders' \in [Orders -> UnsettledRow]
           /\ \A p \in Orders \ {o} : orders'[p] = orders[p]
           /\ orders'[o].status = "in_progress"
           /\ orders'[o].approved_quote = handler[r].quote
           /\ quotes' \in [Quotes -> QuoteRow]
           /\ \A q \in Quotes : quotes[q].status # "none" => quotes'[q].status # "none"
           /\ \A q \in Quotes : quotes[q].status = "none" => quotes'[q] = quotes[q]
           /\ \A p \in Orders \ {o} : Approved(p)' = Approved(p)
           /\ Approved(o)' = {handler[r].quote}
<1> DEFINE h == handler[r]
           plan == [h.loaded EXCEPT !.status = "in_progress", !.approved_quote = h.quote,
                                    !.final_cost = quotes[h.quote].amount]
<1>1. /\ h.at = "progress" /\ FlushOrder(o, h.loaded, plan)
      /\ quotes' = [q \in Quotes |->
                      IF q = h.quote THEN [quotes[q] EXCEPT !.status = "approved"]
                      ELSE IF q \in h.others THEN [quotes[q] EXCEPT !.status = "discarded"]
                      ELSE quotes[q]]
      /\ handler' = [handler EXCEPT ![r] = Resting] /\ UNCHANGED serial
  BY DEF CommitsApproval, EndsHandler, ContinuesHandler
<1>2. /\ h \in Approving /\ Entered(r) /\ OfUnapproved(h) /\ EntryAlone(r)
      /\ h.quote \in Quotes /\ h.others \subseteq Quotes /\ h.loaded \in UnsettledRow
  BY <1>1, HandlerTypes, HandlerRows DEF OrderTxInv, Approves, Entered, ApprovalsExclude
<1>3. quotes \in [Quotes -> QuoteRow]
  BY DEF OrderTxInv, OrderTxTypeOK
<1>4. /\ plan \in UnsettledRow /\ plan.status = "in_progress" /\ plan.approved_quote = h.quote
  BY <1>2, <1>3 DEF UnsettledRow, OrderRow, OrderStatus, QuoteRow
<1>5. plan.status # h.loaded.status /\ plan.approved_quote # h.loaded.approved_quote
  BY <1>2, <1>4, WorkOrderConstants DEF OfUnapproved
<1> HIDE DEF plan
<1>6. /\ orders' \in [Orders -> UnsettledRow]
      /\ \A p \in Orders \ {o} : orders'[p] = orders[p]
      /\ orders'[o].status = "in_progress"
      /\ orders'[o].approved_quote = h.quote
  BY <1>1, <1>2, <1>4, <1>5, FlushedOrder DEF OrderTxInv
<1>7. \A q \in Quotes :
        quotes'[q].status = IF q = h.quote THEN "approved"
                            ELSE IF q \in h.others THEN "discarded" ELSE quotes[q].status
  BY <1>1, <1>3 DEF QuoteRow
<1>8. quotes' \in [Quotes -> QuoteRow]
  BY <1>1, <1>3 DEF QuoteRow
<1>9. /\ \A q \in Quotes : quotes[q].status # "none" => quotes'[q].status # "none"
      /\ \A q \in Quotes : quotes[q].status = "none" => quotes'[q] = quotes[q]
  BY <1>1, <1>2, <1>7 DEF OfUnapproved
<1>10. \A p \in Orders \ {o} : Approved(p)' = Approved(p)
  BY <1>2, <1>7 DEF Approved, QuotesOf, OfUnapproved
<1>11. Approved(o)' = {h.quote}
  BY <1>2, <1>7 DEF Approved, QuotesOf, OfUnapproved, EntryAlone
<1>12. handler'[r].at = "rest" /\ \A s \in Handlers \ {r} : handler'[s] = handler[s]
  BY <1>1 DEF OrderTxInv, OrderTxTypeOK, Resting
<1> QED BY <1>1, <1>2, <1>6, <1>8, <1>9, <1>10, <1>11, <1>12

LEMMA CommitsApprovalInv ==
    ASSUME OrderTxInv, NEW r \in Handlers, CommitsApproval(r), NEW o \in Orders,
           o = QuoteOrder[handler[r].quote]
    PROVE  OrderTxInv'
<1>1. handler[r].at = "progress"
  BY DEF CommitsApproval
<1>2. handler[r].quote \in Quotes
  BY <1>1, HandlerRows DEF OrderTxInv, Approves
<1>3. /\ EntryAlone(r)
      /\ handler' = [handler EXCEPT ![r] = Resting] /\ UNCHANGED serial
      /\ handler'[r].at = "rest" /\ \A s \in Handlers \ {r} : handler'[s] = handler[s]
      /\ orders' \in [Orders -> UnsettledRow]
      /\ \A p \in Orders \ {o} : orders'[p] = orders[p]
      /\ orders'[o].status = "in_progress"
      /\ orders'[o].approved_quote = handler[r].quote
      /\ quotes' \in [Quotes -> QuoteRow]
      /\ \A q \in Quotes : quotes[q].status # "none" => quotes'[q].status # "none"
      /\ \A q \in Quotes : quotes[q].status = "none" => quotes'[q] = quotes[q]
      /\ \A p \in Orders \ {o} : Approved(p)' = Approved(p)
      /\ Approved(o)' = {handler[r].quote}
  BY CommitsApprovalRows
<1>4. OrderTxTypeOK'
  BY <1>3 DEF OrderTxInv, OrderTxTypeOK
<1>5. ApprovedMatches'
  <2> SUFFICES ASSUME NEW p \in Orders
               PROVE  (/\ Approved(p) = {orders[p].approved_quote} \ {NoQuote}
                       /\ orders[p].status = "in_progress" => Approved(p) # {}
                       /\ orders[p].status \in {"none", "open"} => Approved(p) = {})'
    BY DEF ApprovedMatches
  <2>1. CASE p = o
    BY <1>2, <1>3, <2>1, WorkOrderConstants
  <2>2. CASE p # o
    BY <1>3, <2>2 DEF OrderTxInv, ApprovedMatches
  <2> QED BY <2>1, <2>2
<1>6. ApprovalsExclude'
  <2> SUFFICES ASSUME NEW t \in Handlers
               PROVE  ((Approves(t) => OfUnapproved(handler[t])) /\ (Entered(t) => EntryAlone(t)))'
    BY DEF ApprovalsExclude
  <2>1. CASE t = r
    BY <1>3, <2>1 DEF Approves, Entered
  <2>2. CASE t # r
    <3>1. (Approves(t) => OfUnapproved(handler[t]))'
      <4>1. Approves(t) => handler[t].quote \in Quotes /\ handler[t].others \subseteq Quotes
        BY HandlerRows DEF OrderTxInv
      <4> QED BY <1>3, <2>2, <4>1 DEF OrderTxInv, ApprovalsExclude, Approves, OfUnapproved
    <3>2. (Entered(t) => EntryAlone(t))'
      <4>1. Entered(t) => QuoteOrder[handler[t].quote] \in Orders \ {o}
        BY <1>3, <2>2, HandlerRows DEF OrderTxInv, EntryAlone
      <4> QED BY <1>3, <2>2, <4>1 DEF OrderTxInv, ApprovalsExclude, Entered, EntryAlone
    <3> QED BY <3>1, <3>2
  <2> QED BY <2>1, <2>2
<1>7. \A p \in Orders : orders[p].status # "none" => orders'[p].status # "none"
  BY <1>3
<1>8. QuotesBegin'
  <2>1. \A q \in Quotes : QuoteOrder[q] \in Orders
    BY WorkOrderConstants
  <2>2. \A s \in Handlers : handler[s].at = "insert" => handler[s].quote \in Quotes
    BY HandlerRows DEF OrderTxInv
  <2>3. \A q \in Quotes : quotes'[q].status # "none" => quotes[q].status # "none"
    BY <1>3
  <2> QED BY <1>3, <1>7, <2>1, <2>2, <2>3 DEF OrderTxInv, QuotesBegin
<1>9. EndsAreOfOrdersUnderWay'
  <2>1. \A s \in Handlers : handler[s].at \in {"close", "cancel"} => handler[s].order \in Orders
    BY HandlerRows DEF OrderTxInv
  <2> QED BY <1>3, <1>7, <2>1 DEF OrderTxInv, EndsAreOfOrdersUnderWay
<1> QED BY <1>4, <1>5, <1>6, <1>8, <1>9 DEF OrderTxInv

LEMMA OrderTxNextInv == OrderTxInv /\ [OrderTxNext]_orderTxVars => OrderTxInv'
<1> SUFFICES ASSUME OrderTxInv, [OrderTxNext]_orderTxVars PROVE OrderTxInv'
  OBVIOUS
<1>1. CASE OrderTxNext
  <2>1. CASE \E o \in Orders, payer \in {"landlord", "agency"} : CreatesOrder(o, payer)
    BY <2>1, CreatesOrderInv
  <2>2. ASSUME NEW r \in Handlers,
               \/ \E q \in Quotes, amount \in Costs \ {0} : ReadsQuotable(r, q, amount)
               \/ \E o \in Orders, cost \in Costs \cup {NoCost} : ReadsClosable(r, o, cost)
               \/ \E o \in Orders : ReadsCancellable(r, o)
               \/ \E q \in Quotes : ReadsApprovable(r, q)
        PROVE  OrderTxInv'
    BY <2>2, ReadsQuotableInv, ReadsClosableInv, ReadsCancellableInv, ReadsApprovableInv
  <2>3. ASSUME NEW r \in Handlers,
               \/ InsertsQuote(r) \/ WritesClosed(r) \/ WritesCancelled(r)
               \/ LocksQuote(r) \/ EntersIndex(r) \/ DiscardsOthers(r) \/ RollsBack(r)
        PROVE  OrderTxInv'
    BY <2>3, InsertsQuoteInv, WritesClosedInv, WritesCancelledInv, LocksQuoteInv,
       EntersIndexInv, DiscardsOthersInv, RollsBackInv
  <2>4. ASSUME NEW r \in Handlers, CommitsApproval(r)
        PROVE  OrderTxInv'
    <3>1. QuoteOrder[handler[r].quote] \in Orders
      BY <2>4, HandlerRows DEF OrderTxInv, Approves, CommitsApproval
    <3>2. PICK o \in Orders : o = QuoteOrder[handler[r].quote]
      BY <3>1
    <3> QED BY <2>4, <3>2, CommitsApprovalInv
  <2> QED BY <1>1, <2>1, <2>2, <2>3, <2>4 DEF OrderTxNext
<1>2. CASE UNCHANGED orderTxVars
  <2> USE <1>2 DEF orderTxVars, orderVars
  <2>1. /\ OrderTxTypeOK' /\ ApprovedMatches' /\ QuotesBegin' /\ EndsAreOfOrdersUnderWay'
    BY DEF OrderTxInv, OrderTxTypeOK, ApprovedMatches, Approved, QuotesOf, QuotesBegin,
       EndsAreOfOrdersUnderWay
  <2>2. ApprovalsExclude'
    BY DEF OrderTxInv, ApprovalsExclude, Approves, Entered, OfUnapproved, EntryAlone, Approved,
       QuotesOf
  <2> QED BY <2>1, <2>2 DEF OrderTxInv
<1> QED BY <1>1, <1>2

-----------------------------------------------------------------------------
(* Requests that do not overlap: while serial holds, SerialOrders does.    *)

SerialInv == OrderTxInv /\ (serial => SerialOrders)

\* A request whose turn it is has the database to itself.
LEMMA OnlyRequest ==
    ASSUME SerialInv, serial, NEW r \in Handlers, handler[r].at # "rest"
    PROVE  \A s \in Handlers \ {r} : handler[s].at = "rest"
BY DEF SerialInv, SerialOrders

\* Every request but one is at rest after a step, and that one is as it must.
LEMMA SerialStep ==
    ASSUME NEW r \in Handlers,
           \A s \in Handlers \ {r} : handler'[s].at = "rest",
           \A o \in Orders : (Approved(o) # {} => QuotesOf(o, "submitted") = {})',
           SerialRequest(r)'
    PROVE  SerialOrders'
<1>1. \A s \in Handlers \ {r} : SerialRequest(s)'
  BY DEF SerialRequest, Approves
<1>2. \A s \in Handlers : SerialRequest(s)'
  BY <1>1
<1> QED BY <1>2 DEF SerialOrders

\* The same when no request is left.
LEMMA SerialEnd ==
    ASSUME SerialInv, serial, NEW r \in Handlers, handler[r].at # "rest",
           EndsHandler(r),
           \A o \in Orders : (Approved(o) # {} => QuotesOf(o, "submitted") = {})'
    PROVE  SerialOrders'
<1>1. \A s \in Handlers : handler'[s].at = "rest"
  BY OnlyRequest DEF EndsHandler, ContinuesHandler, Resting, SerialInv, OrderTxInv, OrderTxTypeOK
<1>2. SerialRequest(r)'
  BY <1>1 DEF SerialRequest, Approves
<1> QED BY <1>1, <1>2, SerialStep

\* A read finds every request at rest.
LEMMA SerialRead ==
    ASSUME SerialInv, serial, NEW r \in Handlers, NEW next, ReadsOrder(r, next)
    PROVE  /\ handler'[r] = next
           /\ \A s \in Handlers \ {r} : handler'[s].at = "rest"
           /\ UNCHANGED orderVars
           /\ \A o, status : QuotesOf(o, status)' = QuotesOf(o, status)
           /\ \A o \in Orders : (Approved(o) # {} => QuotesOf(o, "submitted") = {})'
<1>1. /\ handler[r] = Resting /\ \A s \in Handlers : handler[s].at = "rest"
      /\ handler' = [handler EXCEPT ![r] = next] /\ UNCHANGED orderVars
  BY DEF ReadsOrder, HandlersAt
<1>2. handler'[r] = next /\ \A s \in Handlers \ {r} : handler'[s] = handler[s]
  BY <1>1 DEF SerialInv, OrderTxInv, OrderTxTypeOK
<1>3. \A o, status : QuotesOf(o, status)' = QuotesOf(o, status)
  BY <1>1 DEF orderVars, QuotesOf
<1>4. \A o \in Orders : (Approved(o) # {} => QuotesOf(o, "submitted") = {})'
  BY <1>3 DEF SerialInv, SerialOrders, Approved
<1> QED BY <1>1, <1>2, <1>3, <1>4

LEMMA ReadsSerial ==
    ASSUME SerialInv, serial, NEW r \in Handlers,
           \/ \E q \in Quotes, amount \in Costs \ {0} : ReadsQuotable(r, q, amount)
           \/ \E o \in Orders, cost \in Costs \cup {NoCost} : ReadsClosable(r, o, cost)
           \/ \E o \in Orders : ReadsCancellable(r, o)
           \/ \E q \in Quotes : ReadsApprovable(r, q)
    PROVE  SerialOrders'
<1>1. ASSUME NEW q \in Quotes, NEW amount \in Costs \ {0}, ReadsQuotable(r, q, amount)
      PROVE  SerialOrders'
  <2> DEFINE next == [at |-> "insert", quote |-> q, amount |-> amount]
  <2>1. ReadsOrder(r, next) /\ orders[QuoteOrder[q]].status = "open"
    BY <1>1 DEF ReadsQuotable
  <2>2. /\ handler'[r] = next /\ UNCHANGED orderVars
        /\ \A s \in Handlers \ {r} : handler'[s].at = "rest"
        /\ \A o \in Orders : (Approved(o) # {} => QuotesOf(o, "submitted") = {})'
    BY <2>1, SerialRead
  <2>3. SerialRequest(r)'
    BY <2>1, <2>2 DEF SerialRequest, orderVars, Approves
  <2> QED BY <2>2, <2>3, SerialStep
<1>2. ASSUME NEW o \in Orders, NEW cost \in Costs \cup {NoCost}, ReadsClosable(r, o, cost)
      PROVE  SerialOrders'
  <2> DEFINE price == IF cost # NoCost THEN cost ELSE quotes[orders[o].approved_quote].amount
             next == [at |-> "close", order |-> o, loaded |-> orders[o], cost |-> price]
  <2>1. ReadsOrder(r, next) /\ (cost # NoCost \/ orders[o].approved_quote # NoQuote)
    BY <1>2 DEF ReadsClosable
  <2>2. /\ handler'[r] = next /\ UNCHANGED orderVars
        /\ \A s \in Handlers \ {r} : handler'[s].at = "rest"
        /\ \A p \in Orders : (Approved(p) # {} => QuotesOf(p, "submitted") = {})'
    BY <2>1, SerialRead
  <2>3. ClosingCost(handler[r])'
    BY <2>1, <2>2 DEF ClosingCost, orderVars
  <2>4. SerialRequest(r)'
    BY <2>2, <2>3 DEF SerialRequest, orderVars, Approves
  <2> QED BY <2>2, <2>4, SerialStep
<1>3. ASSUME NEW o \in Orders, ReadsCancellable(r, o)
      PROVE  SerialOrders'
  <2> DEFINE next == [at |-> "cancel", order |-> o, loaded |-> orders[o]]
  <2>1. ReadsOrder(r, next) /\ orders[o].settled = NoSettlement
    BY <1>3 DEF ReadsCancellable
  <2>2. /\ handler'[r] = next /\ UNCHANGED orderVars
        /\ \A s \in Handlers \ {r} : handler'[s].at = "rest"
        /\ \A p \in Orders : (Approved(p) # {} => QuotesOf(p, "submitted") = {})'
    BY <2>1, SerialRead
  <2>3. SerialRequest(r)'
    BY <2>1, <2>2 DEF SerialRequest, orderVars, Approves
  <2> QED BY <2>2, <2>3, SerialStep
<1>4. ASSUME NEW q \in Quotes, ReadsApprovable(r, q)
      PROVE  SerialOrders'
  <2> DEFINE next == [at |-> "lock", quote |-> q, loaded |-> orders[QuoteOrder[q]],
                      others |-> {}]
  <2>1. /\ ReadsOrder(r, next) /\ quotes[q].status # "approved"
        /\ QuotesOf(QuoteOrder[q], "approved") = {}
    BY <1>4 DEF ReadsApprovable
  <2>2. /\ handler'[r] = next /\ UNCHANGED orderVars
        /\ \A s \in Handlers \ {r} : handler'[s].at = "rest"
        /\ \A o, status : QuotesOf(o, status)' = QuotesOf(o, status)
        /\ \A o \in Orders : (Approved(o) # {} => QuotesOf(o, "submitted") = {})'
    BY <2>1, SerialRead
  <2>3. SerialRequest(r)'
    BY <2>1, <2>2 DEF SerialRequest, orderVars, Approves, Approved
  <2> QED BY <2>2, <2>3, SerialStep
<1> QED BY <1>1, <1>2, <1>3, <1>4

\* An approval goes from one of its steps to the next.
LEMMA ApprovesSerial ==
    ASSUME SerialInv, serial, NEW r \in Handlers,
           LocksQuote(r) \/ EntersIndex(r) \/ DiscardsOthers(r)
    PROVE  SerialOrders'
<1> DEFINE o == QuoteOrder[handler[r].quote]
<1>1. /\ Approves(r) /\ handler[r].at # "progress" /\ handler[r].at # "rest"
      /\ UNCHANGED orderVars
  BY DEF LocksQuote, EntersIndex, DiscardsOthers, Approves
<1>2. handler[r] \in Approving /\ SerialRequest(r)
  BY <1>1, HandlerTypes DEF SerialInv, SerialOrders, OrderTxInv, OrderTxTypeOK
<1>3. \A p, status : QuotesOf(p, status)' = QuotesOf(p, status)
  BY <1>1 DEF QuotesOf, orderVars
<1>4. \A p \in Orders : (Approved(p) # {} => QuotesOf(p, "submitted") = {})'
  BY <1>3 DEF SerialInv, SerialOrders, Approved
<1>5. ASSUME NEW next \in Approving, handler' = [handler EXCEPT ![r] = next],
             next.quote = handler[r].quote, next.loaded = handler[r].loaded,
             next.at = "progress" =>
                next.others = QuotesOf(QuoteOrder[next.quote], "submitted") \ {next.quote}
      PROVE  SerialOrders'
  <2>1. /\ handler'[r] = next /\ \A s \in Handlers \ {r} : handler'[s].at = "rest"
    BY <1>1, <1>5, OnlyRequest DEF SerialInv, OrderTxInv, OrderTxTypeOK
  <2>2. SerialRequest(r)'
    <3>1. next.at \in {"lock", "index", "discard", "progress"}
      BY DEF Approving
    <3> QED BY <1>1, <1>2, <1>3, <1>5, <2>1, <3>1 DEF SerialRequest, Approves, Approved, orderVars
  <2> QED BY <1>4, <2>1, <2>2, SerialStep
<1>6. CASE LocksQuote(r)
  <2> DEFINE next == [handler[r] EXCEPT !.at = "index"]
  <2>1. handler' = [handler EXCEPT ![r] = next]
    BY <1>6 DEF LocksQuote, ContinuesHandler
  <2>2. /\ next \in Approving /\ next.at = "index"
        /\ next.quote = handler[r].quote /\ next.loaded = handler[r].loaded
    BY <1>2 DEF Approving
  <2> HIDE DEF next
  <2> QED BY <1>5, <2>1, <2>2
<1>7. CASE EntersIndex(r)
  <2> DEFINE next == [handler[r] EXCEPT !.at = "discard"]
  <2>1. handler' = [handler EXCEPT ![r] = next] \/ EndsHandler(r)
    BY <1>7 DEF EntersIndex, ContinuesHandler
  <2>2. /\ next \in Approving /\ next.at = "discard"
        /\ next.quote = handler[r].quote /\ next.loaded = handler[r].loaded
    BY <1>2 DEF Approving
  <2> HIDE DEF next
  <2> QED BY <1>1, <1>4, <1>5, <2>1, <2>2, SerialEnd
<1>8. CASE DiscardsOthers(r)
  <2> DEFINE others == QuotesOf(o, "submitted") \ {handler[r].quote}
             next == [handler[r] EXCEPT !.at = "progress", !.others = others]
  <2>1. handler' = [handler EXCEPT ![r] = next]
    BY <1>8 DEF DiscardsOthers, ContinuesHandler
  <2>2. others \subseteq Quotes
    BY DEF QuotesOf
  <2>3. /\ next \in Approving /\ next.at = "progress" /\ next.others = others
        /\ next.quote = handler[r].quote /\ next.loaded = handler[r].loaded
    <3> HIDE DEF others
    <3> QED BY <1>2, <2>2 DEF Approving
  <2> HIDE DEF next
  <2> QED BY <1>5, <2>1, <2>3
<1> QED BY <1>6, <1>7, <1>8

\* The writes, each the whole of a handler of WorkOrders.

LEMMA InsertsQuoteSerial ==
    ASSUME SerialInv, serial, NEW r \in Handlers, InsertsQuote(r)
    PROVE  SerialOrders' /\ OrderNext
<1> DEFINE q == handler[r].quote
           row == [status |-> "submitted", amount |-> handler[r].amount]
<1>1. /\ handler[r].at = "insert" /\ EndsHandler(r)
      /\ quotes' = [quotes EXCEPT ![q] = row] /\ UNCHANGED orders
  BY DEF InsertsQuote
<1>2. /\ q \in Quotes /\ QuoteOrder[q] \in Orders /\ handler[r].amount \in Costs \ {0}
      /\ quotes[q].status = "none" /\ orders[QuoteOrder[q]].status = "open"
      /\ quotes \in [Quotes -> QuoteRow]
  BY <1>1, HandlerTypes, HandlerRows
     DEF SerialInv, OrderTxInv, OrderTxTypeOK, QuotesBegin, Inserting, SerialOrders, SerialRequest
<1>3. OrderNext
  BY <1>1, <1>2 DEF OrderNext, AddQuote
<1>4. \A o \in Orders : (Approved(o) # {} => QuotesOf(o, "submitted") = {})'
  <2>1. Approved(QuoteOrder[q]) = {}
    BY <1>2 DEF SerialInv, OrderTxInv, ApprovedMatches
  <2>2. \A o \in Orders : Approved(o)' = Approved(o)
    BY <1>1, <1>2 DEF Approved, QuotesOf
  <2>3. \A o \in Orders \ {QuoteOrder[q]} : QuotesOf(o, "submitted")' = QuotesOf(o, "submitted")
    BY <1>1, <1>2 DEF QuotesOf
  <2> QED BY <2>1, <2>2, <2>3 DEF SerialInv, SerialOrders
<1> QED BY <1>1, <1>3, <1>4, SerialEnd

LEMMA WritesClosedSerial ==
    ASSUME SerialInv, serial, NEW r \in Handlers, WritesClosed(r)
    PROVE  SerialOrders' /\ OrderNext
<1> DEFINE h == handler[r]
           o == h.order
           plan == [h.loaded EXCEPT !.status = "closed", !.final_cost = h.cost]
<1>1. /\ h.at = "close" /\ FlushOrder(o, h.loaded, plan) /\ EndsHandler(r) /\ UNCHANGED quotes
  BY DEF WritesClosed
<1>2. h \in Closing /\ h.loaded = orders[o] /\ orders[o].status \in {"open", "in_progress"}
  BY <1>1, HandlerTypes
     DEF SerialInv, OrderTxInv, SerialOrders, SerialRequest, EndsAreOfOrdersUnderWay
<1>3. o \in Orders /\ h.loaded \in UnsettledRow /\ plan \in UnsettledRow
  BY <1>2 DEF Closing, UnsettledRow, OrderRow, OrderStatus
<1>4. orders' \in [Orders -> UnsettledRow] /\ \A p \in Orders \ {o} : orders'[p] = orders[p]
  BY <1>1, <1>3, FlushedOrder DEF SerialInv, OrderTxInv
<1>5. orders'[o] = plan
  BY <1>1, <1>2, <1>3, FlushedOrder DEF SerialInv, OrderTxInv
<1>6. orders' = [orders EXCEPT ![o].status = "closed", ![o].final_cost = h.cost]
  <2>1. plan = [orders[o] EXCEPT !.status = "closed", !.final_cost = h.cost]
    BY <1>2
  <2>2. orders \in [Orders -> UnsettledRow]
    BY DEF SerialInv, OrderTxInv, OrderTxTypeOK
  <2> HIDE DEF plan
  <2>3. orders' = [orders EXCEPT ![o] = plan]
    BY <1>3, <1>4, <1>5, <2>2
  <2> QED BY <2>1, <2>3
<1>7. PICK cost \in Costs \cup {NoCost} :
        /\ cost # NoCost \/ orders[o].approved_quote # NoQuote
        /\ h.cost = IF cost # NoCost THEN cost ELSE quotes[orders[o].approved_quote].amount
  BY <1>1 DEF SerialInv, SerialOrders, SerialRequest, ClosingCost
<1>8. CloseOrder(o, cost)
  BY <1>1, <1>2, <1>6, <1>7 DEF CloseOrder
<1>9. \A p \in Orders : (Approved(p) # {} => QuotesOf(p, "submitted") = {})'
  BY <1>1 DEF SerialInv, SerialOrders, Approved, QuotesOf
<1> QED BY <1>1, <1>3, <1>8, <1>9, SerialEnd DEF OrderNext

LEMMA WritesCancelledSerial ==
    ASSUME SerialInv, serial, NEW r \in Handlers, WritesCancelled(r)
    PROVE  SerialOrders' /\ OrderNext
<1> DEFINE h == handler[r]
           o == h.order
           plan == [h.loaded EXCEPT !.status = "cancelled"]
<1>1. /\ h.at = "cancel" /\ FlushOrder(o, h.loaded, plan) /\ EndsHandler(r) /\ UNCHANGED quotes
  BY DEF WritesCancelled
<1>2. /\ h \in Cancelling /\ h.loaded = orders[o]
      /\ orders[o].status \in {"open", "in_progress"} /\ orders[o].settled = NoSettlement
  BY <1>1, HandlerTypes
     DEF SerialInv, OrderTxInv, SerialOrders, SerialRequest, EndsAreOfOrdersUnderWay
<1>3. o \in Orders /\ h.loaded \in UnsettledRow /\ plan \in UnsettledRow
  BY <1>2 DEF Cancelling, UnsettledRow, OrderRow, OrderStatus
<1>4. orders' \in [Orders -> UnsettledRow] /\ \A p \in Orders \ {o} : orders'[p] = orders[p]
  BY <1>1, <1>3, FlushedOrder DEF SerialInv, OrderTxInv
<1>5. orders'[o] = plan
  BY <1>1, <1>2, <1>3, FlushedOrder DEF SerialInv, OrderTxInv
<1>6. orders' = [orders EXCEPT ![o].status = "cancelled"]
  <2>1. orders \in [Orders -> UnsettledRow]
    BY DEF SerialInv, OrderTxInv, OrderTxTypeOK
  <2>2. plan = [orders[o] EXCEPT !.status = "cancelled"]
    BY <1>2
  <2> HIDE DEF plan
  <2>3. orders' = [orders EXCEPT ![o] = plan]
    BY <1>3, <1>4, <1>5, <2>1
  <2> QED BY <2>2, <2>3
<1>7. CancelOrder(o)
  BY <1>1, <1>2, <1>6 DEF CancelOrder
<1>8. \A p \in Orders : (Approved(p) # {} => QuotesOf(p, "submitted") = {})'
  BY <1>1 DEF SerialInv, SerialOrders, Approved, QuotesOf
<1> QED BY <1>1, <1>3, <1>7, <1>8, SerialEnd DEF OrderNext

LEMMA CommitsApprovalSerial ==
    ASSUME SerialInv, serial, NEW r \in Handlers, CommitsApproval(r), NEW o \in Orders,
           o = QuoteOrder[handler[r].quote]
    PROVE  SerialOrders' /\ OrderNext
<1> DEFINE h == handler[r]
           plan == [h.loaded EXCEPT !.status = "in_progress", !.approved_quote = h.quote,
                                    !.final_cost = quotes[h.quote].amount]
<1>1. /\ h.at = "progress" /\ FlushOrder(o, h.loaded, plan) /\ EndsHandler(r)
      /\ quotes' = [q \in Quotes |->
                      IF q = h.quote THEN [quotes[q] EXCEPT !.status = "approved"]
                      ELSE IF q \in h.others THEN [quotes[q] EXCEPT !.status = "discarded"]
                      ELSE quotes[q]]
  BY DEF CommitsApproval
<1>2. /\ h \in Approving /\ h.loaded = orders[o] /\ OfUnapproved(h)
      /\ quotes[h.quote].status # "approved" /\ Approved(o) = {}
      /\ h.others = QuotesOf(o, "submitted") \ {h.quote}
      /\ h.quote \in Quotes /\ h.loaded \in UnsettledRow
  BY <1>1, HandlerTypes, HandlerRows
     DEF SerialInv, OrderTxInv, SerialOrders, SerialRequest, ApprovalsExclude, Approves
<1>3. orders \in [Orders -> UnsettledRow] /\ quotes \in [Quotes -> QuoteRow]
  BY DEF SerialInv, OrderTxInv, OrderTxTypeOK
<1>4. plan \in UnsettledRow
  BY <1>2, <1>3 DEF UnsettledRow, OrderRow, OrderStatus, QuoteRow
<1>5. orders' \in [Orders -> UnsettledRow] /\ \A p \in Orders \ {o} : orders'[p] = orders[p]
  BY <1>1, <1>2, <1>4, FlushedOrder DEF SerialInv, OrderTxInv
<1>6. orders'[o] = plan
  BY <1>1, <1>2, <1>4, FlushedOrder DEF SerialInv, OrderTxInv
<1>7. orders' = [orders EXCEPT ![o].status = "in_progress", ![o].approved_quote = h.quote,
                               ![o].final_cost = quotes[h.quote].amount]
  <2>1. plan = [orders[o] EXCEPT !.status = "in_progress", !.approved_quote = h.quote,
                                 !.final_cost = quotes[h.quote].amount]
    BY <1>2
  <2> HIDE DEF plan
  <2>2. orders' = [orders EXCEPT ![o] = plan]
    BY <1>3, <1>5, <1>6
  <2> QED BY <2>1, <2>2
<1>8. quotes' = [q \in Quotes |->
                   IF q = h.quote THEN [quotes[q] EXCEPT !.status = "approved"]
                   ELSE IF q \in QuotesOf(o, "submitted")
                        THEN [quotes[q] EXCEPT !.status = "discarded"] ELSE quotes[q]]
  <2>1. \A q \in Quotes \ {h.quote} : q \in h.others <=> q \in QuotesOf(o, "submitted")
    BY <1>2
  <2> QED BY <1>1, <2>1
<1>9. ApproveQuote(h.quote)
  <2>1. quotes[h.quote].status \notin {"none", "approved"} /\ QuotesOf(o, "approved") = {}
    BY <1>2 DEF OfUnapproved, Approved
  <2> QED BY <1>7, <1>8, <2>1 DEF ApproveQuote
<1>10. \A p \in Orders : (Approved(p) # {} => QuotesOf(p, "submitted") = {})'
  <2>1. \A q \in Quotes :
          quotes'[q].status = IF q = h.quote THEN "approved"
                              ELSE IF q \in h.others THEN "discarded" ELSE quotes[q].status
    BY <1>1, <1>3 DEF QuoteRow
  <2>2. QuotesOf(o, "submitted")' = {}
    BY <1>2, <2>1 DEF QuotesOf
  <2>3. \A p \in Orders \ {o} : Approved(p)' = Approved(p)
    BY <1>2, <2>1 DEF Approved, QuotesOf, OfUnapproved
  <2>4. \A p \in Orders \ {o} : QuotesOf(p, "submitted")' = QuotesOf(p, "submitted")
    BY <1>2, <2>1 DEF QuotesOf, OfUnapproved
  <2> QED BY <2>2, <2>3, <2>4 DEF SerialInv, SerialOrders
<1> QED BY <1>1, <1>2, <1>9, <1>10, SerialEnd DEF OrderNext

\* An order is created while a request is under way only if it is another's.
LEMMA CreatesOrderSerial ==
    ASSUME SerialInv, serial, NEW o \in Orders, NEW payer \in {"landlord", "agency"},
           CreatesOrder(o, payer)
    PROVE  SerialOrders' /\ OrderNext
<1>1. /\ CreateOrder(o, payer) /\ orders[o].status = "none"
      /\ \A p \in Orders \ {o} : orders'[p] = orders[p]
      /\ UNCHANGED <<quotes, handler>>
  BY DEF CreatesOrder, CreateOrder, SerialInv, OrderTxInv, OrderTxTypeOK
<1>2. \A p, status : QuotesOf(p, status)' = QuotesOf(p, status)
  BY <1>1 DEF QuotesOf
<1>3. ASSUME NEW r \in Handlers
      PROVE  SerialRequest(r)'
  <2>1. /\ handler[r].at = "insert" \/ Approves(r) => QuoteOrder[handler[r].quote] \in Orders \ {o}
        /\ handler[r].at \in {"close", "cancel"} => handler[r].order \in Orders \ {o}
    BY <1>1, HandlerRows DEF SerialInv, OrderTxInv, QuotesBegin, EndsAreOfOrdersUnderWay,
       ApprovalsExclude, OfUnapproved
  <2>2. handler[r].at = "close" => ClosingCost(handler[r])'
    BY <1>1, <2>1 DEF SerialInv, SerialOrders, SerialRequest, ClosingCost
  <2>3. SerialRequest(r)
    BY DEF SerialInv, SerialOrders
  <2>4. Approves(r) => Approved(QuoteOrder[handler[r].quote])' = Approved(QuoteOrder[handler[r].quote])
    BY <1>1, <1>2 DEF Approved
  <2> QED BY <1>1, <1>2, <2>1, <2>2, <2>3, <2>4 DEF SerialRequest, Approves, Approved
<1>4. SerialOrders'
  BY <1>1, <1>2, <1>3 DEF SerialInv, SerialOrders, Approved
<1> QED BY <1>1, <1>4 DEF OrderNext

\* With serial, every step keeps SerialOrders, and is of WorkOrders or changes
\* no row.
LEMMA SerialNext ==
    ASSUME SerialInv, serial, OrderTxNext
    PROVE  SerialOrders' /\ (OrderNext \/ UNCHANGED orderVars)
<1>1. ASSUME NEW o \in Orders, NEW payer \in {"landlord", "agency"}, CreatesOrder(o, payer)
      PROVE  SerialOrders' /\ OrderNext
  BY <1>1, CreatesOrderSerial
<1>2. ASSUME NEW r \in Handlers,
             \/ \E q \in Quotes, amount \in Costs \ {0} : ReadsQuotable(r, q, amount)
             \/ \E o \in Orders, cost \in Costs \cup {NoCost} : ReadsClosable(r, o, cost)
             \/ \E o \in Orders : ReadsCancellable(r, o)
             \/ \E q \in Quotes : ReadsApprovable(r, q)
      PROVE  SerialOrders' /\ UNCHANGED orderVars
  BY <1>2, ReadsSerial
     DEF ReadsQuotable, ReadsClosable, ReadsCancellable, ReadsApprovable, ReadsOrder
<1>3. ASSUME NEW r \in Handlers, LocksQuote(r) \/ EntersIndex(r) \/ DiscardsOthers(r)
      PROVE  SerialOrders' /\ UNCHANGED orderVars
  BY <1>3, ApprovesSerial DEF LocksQuote, EntersIndex, DiscardsOthers
<1>4. ASSUME NEW r \in Handlers, InsertsQuote(r) \/ WritesClosed(r) \/ WritesCancelled(r)
      PROVE  SerialOrders' /\ OrderNext
  BY <1>4, InsertsQuoteSerial, WritesClosedSerial, WritesCancelledSerial
<1>5. ASSUME NEW r \in Handlers, CommitsApproval(r)
      PROVE  SerialOrders' /\ OrderNext
  <2>1. QuoteOrder[handler[r].quote] \in Orders
    BY <1>5, HandlerRows DEF SerialInv, OrderTxInv, Approves, CommitsApproval
  <2>2. PICK o \in Orders : o = QuoteOrder[handler[r].quote]
    BY <2>1
  <2> QED BY <1>5, <2>2, CommitsApprovalSerial
<1>6. ASSUME NEW r \in Handlers, RollsBack(r)
      PROVE  SerialOrders' /\ UNCHANGED orderVars
  <2>1. handler[r].at # "rest" /\ EndsHandler(r) /\ UNCHANGED orderVars
    BY <1>6, HandlerTypes DEF RollsBack, SerialInv, OrderTxInv
  <2>2. \A o \in Orders : (Approved(o) # {} => QuotesOf(o, "submitted") = {})'
    BY <2>1 DEF SerialInv, SerialOrders, Approved, QuotesOf, orderVars
  <2> QED BY <2>1, <2>2, SerialEnd
<1> QED BY <1>1, <1>2, <1>3, <1>4, <1>5, <1>6 DEF OrderTxNext

LEMMA SerialNextInv ==
    SerialInv /\ [OrderTxNext]_orderTxVars
    => SerialInv' /\ [serial => OrderNext]_orderVars
<1> SUFFICES ASSUME SerialInv, [OrderTxNext]_orderTxVars
             PROVE  SerialInv' /\ [serial => OrderNext]_orderVars
  OBVIOUS
<1>1. OrderTxInv' /\ serial' = serial
  <2>1. OrderTxNext => serial' = serial
    BY DEF OrderTxNext, CreatesOrder, ReadsQuotable, ReadsClosable, ReadsCancellable,
       ReadsApprovable, ReadsOrder, InsertsQuote, WritesClosed, WritesCancelled, LocksQuote,
       EntersIndex, DiscardsOthers, CommitsApproval, RollsBack, EndsHandler, ContinuesHandler
  <2> QED BY <2>1, OrderTxNextInv DEF SerialInv, orderTxVars
<1>2. CASE OrderTxNext
  BY <1>1, <1>2, SerialNext DEF SerialInv
<1>3. CASE UNCHANGED orderTxVars
  <2>1. SerialOrders => SerialOrders'
    BY <1>3 DEF orderTxVars, orderVars, SerialOrders, SerialRequest, Approves, ClosingCost,
       Approved, QuotesOf
  <2> QED BY <1>1, <1>3, <2>1 DEF SerialInv, orderTxVars
<1> QED BY <1>2, <1>3

LEMMA SerialInvariant == OrderTxSpec => []SerialInv
<1>1. OrderTxInit => SerialInv
  BY OrderTxInitInv DEF SerialInv
<1>2. SerialInv /\ [OrderTxNext]_orderTxVars => SerialInv'
  BY SerialNextInv
<1> QED BY <1>1, <1>2, PTL DEF OrderTxSpec

\* The rows of orders and quotes, and what the requests hold of them, keep
\* their types whatever overlaps.
THEOREM OrdersTypeCorrect == OrderTxSpec => []OrderTxTypeOK
<1>1. SerialInv => OrderTxTypeOK
  BY DEF SerialInv, OrderTxInv
<1> QED BY <1>1, SerialInvariant, PTL

\* CA-25-01 and RF-03 of module 6, for any number of quotes approved, orders
\* closed and cancelled at once: an order has one approved quote at most, the
\* one it refers to, and none is in progress without one.
THEOREM OneApprovedQuoteHolds == OrderTxSpec => []OneApprovedQuote
<1>1. SerialInv => OneApprovedQuote
  BY DEF SerialInv, OrderTxInv, ApprovedMatches, Approved, SerialOrders, OneApprovedQuote
<1> QED BY <1>1, SerialInvariant, PTL

\* Requests that do not overlap implement WorkOrders: each takes effect in the
\* one step of its last write, or not at all.
THEOREM SerialRequestsImplementOrders == OrderTxSpec => ImplementsOrders
<1>1. SerialInv /\ [OrderTxNext]_orderTxVars => [serial => OrderNext]_orderVars
  BY SerialNextInv
<1> QED BY <1>1, SerialInvariant, PTL DEF OrderTxSpec, ImplementsOrders

-----------------------------------------------------------------------------
(* Settlements: the inductions.                                            *)

USE DEF historyVars

QuoteFree(o) == \A q \in Quotes : QuoteOrder[q] # o
Due(o) ==
    /\ orders[o].status = "closed" /\ orders[o].payer = "agency"
    /\ orders[o].final_cost # NoCost

Deductions(S) == OfType(S, "repair")
DeductsOnceBut(S, except) ==
    \A k, l \in Deductions(S) : k.source = l.source /\ k.source \notin except => k = l
DeductsOnce(S) == DeductsOnceBut(S, {})

\* A line for a repair is in the settlement of its order.
LinesTellOrders ==
    \A s \in Settlement :
        /\ DeductsOnceBut(lines[s], contested)
        /\ \A l \in Deductions(lines[s]) :
              l.source \in Orders /\ (l.source \notin contested => orders[l.source].settled = s)

SettledIsDue ==
    \A o \in Orders : QuoteFree(o) /\ orders[o].settled # NoSettlement => Due(o)

\* What the worker may write on an order over: nothing, or its own settlement.
Takes(task) ==
    IF task.op = "regenerate" THEN {NoSettlement, task.settlement} ELSE {NoSettlement}

\* What a worker has calculated still is as it read it: no other settlement
\* took the repairs, nor did this one take others meanwhile.
Stands(x) ==
    /\ DeductsOnce(x.lines)
    /\ \A l \in Deductions(x.lines) :
          /\ l.source \in Orders
          /\ l.source \notin contested => orders[l.source].settled \in Takes(x.task)
          /\ QuoteFree(l.source) => Due(l.source) /\ l.amount = orders[l.source].final_cost
    /\ \A o \in Orders \ contested :
          QuoteFree(o) /\ orders[o].settled \in Takes(x.task) \ {NoSettlement} =>
              \E l \in Deductions(x.lines) : l.source = o

ReadStands == \A w \in Workers : In(w, "read") => Stands(worker[w])

\* What x is to deduct, y is not, nor to replace the lines x adds to.
ApartBut(x, y, except) ==
    \A o \in RepairsIn(x.lines) \ except :
        /\ o \notin RepairsIn(y.lines)
        /\ QuoteFree(o) /\ y.task.op = "regenerate" => y.task.settlement # x.task.settlement

Apart ==
    \A v, w \in Workers : v # w /\ In(v, "read") /\ In(w, "read") =>
        ApartBut(worker[v], worker[w], contested)

RepairsInv == LinesTellOrders /\ SettledIsDue /\ ReadStands /\ Apart /\ SettledRepairKeepsLine

TaskUnderWay(t) ==
    \/ \E r \in sending : r.task = t
    \/ t \in tasks
    \/ \E w \in Workers : worker[w] # Idle /\ worker[w].task = t

\* Settlements are numbered by the requests: of those to come there is nothing.
CallsInOrder ==
    /\ \A s \in Settlement : s > calls => settlements[s] = NoRow /\ lines[s] = {}
    /\ \A t \in Task : TaskUnderWay(t) => t.settlement <= calls

DraftUntilCalculated ==
    \A t \in Task : TaskUnderWay(t) /\ t.op = "generate" /\ t.settlement \notin early =>
        settlements[t.settlement].status # "issued"

\* The rate of a generation is the row's.
GeneratesAtRow == \A t \in Task : TaskUnderWay(t) /\ t.op = "generate" => t.rate = NoRate

TasksInv == CallsInOrder /\ DraftUntilCalculated /\ GeneratesAtRow

\* One task at a time, in one place, for a settlement.
OneTask ==
    /\ \A q, r \in sending :
          q.task.settlement = r.task.settlement /\ q.task.settlement \notin repeated => q = r
    /\ \A t, u \in tasks : t.settlement = u.settlement /\ t.settlement \notin repeated => t = u
    /\ \A v, w \in Workers :
          worker[v] # Idle /\ worker[w] # Idle /\ Of(v) = Of(w) /\ Of(w) \notin repeated => v = w
    /\ \A r \in sending : \A t \in tasks :
          r.task.settlement \notin repeated => r.task.settlement # t.settlement
    /\ \A w \in Workers : worker[w] # Idle /\ Of(w) \notin repeated =>
          /\ \A r \in sending : r.task.settlement # Of(w)
          /\ \A t \in tasks : t.settlement # Of(w)

\* Until a generation is applied its settlement has no lines.
NoLines(s) == s \notin repeated => lines[s] = {}
FirstLines ==
    /\ \A r \in sending : r.task.op = "generate" => NoLines(r.task.settlement)
    /\ \A t \in tasks : t.op = "generate" => NoLines(t.settlement)
    /\ \A w \in Workers :
          worker[w] # Idle /\ worker[w].task.op = "generate"
          /\ worker[w].phase \in {"started", "read", "failed"} => NoLines(Of(w))

\* The lines S are those of a calculation at this percentage and rate.
ByFormula(S, commission_pct, rate) ==
    /\ \A l \in Rents(S) : l.amount = InArs(l.source, rate)
    /\ TotalsOf(S).commission =
          RoundHalfEven(CommissionBase({l.source : l \in Rents(S)}, rate) * commission_pct,
                        100 * PctScale * RateScale)

ReadByFormula ==
    \A w \in Workers : In(w, "read") /\ Of(w) \notin repeated =>
        ByFormula(worker[w].lines, settlements[Of(w)].pct,
                  EffectiveRate(Of(w), worker[w].task.rate))

Matches(s) ==
    lines[s] # {} =>
        /\ settlements[s].totals = TotalsOf(lines[s])
        /\ ByFormula(lines[s], settlements[s].pct, settlements[s].rate)
AllMatch == \A s \in Settlement \ repeated : Matches(s)

TotalsInv == OneTask /\ FirstLines /\ ReadByFormula /\ AllMatch

-----------------------------------------------------------------------------
(* The sum of the amounts of a finite set of lines.  Amount takes out a    *)
(* line CHOOSEn from the set; what is shown is that any can be taken out.  *)
(* The inductions are minimal counterexamples among the subsets.           *)

\* The functions that sum the amounts of every subset of S, whichever line
\* is taken out first.
AmountsOver(S) ==
    {f \in [SUBSET S -> Nat] :
        /\ f[{}] = 0
        /\ \A U \in SUBSET S : \A l \in U : f[U] = l.amount + f[U \ {l}]}

LEMMA SmallestSubset ==
    ASSUME NEW S, IsFiniteSet(S), NEW Bad, Bad \subseteq SUBSET S, Bad # {}
    PROVE  \E T \in Bad : \A l \in T : T \ {l} \notin Bad
<1>1. FiniteSubsetsOf(S) = SUBSET S
  BY FS_FiniteSubsetsOfFinite
<1>2. IsWellFoundedOn(StrictSubsetOrdering(S), SUBSET S)
  BY <1>1, FS_StrictSubsetOrderingWellFounded
<1>3. PICK T \in Bad : \A U \in Bad : ~ (<<U, T>> \in StrictSubsetOrdering(S))
  BY <1>2, WFMin
<1>4. ASSUME NEW l \in T PROVE T \ {l} \notin Bad
  <2>1. <<T \ {l}, T>> \in StrictSubsetOrdering(S)
    BY DEF StrictSubsetOrdering
  <2> QED BY <1>3, <2>1
<1> QED BY <1>3, <1>4

\* Such a function exists.
LEMMA AmountsExist ==
    ASSUME NEW S, IsFiniteSet(S), \A l \in S : l.amount \in Nat
    PROVE  AmountsOver(S) # {}
<1> DEFINE Bad == {T \in SUBSET S : AmountsOver(T) = {}}
<1>1. SUFFICES ASSUME S \in Bad PROVE FALSE
  OBVIOUS
<1>2. PICK T \in Bad : \A l \in T : T \ {l} \notin Bad
  BY <1>1, SmallestSubset
<1>3. CASE T = {}
  <2> DEFINE f == [U \in SUBSET T |-> 0]
  <2>1. f \in AmountsOver(T)
    BY <1>3 DEF AmountsOver
  <2> QED BY <1>2, <2>1
<1>4. CASE T # {}
  <2>1. PICK x \in T : TRUE
    BY <1>4
  <2>2. PICK g \in AmountsOver(T \ {x}) : TRUE
    BY <1>2, <2>1
  <2> DEFINE d(U) == IF x \in U THEN x.amount ELSE 0
             f == [U \in SUBSET T |-> g[U \ {x}] + d(U)]
  <2>3. x.amount \in Nat /\ \A U \in SUBSET T : d(U) \in Nat
    OBVIOUS
  <2>4. \A U \in SUBSET T : U \ {x} \in SUBSET (T \ {x}) /\ g[U \ {x}] \in Nat
    BY <2>2 DEF AmountsOver
  <2>5. f \in [SUBSET T -> Nat]
    <3>1. ASSUME NEW U \in SUBSET T PROVE g[U \ {x}] + d(U) \in Nat
      <4>1. g[U \ {x}] \in Nat /\ d(U) \in Nat
        BY <2>3, <2>4
      <4> HIDE DEF d
      <4> QED BY <4>1
    <3> HIDE DEF d
    <3> QED BY <3>1
  <2>6. f[{}] = 0
    <3>1. g[{} \ {x}] = 0
      BY <2>2 DEF AmountsOver
    <3> QED BY <3>1
  <2>7. ASSUME NEW U \in SUBSET T, NEW y \in U
        PROVE  f[U] = y.amount + f[U \ {y}]
    <3>1. y.amount \in Nat
      OBVIOUS
    <3>2. CASE y = x
      <4>1. (U \ {x}) \ {x} = U \ {x}
        OBVIOUS
      <4>2. f[U] = g[U \ {x}] + x.amount /\ f[U \ {y}] = g[U \ {x}] + 0
        BY <3>2, <4>1
      <4>3. g[U \ {x}] \in Nat
        BY <2>4
      <4> HIDE DEF f, d
      <4> QED BY <4>2, <4>3, <3>1, <3>2
    <3>3. CASE y # x
      <4>1. y \in U \ {x} /\ U \ {x} \in SUBSET (T \ {x})
        BY <3>3
      <4>2. g[U \ {x}] = y.amount + g[(U \ {x}) \ {y}]
        BY <4>1, <2>2 DEF AmountsOver
      <4>3. (U \ {x}) \ {y} = (U \ {y}) \ {x}
        OBVIOUS
      <4>4. d(U) = d(U \ {y}) /\ d(U) \in Nat
        BY <3>3, <2>3
      <4>5. f[U] = g[U \ {x}] + d(U) /\ f[U \ {y}] = g[(U \ {y}) \ {x}] + d(U \ {y})
        OBVIOUS
      <4>6. g[(U \ {y}) \ {x}] \in Nat
        BY <2>4
      <4>7. g[U \ {x}] = y.amount + g[(U \ {y}) \ {x}]
        BY <4>2, <4>3
      <4> HIDE DEF f, d
      <4> QED BY <4>4, <4>5, <4>6, <4>7, <3>1
    <3> QED BY <3>2, <3>3
  <2>8. f \in AmountsOver(T)
    <3> HIDE DEF f
    <3> QED BY <2>5, <2>6, <2>7 DEF AmountsOver
  <2> QED BY <1>2, <2>8
<1> QED BY <1>3, <1>4

\* The recursion that defines Amount.
AmountStep(S, f) ==
    [s \in SUBSET S |->
        IF s = {} THEN 0
        ELSE LET l == CHOOSE l \in s : TRUE IN l.amount + f[s \ {l}]]

LEMMA AmountIs ==
    ASSUME NEW S, IsFiniteSet(S), NEW f \in AmountsOver(S)
    PROVE  Amount(S) = f[S]
<1> DEFINE iter == CHOOSE h : h = AmountStep(S, h)
<1>1. Amount(S) = iter[S]
  BY DEF Amount, MapThenSumSet, MapThenFoldSet, AmountStep
<1>2. f = AmountStep(S, f)
  <2>1. ASSUME NEW s \in SUBSET S
        PROVE  f[s] = IF s = {} THEN 0
                      ELSE LET l == CHOOSE l \in s : TRUE IN l.amount + f[s \ {l}]
    <3>1. CASE s = {}
      BY <3>1 DEF AmountsOver
    <3>2. CASE s # {}
      <4>1. (CHOOSE l \in s : TRUE) \in s
        BY <3>2
      <4> QED BY <3>2, <4>1 DEF AmountsOver
    <3> QED BY <3>1, <3>2
  <2> QED BY <2>1 DEF AmountStep, AmountsOver
<1>3. iter = AmountStep(S, iter)
  BY <1>2
<1> HIDE DEF iter
<1> DEFINE Bad == {T \in SUBSET S : iter[T] # f[T]}
<1>4. SUFFICES ASSUME S \in Bad PROVE FALSE
  BY <1>1
<1>5. PICK T \in Bad : \A l \in T : T \ {l} \notin Bad
  BY <1>4, SmallestSubset
<1>6. CASE T = {}
  BY <1>2, <1>3, <1>5, <1>6 DEF AmountStep
<1>7. CASE T # {}
  <2> DEFINE x == CHOOSE l \in T : TRUE
  <2>1. x \in T
    BY <1>7
  <2>2. iter[T \ {x}] = f[T \ {x}]
    BY <1>5, <2>1
  <2>3. iter[T] = x.amount + iter[T \ {x}] /\ f[T] = x.amount + f[T \ {x}]
    BY <1>2, <1>3, <1>7 DEF AmountStep
  <2> QED BY <1>5, <2>2, <2>3
<1> QED BY <1>6, <1>7

\* An amount is a natural number, that of one line is its own, and that of a
\* set is the sum of those of its two parts.
LEMMA AmountParts ==
    ASSUME NEW S, IsFiniteSet(S), \A l \in S : l.amount \in Nat
    PROVE  /\ Amount(S) \in Nat
           /\ \A l : S = {l} => Amount(S) = l.amount
           /\ \A A \in SUBSET S : Amount(S) = Amount(A) + Amount(S \ A)
<1>1. PICK f \in AmountsOver(S) : TRUE
  BY AmountsExist
<1>2. Amount(S) = f[S] /\ f[S] \in Nat
  BY AmountIs DEF AmountsOver
<1>3. ASSUME NEW A \in SUBSET S PROVE Amount(A) = f[A]
  <2> DEFINE h == [U \in SUBSET A |-> f[U]]
  <2>1. h \in AmountsOver(A)
    BY DEF AmountsOver
  <2>2. IsFiniteSet(A)
    BY FS_Subset
  <2>3. Amount(A) = h[A]
    BY <2>1, <2>2, AmountIs
  <2> QED BY <2>3
<1>4. ASSUME NEW l, S = {l} PROVE Amount(S) = l.amount
  <2>1. S \ {l} = {} /\ l \in S
    BY <1>4
  <2>2. f[S] = l.amount + f[S \ {l}] /\ f[{}] = 0 /\ l.amount \in Nat
    BY <2>1 DEF AmountsOver
  <2>3. f[S] = l.amount + 0
    BY <2>1, <2>2, Zenon
  <2> QED BY <1>2, <2>2, <2>3
<1>5. ASSUME NEW A \in SUBSET S PROVE f[S] = f[A] + f[S \ A]
  <2> DEFINE Bad == {T \in SUBSET (S \ A) : f[A \cup T] # f[A] + f[T]}
  <2>1. A \cup (S \ A) = S
    OBVIOUS
  <2>2. SUFFICES ASSUME S \ A \in Bad PROVE FALSE
    BY <2>1
  <2>3. IsFiniteSet(S \ A) /\ Bad \subseteq SUBSET (S \ A) /\ Bad # {}
    BY <2>2, FS_Subset
  <2>4. PICK T \in Bad : \A l \in T : T \ {l} \notin Bad
    <3> HIDE DEF Bad
    <3> QED BY <2>3, SmallestSubset
  <2>5. CASE T = {}
    <3>1. f[A \cup T] = f[A] /\ f[T] = 0 /\ f[A] \in Nat
      BY <2>5 DEF AmountsOver
    <3> QED BY <2>4, <3>1
  <2>6. CASE T # {}
    <3>1. PICK x \in T : TRUE
      BY <2>6
    <3>2. f[A \cup (T \ {x})] = f[A] + f[T \ {x}]
      BY <2>4, <3>1
    <3>3. (A \cup T) \ {x} = A \cup (T \ {x})
      BY <2>4, <3>1
    <3>4. f[A \cup T] = x.amount + f[(A \cup T) \ {x}] /\ f[T] = x.amount + f[T \ {x}]
      BY <2>4, <3>1 DEF AmountsOver
    <3>5. x.amount \in Nat /\ f[A] \in Nat /\ f[T \ {x}] \in Nat
      BY <2>4, <3>1 DEF AmountsOver
    <3>6. f[A \cup T] = x.amount + (f[A] + f[T \ {x}])
      BY <3>2, <3>3, <3>4, Zenon
    <3>7. f[A \cup T] = f[A] + f[T]
      <4> HIDE DEF Bad
      <4> QED BY <3>4, <3>5, <3>6
    <3> QED BY <2>4, <3>7
  <2> QED BY <2>5, <2>6
<1> QED BY <1>2, <1>3, <1>4, <1>5

-----------------------------------------------------------------------------
(* The calculation.                                                        *)

RentType(p) ==
    IF PaymentOf[p].destination = "agency_account" THEN "rent_collected" ELSE "already_settled"

RentLine(p, rate, batch) ==
    [batch |-> batch, type |-> RentType(p), source |-> p, amount |-> InArs(p, rate)]
RentLines(period, rate, batch) == {RentLine(p, rate, batch) : p \in SettledPayments(period)}

CommissionLine(period, commission_pct, rate, batch) ==
    [batch |-> batch, type |-> "commission", source |-> "landlord",
     amount |-> Commission(SettledPayments(period), commission_pct, rate)]

ChargeLines(period, batch) ==
    {[batch |-> batch, type |-> "tax_charge", source |-> period, amount |-> c]
        : c \in {charges[period]} \ {0}}

RepairLine(o, batch) ==
    [batch |-> batch, type |-> "repair", source |-> o, amount |-> orders[o].final_cost]
RepairLines(current, batch) == {RepairLine(o, batch) : o \in Repairs(current)}

\* A calculation in its four parts.
LEMMA CalculationParts ==
    ASSUME NEW current, NEW period, NEW commission_pct, NEW rate, NEW batch
    PROVE  CalculatedLines(current, period, commission_pct, rate, batch) =
               RentLines(period, rate, batch)
               \cup {CommissionLine(period, commission_pct, rate, batch)}
               \cup ChargeLines(period, batch)
               \cup RepairLines(current, batch)
BY Zenon DEF CalculatedLines, RentLines, RentLine, RentType, CommissionLine, ChargeLines,
      RepairLine, RepairLines

\* Each part has its own types of lines.
LEMMA PartTypes ==
    ASSUME NEW current, NEW period, NEW commission_pct, NEW rate, NEW batch
    PROVE  /\ \A l \in RentLines(period, rate, batch) : l.type \in {"rent_collected", "already_settled"}
           /\ CommissionLine(period, commission_pct, rate, batch).type = "commission"
           /\ \A l \in ChargeLines(period, batch) : l.type = "tax_charge"
           /\ \A l \in RepairLines(current, batch) : l.type = "repair"
<1>1. ASSUME NEW l \in RentLines(period, rate, batch)
      PROVE  l.type \in {"rent_collected", "already_settled"}
  <2>1. PICK p \in SettledPayments(period) : l = RentLine(p, rate, batch)
    BY DEF RentLines
  <2>2. l.type = RentType(p)
    BY <2>1 DEF RentLine
  <2> QED BY <2>2 DEF RentType
<1>2. CommissionLine(period, commission_pct, rate, batch).type = "commission"
  BY DEF CommissionLine
<1>3. \A l \in ChargeLines(period, batch) : l.type = "tax_charge"
  BY DEF ChargeLines
<1>4. \A l \in RepairLines(current, batch) : l.type = "repair"
  BY DEF RepairLines, RepairLine
<1> QED BY <1>1, <1>2, <1>3, <1>4

LEMMA LinesOfTypes ==
    ASSUME NEW current, NEW period, NEW commission_pct, NEW rate, NEW batch
    PROVE  LET all == CalculatedLines(current, period, commission_pct, rate, batch)
               rents == RentLines(period, rate, batch)
           IN  /\ Deductions(all) = RepairLines(current, batch)
               /\ OfType(all, "commission") = {CommissionLine(period, commission_pct, rate, batch)}
               /\ Rents(all) = rents
<1> DEFINE all == CalculatedLines(current, period, commission_pct, rate, batch)
           rents == RentLines(period, rate, batch)
           commission == CommissionLine(period, commission_pct, rate, batch)
           taxes == ChargeLines(period, batch)
           repairs == RepairLines(current, batch)
<1>1. all = rents \cup {commission} \cup taxes \cup repairs
  BY CalculationParts
<1>2. /\ \A l \in rents : l.type \in {"rent_collected", "already_settled"}
      /\ commission.type = "commission"
      /\ \A l \in taxes : l.type = "tax_charge"
      /\ \A l \in repairs : l.type = "repair"
  BY PartTypes
<1> HIDE DEF all, rents, commission, taxes, repairs
<1>3. /\ Deductions(all) = repairs /\ OfType(all, "commission") = {commission}
      /\ Rents(all) = rents
  BY <1>1, <1>2 DEF OfType, Deductions, Rents
<1> QED BY <1>3 DEF all, rents, commission, taxes, repairs

\* A calculation has one line for each of the repairs it takes.
LEMMA CalculatedRepairs ==
    ASSUME NEW current, NEW period, NEW commission_pct, NEW rate, NEW batch
    PROVE  LET all == CalculatedLines(current, period, commission_pct, rate, batch)
           IN  /\ DeductsOnce(all)
               /\ \A l \in Deductions(all) : l.source \in Repairs(current)
                                             /\ l.amount = orders[l.source].final_cost
               /\ \A o \in Repairs(current) : \E l \in Deductions(all) : l.source = o
<1> DEFINE all == CalculatedLines(current, period, commission_pct, rate, batch)
<1>1. Deductions(all) = {RepairLine(o, batch) : o \in Repairs(current)}
  BY LinesOfTypes DEF RepairLines
<1>2. \A o : RepairLine(o, batch).source = o /\ RepairLine(o, batch).amount = orders[o].final_cost
  BY DEF RepairLine
<1> HIDE DEF all
<1>3. /\ DeductsOnce(all)
      /\ \A l \in Deductions(all) : l.source \in Repairs(current)
                                    /\ l.amount = orders[l.source].final_cost
      /\ \A o \in Repairs(current) : \E l \in Deductions(all) : l.source = o
  BY <1>1, <1>2 DEF DeductsOnce, DeductsOnceBut
<1> QED BY <1>3 DEF all

\* round2, for any amount and divisor: what it returns is within half a unit
\* of n / d, and is even when it is half a unit away (ROUND_HALF_EVEN).
THEOREM RoundsToNearest ==
    ASSUME NEW n \in Nat, NEW d \in Nat \ {0}
    PROVE  /\ RoundHalfEven(n, d) \in Nat
           /\ 2 * d * RoundHalfEven(n, d) - 2 * n \in -d..d
           /\ 2 * d * RoundHalfEven(n, d) - 2 * n \in {-d, d} => RoundHalfEven(n, d) % 2 = 0
<1> DEFINE q == n \div d
           r == n % d
<1>1. q \in Nat /\ r \in 0..(d-1) /\ n = d * q + r
  OBVIOUS
<1>2. \/ RoundHalfEven(n, d) = q + 1 /\ (2 * r > d \/ (2 * r = d /\ q % 2 = 1))
      \/ RoundHalfEven(n, d) = q /\ (2 * r < d \/ (2 * r = d /\ q % 2 = 0))
  <2>1. q % 2 = 1 \/ q % 2 = 0
    BY <1>1
  <2> QED BY <1>1, <2>1 DEF RoundHalfEven
<1> HIDE DEF q, r
<1>3. q % 2 = 1 => (q + 1) % 2 = 0
  BY <1>1
<1> DEFINE x == d * q
<1>4. x \in Nat /\ 2 * d * q = 2 * x /\ 2 * d * (q + 1) = 2 * x + 2 * d /\ n = x + r
  BY <1>1
<1> HIDE DEF x
<1>5. CASE RoundHalfEven(n, d) = q + 1 /\ (2 * r > d \/ (2 * r = d /\ q % 2 = 1))
  <2>1. 2 * d * RoundHalfEven(n, d) - 2 * n = 2 * d - 2 * r
    BY <1>1, <1>4, <1>5
  <2> QED BY <1>1, <1>3, <1>5, <2>1
<1>6. CASE RoundHalfEven(n, d) = q /\ (2 * r < d \/ (2 * r = d /\ q % 2 = 0))
  <2>1. 2 * d * RoundHalfEven(n, d) - 2 * n = - (2 * r)
    BY <1>1, <1>4, <1>6
  <2> QED BY <1>1, <1>6, <2>1
<1> QED BY <1>2, <1>5, <1>6

\* A function of a finite set has finitely many values.
LEMMA FiniteImage ==
    ASSUME NEW S, IsFiniteSet(S), NEW f, f = [x \in S |-> f[x]]
    PROVE  IsFiniteSet({f[x] : x \in S})
<1>1. f \in Surjection(S, {f[x] : x \in S})
  BY DEF Surjection
<1> QED BY <1>1, FS_Surjection

LEMMA ConvertedNat ==
    ASSUME NEW p \in Payments, NEW rate \in Nat
    PROVE  Converted(p, rate) \in Nat /\ InArs(p, rate) \in Nat
<1>1. PaymentOf[p].amount \in Nat /\ RateScale \in Nat \ {0}
  BY SettlementConstants DEF PaymentData
<1>2. PaymentOf[p].amount * rate \in Nat /\ PaymentOf[p].amount * RateScale \in Nat
  BY <1>1
<1>3. Converted(p, rate) \in Nat
  BY <1>2 DEF Converted
<1> QED BY <1>1, <1>3, RoundsToNearest DEF InArs

LEMMA CommissionNat ==
    ASSUME NEW S \in SUBSET Payments, NEW commission_pct \in Pcts, NEW rate \in Nat
    PROVE  Commission(S, commission_pct, rate) \in Nat
<1> DEFINE item(p) == [payment |-> p, amount |-> Converted(p, rate)]
           f == [p \in S |-> item(p)]
           items == {item(p) : p \in S}
<1>1. IsFiniteSet(S)
  BY SettlementConstants, FS_Subset
<1>2. IsFiniteSet({f[p] : p \in S})
  BY <1>1, FiniteImage
<1>3. IsFiniteSet(items)
  BY <1>2
<1>4. \A p \in S : item(p).amount \in Nat
  BY ConvertedNat
<1>5. \A l \in items : l.amount \in Nat
  BY <1>4
<1>6. Amount(items) \in Nat
  <2> HIDE DEF items
  <2> QED BY <1>3, <1>5, AmountParts
<1>7. CommissionBase(S, rate) \in Nat
  BY <1>6 DEF CommissionBase
<1>8. commission_pct \in Nat /\ PctScale \in Nat \ {0} /\ RateScale \in Nat \ {0}
  BY SettlementConstants
<1>9. \A a, b \in Nat \ {0} : a * b \in Nat \ {0}
  OBVIOUS
<1>10. 100 * PctScale * RateScale \in Nat \ {0}
  <2>1. 100 * PctScale \in Nat \ {0}
    BY <1>8
  <2> QED BY <1>8, <1>9, <2>1
<1>11. CommissionBase(S, rate) * commission_pct \in Nat
  BY <1>7, <1>8
<1> QED BY <1>10, <1>11, RoundsToNearest DEF Commission

LEMMA RentsAreNaturals ==
    ASSUME NEW period, NEW rate \in Nat, NEW batch
    PROVE  /\ SettledPayments(period) \in SUBSET Payments
           /\ IsFiniteSet(RentLines(period, rate, batch))
           /\ \A l \in RentLines(period, rate, batch) : l.amount \in Nat
<1>1. IsFiniteSet(SettledPayments(period)) /\ SettledPayments(period) \subseteq Payments
  BY SettlementConstants, FS_Subset DEF SettledPayments
<1>2. IsFiniteSet(RentLines(period, rate, batch))
  <2> DEFINE S == SettledPayments(period)
             f == [p \in S |-> RentLine(p, rate, batch)]
  <2>1. IsFiniteSet({f[p] : p \in S})
    <3> HIDE DEF S
    <3> QED BY <1>1, FiniteImage DEF S
  <2>2. {f[p] : p \in S} = RentLines(period, rate, batch)
    BY DEF RentLines
  <2> QED BY <2>1, <2>2
<1>3. \A p \in Payments : InArs(p, rate) \in Nat
  BY ConvertedNat
<1>4. \A l \in RentLines(period, rate, batch) : l.amount \in Nat
  BY <1>1, <1>3 DEF RentLines, RentLine
<1> QED BY <1>1, <1>2, <1>4

\* The lines are the payments at the rate, and the commission is that of all
\* of them, whoever collected them, rounded once.
LEMMA CalculatedByFormula ==
    ASSUME NEW current, NEW period, NEW commission_pct \in Pcts, NEW rate \in Nat, NEW batch
    PROVE  ByFormula(CalculatedLines(current, period, commission_pct, rate, batch), commission_pct, rate)
<1> DEFINE all == CalculatedLines(current, period, commission_pct, rate, batch)
           rents == RentLines(period, rate, batch)
           line == CommissionLine(period, commission_pct, rate, batch)
           commission == OfType(all, "commission")
<1>1. Rents(all) = rents /\ commission = {line}
  BY LinesOfTypes
<1>2. line.amount = Commission(SettledPayments(period), commission_pct, rate)
  BY DEF CommissionLine
<1>3. line.amount \in Nat
  BY <1>2, RentsAreNaturals, CommissionNat
<1>4. \A l \in rents : l.amount = InArs(l.source, rate)
  BY DEF RentLines, RentLine
<1>5. {l.source : l \in rents} = SettledPayments(period)
  <2>1. \A p : RentLine(p, rate, batch).source = p
    BY DEF RentLine
  <2> QED BY <2>1 DEF RentLines
<1>6. TotalsOf(all).commission = Amount(commission)
  BY DEF TotalsOf, commission
<1> HIDE DEF all, rents, line, commission
<1>7. Amount(commission) = line.amount
  <2>1. IsFiniteSet(commission) /\ \A l \in commission : l.amount \in Nat
    BY <1>1, <1>3, FS_Singleton
  <2> QED BY <1>1, <2>1, AmountParts
<1>8. ByFormula(all, commission_pct, rate)
  BY <1>1, <1>2, <1>4, <1>5, <1>6, <1>7, Zenon DEF ByFormula, Commission
<1> QED BY <1>8 DEF all

\* What is calculated are finitely many lines, whose totals are numbers.
LEMMA CalculatedTyped ==
    ASSUME TypeOK, NEW current, NEW period \in Periods, NEW commission_pct \in Pcts,
           NEW rate \in Nat, NEW batch \in 1..2
    PROVE  LET all == CalculatedLines(current, period, commission_pct, rate, batch)
           IN  all \in SUBSET Line /\ IsFiniteSet(all)
<1> DEFINE all == CalculatedLines(current, period, commission_pct, rate, batch)
           rents == RentLines(period, rate, batch)
           commission == CommissionLine(period, commission_pct, rate, batch)
           taxes == ChargeLines(period, batch)
           repairs == RepairLines(current, batch)
<1>1. IsFiniteSet(rents) /\ \A l \in rents : l.amount \in Nat
  BY RentsAreNaturals
<1>2. rents \subseteq Line
  <2> SUFFICES ASSUME NEW l \in rents PROVE l \in Line
    OBVIOUS
  <2>1. l.amount \in Nat
    BY <1>1
  <2>2. PICK p \in Payments : l = RentLine(p, rate, batch)
    BY DEF RentLines, SettledPayments
  <2> QED BY <2>1, <2>2 DEF RentLine, RentType, Line
<1>3. commission \in Line
  <2>1. Commission(SettledPayments(period), commission_pct, rate) \in Nat
    BY RentsAreNaturals, CommissionNat
  <2> QED BY <2>1 DEF CommissionLine, Line
<1>4. taxes \subseteq Line /\ IsFiniteSet(taxes)
  <2> DEFINE c == charges[period]
             line == [batch |-> batch, type |-> "tax_charge", source |-> period, amount |-> c]
  <2>1. c \in Nat
    <3>1. charges \in [Periods -> ChargeAmounts \cup {0}] /\ ChargeAmounts \subseteq Nat
      BY SettlementConstants DEF TypeOK
    <3>2. charges[period] \in ChargeAmounts \cup {0}
      BY <3>1
    <3>3. \A x \in ChargeAmounts \cup {0} : x \in Nat
      BY <3>1
    <3> QED BY <3>2, <3>3, Zenon
  <2>2. line \in Line
    BY <2>1 DEF Line
  <2>3. taxes \subseteq {line}
    BY DEF ChargeLines
  <2>4. IsFiniteSet({line})
    BY FS_Singleton
  <2>5. IsFiniteSet(taxes)
    BY <2>3, <2>4, FS_Subset
  <2> QED BY <2>2, <2>3, <2>5
<1>5. repairs \subseteq Line /\ IsFiniteSet(repairs)
  <2> DEFINE S == Repairs(current)
             f == [o \in S |-> RepairLine(o, batch)]
  <2>1. IsFiniteSet(S) /\ S \subseteq Orders
    BY SettlementConstants, FS_Subset DEF Repairs
  <2>2. IsFiniteSet({f[o] : o \in S})
    <3> HIDE DEF S
    <3> QED BY <2>1, FiniteImage
  <2>3. {f[o] : o \in S} = repairs
    BY DEF RepairLines
  <2>4. \A o \in S : orders[o].final_cost \in Nat
    BY WorkOrderConstants DEF TypeOK, OrderRow, Repairs
  <2>5. \A o \in S : RepairLine(o, batch) \in Line
    BY <2>1, <2>4 DEF RepairLine, Line
  <2>6. repairs \subseteq Line
    BY <2>5 DEF RepairLines
  <2> QED BY <2>2, <2>3, <2>6
<1>6. all = rents \cup {commission} \cup taxes \cup repairs
  BY CalculationParts
<1> HIDE DEF all, rents, commission, taxes, repairs
<1>7. IsFiniteSet({commission})
  BY FS_Singleton
<1>8. IsFiniteSet(all)
  BY <1>1, <1>4, <1>5, <1>6, <1>7, FS_Union
<1>9. all \in SUBSET Line
  BY <1>2, <1>3, <1>4, <1>5, <1>6
<1> QED BY <1>8, <1>9 DEF all

LEMMA TotalsTyped ==
    ASSUME NEW S \in SUBSET Line, IsFiniteSet(S)
    PROVE  TotalsOf(S) \in Totals
<1>1. ASSUME NEW type PROVE Amount(OfType(S, type)) \in Nat
  <2>1. OfType(S, type) \subseteq S /\ \A l \in OfType(S, type) : l.amount \in Nat
    BY DEF OfType, Line
  <2>2. IsFiniteSet(OfType(S, type))
    BY <2>1, FS_Subset
  <2> QED BY <2>1, <2>2, AmountParts
<1>2. \A type : Amount(OfType(S, type)) \in Nat
  BY <1>1
<1> DEFINE a(type) == Amount(OfType(S, type))
<1>3. \A type : a(type) \in Nat
  BY <1>2
<1>4. TotalsOf(S) = [collected |-> a("rent_collected"), commission |-> a("commission"),
                     charges |-> a("tax_charge"), repairs |-> a("repair"),
                     already |-> a("already_settled"),
                     net |-> a("rent_collected") - a("commission") - a("tax_charge") - a("repair")]
  BY DEF TotalsOf
<1> HIDE DEF a
<1>5. a("rent_collected") - a("commission") - a("tax_charge") - a("repair") \in Int
  BY <1>3
<1> QED BY <1>3, <1>4, <1>5 DEF Totals

-----------------------------------------------------------------------------
(* Types.                                                                  *)

FiniteLines == \A w \in Workers : worker[w] # Idle => IsFiniteSet(worker[w].lines)

TypedInv == TypeOK /\ FiniteLines

\* What a step of the work orders leaves alone.
OrdersKeep ==
    /\ orders' \in [Orders -> OrderRow(Settlement)]
    /\ \A o \in Orders :
          /\ orders'[o].settled = orders[o].settled
          /\ QuoteFree(o) /\ orders[o].status = "closed" => orders'[o] = orders[o]

LEMMA NoCostKnown == NoCost \notin Nat /\ Costs \subseteq Nat
BY WorkOrderConstants DEF NoCost

LEMMA OrderSteps ==
    ASSUME orders \in [Orders -> OrderRow(Settlement)], quotes \in [Quotes -> QuoteRow], OrderNext
    PROVE  OrdersKeep /\ quotes' \in [Quotes -> QuoteRow]
<1> USE DEF OrdersKeep, OrderRow, OrderStatus
<1>1. ASSUME NEW o \in Orders, NEW payer \in {"landlord", "agency"}, CreateOrder(o, payer)
      PROVE  OrdersKeep /\ quotes' \in [Quotes -> QuoteRow]
  BY <1>1 DEF CreateOrder
<1>2. ASSUME NEW q \in Quotes, NEW amount \in Costs \ {0}, AddQuote(q, amount)
      PROVE  OrdersKeep /\ quotes' \in [Quotes -> QuoteRow]
  BY <1>2 DEF AddQuote, QuoteRow
<1>3. ASSUME NEW q \in Quotes, ApproveQuote(q)
      PROVE  OrdersKeep /\ quotes' \in [Quotes -> QuoteRow]
  <2> DEFINE o == QuoteOrder[q]
  <2>1. o \in Orders /\ ~ QuoteFree(o)
    BY WorkOrderConstants DEF QuoteFree
  <2>2. orders' = [orders EXCEPT ![o].status = "in_progress", ![o].approved_quote = q,
                                 ![o].final_cost = quotes[q].amount]
    BY <1>3 DEF ApproveQuote
  <2>3. quotes[q].amount \in Costs \cup {NoCost}
    BY DEF QuoteRow
  <2> HIDE DEF o
  <2>4. OrdersKeep
    BY <2>1, <2>2, <2>3
  <2>5. quotes' \in [Quotes -> QuoteRow]
    BY <1>3 DEF ApproveQuote, QuoteRow
  <2> QED BY <2>4, <2>5
<1>4. ASSUME NEW o \in Orders, NEW cost \in Costs \cup {NoCost}, CloseOrder(o, cost)
      PROVE  OrdersKeep /\ quotes' \in [Quotes -> QuoteRow]
  <2> DEFINE final == IF cost # NoCost THEN cost ELSE quotes[orders[o].approved_quote].amount
  <2>1. /\ orders[o].status \in {"open", "in_progress"}
        /\ orders' = [orders EXCEPT ![o].status = "closed", ![o].final_cost = final]
        /\ quotes' = quotes
    BY <1>4 DEF CloseOrder
  <2>2. final \in Costs \cup {NoCost}
    BY <1>4 DEF CloseOrder, QuoteRow
  <2> HIDE DEF final
  <2> QED BY <2>1, <2>2
<1>5. ASSUME NEW o \in Orders, CancelOrder(o)
      PROVE  OrdersKeep /\ quotes' \in [Quotes -> QuoteRow]
  BY <1>5 DEF CancelOrder
<1> QED BY <1>1, <1>2, <1>3, <1>4, <1>5 DEF OrderNext

LEMMA NoRowTyped == Pcts # {} => NoRow \in Row
<1> SUFFICES ASSUME Pcts # {} PROVE NoRow \in Row
  OBVIOUS
<1>1. (CHOOSE m \in Periods : TRUE) \in Periods /\ (CHOOSE p \in Pcts : TRUE) \in Pcts
  BY SettlementConstants
<1> QED BY <1>1 DEF NoRow, Row, NoTotals, Totals, NoRate

LEMMA InitTyped == Init => TypedInv
<1> SUFFICES ASSUME Init PROVE TypedInv
  OBVIOUS
<1>1. NoRow \in Row
  BY NoRowTyped DEF Init
<1>2. orders \in [Orders -> OrderRow(Settlement)] /\ quotes \in [Quotes -> QuoteRow]
  BY DEF Init, InitOrders, OrderRow, OrderStatus, QuoteRow
<1>3. calls \in 0..MaxCalls
  BY SettlementConstants DEF Init
<1>4. lines \in [Settlement -> SUBSET Line] /\ worker \in [Workers -> {Idle} \cup Working]
  BY DEF Init
<1> QED BY <1>1, <1>2, <1>3, <1>4 DEF Init, TypedInv, TypeOK, FiniteLines, JobStatus

\* The steps that leave the rows typed as they were.
LEMMA TablesTyped ==
    ASSUME TypedInv,
           \/ OrderNext /\ UNCHANGED settlementVars
           \/ \E p \in Payments : RegisterPayment(p) \/ VoidPayment(p)
           \/ \E m \in Periods, amount \in ChargeAmounts : SetCharge(m, amount)
           \/ \E p \in Pcts : ChangeCommission(p)
           \/ \E s \in Settlement : Issue(s) \/ ExpireJob(s)
    PROVE  TypedInv'
<1> USE DEF TypedInv, TypeOK, FiniteLines
<1>1. CASE OrderNext /\ UNCHANGED settlementVars
  <2>1. OrdersKeep /\ quotes' \in [Quotes -> QuoteRow]
    BY <1>1, OrderSteps
  <2> QED BY <1>1, <2>1 DEF OrdersKeep, settlementVars
<1>2. ASSUME NEW p \in Payments, RegisterPayment(p) PROVE TypedInv'
  BY <1>2 DEF RegisterPayment, orderVars
<1>3. ASSUME NEW p \in Payments, VoidPayment(p) PROVE TypedInv'
  BY <1>3 DEF VoidPayment, orderVars
<1>4. ASSUME NEW m \in Periods, NEW amount \in ChargeAmounts, SetCharge(m, amount) PROVE TypedInv'
  BY <1>4 DEF SetCharge, orderVars
<1>5. ASSUME NEW p \in Pcts, ChangeCommission(p) PROVE TypedInv'
  BY <1>5 DEF ChangeCommission, orderVars
<1>6. ASSUME NEW s \in Settlement, Issue(s) PROVE TypedInv'
  BY <1>6 DEF Issue, orderVars, Row
<1>7. ASSUME NEW s \in Settlement, ExpireJob(s) PROVE TypedInv'
  BY <1>7 DEF ExpireJob, orderVars, JobStatus
<1> QED BY <1>1, <1>2, <1>3, <1>4, <1>5, <1>6, <1>7

\* The requests.
LEMMA RequestsTyped ==
    ASSUME TypedInv,
           \/ \E m \in Periods, rate \in Rates \cup {NoRate} : Generate(m, rate)
           \/ \E s \in Settlement, rate \in Rates \cup {NoRate} : Regenerate(s, rate)
           \/ \E r \in sending : MarkPending(r) \/ Send(r) \/ RequestDies(r)
    PROVE  TypedInv'
<1> USE DEF TypedInv, TypeOK, FiniteLines
<1>0. MaxCalls \in Nat /\ calls \in 0..MaxCalls
  BY SettlementConstants
<1>1. ASSUME calls < MaxCalls PROVE calls + 1 \in Settlement /\ calls + 1 \in 0..MaxCalls
  BY <1>0, <1>1 DEF Settlement
<1>2. ASSUME calls < MaxCalls, NEW op \in {"generate", "regenerate"}, NEW s \in Settlement,
             NEW rate \in Rates \cup {NoRate}
      PROVE  Call(op, s, rate) \in [step: {"checked", "pending"}, task: Task]
  BY <1>1, <1>2 DEF Call, Task, Settlement
<1>3. ASSUME NEW m \in Periods, NEW rate \in Rates \cup {NoRate}, Generate(m, rate) PROVE TypedInv'
  <2>1. calls < MaxCalls
    BY <1>3 DEF Generate
  <2>2. Call("generate", calls + 1, NoRate) \in [step: {"checked", "pending"}, task: Task]
    BY <1>1, <1>2, <2>1
  <2> DEFINE row == [status |-> "draft", period |-> m, rate |-> rate, pct |-> pct,
                     totals |-> NoTotals, regenerated |-> 0]
  <2>3. row \in Row
    BY DEF Row, NoTotals, Totals
  <2>4. settlements' = [settlements EXCEPT ![calls + 1] = row]
    BY <1>3 DEF Generate
  <2> HIDE DEF row
  <2>5. settlements' \in [Settlement -> Row]
    BY <2>3, <2>4
  <2> QED BY <1>1, <1>3, <2>1, <2>2, <2>5 DEF Generate, orderVars
<1>4. ASSUME NEW s \in Settlement, NEW rate \in Rates \cup {NoRate}, Regenerate(s, rate)
      PROVE  TypedInv'
  <2>1. calls < MaxCalls
    BY <1>4 DEF Regenerate
  <2>2. Call("regenerate", s, rate) \in [step: {"checked", "pending"}, task: Task]
    BY <1>2, <2>1
  <2> QED BY <1>1, <1>4, <2>1, <2>2 DEF Regenerate, orderVars
<1>5. ASSUME NEW r \in sending, MarkPending(r) PROVE TypedInv'
  BY <1>5 DEF MarkPending, orderVars, JobStatus
<1>6. ASSUME NEW r \in sending, Send(r) PROVE TypedInv'
  BY <1>6 DEF Send, orderVars
<1>7. ASSUME NEW r \in sending, RequestDies(r) PROVE TypedInv'
  BY <1>7 DEF RequestDies, orderVars
<1> QED BY <1>3, <1>4, <1>5, <1>6, <1>7

\* The row, period, percentage and rate a worker reads.
LEMMA RowRead ==
    ASSUME TypeOK, NEW w \in Workers, worker[w] # Idle
    PROVE  /\ worker[w] \in Working /\ Of(w) \in Settlement
           /\ settlements[Of(w)].period \in Periods
           /\ settlements[Of(w)].pct \in Pcts
           /\ settlements[Of(w)].regenerated \in Nat
           /\ EffectiveRate(Of(w), worker[w].task.rate) \in Rates \cup {NoRate}
           /\ EffectiveRate(Of(w), worker[w].task.rate) \in Nat
<1>1. worker[w] \in Working /\ Of(w) \in Settlement /\ worker[w].task.rate \in Rates \cup {NoRate}
  BY DEF TypeOK, Working, Of, Task
<1>2. settlements[Of(w)] \in Row
  BY <1>1 DEF TypeOK
<1>3. Rates \cup {NoRate} \subseteq Nat
  BY SettlementConstants DEF NoRate
<1> QED BY <1>1, <1>2, <1>3 DEF Row, EffectiveRate

\* What reading calculates.
LEMMA ReadCalculates ==
    ASSUME TypeOK, NEW w \in Workers, Read(w)
    PROVE  \E batch \in 1..2 :
             LET s == Of(w)
                 again == worker[w].task.op = "regenerate"
                 new == CalculatedLines(IF again THEN s ELSE NoSettlement, settlements[s].period,
                                        settlements[s].pct,
                                        EffectiveRate(s, worker[w].task.rate), batch)
             IN  /\ worker' = [worker EXCEPT ![w].phase = "read",
                                             ![w].regenerated = settlements[s].regenerated,
                                             ![w].lines = new]
                 /\ new \in SUBSET Line /\ IsFiniteSet(new)
                 /\ RepairsIn(new) \subseteq Orders
<1> DEFINE s == Of(w)
           again == worker[w].task.op = "regenerate"
           current == IF again THEN s ELSE NoSettlement
           batch == IF again \/ lines[s] = {} THEN 1 ELSE 2
           new == CalculatedLines(current, settlements[s].period, settlements[s].pct,
                                  EffectiveRate(s, worker[w].task.rate), batch)
<1>1. batch \in 1..2
  OBVIOUS
<1>2. worker[w] # Idle
  BY DEF Read, In
<1>3. new \in SUBSET Line /\ IsFiniteSet(new)
  <2> HIDE DEF current, batch
  <2> QED BY <1>1, <1>2, RowRead, CalculatedTyped
<1>4. worker' = [worker EXCEPT ![w].phase = "read",
                               ![w].regenerated = settlements[s].regenerated,
                               ![w].lines = new]
  BY DEF Read, CommissionPct
<1>5. RepairsIn(new) \subseteq Orders
  <2>1. \A l \in Deductions(new) : l.source \in Repairs(current)
    BY CalculatedRepairs
  <2> QED BY <2>1 DEF RepairsIn, Deductions, Repairs
<1> WITNESS batch \in 1..2
<1> QED BY <1>3, <1>4, <1>5

\* A step of a worker that takes its task up, puts it down, or ends a phase.
LEMMA TaskRedelivered ==
    ASSUME NEW t \in Task PROVE [t EXCEPT !.redelivered = TRUE] \in Task
BY DEF Task

LEMMA WorkersTyped ==
    ASSUME TypedInv, NEW w \in Workers, WorkerStep(w) \/ LoseWorker(w)
    PROVE  TypedInv'
<1> USE DEF TypedInv, FiniteLines
<1>0. \A v \in Workers : worker[v] # Idle => worker[v] \in Working
  BY DEF TypeOK
<1>1. ASSUME NEW t \in tasks, Start(w, t) PROVE TypedInv'
  <2> DEFINE x == [phase |-> "started", task |-> t, lines |-> {}, regenerated |-> 0]
  <2>1. t \in Task /\ t.settlement \in Settlement
    BY DEF TypeOK, Task
  <2>2. x \in Working /\ x.lines = {}
    BY <2>1 DEF Working, Phase
  <2>3. worker' = [worker EXCEPT ![w] = x]
    BY <1>1 DEF Start
  <2> HIDE DEF x
  <2>4. TypeOK'
    BY <1>1, <2>1, <2>2, <2>3 DEF TypeOK, Start, orderVars, JobStatus
  <2>5. FiniteLines'
    BY <2>2, <2>3, FS_EmptySet DEF TypeOK
  <2> QED BY <2>4, <2>5
<1>2. ASSUME Skip(w) PROVE TypedInv'
  BY <1>2 DEF TypeOK, Skip, orderVars
<1>3. ASSUME Read(w) PROVE TypedInv'
  <2>1. PICK new \in SUBSET Line :
          /\ IsFiniteSet(new) /\ RepairsIn(new) \subseteq Orders
          /\ worker' = [worker EXCEPT ![w].phase = "read",
                                      ![w].regenerated = settlements[Of(w)].regenerated,
                                      ![w].lines = new]
    BY <1>3, ReadCalculates
  <2>2. worker[w] \in Working /\ settlements[Of(w)].regenerated \in Nat
    BY <1>3, RowRead DEF Read, In
  <2>3. worker' \in [Workers -> {Idle} \cup Working]
    BY <2>1, <2>2 DEF TypeOK, Working, Phase
  <2>4. \A v \in Workers : worker'[v] # Idle => IsFiniteSet(worker'[v].lines)
    BY <2>1, <2>2, <1>0 DEF TypeOK, Working
  <2>5. contested' \subseteq Orders
    <3>1. worker'[w].lines = new
      BY <2>1, <2>2 DEF TypeOK, Working
    <3> QED BY <1>3, <2>1, <3>1 DEF TypeOK, Read
  <2> QED BY <1>3, <2>3, <2>4, <2>5 DEF TypeOK, Read, orderVars
<1>4. ASSUME Fail(w) \/ Report(w) PROVE TypedInv'
  <2>1. worker[w] # Idle /\ worker[w] \in Working /\ Of(w) \in Settlement
    BY <1>4, RowRead DEF Fail, Report, In
  <2>2. PICK phase \in Phase, status \in JobStatus :
          /\ worker' = [worker EXCEPT ![w].phase = phase]
          /\ job' = [job EXCEPT ![Of(w)] = status]
    BY <1>4 DEF Fail, Report, Phase, JobStatus
  <2>3. worker' \in [Workers -> {Idle} \cup Working]
    BY <2>1, <2>2 DEF TypeOK, Working
  <2>4. \A v \in Workers : worker'[v] # Idle => IsFiniteSet(worker'[v].lines)
    BY <2>1, <2>2, <1>0 DEF TypeOK, Working
  <2>5. job' \in [Settlement -> JobStatus]
    BY <2>1, <2>2 DEF TypeOK
  <2> QED BY <1>4, <2>3, <2>4, <2>5 DEF TypeOK, Fail, Report, orderVars
<1>5. ASSUME Acknowledge(w) PROVE TypedInv'
  BY <1>5 DEF TypeOK, Acknowledge, orderVars
<1>6. ASSUME CleanUp(w) PROVE TypedInv'
  <2>1. worker[w] # Idle /\ Of(w) \in Settlement
    BY <1>6, RowRead DEF CleanUp, In
  <2>2. NoRow \in Row
    BY NoRowTyped DEF TypeOK
  <2>3. /\ settlements' \in [Settlement -> Row] /\ lines' \in [Settlement -> SUBSET Line]
        /\ flagged' \in [Settlement -> BOOLEAN]
    BY <1>6, <2>1, <2>2 DEF TypeOK, CleanUp
  <2> QED BY <1>6, <2>3 DEF TypeOK, CleanUp, orderVars
<1>7. ASSUME LoseWorker(w) PROVE TypedInv'
  <2>1. worker[w].task \in Task
    BY <1>7, <1>0 DEF LoseWorker, Working
  <2>2. [worker[w].task EXCEPT !.redelivered = TRUE] \in Task
    BY <2>1, TaskRedelivered
  <2>3. Of(w) \in Settlement
    BY <2>1 DEF Task, Of
  <2> QED BY <1>7, <2>2, <2>3 DEF TypeOK, LoseWorker, orderVars
<1>8. ASSUME ApplyCalculation(w) \/ ApplyRegeneration(w) PROVE TypedInv'
  <2> DEFINE s == Of(w)
             new == worker[w].lines
  <2>1. worker[w] # Idle
    BY <1>8 DEF ApplyCalculation, ApplyRegeneration, In
  <2>2. /\ worker[w] \in Working /\ s \in Settlement
        /\ EffectiveRate(s, worker[w].task.rate) \in Rates \cup {NoRate}
    BY <2>1, RowRead
  <2>3. new \in SUBSET Line /\ IsFiniteSet(new) /\ worker[w].regenerated + 1 \in Nat
    BY <2>1, <2>2 DEF Working
  <2>4. TotalsOf(new) \in Totals
    BY <2>3, TotalsTyped
  <2>5. settlements[s] \in Row
    BY <2>2 DEF TypeOK
  <2>6. settlements' \in [Settlement -> Row]
    <3>1. PICK rate \in Rates \cup {NoRate}, n \in Nat :
             settlements' = [settlements EXCEPT ![s].totals = TotalsOf(new),
                                                ![s].rate = rate, ![s].regenerated = n]
      <4>1. CASE ApplyCalculation(w)
        <5>1. settlements[s].rate \in Rates \cup {NoRate} /\ settlements[s].regenerated \in Nat
          BY <2>5 DEF Row
        <5>2. settlements' = [settlements EXCEPT ![s].totals = TotalsOf(new)]
          BY <4>1 DEF ApplyCalculation
        <5>3. settlements' = [settlements EXCEPT ![s].totals = TotalsOf(new),
                                ![s].rate = settlements[s].rate,
                                ![s].regenerated = settlements[s].regenerated]
          <6> HIDE DEF new
          <6> QED BY <5>2, <2>2, <2>5 DEF TypeOK, Row
        <5> QED BY <5>1, <5>3
      <4>2. CASE ApplyRegeneration(w)
        BY <4>2, <2>2, <2>3 DEF ApplyRegeneration
      <4> QED BY <1>8, <4>1, <4>2
    <3> HIDE DEF s, new
    <3> QED BY <3>1, <2>2, <2>4, <2>5 DEF TypeOK, Row
  <2>7. lines' \in [Settlement -> SUBSET Line]
    BY <1>8, <2>2, <2>3 DEF TypeOK, ApplyCalculation, ApplyRegeneration, ClearLineItems
  <2>8. orders' \in [Orders -> OrderRow(Settlement)]
    <3>1. orders' = Stamped(RepairsIn(new), s)
      BY <1>8 DEF ApplyCalculation, ApplyRegeneration
    <3>2. \A o \in Orders : [orders[o] EXCEPT !.settled = s] \in OrderRow(Settlement)
      BY <2>2 DEF TypeOK, OrderRow
    <3> HIDE DEF s, new
    <3> QED BY <3>1, <3>2 DEF Stamped, TypeOK
  <2>9. worker' = [worker EXCEPT ![w].phase = "applied"]
    BY <1>8 DEF ApplyCalculation, ApplyRegeneration
  <2>10. worker' \in [Workers -> {Idle} \cup Working]
    BY <2>2, <2>9 DEF TypeOK, Working, Phase
  <2>11. \A v \in Workers : worker'[v] # Idle => IsFiniteSet(worker'[v].lines)
    BY <2>1, <2>2, <2>9 DEF TypeOK, Working
  <2>12. flagged' \in [Settlement -> BOOLEAN]
    BY <1>8, <2>2 DEF TypeOK, ApplyCalculation, ApplyRegeneration
  <2>13. UNCHANGED <<quotes, payments, charges, pct, calls, job, sending, tasks, historyVars>>
    BY <1>8 DEF ApplyCalculation, ApplyRegeneration
  <2> HIDE DEF s, new
  <2> QED BY <2>6, <2>7, <2>8, <2>10, <2>11, <2>12, <2>13 DEF TypeOK
<1> QED BY <1>1, <1>2, <1>3, <1>4, <1>5, <1>6, <1>7, <1>8 DEF WorkerStep

LEMMA StepTyped == TypedInv /\ [Next]_vars => TypedInv'
<1> SUFFICES ASSUME TypedInv, [Next]_vars PROVE TypedInv'
  OBVIOUS
<1>1. CASE UNCHANGED vars
  BY <1>1 DEF vars, orderVars, settlementVars, TypedInv, TypeOK, FiniteLines
<1>2. CASE WorkOrderStep
  BY <1>2, TablesTyped DEF WorkOrderStep
<1>3. CASE ApiStep
  BY <1>3, TablesTyped, RequestsTyped DEF ApiStep
<1>4. CASE \E w \in Workers : WorkerStep(w) \/ LoseWorker(w)
  BY <1>4, WorkersTyped
<1>5. CASE \E s \in Settlement : ExpireJob(s)
  BY <1>5, TablesTyped
<1> QED BY <1>1, <1>2, <1>3, <1>4, <1>5 DEF Next

\* Rows, lines, tasks and what workers hold are always well typed.
THEOREM SettlementsTypeCorrect == Spec => []TypeOK
<1>1. Spec => []TypedInv
  BY InitTyped, StepTyped, PTL DEF Spec
<1>2. TypedInv => TypeOK
  BY DEF TypedInv
<1> QED BY <1>1, <1>2, PTL

-----------------------------------------------------------------------------
(* A repair is deducted once, and a settled repair keeps its line.         *)

LEMMA InitRepairs == Init => RepairsInv
BY DEF Init, InitOrders, RepairsInv, LinesTellOrders, DeductsOnceBut, Deductions, OfType,
       SettledIsDue, ReadStands, Apart, In, SettledRepairKeepsLine

\* Orders keep whose they are and, once due, their row.
SettledKeeps ==
    \A o \in Orders :
        /\ orders'[o].settled = orders[o].settled
        /\ QuoteFree(o) /\ orders[o].status = "closed" => orders'[o] = orders[o]

\* The same calculations, those there are of them, are as far apart.
LEMMA ApartSame ==
    ASSUME Apart, contested' = contested,
           \A w \in Workers : In(w, "read")' => worker'[w] = worker[w]
    PROVE  Apart'
<1> SUFFICES ASSUME NEW v \in Workers, NEW w \in Workers, v # w, In(v, "read")', In(w, "read")'
             PROVE  ApartBut(worker[v], worker[w], contested)'
  BY DEF Apart
<1>1. /\ worker'[v] = worker[v] /\ In(v, "read")
      /\ worker'[w] = worker[w] /\ In(w, "read")
  BY DEF In
<1>2. ApartBut(worker[v], worker[w], contested)
  BY <1>1 DEF Apart
<1> QED BY <1>1, <1>2 DEF ApartBut, QuoteFree, RepairsIn, OfType

\* A step that writes no line and no settlement, and reads nothing.
LEMMA OthersKeepRepairs ==
    ASSUME TypedInv, RepairsInv, SettledKeeps, UNCHANGED <<lines, contested>>,
           \A w \in Workers : In(w, "read")' => worker'[w] = worker[w]
    PROVE  RepairsInv'
<1>1. \A o \in Orders : QuoteFree(o) /\ Due(o) => Due(o)' /\ orders'[o] = orders[o]
  BY DEF SettledKeeps, Due
<1>2. LinesTellOrders'
  BY DEF RepairsInv, LinesTellOrders, DeductsOnceBut, Deductions, OfType, SettledKeeps
<1>3. SettledIsDue'
  BY <1>1 DEF RepairsInv, SettledIsDue, SettledKeeps, QuoteFree
<1>4. ASSUME NEW w \in Workers, In(w, "read")' PROVE Stands(worker[w])' /\ worker'[w] = worker[w]
  <2>1. worker'[w] = worker[w] /\ In(w, "read")
    BY <1>4 DEF In
  <2>2. Stands(worker[w])
    BY <2>1 DEF RepairsInv, ReadStands
  <2> DEFINE x == worker[w]
  <2>3. PICK y : y = x
    OBVIOUS
  <2>4. Stands(y)
    BY <2>2, <2>3
  <2>5. Stands(y)'
    BY <1>1, <2>4 DEF Stands, SettledKeeps, Takes, QuoteFree, Due
  <2> QED BY <2>1, <2>3, <2>5
<1>5. ReadStands'
  BY <1>4 DEF ReadStands
<1>6. SettledRepairKeepsLine'
  BY <1>1 DEF RepairsInv, SettledIsDue, SettledRepairKeepsLine, SettledKeeps, QuoteFree
<1>7. Apart'
  BY <1>4, ApartSame DEF RepairsInv
<1> QED BY <1>2, <1>3, <1>5, <1>6, <1>7 DEF RepairsInv

\* What a worker reads stands as it has read it.
LEMMA ReadKeepsRepairs ==
    ASSUME TypedInv, RepairsInv, NEW w \in Workers, Read(w)
    PROVE  RepairsInv'
<1> DEFINE s == Of(w)
           again == worker[w].task.op = "regenerate"
           current == IF again THEN s ELSE NoSettlement
<1>1. worker[w] \in Working /\ s \in Settlement /\ worker[w].task \in Task
  BY RowRead DEF TypedInv, Read, In, Working
<1>2. PICK batch, new :
        /\ new = CalculatedLines(current, settlements[s].period, settlements[s].pct,
                                 EffectiveRate(s, worker[w].task.rate), batch)
        /\ worker' = [worker EXCEPT ![w].phase = "read",
                                    ![w].regenerated = settlements[s].regenerated,
                                    ![w].lines = new]
  BY ReadCalculates DEF TypedInv
<1>3. /\ DeductsOnce(new)
      /\ \A l \in Deductions(new) : l.source \in Repairs(current)
                                    /\ l.amount = orders[l.source].final_cost
      /\ \A o \in Repairs(current) : \E l \in Deductions(new) : l.source = o
  BY <1>2, CalculatedRepairs
<1>4. /\ worker'[w].task = worker[w].task /\ worker'[w].lines = new
      /\ \A v \in Workers \ {w} : worker'[v] = worker[v]
  BY <1>1, <1>2 DEF TypedInv, TypeOK, Working
<1>5. /\ UNCHANGED <<orders, lines>>
      /\ contested' = contested \cup {o \in RepairsIn(worker'[w].lines) :
                                         \E v \in Workers \ {w} : Contends(v, o, s)}
  BY DEF Read, orderVars
<1>6. current \in Takes(worker[w].task) /\ NoSettlement \in Takes(worker[w].task)
      /\ Takes(worker[w].task) \subseteq {NoSettlement, current}
  BY DEF Takes, Of
<1>7. Stands(worker'[w])
  <2>1. ASSUME NEW l \in Deductions(new)
        PROVE  /\ l.source \in Orders /\ orders[l.source].settled \in Takes(worker[w].task)
               /\ Due(l.source) /\ l.amount = orders[l.source].final_cost
    BY <1>3, <1>6 DEF Repairs, Due
  <2>2. ASSUME NEW o \in Orders \ contested, QuoteFree(o),
               orders[o].settled \in Takes(worker[w].task) \ {NoSettlement}
        PROVE  \E l \in Deductions(new) : l.source = o
    <3>1. orders[o].settled = current /\ Due(o)
      BY <1>6, <2>2 DEF RepairsInv, SettledIsDue
    <3>2. o \in Repairs(current)
      BY <3>1 DEF Repairs, Due
    <3> QED BY <1>3, <3>2
  <2> QED BY <1>3, <1>4, <2>1, <2>2 DEF Stands
<1>8. ReadStands'
  <2>1. ASSUME NEW v \in Workers, In(v, "read")' PROVE Stands(worker'[v])
    <3>1. CASE v = w
      BY <1>7, <3>1
    <3>2. CASE v # w
      BY <1>4, <2>1, <3>2 DEF RepairsInv, ReadStands, In
    <3> QED BY <3>1, <3>2
  <2>2. ASSUME NEW v \in Workers, In(v, "read")' PROVE Stands(worker[v])'
    <3>1. Stands(worker'[v]) /\ orders' = orders /\ contested \subseteq contested'
      BY <1>5, <2>1, <2>2
    <3> HIDE DEF s, again, current
    <3> QED BY <3>1 DEF Stands, Takes, QuoteFree, Due
  <2> QED BY <2>2 DEF ReadStands
<1>9. LinesTellOrders' /\ SettledIsDue' /\ SettledRepairKeepsLine'
  <2>1. UNCHANGED <<orders, lines>> /\ contested \subseteq contested'
    BY <1>5
  <2>2. LinesTellOrders'
    BY <2>1 DEF RepairsInv, LinesTellOrders, DeductsOnceBut, Deductions, OfType
  <2>3. SettledIsDue'
    BY <2>1 DEF RepairsInv, SettledIsDue, Due, QuoteFree
  <2>4. SettledRepairKeepsLine'
    BY <2>1 DEF RepairsInv, SettledRepairKeepsLine
  <2> QED BY <2>2, <2>3, <2>4
<1>10. ASSUME NEW v \in Workers \ {w}, In(v, "read")
       PROVE  /\ ApartBut(worker'[v], worker'[w], contested')
              /\ ApartBut(worker'[w], worker'[v], contested')
  <2>1. worker'[v] = worker[v] /\ Stands(worker[v])
    BY <1>4, <1>10 DEF RepairsInv, ReadStands
  <2>2. \A o \in RepairsIn(new) : Contends(v, o, s) => o \in contested'
    BY <1>4, <1>5
  <2>3. \A o \in RepairsIn(new) : o \in RepairsIn(worker[v].lines) => o \in contested'
    BY <1>10, <2>2 DEF Contends
  <2>4. worker[v].task.op = "regenerate" /\ Of(v) = s =>
            \A o \in RepairsIn(new) : o \in contested'
    BY <1>10, <2>2 DEF Contends
  <2>5. ASSUME NEW o \in RepairsIn(worker[v].lines), o \notin contested', QuoteFree(o), again, Of(v) = s
        PROVE  FALSE
    <3>1. PICK l \in Deductions(worker[v].lines) : l.source = o
      BY DEF RepairsIn, Deductions
    <3>2. o \notin contested
      BY <1>5, <2>5
    <3>3. o \in Orders /\ Due(o) /\ orders[o].settled \in Takes(worker[v].task)
      BY <2>1, <2>5, <3>1, <3>2 DEF Stands
    <3>4. orders[o].settled \in {NoSettlement, current}
      BY <2>5, <3>3 DEF Takes, Of
    <3>5. o \in Repairs(current)
      BY <3>3, <3>4 DEF Repairs, Due
    <3>6. o \in RepairsIn(new)
      BY <1>3, <3>5 DEF RepairsIn, Deductions
    <3> QED BY <2>3, <2>5, <3>6
  <2>6. worker'[w].task.settlement = s /\ (worker'[w].task.op = "regenerate" <=> again)
    BY <1>4 DEF Of
  <2> HIDE DEF s, again, current
  <2>7. ApartBut(worker'[v], worker'[w], contested')
    BY <1>4, <2>1, <2>3, <2>5, <2>6 DEF ApartBut, QuoteFree, Of
  <2>8. ApartBut(worker'[w], worker'[v], contested')
    BY <1>4, <2>1, <2>3, <2>4, <2>6 DEF ApartBut, QuoteFree, Of
  <2> QED BY <2>7, <2>8
<1>11. Apart'
  <2>1. contested \subseteq contested'
    BY <1>5
  <2>2. ASSUME NEW u \in Workers, NEW v \in Workers, u # v, In(u, "read")', In(v, "read")'
        PROVE  ApartBut(worker'[u], worker'[v], contested')
    <3>1. CASE u # w /\ v # w
      <4>1. worker'[u] = worker[u] /\ worker'[v] = worker[v] /\ In(u, "read") /\ In(v, "read")
        BY <1>4, <2>2, <3>1 DEF In
      <4>2. ApartBut(worker[u], worker[v], contested)
        BY <2>2, <4>1 DEF RepairsInv, Apart
      <4> QED BY <2>1, <4>1, <4>2 DEF ApartBut, QuoteFree, RepairsIn, OfType
    <3>2. CASE u = w
      <4>1. In(v, "read")
        BY <1>4, <2>2, <3>2 DEF In
      <4> QED BY <1>10, <2>2, <3>2, <4>1
    <3>3. CASE v = w
      <4>1. In(u, "read")
        BY <1>4, <2>2, <3>3 DEF In
      <4> QED BY <1>10, <2>2, <3>3, <4>1
    <3> QED BY <3>1, <3>2, <3>3
  <2>3. ASSUME NEW u \in Workers, NEW v \in Workers, u # v, In(u, "read")', In(v, "read")'
        PROVE  ApartBut(worker[u], worker[v], contested)'
    BY <2>2, <2>3 DEF ApartBut, RepairsIn, OfType
  <2> QED BY <2>3 DEF Apart
<1> QED BY <1>8, <1>9, <1>11 DEF RepairsInv

\* Applying a calculation that stands, for a settlement that had no line for
\* what it takes, or that replaces its lines.
LEMMA ApplyKeepsRepairs ==
    ASSUME TypedInv, RepairsInv, NEW w \in Workers, ApplyCalculation(w) \/ ApplyRegeneration(w)
    PROVE  RepairsInv'
<1> DEFINE s == Of(w)
           new == worker[w].lines
           again == worker[w].task.op = "regenerate"
<1>1. worker[w] # Idle /\ In(w, "read") /\ s \in Settlement /\ worker[w] \in Working
  BY RowRead DEF ApplyCalculation, ApplyRegeneration, In, TypedInv
<1>2. Stands(worker[w])
  BY <1>1 DEF RepairsInv, ReadStands
<1>3. /\ orders' = Stamped(RepairsIn(new), s)
      /\ lines' = [lines EXCEPT ![s] = (IF again THEN {} ELSE lines[s]) \cup new]
      /\ worker' = [worker EXCEPT ![w].phase = "applied"]
      /\ contested' = contested
  BY DEF ApplyCalculation, ApplyRegeneration, ClearLineItems
<1>4. /\ ~ In(w, "read")'
      /\ \A v \in Workers : In(v, "read")' => v # w /\ worker'[v] = worker[v] /\ In(v, "read")
  BY <1>1, <1>3 DEF In, TypedInv, TypeOK, Working
<1>5. s # NoSettlement
  BY <1>1, SettlementConstants
<1> DEFINE taken == RepairsIn(new)
<1>6. /\ \A l \in Deductions(new) : l.source \in taken
      /\ \A o \in taken : \E l \in Deductions(new) : l.source = o
  BY DEF RepairsIn, Deductions
<1>7. taken \subseteq Orders
      /\ \A o \in taken \ contested : orders[o].settled \in Takes(worker[w].task)
  BY <1>2, <1>6 DEF Stands
<1>8. /\ \A o \in taken : /\ orders'[o].settled = s
                          /\ orders'[o].status = orders[o].status
                          /\ orders'[o].payer = orders[o].payer
                          /\ orders'[o].final_cost = orders[o].final_cost
      /\ \A o \in Orders \ taken : orders'[o] = orders[o]
  <2> HIDE DEF taken, s
  <2> QED BY <1>3, <1>7 DEF Stamped, TypedInv, TypeOK, OrderRow, taken, s
<1>9. Takes(worker[w].task) = IF again THEN {NoSettlement, s} ELSE {NoSettlement}
  BY DEF Takes, Of
<1>10. /\ \A t \in Settlement \ {s} : lines'[t] = lines[t]
       /\ lines'[s] = (IF again THEN {} ELSE lines[s]) \cup new
  BY <1>1, <1>3 DEF TypedInv, TypeOK
<1>11. DeductsOnce(new)
  BY <1>2 DEF Stands
<1>12. ASSUME NEW o \in taken \ contested, NEW t \in Settlement, NEW l \in Deductions(lines[t]), l.source = o
       PROVE  again /\ t = s
  <2>1. orders[o].settled = t
    BY <1>12 DEF RepairsInv, LinesTellOrders
  <2>2. t # NoSettlement
    BY SettlementConstants
  <2> QED BY <1>7, <1>9, <2>1, <2>2
<1>13. Deductions(lines'[s]) = (IF again THEN {} ELSE Deductions(lines[s])) \cup Deductions(new)
  BY <1>10 DEF Deductions, OfType
<1>14. LinesTellOrders'
  <2>1. ASSUME NEW t \in Settlement
        PROVE  /\ DeductsOnceBut(lines'[t], contested)
               /\ \A l \in Deductions(lines'[t]) :
                     /\ l.source \in Orders
                     /\ l.source \notin contested => orders'[l.source].settled = t
    <3>1. /\ DeductsOnceBut(lines[t], contested)
          /\ \A l \in Deductions(lines[t]) :
                /\ l.source \in Orders
                /\ l.source \notin contested => orders[l.source].settled = t
      BY DEF RepairsInv, LinesTellOrders
    <3>2. CASE t # s
      <4>1. \A l \in Deductions(lines[t]) : l.source \notin contested => l.source \notin taken
        BY <1>12, <3>2
      <4> QED BY <1>8, <1>10, <3>1, <3>2, <4>1
    <3>3. CASE t = s
      <4>1. ASSUME NEW k \in Deductions(lines'[s]), NEW l \in Deductions(lines'[s]),
                   k.source = l.source, k.source \notin contested
            PROVE  k = l
        <5>1. CASE again
          BY <1>11, <1>13, <4>1, <5>1 DEF DeductsOnce, DeductsOnceBut
        <5>2. CASE ~ again
          <6>1. \A m \in Deductions(lines[s]) : m.source \notin contested => m.source \notin taken
            BY <1>12, <5>2, <3>3
          <6> QED BY <1>6, <1>11, <1>13, <3>1, <3>3, <4>1, <5>2, <6>1 DEF DeductsOnce, DeductsOnceBut
        <5> QED BY <5>1, <5>2
      <4>2. ASSUME NEW l \in Deductions(lines'[s])
            PROVE  /\ l.source \in Orders
                   /\ l.source \notin contested => orders'[l.source].settled = s
        BY <1>6, <1>7, <1>8, <1>13, <3>1, <3>3
      <4> QED BY <3>3, <4>1, <4>2 DEF DeductsOnceBut
    <3> QED BY <3>2, <3>3
  <2> QED BY <1>3, <2>1 DEF LinesTellOrders, DeductsOnceBut, Deductions, OfType
<1>15. SettledIsDue'
  <2>1. ASSUME NEW o \in Orders, QuoteFree(o), orders'[o].settled # NoSettlement
        PROVE  Due(o)'
    <3>1. CASE o \in taken
      BY <1>2, <1>6, <1>8, <2>1, <3>1 DEF Stands, Due
    <3>2. CASE o \notin taken
      BY <1>8, <2>1, <3>2 DEF RepairsInv, SettledIsDue, Due
    <3> QED BY <3>1, <3>2
  <2> QED BY <2>1 DEF SettledIsDue, QuoteFree
<1>16. SettledRepairKeepsLine'
  <2>1. ASSUME NEW o \in Orders \ contested, QuoteFree(o), orders'[o].settled # NoSettlement
        PROVE  \E l \in lines'[orders'[o].settled] :
                  l.type = "repair" /\ l.source = o /\ l.amount = orders'[o].final_cost
    <3>1. CASE o \in taken
      <4>1. PICK l \in Deductions(new) : l.source = o
        BY <1>6, <3>1
      <4>2. l.amount = orders[o].final_cost /\ l \in new /\ l.type = "repair"
        BY <1>2, <2>1, <4>1 DEF Stands, Deductions, OfType
      <4> QED BY <1>8, <1>10, <3>1, <4>1, <4>2
    <3>2. CASE o \notin taken
      <4>1. orders'[o] = orders[o] /\ orders[o].settled \in Settlement
        BY <1>8, <2>1, <3>2 DEF TypedInv, TypeOK, OrderRow
      <4>2. PICK l \in lines[orders[o].settled] :
               l.type = "repair" /\ l.source = o /\ l.amount = orders[o].final_cost
        BY <2>1, <4>1 DEF RepairsInv, SettledRepairKeepsLine, QuoteFree
      <4>3. CASE orders[o].settled # s
        BY <1>10, <4>1, <4>2, <4>3
      <4>4. CASE orders[o].settled = s /\ ~ again
        BY <1>10, <4>1, <4>2, <4>4
      <4>5. CASE orders[o].settled = s /\ again
        <5>1. \E k \in Deductions(new) : k.source = o
          BY <1>2, <1>5, <1>9, <2>1, <4>5 DEF Stands
        <5> QED BY <1>6, <3>2, <5>1
      <4> QED BY <4>3, <4>4, <4>5
    <3> QED BY <3>1, <3>2
  <2> QED BY <1>3, <2>1 DEF SettledRepairKeepsLine, QuoteFree
<1>17. ReadStands'
  <2>1. ASSUME NEW v \in Workers, In(v, "read")' PROVE Stands(worker[v])'
    <3>1. v # w /\ worker'[v] = worker[v] /\ In(v, "read")
      BY <1>4, <2>1
    <3>2. Stands(worker[v]) /\ ApartBut(worker[w], worker[v], contested)
      BY <1>1, <3>1 DEF RepairsInv, ReadStands, Apart
    <3> DEFINE y == worker[v]
    <3>3. ASSUME NEW l \in Deductions(y.lines)
          PROVE  /\ l.source \in Orders
                 /\ l.source \notin contested => orders'[l.source].settled \in Takes(y.task)
                 /\ QuoteFree(l.source) =>
                       /\ orders'[l.source].status = "closed" /\ orders'[l.source].payer = "agency"
                       /\ orders'[l.source].final_cost # NoCost
                       /\ l.amount = orders'[l.source].final_cost
      <4>1. l.source \in RepairsIn(y.lines)
        BY DEF RepairsIn, Deductions
      <4>2. l.source \notin contested => l.source \notin taken
        BY <3>2, <4>1 DEF ApartBut
      <4>3. /\ l.source \in Orders
            /\ l.source \notin contested => orders[l.source].settled \in Takes(y.task)
            /\ QuoteFree(l.source) => Due(l.source) /\ l.amount = orders[l.source].final_cost
        BY <3>2 DEF Stands
      <4>4. /\ orders'[l.source].status = orders[l.source].status
            /\ orders'[l.source].payer = orders[l.source].payer
            /\ orders'[l.source].final_cost = orders[l.source].final_cost
        BY <1>8, <4>3
      <4> HIDE DEF taken, y
      <4> QED BY <1>8, <4>2, <4>3, <4>4 DEF Due
    <3>4. ASSUME NEW o \in Orders \ contested, QuoteFree(o),
                 orders'[o].settled \in Takes(y.task) \ {NoSettlement}
          PROVE  \E l \in Deductions(y.lines) : l.source = o
      <4>1. CASE o \in taken
        <5>1. y.task.op = "regenerate" /\ y.task.settlement = s
          BY <1>8, <3>4, <4>1 DEF Takes
        <5> QED BY <3>2, <3>4, <4>1, <5>1 DEF ApartBut, Of
      <4>2. CASE o \notin taken
        BY <1>8, <3>2, <3>4, <4>2 DEF Stands
      <4> QED BY <4>1, <4>2
    <3>5. DeductsOnce(y.lines)
      BY <3>2 DEF Stands
    <3> HIDE DEF y
    <3>6. worker'[v] = y /\ contested' = contested
      BY <1>3, <3>1 DEF y
    <3> HIDE DEF taken, s, again, new
    <3> QED BY <3>3, <3>4, <3>5, <3>6 DEF Stands, Takes, QuoteFree, Due
  <2> QED BY <2>1 DEF ReadStands
<1>18. Apart'
  BY <1>3, <1>4, ApartSame DEF RepairsInv
<1> QED BY <1>14, <1>15, <1>16, <1>17, <1>18 DEF RepairsInv

\* What is deleted has no repair.
LEMMA CleanUpKeepsRepairs ==
    ASSUME TypedInv, RepairsInv, NEW w \in Workers, CleanUp(w)
    PROVE  RepairsInv'
<1> DEFINE s == Of(w)
           deleted == worker[w].task.op = "generate" /\ \A o \in Orders : orders[o].settled # s
<1>1. s \in Settlement
  BY RowRead DEF TypedInv, CleanUp, In
<1>2. /\ UNCHANGED <<orders, contested>>
      /\ lines' = IF deleted THEN [lines EXCEPT ![s] = {}] ELSE lines
      /\ worker' = [worker EXCEPT ![w] = Idle]
  BY DEF CleanUp, orderVars
<1>3. \A v \in Workers : In(v, "read")' => worker'[v] = worker[v]
  BY <1>2 DEF In, TypedInv, TypeOK
<1>4. CASE ~ deleted
  BY <1>2, <1>3, <1>4, OthersKeepRepairs DEF SettledKeeps
<1>5. CASE deleted
  <2>1. /\ lines'[s] = {} /\ \A t \in Settlement \ {s} : lines'[t] = lines[t]
        /\ \A o \in Orders : orders[o].settled # s
    BY <1>1, <1>2, <1>5 DEF TypedInv, TypeOK
  <2>2. ReadStands'
    <3>1. ASSUME NEW v \in Workers, In(v, "read")' PROVE Stands(worker'[v])
      BY <1>2, <1>3, <3>1 DEF RepairsInv, ReadStands, In
    <3>2. ASSUME NEW v \in Workers, In(v, "read")' PROVE Stands(worker[v])'
      BY <1>2, <3>1, <3>2 DEF Stands, Takes, QuoteFree, Due
    <3> QED BY <3>2 DEF ReadStands
  <2>3. LinesTellOrders'
    <3>1. ASSUME NEW t \in Settlement
          PROVE  /\ DeductsOnceBut(lines'[t], contested)
                 /\ \A l \in Deductions(lines'[t]) :
                       /\ l.source \in Orders
                       /\ l.source \notin contested => orders[l.source].settled = t
      BY <2>1 DEF RepairsInv, LinesTellOrders, DeductsOnceBut, Deductions, OfType
    <3> QED BY <1>2, <3>1 DEF LinesTellOrders, DeductsOnceBut, Deductions, OfType
  <2>4. SettledRepairKeepsLine'
    <3>1. \A o \in Orders : orders[o].settled # NoSettlement =>
              orders[o].settled \in Settlement /\ lines'[orders[o].settled] = lines[orders[o].settled]
      BY <2>1 DEF TypedInv, TypeOK, OrderRow
    <3> QED BY <1>2, <3>1 DEF RepairsInv, SettledRepairKeepsLine
  <2>5. SettledIsDue'
    BY <1>2 DEF RepairsInv, SettledIsDue, Due, QuoteFree
  <2>6. Apart'
    BY <1>2, <1>3, ApartSame DEF RepairsInv
  <2> QED BY <2>2, <2>3, <2>4, <2>5, <2>6 DEF RepairsInv
<1> QED BY <1>4, <1>5

LEMMA StepRepairs == TypedInv /\ RepairsInv /\ [Next]_vars => RepairsInv'
<1> SUFFICES ASSUME TypedInv, RepairsInv, [Next]_vars PROVE RepairsInv'
  OBVIOUS
<1>1. ASSUME UNCHANGED <<orderVars, lines, worker, contested>> PROVE RepairsInv'
  BY <1>1, OthersKeepRepairs DEF SettledKeeps, orderVars
<1>2. CASE UNCHANGED vars
  BY <1>1, <1>2 DEF vars, settlementVars
<1>3. CASE WorkOrderStep
  <2>1. OrdersKeep
    BY <1>3, OrderSteps DEF WorkOrderStep, TypedInv, TypeOK
  <2> QED BY <1>3, <2>1, OthersKeepRepairs DEF WorkOrderStep, settlementVars, OrdersKeep, SettledKeeps
<1>4. CASE ApiStep
  BY <1>1, <1>4 DEF ApiStep, RegisterPayment, VoidPayment, SetCharge, ChangeCommission, Generate,
     Regenerate, Issue, MarkPending, Send, RequestDies
<1>5. CASE \E s \in Settlement : ExpireJob(s)
  BY <1>1, <1>5 DEF ExpireJob
<1>6. ASSUME NEW w \in Workers, WorkerStep(w) \/ LoseWorker(w) PROVE RepairsInv'
  <2>1. ASSUME UNCHANGED <<orderVars, lines, contested>>, NEW x, worker' = [worker EXCEPT ![w] = x],
               x = Idle \/ x.phase # "read"
        PROVE  RepairsInv'
    <3>1. \A v \in Workers : In(v, "read")' => worker'[v] = worker[v]
      BY <2>1 DEF In, TypedInv, TypeOK
    <3> QED BY <2>1, <3>1, OthersKeepRepairs DEF SettledKeeps, orderVars
  <2>2. ASSUME NEW t \in tasks, Start(w, t) PROVE RepairsInv'
    BY <2>1, <2>2 DEF Start
  <2>3. CASE Skip(w) \/ Acknowledge(w) \/ LoseWorker(w)
    BY <2>1, <2>3 DEF Skip, Acknowledge, LoseWorker
  <2>4. CASE Fail(w) \/ Report(w)
    <3>1. PICK phase : worker' = [worker EXCEPT ![w].phase = phase] /\ phase # "read"
      BY <2>4 DEF Fail, Report
    <3>2. worker[w] \in Working
      BY <2>4 DEF Fail, Report, In, TypedInv, TypeOK
    <3>3. [worker[w] EXCEPT !.phase = phase].phase # "read"
      BY <3>1, <3>2 DEF Working
    <3>4. worker' = [worker EXCEPT ![w] = [worker[w] EXCEPT !.phase = phase]]
      BY <3>1
    <3>5. UNCHANGED <<orderVars, lines, contested>>
      BY <2>4 DEF Fail, Report
    <3> QED BY <2>1, <3>3, <3>4, <3>5
  <2> QED BY <1>6, <2>2, <2>3, <2>4, ReadKeepsRepairs, ApplyKeepsRepairs, CleanUpKeepsRepairs
          DEF WorkerStep
<1> QED BY <1>2, <1>3, <1>4, <1>5, <1>6 DEF Next

LEMMA RepairsHold == Spec => []RepairsInv
<1>1. Init => TypedInv /\ RepairsInv
  BY InitTyped, InitRepairs
<1>2. TypedInv /\ RepairsInv /\ [Next]_vars => (TypedInv /\ RepairsInv)'
  BY StepTyped, StepRepairs
<1> QED BY <1>1, <1>2, PTL DEF Spec

\* RN-L04: however many workers there are, whatever is lost, delivered again
\* or asked for meanwhile, a repair is deducted by one line, of the
\* settlement that its order says, unless a calculation read it while
\* another had read it and not yet written.
THEOREM RepairDeductedOnceHolds == Spec => []RepairDeductedOnce
<1>1. RepairsInv => RepairDeductedOnce
  <2> SUFFICES ASSUME RepairsInv, NEW o \in Orders \ contested, NEW s \in Settlement,
                      {l \in Deductions(lines[s]) : l.source = o} # {}
               PROVE  /\ orders[o].settled = s
                      /\ Cardinality({l \in Deductions(lines[s]) : l.source = o}) = 1
    BY DEF RepairDeductedOnce, Deductions
  <2>1. PICK l \in Deductions(lines[s]) : l.source = o
    OBVIOUS
  <2>2. orders[o].settled = s /\ {k \in Deductions(lines[s]) : k.source = o} = {l}
    BY <2>1 DEF RepairsInv, LinesTellOrders, DeductsOnceBut
  <2> QED BY <2>2, FS_Singleton
<1> QED BY <1>1, RepairsHold, PTL

\* And a closed order without quotes that was settled has a line for its cost
\* in its settlement, through every regeneration and failure, with the same
\* exception.
THEOREM SettledRepairKeepsLineHolds == Spec => []SettledRepairKeepsLine
<1>1. RepairsInv => SettledRepairKeepsLine
  BY DEF RepairsInv
<1> QED BY <1>1, RepairsHold, PTL

-----------------------------------------------------------------------------
(* A settlement issued once its generation has ended stays.                *)

LEMMA TasksKnown ==
    ASSUME TypedInv, NEW t, TaskUnderWay(t)
    PROVE  t \in Task /\ t.settlement \in Settlement /\ t \in UnderWayTasks
<1>1. t \in Task
  BY DEF TypedInv, TypeOK, TaskUnderWay, Working
<1> QED BY <1>1 DEF Task, TaskUnderWay, UnderWayTasks

LEMMA InitTasks == Init => TasksInv
<1> SUFFICES ASSUME Init PROVE TasksInv
  OBVIOUS
<1>1. \A t : ~ TaskUnderWay(t)
  BY DEF Init, TaskUnderWay
<1> QED BY <1>1 DEF Init, TasksInv, CallsInOrder, DraftUntilCalculated, GeneratesAtRow

\* t is u, or u delivered again.
SameAs(t, u) == u.op = t.op /\ u.settlement = t.settlement /\ u.rate = t.rate

\* A step that takes up no new task, writes nothing for the settlements to
\* come, and issues at most those it says are issued early.
LEMMA OldTasks ==
    ASSUME TypedInv, TasksInv, calls' = calls, early \subseteq early',
           \A t : TaskUnderWay(t)' => \E u : TaskUnderWay(u) /\ SameAs(t, u),
           \A s \in Settlement : s > calls => settlements'[s] = NoRow /\ lines'[s] = {},
           \A t \in Task :
               TaskUnderWay(t) /\ t.op = "generate" /\ t.settlement \notin early'
               /\ settlements'[t.settlement].status = "issued" =>
                   settlements[t.settlement].status = "issued"
    PROVE  TasksInv'
<1>1. ASSUME NEW t, TaskUnderWay(t)'
      PROVE  /\ t.settlement <= calls
             /\ t.op = "generate" /\ t.settlement \notin early' =>
                   settlements'[t.settlement].status # "issued"
             /\ t.op = "generate" => t.rate = NoRate
  <2>1. PICK u : TaskUnderWay(u) /\ SameAs(t, u)
    BY <1>1
  <2>2. u \in Task /\ u.settlement \in Settlement
    BY <2>1, TasksKnown
  <2>3. /\ u.settlement <= calls
        /\ u.op = "generate" /\ u.settlement \notin early =>
              settlements[u.settlement].status # "issued"
        /\ u.op = "generate" => u.rate = NoRate
    BY <2>1, <2>2 DEF TasksInv, CallsInOrder, DraftUntilCalculated, GeneratesAtRow
  <2> QED BY <2>1, <2>2, <2>3 DEF SameAs
<1> QED BY <1>1 DEF TasksInv, CallsInOrder, DraftUntilCalculated, GeneratesAtRow

\* A request that is accepted: its task is of a settlement that is not
\* issued, or to regenerate.
LEMMA NewTask ==
    ASSUME TypedInv, NEW op, NEW s, NEW rate,
           sending' = sending \cup {Call(op, s, rate)}, UNCHANGED <<tasks, worker>>,
           NEW t, TaskUnderWay(t)'
    PROVE  TaskUnderWay(t) \/ (t.op = op /\ t.settlement = s /\ t.rate = rate)
<1>1. CASE \E r \in sending : r.task = t
  BY <1>1 DEF TaskUnderWay
<1>2. CASE t = Call(op, s, rate).task
  BY <1>2 DEF Call
<1> QED BY <1>1, <1>2 DEF TaskUnderWay

LEMMA GenerateTasks ==
    ASSUME TypedInv, TasksInv, NEW m \in Periods, NEW rate \in Rates \cup {NoRate}, Generate(m, rate)
    PROVE  TasksInv'
<1> DEFINE n == calls + 1
           row == [status |-> "draft", period |-> m, rate |-> rate, pct |-> pct,
                   totals |-> NoTotals, regenerated |-> 0]
<1>1. calls \in Nat /\ n \in Settlement
  BY SettlementConstants DEF Generate, TypedInv, TypeOK, Settlement
<1>2. /\ settlements' = [settlements EXCEPT ![n] = row] /\ calls' = n /\ lines' = lines
      /\ sending' = sending \cup {Call("generate", n, NoRate)} /\ UNCHANGED <<tasks, worker, early>>
  BY DEF Generate
<1>3. settlements'[n].status # "issued" /\ \A s \in Settlement \ {n} : settlements'[s] = settlements[s]
  BY <1>1, <1>2 DEF TypedInv, TypeOK
<1>4. ASSUME NEW s \in Settlement, s > n PROVE settlements'[s] = NoRow /\ lines'[s] = {}
  BY <1>1, <1>2, <1>3, <1>4 DEF TasksInv, CallsInOrder, Settlement
<1>5. ASSUME NEW t, TaskUnderWay(t)'
      PROVE  /\ t.settlement <= n
             /\ t.op = "generate" /\ t.settlement \notin early =>
                   settlements'[t.settlement].status # "issued"
             /\ t.op = "generate" => t.rate = NoRate
  <2>1. CASE TaskUnderWay(t)
    <3>1. t \in Task /\ t.settlement \in Settlement
      BY <2>1, TasksKnown
    <3>2. /\ t.settlement <= calls
          /\ t.op = "generate" /\ t.settlement \notin early =>
                settlements[t.settlement].status # "issued"
          /\ t.op = "generate" => t.rate = NoRate
      BY <2>1, <3>1 DEF TasksInv, CallsInOrder, DraftUntilCalculated, GeneratesAtRow
    <3>3. t.settlement \in Settlement \ {n} /\ t.settlement <= n
      BY <1>1, <3>1, <3>2 DEF Settlement
    <3> QED BY <1>3, <3>2, <3>3
  <2>2. CASE t.settlement = n /\ t.rate = NoRate
    BY <1>1, <1>3, <2>2
  <2> HIDE DEF n
  <2> QED BY <1>2, <1>5, <2>1, <2>2, NewTask
<1> QED BY <1>2, <1>4, <1>5 DEF TasksInv, CallsInOrder, DraftUntilCalculated, GeneratesAtRow

LEMMA RegenerateTasks ==
    ASSUME TypedInv, TasksInv, NEW s \in Settlement, NEW rate \in Rates \cup {NoRate},
           Regenerate(s, rate)
    PROVE  TasksInv'
<1>1. calls \in Nat /\ calls' = calls + 1 /\ UNCHANGED <<settlements, lines, tasks, worker, early>>
      /\ sending' = sending \cup {Call("regenerate", s, rate)}
  BY SettlementConstants DEF Regenerate, TypedInv, TypeOK
<1>2. s <= calls
  <2>1. settlements[s] # NoRow
    BY DEF Regenerate, Exists, NoRow
  <2>2. ~ (s > calls)
    BY <2>1 DEF TasksInv, CallsInOrder
  <2> QED BY <1>1, <2>2 DEF Settlement
<1>3. ASSUME NEW t, TaskUnderWay(t)'
      PROVE  /\ t.settlement <= calls + 1
             /\ t.op = "generate" /\ t.settlement \notin early =>
                   settlements[t.settlement].status # "issued"
             /\ t.op = "generate" => t.rate = NoRate
  <2>1. CASE TaskUnderWay(t)
    <3>1. t \in Task /\ t.settlement \in Settlement
      BY <2>1, TasksKnown
    <3>2. /\ t.settlement <= calls
          /\ t.op = "generate" /\ t.settlement \notin early =>
                settlements[t.settlement].status # "issued"
          /\ t.op = "generate" => t.rate = NoRate
      BY <2>1, <3>1 DEF TasksInv, CallsInOrder, DraftUntilCalculated, GeneratesAtRow
    <3> QED BY <1>1, <3>1, <3>2 DEF Settlement
  <2>2. CASE t.op = "regenerate" /\ t.settlement = s
    BY <1>1, <1>2, <2>2 DEF Settlement
  <2> QED BY <1>1, <1>3, <2>1, <2>2, NewTask
<1>4. \A r \in Settlement : r > calls + 1 => settlements[r] = NoRow /\ lines[r] = {}
  BY <1>1 DEF TasksInv, CallsInOrder, Settlement
<1> QED BY <1>1, <1>3, <1>4 DEF TasksInv, CallsInOrder, DraftUntilCalculated, GeneratesAtRow

LEMMA StepTasks == TypedInv /\ TasksInv /\ [Next]_vars => TasksInv'
<1> SUFFICES ASSUME TypedInv, TasksInv, [Next]_vars PROVE TasksInv'
  OBVIOUS
<1>0. /\ \A s \in Settlement : s > calls => settlements[s] = NoRow /\ lines[s] = {}
      /\ \A t : TaskUnderWay(t) => t.settlement <= calls /\ t.settlement \in Settlement
  BY TasksKnown DEF TasksInv, CallsInOrder
<1>1. ASSUME UNCHANGED <<calls, settlements, lines, early>>,
             \A t : TaskUnderWay(t)' => \E u : TaskUnderWay(u) /\ SameAs(t, u)
      PROVE  TasksInv'
  BY <1>0, <1>1, OldTasks
<1>2. ASSUME UNCHANGED <<calls, settlements, lines, sending, tasks, worker, early>> PROVE TasksInv'
  BY <1>1, <1>2 DEF TaskUnderWay, SameAs
<1>3. CASE UNCHANGED vars
  BY <1>2, <1>3 DEF vars, settlementVars
<1>4. CASE WorkOrderStep
  BY <1>2, <1>4 DEF WorkOrderStep, settlementVars
<1>5. CASE \E s \in Settlement : ExpireJob(s)
  BY <1>2, <1>5 DEF ExpireJob
<1>6. CASE ApiStep
  <2>1. ASSUME \/ \E p \in Payments : RegisterPayment(p) \/ VoidPayment(p)
               \/ \E m \in Periods, amount \in ChargeAmounts : SetCharge(m, amount)
               \/ \E p \in Pcts : ChangeCommission(p)
        PROVE  TasksInv'
    BY <1>2, <2>1 DEF RegisterPayment, VoidPayment, SetCharge, ChangeCommission
  <2>2. ASSUME NEW s \in Settlement, Issue(s) PROVE TasksInv'
    <3>1. s <= calls
      BY <1>0, <2>2 DEF Issue, NoRow, TypedInv, TypeOK, Settlement
    <3>2. \A t \in Settlement \ {s} : settlements'[t] = settlements[t]
      BY <2>2 DEF Issue, TypedInv, TypeOK
    <3>3. \A t \in Settlement : t > calls => settlements'[t] = NoRow /\ lines'[t] = {}
      BY <1>0, <2>2, <3>1, <3>2 DEF Issue, TypedInv, TypeOK, Settlement
    <3>4. \A t : TaskUnderWay(t)' => TaskUnderWay(t) /\ SameAs(t, t)
      BY <2>2 DEF Issue, TaskUnderWay, SameAs
    <3>5. early \subseteq early' /\ calls' = calls
      BY <2>2 DEF Issue
    <3>6. ASSUME NEW t \in Task, TaskUnderWay(t), t.op = "generate", t.settlement \notin early'
          PROVE  settlements'[t.settlement] = settlements[t.settlement]
      <4>1. t \in UnderWayTasks /\ t.settlement \in Settlement
        BY <3>6, TasksKnown
      <4>2. t.settlement # s
        BY <2>2, <3>6, <4>1 DEF Issue
      <4> QED BY <3>2, <4>1, <4>2
    <3> QED BY <3>3, <3>4, <3>5, <3>6, OldTasks
  <2>3. ASSUME NEW r \in sending, MarkPending(r) \/ Send(r) \/ RequestDies(r) PROVE TasksInv'
    <3>1. UNCHANGED <<calls, settlements, lines, worker, early>>
      BY <2>3 DEF MarkPending, Send, RequestDies
    <3>2. r \in [step: {"checked", "pending"}, task: Task]
      BY DEF TypedInv, TypeOK
    <3>3. [r EXCEPT !.step = "pending"].task = r.task
      BY <3>2
    <3>4. \A t : TaskUnderWay(t)' => TaskUnderWay(t)
      BY <2>3, <3>1, <3>3 DEF MarkPending, Send, RequestDies, TaskUnderWay
    <3> QED BY <1>1, <3>1, <3>4 DEF SameAs
  <2> QED BY <1>6, <2>1, <2>2, <2>3, GenerateTasks, RegenerateTasks DEF ApiStep
<1>7. ASSUME NEW w \in Workers, WorkerStep(w) \/ LoseWorker(w) PROVE TasksInv'
  <2>1. ASSUME NEW t \in tasks, Start(w, t) PROVE TasksInv'
    <3>1. \A u : TaskUnderWay(u)' => TaskUnderWay(u)
      BY <2>1 DEF Start, TaskUnderWay, TypedInv, TypeOK
    <3> QED BY <1>1, <2>1, <3>1 DEF Start, SameAs
  <2>2. CASE LoseWorker(w)
    <3>1. worker[w].task \in Task /\ TaskUnderWay(worker[w].task)
      BY <2>2 DEF LoseWorker, TypedInv, TypeOK, Working, TaskUnderWay
    <3> DEFINE again == [worker[w].task EXCEPT !.redelivered = TRUE]
    <3>2. SameAs(again, worker[w].task)
      BY <3>1 DEF Task, SameAs
    <3>3. \A u : TaskUnderWay(u)' => TaskUnderWay(u) \/ u = again
      BY <2>2 DEF LoseWorker, TaskUnderWay, TypedInv, TypeOK
    <3> HIDE DEF again
    <3>4. UNCHANGED <<calls, settlements, lines, early>>
      BY <2>2 DEF LoseWorker
    <3>5. \A u : SameAs(u, u)
      BY DEF SameAs
    <3> QED BY <1>1, <3>1, <3>2, <3>3, <3>4, <3>5
  <2>3. ASSUME UNCHANGED <<calls, sending, tasks, early>>, worker[w] # Idle, worker[w] \in Working,
               NEW x, worker' = [worker EXCEPT ![w] = x],
               x = Idle \/ x.task = worker[w].task,
               \A s \in Settlement : s > calls => settlements'[s] = NoRow /\ lines'[s] = {},
               \A s \in Settlement : settlements'[s].status = "issued" =>
                   settlements[s].status = "issued"
        PROVE  TasksInv'
    <3>1. \A u : TaskUnderWay(u)' => TaskUnderWay(u)
      BY <2>3 DEF TaskUnderWay, TypedInv, TypeOK
    <3>2. \A t \in Task : t.settlement \in Settlement
      BY DEF Task
    <3> QED BY <2>3, <3>1, <3>2, OldTasks DEF SameAs
  <2>4. CASE Skip(w) \/ Acknowledge(w)
    BY <1>0, <2>3, <2>4 DEF Skip, Acknowledge, In, TypedInv, TypeOK
  <2>5. CASE Fail(w) \/ Report(w)
    <3>1. /\ worker[w] # Idle /\ worker[w] \in Working
          /\ UNCHANGED <<calls, sending, tasks, settlements, lines, early>>
      BY <2>5 DEF Fail, Report, In, TypedInv, TypeOK
    <3>2. PICK phase : worker' = [worker EXCEPT ![w] = [worker[w] EXCEPT !.phase = phase]]
      BY <2>5 DEF Fail, Report
    <3>3. [worker[w] EXCEPT !.phase = phase].task = worker[w].task
      BY <3>1 DEF Working
    <3> QED BY <1>0, <2>3, <3>1, <3>2, <3>3
  <2>6. CASE Read(w)
    <3>1. /\ worker[w] # Idle /\ worker[w] \in Working
          /\ UNCHANGED <<calls, sending, tasks, settlements, lines, early>>
      BY <2>6 DEF Read, In, TypedInv, TypeOK
    <3>2. PICK n, new : worker' = [worker EXCEPT ![w] = [worker[w] EXCEPT
                                      !.phase = "read", !.regenerated = n, !.lines = new]]
      BY <2>6 DEF Read
    <3>3. [worker[w] EXCEPT !.phase = "read", !.regenerated = n, !.lines = new].task = worker[w].task
      BY <3>1 DEF Working
    <3> QED BY <1>0, <2>3, <3>1, <3>2, <3>3
  <2>7. CASE ApplyCalculation(w) \/ ApplyRegeneration(w)
    <3>1. /\ worker[w] # Idle /\ worker[w] \in Working /\ Of(w) \in Settlement
          /\ Of(w) <= calls /\ UNCHANGED <<calls, sending, tasks, early>>
      BY <1>0, <2>7, RowRead DEF ApplyCalculation, ApplyRegeneration, In, TypedInv, TaskUnderWay, Of
    <3>2. worker' = [worker EXCEPT ![w] = [worker[w] EXCEPT !.phase = "applied"]]
      BY <2>7 DEF ApplyCalculation, ApplyRegeneration
    <3>3. [worker[w] EXCEPT !.phase = "applied"].task = worker[w].task
      BY <3>1 DEF Working
    <3>4. \A s \in Settlement : /\ settlements'[s].status = settlements[s].status
                                /\ s # Of(w) => /\ settlements'[s] = settlements[s]
                                                /\ lines'[s] = lines[s]
      BY <2>7, <3>1 DEF ApplyCalculation, ApplyRegeneration, TypedInv, TypeOK, Row
    <3>5. ASSUME NEW s \in Settlement, s > calls PROVE settlements'[s] = NoRow /\ lines'[s] = {}
      <4>1. s # Of(w)
        BY <3>1, <3>5 DEF Settlement, TypedInv, TypeOK
      <4> QED BY <1>0, <3>4, <3>5, <4>1
    <3>6. \A s \in Settlement : settlements'[s].status = "issued" => settlements[s].status = "issued"
      BY <3>4
    <3> DEFINE x == [worker[w] EXCEPT !.phase = "applied"]
    <3>7. worker' = [worker EXCEPT ![w] = x] /\ x.task = worker[w].task
      BY <3>2, <3>3
    <3> HIDE DEF x
    <3> QED BY <2>3, <3>1, <3>5, <3>6, <3>7
  <2>8. CASE CleanUp(w)
    <3>1. /\ worker[w] # Idle /\ worker[w] \in Working /\ Of(w) \in Settlement
          /\ worker' = [worker EXCEPT ![w] = Idle] /\ UNCHANGED <<calls, sending, tasks, early>>
      BY <2>8, RowRead DEF CleanUp, In, TypedInv
    <3>2. \A s \in Settlement :
             \/ settlements'[s] = settlements[s] /\ lines'[s] = lines[s]
             \/ settlements'[s] = NoRow /\ lines'[s] = {}
      BY <2>8, <3>1 DEF CleanUp, TypedInv, TypeOK
    <3>3. NoRow.status # "issued"
      BY DEF NoRow
    <3> QED BY <1>0, <2>3, <3>1, <3>2, <3>3
  <2> QED BY <1>7, <2>1, <2>2, <2>4, <2>5, <2>6, <2>7, <2>8 DEF WorkerStep
<1> QED BY <1>3, <1>4, <1>5, <1>6, <1>7 DEF Next

LEMMA TasksHold == Spec => []TasksInv
<1>1. Init => TypedInv /\ TasksInv
  BY InitTyped, InitTasks
<1>2. TypedInv /\ TasksInv /\ [Next]_vars => (TypedInv /\ TasksInv)'
  BY StepTyped, StepTasks
<1> QED BY <1>1, <1>2, PTL DEF Spec

\* RN-L03: a settlement that was issued once its generation had ended is
\* never deleted, by a clean-up or otherwise, however many workers there are,
\* whatever is asked of it, lost or delivered again, and however late or
\* absent its job state is.
THEOREM IssuedStaysHolds == Spec => IssuedStays
<1>1. ASSUME TypedInv, TasksInv, [Next]_vars, NEW s \in Settlement \ early,
             settlements[s].status = "issued"
      PROVE  settlements'[s].status = "issued"
  <2>0. settlements[s] # NoRow
    BY <1>1 DEF NoRow
  <2>1. CASE UNCHANGED settlements
    BY <1>1, <2>1
  <2>2. ASSUME NEW m \in Periods, NEW rate \in Rates \cup {NoRate}, Generate(m, rate)
        PROVE  settlements'[s].status = "issued"
    <3>1. calls \in Nat /\ s # calls + 1
      BY <1>1, <2>0 DEF TypedInv, TypeOK, TasksInv, CallsInOrder, Settlement
    <3> QED BY <1>1, <2>2, <3>1 DEF Generate, TypedInv, TypeOK
  <2>3. ASSUME NEW r \in Settlement, Issue(r) PROVE settlements'[s].status = "issued"
    BY <1>1, <2>3 DEF Issue, TypedInv, TypeOK, Row
  <2>4. ASSUME NEW w \in Workers, ApplyCalculation(w) \/ ApplyRegeneration(w)
        PROVE  settlements'[s].status = "issued"
    BY <1>1, <2>4 DEF ApplyCalculation, ApplyRegeneration, TypedInv, TypeOK, Row
  <2>5. ASSUME NEW w \in Workers, CleanUp(w) PROVE settlements'[s].status = "issued"
    <3>1. worker[w] # Idle /\ TaskUnderWay(worker[w].task) /\ worker[w].task \in Task
      BY <1>1, <2>5, TasksKnown DEF CleanUp, In, TaskUnderWay
    <3>2. worker[w].task.op = "generate" => Of(w) # s
      BY <1>1, <3>1 DEF TasksInv, DraftUntilCalculated, Of
    <3> QED BY <1>1, <2>5, <3>2 DEF CleanUp, TypedInv, TypeOK
  <2>6. \/ UNCHANGED settlements
        \/ \E m \in Periods, rate \in Rates \cup {NoRate} : Generate(m, rate)
        \/ \E r \in Settlement : Issue(r)
        \/ \E w \in Workers : ApplyCalculation(w) \/ ApplyRegeneration(w) \/ CleanUp(w)
    <3>1. CASE WorkOrderStep \/ UNCHANGED vars \/ \E r \in Settlement : ExpireJob(r)
      BY <3>1 DEF WorkOrderStep, vars, settlementVars, ExpireJob
    <3>2. CASE ApiStep
      BY <3>2 DEF ApiStep, RegisterPayment, VoidPayment, SetCharge, ChangeCommission, Regenerate,
                  MarkPending, Send, RequestDies
    <3>3. CASE \E w \in Workers : WorkerStep(w) \/ LoseWorker(w)
      BY <3>3 DEF WorkerStep, LoseWorker, Start, Skip, Read, Report, Acknowledge, Fail
    <3> QED BY <1>1, <3>1, <3>2, <3>3 DEF Next
  <2> QED BY <2>1, <2>2, <2>3, <2>4, <2>5, <2>6
<1>2. TypedInv /\ TasksInv /\ [Next]_vars =>
        [\A s \in Settlement \ early :
                settlements[s].status = "issued" => settlements'[s].status = "issued"]_vars
  BY <1>1
<1>3. Spec => []TypedInv
  BY InitTyped, StepTyped, PTL DEF Spec
<1> QED BY <1>2, <1>3, TasksHold, PTL DEF Spec, IssuedStays

-----------------------------------------------------------------------------
(* The totals of a settlement are those of its lines.                      *)

LEMMA InitTotals == Init => TotalsInv
BY DEF Init, TotalsInv, OneTask, FirstLines, ReadByFormula, In, AllMatch, Matches

\* AllMatch is TotalsMatchLines.
LEMMA MatchesAre == AllMatch => TotalsMatchLines
BY DEF AllMatch, Matches, ByFormula, TotalsMatchLines

\* A worker that goes on with its task, or puts it down.
LEMMA GoesOnOneTask ==
    ASSUME TypedInv, OneTask, NEW w \in Workers, worker[w] # Idle,
           UNCHANGED <<sending, tasks, repeated>>,
           NEW x, worker' = [worker EXCEPT ![w] = x], x = Idle \/ x.task = worker[w].task
    PROVE  OneTask'
<1>1. \A v \in Workers : worker'[v] # Idle =>
          worker[v] # Idle /\ worker'[v].task.settlement = worker[v].task.settlement
  BY DEF TypedInv, TypeOK
<1> QED BY <1>1 DEF OneTask, Of

\* A request that is accepted, for a settlement with no task under way or
\* that is asked for again.
LEMMA NewOneTask ==
    ASSUME TypedInv, OneTask, NEW op, NEW s, NEW rate,
           ~ UnderWay(s) \/ s \in repeated', repeated \subseteq repeated',
           sending' = sending \cup {Call(op, s, rate)}, UNCHANGED <<tasks, worker>>
    PROVE  OneTask'
<1>1. Call(op, s, rate).task.settlement = s
  BY DEF Call
<1>2. s \notin repeated' =>
      /\ \A r \in sending : r.task.settlement # s
      /\ \A t \in tasks : t.settlement # s
      /\ \A w \in Workers : worker[w] # Idle => Of(w) # s
  BY DEF UnderWay, UnderWayTasks, Of
<1> DEFINE c == Call(op, s, rate)
<1>3. /\ sending' = sending \cup {c} /\ c.task.settlement = s
      /\ UNCHANGED <<tasks, worker>> /\ repeated \subseteq repeated'
  BY <1>1
<1> HIDE DEF c
<1>4. \A q, r \in sending' :
          q.task.settlement = r.task.settlement /\ q.task.settlement \notin repeated' => q = r
  BY <1>2, <1>3 DEF OneTask
<1>5. /\ \A t, u \in tasks' : t.settlement = u.settlement /\ t.settlement \notin repeated' => t = u
      /\ \A v, w \in Workers :
            worker'[v] # Idle /\ worker'[w] # Idle /\ Of(v)' = Of(w)' /\ Of(w)' \notin repeated' => v = w
  BY <1>3 DEF OneTask, Of
<1>6. \A r \in sending' : \A t \in tasks' :
          r.task.settlement \notin repeated' => r.task.settlement # t.settlement
  BY <1>2, <1>3 DEF OneTask
<1>7. \A w \in Workers : worker'[w] # Idle /\ Of(w)' \notin repeated' =>
          /\ \A r \in sending' : r.task.settlement # Of(w)'
          /\ \A t \in tasks' : t.settlement # Of(w)'
  BY <1>2, <1>3 DEF OneTask, Of
<1> QED BY <1>4, <1>5, <1>6, <1>7 DEF OneTask

LEMMA QueuesOneTask ==
    ASSUME TypedInv, OneTask, NEW r \in sending, MarkPending(r) \/ Send(r) \/ RequestDies(r)
    PROVE  OneTask'
<1>1. r \in [step: {"checked", "pending"}, task: Task]
  BY DEF TypedInv, TypeOK
<1> DEFINE p == [r EXCEPT !.step = "pending"]
<1>2. p.task = r.task
  BY <1>1
<1> HIDE DEF p
<1>3. CASE MarkPending(r)
  <2>1. sending' = (sending \ {r}) \cup {p} /\ UNCHANGED <<tasks, worker, repeated>>
    BY <1>3 DEF MarkPending, p
  <2> QED BY <1>2, <2>1 DEF OneTask, Of
<1>4. CASE Send(r)
  BY <1>4 DEF Send, OneTask, Of
<1>5. CASE RequestDies(r)
  BY <1>5 DEF RequestDies, OneTask, Of
<1> QED BY <1>3, <1>4, <1>5

LEMMA StartOneTask ==
    ASSUME TypedInv, OneTask, NEW w \in Workers, NEW t \in tasks, Start(w, t)
    PROVE  OneTask'
<1> DEFINE x == [phase |-> "started", task |-> t, lines |-> {}, regenerated |-> 0]
<1>1. x.task = t
  OBVIOUS
<1>2. worker' = [worker EXCEPT ![w] = x] /\ worker[w] = Idle /\ tasks' = tasks \ {t}
      /\ UNCHANGED <<sending, repeated>>
  BY DEF Start
<1> HIDE DEF x
<1>3. worker'[w] = x /\ \A v \in Workers \ {w} : worker'[v] = worker[v]
  BY <1>2 DEF TypedInv, TypeOK
<1> QED BY <1>1, <1>2, <1>3 DEF OneTask, Of

LEMMA LoseOneTask ==
    ASSUME TypedInv, OneTask, NEW w \in Workers, LoseWorker(w)
    PROVE  OneTask'
<1> DEFINE again == [worker[w].task EXCEPT !.redelivered = TRUE]
<1>1. worker[w] # Idle /\ worker[w].task \in Task
  BY DEF LoseWorker, TypedInv, TypeOK, Working
<1>2. again.settlement = Of(w)
  BY <1>1 DEF Task, Of
<1>3. worker' = [worker EXCEPT ![w] = Idle] /\ tasks' = tasks \cup {again} /\ sending' = sending
      /\ repeated \subseteq repeated'
  BY DEF LoseWorker
<1> HIDE DEF again
<1>4. worker'[w] = Idle /\ \A v \in Workers \ {w} : worker'[v] = worker[v]
  BY <1>3 DEF TypedInv, TypeOK
<1> QED BY <1>1, <1>2, <1>3, <1>4 DEF OneTask, Of

\* The changes that rows and lines may have without a calculation: neither
\* lines nor totals nor percentage nor rate.
RowsKeep ==
    /\ lines' = lines
    /\ \A s \in Settlement : /\ settlements'[s].totals = settlements[s].totals
                             /\ settlements'[s].pct = settlements[s].pct
                             /\ settlements'[s].rate = settlements[s].rate

LEMMA KeepMatches ==
    ASSUME TypedInv, AllMatch, RowsKeep, repeated \subseteq repeated'
    PROVE  AllMatch'
<1> SUFFICES ASSUME NEW s \in Settlement, s \notin repeated', lines'[s] # {}
             PROVE  /\ settlements'[s].totals = TotalsOf(lines'[s])
                    /\ ByFormula(lines'[s], settlements'[s].pct, settlements'[s].rate)
  BY DEF AllMatch, Matches, ByFormula
<1>1. Matches(s)
  BY DEF AllMatch
<1> QED BY <1>1 DEF Matches, RowsKeep

\* Nothing is read, and a generation not yet applied is one of before.
LEMMA KeepTotals ==
    ASSUME TypedInv, FirstLines, ReadByFormula, AllMatch, RowsKeep, repeated \subseteq repeated',
           \A w \in Workers : In(w, "read")' => worker'[w] = worker[w],
           \A r \in sending' : r.task.op = "generate" => NoLines(r.task.settlement)',
           \A t \in tasks' : t.op = "generate" => NoLines(t.settlement)',
           \A w \in Workers :
               worker'[w] # Idle /\ worker'[w].task.op = "generate"
               /\ worker'[w].phase \in {"started", "read", "failed"} => NoLines(Of(w))'
    PROVE  FirstLines' /\ ReadByFormula' /\ AllMatch'
<1>1. FirstLines'
  BY DEF FirstLines
<1>2. ASSUME NEW w \in Workers, In(w, "read")', Of(w)' \notin repeated'
      PROVE  ByFormula(worker'[w].lines, settlements'[Of(w)'].pct,
                       EffectiveRate(Of(w), worker[w].task.rate)')
  <2>1. worker'[w] = worker[w] /\ In(w, "read")
    BY <1>2 DEF In
  <2>2. Of(w) \in Settlement /\ Of(w)' = Of(w)
    BY <2>1, RowRead DEF TypedInv, In, Of
  <2>3. /\ worker'[w].lines = worker[w].lines
        /\ settlements'[Of(w)].pct = settlements[Of(w)].pct
        /\ EffectiveRate(Of(w), worker[w].task.rate)' = EffectiveRate(Of(w), worker[w].task.rate)
    BY <2>1, <2>2 DEF RowsKeep, EffectiveRate
  <2>4. ByFormula(worker[w].lines, settlements[Of(w)].pct,
                  EffectiveRate(Of(w), worker[w].task.rate))
    BY <1>2, <2>1, <2>2 DEF ReadByFormula
  <2> QED BY <2>2, <2>3, <2>4
<1>3. ReadByFormula'
  BY <1>2 DEF ReadByFormula, ByFormula
<1> QED BY <1>1, <1>3, KeepMatches

\* Steps that leave tasks, rows and lines alone, but for the status of a row.
LEMMA TablesTotals ==
    ASSUME TypedInv, TotalsInv, RowsKeep, UNCHANGED <<sending, tasks, worker, repeated>>
    PROVE  TotalsInv'
<1>1. OneTask'
  BY DEF TotalsInv, OneTask, Of
<1>2. FirstLines' /\ ReadByFormula' /\ AllMatch'
  BY KeepTotals DEF TotalsInv, FirstLines, NoLines, RowsKeep, Of, In
<1> QED BY <1>1, <1>2 DEF TotalsInv

LEMMA QueuesTotals ==
    ASSUME TypedInv, TotalsInv, NEW r \in sending, MarkPending(r) \/ Send(r) \/ RequestDies(r)
    PROVE  TotalsInv'
<1>1. r \in [step: {"checked", "pending"}, task: Task]
  BY DEF TypedInv, TypeOK
<1>2. [r EXCEPT !.step = "pending"].task = r.task
  BY <1>1
<1>3. UNCHANGED <<settlements, lines, worker, repeated>>
  BY DEF MarkPending, Send, RequestDies
<1>4. /\ \A q \in sending' : \E p \in sending : q.task = p.task
      /\ tasks' \subseteq tasks \cup {r.task}
  BY <1>2 DEF MarkPending, Send, RequestDies
<1>5. OneTask'
  BY QueuesOneTask DEF TotalsInv
<1>6. /\ \A q \in sending' : q.task.op = "generate" => NoLines(q.task.settlement)
      /\ \A t \in tasks' : t.op = "generate" => NoLines(t.settlement)
  BY <1>4 DEF TotalsInv, FirstLines
<1>7. FirstLines' /\ ReadByFormula' /\ AllMatch'
  BY <1>3, <1>6, KeepTotals DEF TotalsInv, FirstLines, NoLines, RowsKeep, Of, In
<1> QED BY <1>5, <1>7 DEF TotalsInv

LEMMA RegenerateTotals ==
    ASSUME TypedInv, TotalsInv, NEW s \in Settlement, NEW rate \in Rates \cup {NoRate},
           Regenerate(s, rate)
    PROVE  TotalsInv'
<1>1. /\ sending' = sending \cup {Call("regenerate", s, rate)}
      /\ ~ UnderWay(s) \/ s \in repeated'
      /\ repeated \subseteq repeated'
      /\ UNCHANGED <<settlements, lines, tasks, worker>>
  BY DEF Regenerate
<1>2. Call("regenerate", s, rate).task.op = "regenerate"
  BY DEF Call
<1>3. OneTask'
  BY <1>1, NewOneTask DEF TotalsInv
<1>4. \A q \in sending' : q.task.op = "generate" => NoLines(q.task.settlement)
  BY <1>1, <1>2 DEF TotalsInv, FirstLines
<1>5. FirstLines' /\ ReadByFormula' /\ AllMatch'
  BY <1>1, <1>4, KeepTotals DEF TotalsInv, FirstLines, NoLines, RowsKeep, Of, In
<1> QED BY <1>3, <1>5 DEF TotalsInv

\* The next settlement has no lines and no task yet.
LEMMA GenerateTotals ==
    ASSUME TypedInv, TasksInv, TotalsInv, NEW m \in Periods, NEW rate \in Rates \cup {NoRate},
           Generate(m, rate)
    PROVE  TotalsInv'
<1> DEFINE n == calls + 1
           row == [status |-> "draft", period |-> m, rate |-> rate, pct |-> pct,
                   totals |-> NoTotals, regenerated |-> 0]
<1>1. calls \in Nat /\ n \in Settlement /\ n > calls
  BY SettlementConstants DEF Generate, TypedInv, TypeOK, Settlement
<1>2. /\ settlements' = [settlements EXCEPT ![n] = row] /\ lines' = lines
      /\ sending' = sending \cup {Call("generate", n, NoRate)} /\ UNCHANGED <<tasks, worker, repeated>>
  BY DEF Generate
<1>3. lines[n] = {} /\ \A s \in Settlement \ {n} : settlements'[s] = settlements[s]
  BY <1>1, <1>2 DEF TasksInv, CallsInOrder, TypedInv, TypeOK
<1>4. ASSUME NEW t, TaskUnderWay(t) PROVE t.settlement # n
  <2>1. t \in Task /\ t.settlement <= calls
    BY <1>4, TasksKnown DEF TasksInv, CallsInOrder
  <2> QED BY <1>1, <2>1 DEF Task, Settlement
<1>5. ~ UnderWay(n)
  <2>1. \A r \in sending : TaskUnderWay(r.task)
    BY DEF TaskUnderWay
  <2>2. \A t \in tasks : TaskUnderWay(t)
    BY DEF TaskUnderWay
  <2>3. \A w \in Workers : worker[w] # Idle => TaskUnderWay(worker[w].task)
    BY DEF TaskUnderWay
  <2> HIDE DEF n
  <2> QED BY <1>4, <2>1, <2>2, <2>3 DEF UnderWay, UnderWayTasks
<1>6. OneTask'
  BY <1>2, <1>5, NewOneTask DEF TotalsInv
<1>7. FirstLines'
  <2>1. Call("generate", n, NoRate).task.settlement = n
    BY DEF Call
  <2> HIDE DEF n
  <2> QED BY <1>2, <1>3, <2>1 DEF TotalsInv, FirstLines, NoLines, Of
<1>8. ReadByFormula'
  <2>1. ASSUME NEW w \in Workers, In(w, "read")', Of(w)' \notin repeated'
        PROVE  ByFormula(worker'[w].lines, settlements'[Of(w)'].pct,
                         EffectiveRate(Of(w), worker[w].task.rate)')
    <3>1. In(w, "read") /\ Of(w)' = Of(w) /\ worker'[w] = worker[w] /\ Of(w) \notin repeated
      BY <1>2, <2>1 DEF In, Of
    <3>2. Of(w) # n /\ Of(w) \in Settlement
      BY <1>4, <3>1, RowRead DEF In, TaskUnderWay, Of, TypedInv
    <3>3. settlements'[Of(w)] = settlements[Of(w)]
      BY <1>3, <3>2
    <3>4. ByFormula(worker[w].lines, settlements[Of(w)].pct,
                    EffectiveRate(Of(w), worker[w].task.rate))
      BY <3>1 DEF TotalsInv, ReadByFormula
    <3>5. EffectiveRate(Of(w), worker[w].task.rate)' = EffectiveRate(Of(w), worker[w].task.rate)
      BY <3>1, <3>3 DEF EffectiveRate
    <3> QED BY <3>1, <3>3, <3>4, <3>5
  <2> QED BY <2>1 DEF ReadByFormula, ByFormula
<1>9. AllMatch'
  <2> HIDE DEF n
  <2> SUFFICES ASSUME NEW s \in Settlement, s \notin repeated', lines'[s] # {}
               PROVE  /\ settlements'[s].totals = TotalsOf(lines'[s])
                      /\ ByFormula(lines'[s], settlements'[s].pct, settlements'[s].rate)
    BY DEF AllMatch, Matches, ByFormula
  <2>1. Matches(s) /\ s # n
    BY <1>2, <1>3 DEF TotalsInv, AllMatch
  <2> QED BY <1>2, <1>3, <2>1 DEF Matches
<1> QED BY <1>6, <1>7, <1>8, <1>9 DEF TotalsInv

LEMMA StartTotals ==
    ASSUME TypedInv, TotalsInv, NEW w \in Workers, NEW t \in tasks, Start(w, t)
    PROVE  TotalsInv'
<1> DEFINE x == [phase |-> "started", task |-> t, lines |-> {}, regenerated |-> 0]
<1>1. x.task = t /\ x.phase = "started"
  OBVIOUS
<1>2. /\ worker' = [worker EXCEPT ![w] = x] /\ tasks' = tasks \ {t}
      /\ UNCHANGED <<sending, settlements, lines, repeated>>
  BY DEF Start
<1> HIDE DEF x
<1>3. worker'[w] = x /\ \A v \in Workers \ {w} : worker'[v] = worker[v]
  BY <1>2 DEF TypedInv, TypeOK
<1>4. \A v \in Workers : In(v, "read")' => worker'[v] = worker[v]
  BY <1>1, <1>3 DEF In
<1>5. \A v \in Workers :
          worker'[v] # Idle /\ worker'[v].task.op = "generate"
          /\ worker'[v].phase \in {"started", "read", "failed"} => NoLines(Of(v))'
  <2> SUFFICES ASSUME NEW v \in Workers, worker'[v] # Idle, worker'[v].task.op = "generate",
                      worker'[v].phase \in {"started", "read", "failed"}
               PROVE  NoLines(Of(v))'
    OBVIOUS
  <2>1. CASE v = w
    <3>1. Of(v)' = t.settlement /\ t.op = "generate"
      BY <1>1, <1>3, <2>1 DEF Of
    <3>2. NoLines(t.settlement)
      BY <3>1 DEF TotalsInv, FirstLines
    <3> QED BY <1>2, <3>1, <3>2 DEF NoLines
  <2>2. CASE v # w
    <3>1. worker'[v] = worker[v] /\ Of(v)' = Of(v)
      BY <1>3, <2>2 DEF Of
    <3>2. NoLines(Of(v))
      BY <3>1 DEF TotalsInv, FirstLines
    <3> QED BY <1>2, <3>1, <3>2 DEF NoLines
  <2> QED BY <2>1, <2>2
<1>6. FirstLines' /\ ReadByFormula' /\ AllMatch'
  BY <1>2, <1>4, <1>5, KeepTotals DEF TotalsInv, FirstLines, NoLines, RowsKeep
<1> QED BY <1>6, StartOneTask DEF TotalsInv

LEMMA LoseTotals ==
    ASSUME TypedInv, TotalsInv, NEW w \in Workers, LoseWorker(w)
    PROVE  TotalsInv'
<1> DEFINE again == [worker[w].task EXCEPT !.redelivered = TRUE]
<1>1. /\ worker[w] # Idle /\ worker[w].task \in Task
      /\ \/ worker[w].phase \in {"started", "read", "failed"}
         \/ worker[w].task.op # "generate"
         \/ Of(w) \in repeated'
      /\ repeated \subseteq repeated'
  BY DEF LoseWorker, TypedInv, TypeOK, Working, Phase
<1>2. again.settlement = Of(w) /\ again.op = worker[w].task.op
  BY <1>1 DEF Task, Of
<1>3. /\ worker' = [worker EXCEPT ![w] = Idle] /\ tasks' = tasks \cup {again}
      /\ UNCHANGED <<sending, settlements, lines>>
  BY DEF LoseWorker
<1> HIDE DEF again
<1>4. worker'[w] = Idle /\ \A v \in Workers \ {w} : worker'[v] = worker[v]
  BY <1>3 DEF TypedInv, TypeOK
<1>6. \A t \in tasks' : t.op = "generate" => (t.settlement \notin repeated' => lines'[t.settlement] = {})
  <2>1. again.op = "generate" => Of(w) \in repeated' \/ lines[Of(w)] = {}
    BY <1>1, <1>2 DEF TotalsInv, FirstLines, NoLines
  <2>2. \A t \in tasks : t.op = "generate" => (t.settlement \notin repeated => lines[t.settlement] = {})
    BY DEF TotalsInv, FirstLines, NoLines
  <2> QED BY <1>1, <1>2, <1>3, <2>1, <2>2
<1>7. /\ \A v \in Workers : In(v, "read")' => worker'[v] = worker[v]
      /\ \A v \in Workers :
          worker'[v] # Idle /\ worker'[v].task.op = "generate"
          /\ worker'[v].phase \in {"started", "read", "failed"} => NoLines(Of(v))'
  BY <1>1, <1>3, <1>4 DEF TotalsInv, FirstLines, Of, In, NoLines
<1>8. \A r \in sending' : r.task.op = "generate" => NoLines(r.task.settlement)'
  BY <1>1, <1>3 DEF TotalsInv, FirstLines, NoLines
<1>9. FirstLines' /\ ReadByFormula' /\ AllMatch'
  BY <1>1, <1>3, <1>6, <1>7, <1>8, KeepTotals DEF TotalsInv, RowsKeep, NoLines
<1> QED BY <1>9, LoseOneTask DEF TotalsInv

\* A worker that reports, fails or puts its task down.
LEMMA PhasesTotals ==
    ASSUME TypedInv, TotalsInv, NEW w \in Workers, worker[w] # Idle, RowsKeep,
           UNCHANGED <<sending, tasks, repeated>>, NEW x, worker' = [worker EXCEPT ![w] = x],
           \/ x = Idle
           \/ /\ x.task = worker[w].task /\ x.phase \notin {"started", "read"}
              /\ x.phase = "failed" => worker[w].phase \in {"started", "read"}
    PROVE  TotalsInv'
<1>1. worker'[w] = x /\ \A v \in Workers \ {w} : worker'[v] = worker[v]
  BY DEF TypedInv, TypeOK
<1>2. \A v \in Workers : In(v, "read")' => worker'[v] = worker[v]
  BY <1>1 DEF In
<1>3. ASSUME NEW v \in Workers, worker'[v] # Idle, worker'[v].task.op = "generate",
             worker'[v].phase \in {"started", "read", "failed"}
      PROVE  NoLines(Of(v))'
  <2>1. worker[v] # Idle /\ worker'[v].task = worker[v].task
        /\ worker[v].phase \in {"started", "read", "failed"}
    BY <1>1, <1>3
  <2>2. NoLines(Of(v)) /\ Of(v)' = Of(v)
    BY <1>3, <2>1 DEF TotalsInv, FirstLines, Of
  <2>3. lines' = lines /\ repeated' = repeated
    BY DEF RowsKeep
  <2> QED BY <2>2, <2>3 DEF NoLines
<1>4. FirstLines' /\ ReadByFormula' /\ AllMatch'
  BY <1>2, <1>3, KeepTotals DEF TotalsInv, FirstLines, NoLines, RowsKeep
<1> QED BY <1>4, GoesOnOneTask DEF TotalsInv

LEMMA ReadTotals ==
    ASSUME TypedInv, TotalsInv, NEW w \in Workers, Read(w)
    PROVE  TotalsInv'
<1> DEFINE s == Of(w)
           current == IF worker[w].task.op = "regenerate" THEN s ELSE NoSettlement
           rate == EffectiveRate(s, worker[w].task.rate)
<1>1. /\ worker[w] # Idle /\ worker[w].phase = "started" /\ worker[w] \in Working
      /\ s \in Settlement /\ settlements[s].period \in Periods /\ settlements[s].pct \in Pcts
      /\ rate \in Nat /\ UNCHANGED <<sending, tasks, settlements, lines, repeated>>
  BY RowRead DEF TypedInv, Read, In
<1>2. PICK batch, new :
        /\ new = CalculatedLines(current, settlements[s].period, settlements[s].pct, rate, batch)
        /\ worker' = [worker EXCEPT ![w].phase = "read",
                                    ![w].regenerated = settlements[s].regenerated,
                                    ![w].lines = new]
  BY ReadCalculates DEF TypedInv
<1> DEFINE x == [worker[w] EXCEPT !.phase = "read", !.regenerated = settlements[s].regenerated,
                                  !.lines = new]
<1>3. worker' = [worker EXCEPT ![w] = x] /\ x.task = worker[w].task /\ x.lines = new
  BY <1>1, <1>2 DEF Working
<1>4. ByFormula(new, settlements[s].pct, rate)
  <2> HIDE DEF s, current, rate
  <2> QED BY <1>1, <1>2, CalculatedByFormula DEF TypedInv
<1> HIDE DEF x
<1>5. worker'[w] = x /\ \A v \in Workers \ {w} : worker'[v] = worker[v]
  BY <1>3 DEF TypedInv, TypeOK
<1>6. OneTask'
  BY <1>1, <1>3, GoesOnOneTask DEF TotalsInv
<1>7. FirstLines'
  <2>1. ASSUME NEW v \in Workers, worker'[v] # Idle, worker'[v].task.op = "generate",
               worker'[v].phase \in {"started", "read", "failed"}
        PROVE  NoLines(Of(v))'
    <3>1. worker[v] # Idle /\ worker'[v].task = worker[v].task
          /\ worker[v].phase \in {"started", "read", "failed"}
      BY <1>1, <1>3, <1>5, <2>1
    <3>2. NoLines(Of(v)) /\ Of(v)' = Of(v)
      BY <2>1, <3>1 DEF TotalsInv, FirstLines, Of
    <3> QED BY <1>1, <3>2 DEF NoLines
  <2> QED BY <1>1, <2>1 DEF TotalsInv, FirstLines, NoLines
<1>8. ReadByFormula'
  <2>1. ASSUME NEW v \in Workers, In(v, "read")', Of(v)' \notin repeated'
        PROVE  ByFormula(worker'[v].lines, settlements'[Of(v)'].pct,
                         EffectiveRate(Of(v), worker[v].task.rate)')
    <3>1. worker'[v].task = worker[v].task /\ Of(v)' = Of(v) /\ settlements' = settlements
      BY <1>1, <1>3, <1>5 DEF Of
    <3>2. EffectiveRate(Of(v), worker[v].task.rate)' = EffectiveRate(Of(v), worker[v].task.rate)
      BY <3>1 DEF EffectiveRate
    <3>3. CASE v = w
      BY <1>3, <1>4, <1>5, <3>1, <3>2, <3>3
    <3>4. CASE v # w
      <4>1. In(v, "read") /\ worker'[v] = worker[v] /\ Of(v) \notin repeated
        BY <1>1, <1>5, <2>1, <3>1, <3>4 DEF In
      <4>2. ByFormula(worker[v].lines, settlements[Of(v)].pct,
                      EffectiveRate(Of(v), worker[v].task.rate))
        BY <4>1 DEF TotalsInv, ReadByFormula
      <4> QED BY <3>1, <3>2, <4>1, <4>2
    <3> QED BY <3>3, <3>4
  <2> QED BY <2>1 DEF ReadByFormula, ByFormula
<1>9. AllMatch'
  BY <1>1 DEF TotalsInv, AllMatch, Matches, ByFormula
<1> QED BY <1>6, <1>7, <1>8, <1>9 DEF TotalsInv

\* A settlement that a worker writes is no other's, and becomes what was
\* calculated: a generation found it without lines, a regeneration clears it.
LEMMA ApplyTotals ==
    ASSUME TypedInv, TasksInv, TotalsInv, NEW w \in Workers, ApplyCalculation(w) \/ ApplyRegeneration(w)
    PROVE  TotalsInv'
<1> DEFINE s == Of(w)
           new == worker[w].lines
           rate == EffectiveRate(s, worker[w].task.rate)
<1>1. /\ worker[w] # Idle /\ worker[w].phase = "read" /\ worker[w] \in Working /\ s \in Settlement
      /\ UNCHANGED <<sending, tasks, repeated>>
  BY RowRead DEF ApplyCalculation, ApplyRegeneration, In, TypedInv
<1> DEFINE x == [worker[w] EXCEPT !.phase = "applied"]
<1>2. /\ worker' = [worker EXCEPT ![w] = x] /\ x.task = worker[w].task /\ x.phase = "applied"
  BY <1>1 DEF ApplyCalculation, ApplyRegeneration, Working
<1> HIDE DEF x
<1>3. worker'[w] = x /\ \A v \in Workers \ {w} : worker'[v] = worker[v]
  BY <1>2 DEF TypedInv, TypeOK
<1>4. /\ s \notin repeated => lines' = [lines EXCEPT ![s] = new]
      /\ \A t \in Settlement \ {s} : lines'[t] = lines[t]
  <2>1. CASE ApplyCalculation(w)
    <3>1. s \notin repeated => lines[s] = {}
      BY <1>1, <2>1 DEF ApplyCalculation, TotalsInv, FirstLines, NoLines
    <3> QED BY <1>1, <2>1, <3>1 DEF ApplyCalculation, TypedInv, TypeOK
  <2>2. CASE ApplyRegeneration(w)
    BY <1>1, <2>2 DEF ApplyRegeneration, ClearLineItems, TypedInv, TypeOK
  <2> QED BY <2>1, <2>2
<1>5. /\ settlements'[s].totals = TotalsOf(new) /\ settlements'[s].pct = settlements[s].pct
      /\ \A t \in Settlement \ {s} : settlements'[t] = settlements[t]
  BY <1>1 DEF ApplyCalculation, ApplyRegeneration, TypedInv, TypeOK, Row
<1>13. settlements'[s].rate = rate
  <2>1. settlements[s] \in Row
    BY <1>1 DEF TypedInv, TypeOK
  <2>2. CASE ApplyCalculation(w)
    <3>1. worker[w].task \in Task /\ worker[w].task.op = "generate" /\ TaskUnderWay(worker[w].task)
      BY <1>1, <2>2 DEF ApplyCalculation, Working, TaskUnderWay
    <3>2. worker[w].task.rate = NoRate
      BY <3>1 DEF TasksInv, GeneratesAtRow
    <3>3. settlements'[s].rate = settlements[s].rate
      BY <1>1, <2>1, <2>2 DEF ApplyCalculation, TypedInv, TypeOK, Row
    <3> QED BY <3>2, <3>3 DEF EffectiveRate
  <2>3. CASE ApplyRegeneration(w)
    BY <1>1, <2>1, <2>3 DEF ApplyRegeneration, TypedInv, TypeOK, Row
  <2> QED BY <2>2, <2>3
<1>6. s \notin repeated => lines'[s] = new
  BY <1>1, <1>4 DEF TypedInv, TypeOK
<1>7. s \notin repeated => ByFormula(new, settlements[s].pct, rate)
  BY <1>1 DEF TotalsInv, ReadByFormula, In
<1>8. OneTask'
  BY <1>1, <1>2, GoesOnOneTask DEF TotalsInv
<1>9. /\ \A r \in sending : r.task.settlement \notin repeated => r.task.settlement \in Settlement \ {s}
      /\ \A t \in tasks : t.settlement \notin repeated => t.settlement \in Settlement \ {s}
      /\ \A v \in Workers \ {w} :
            worker[v] # Idle /\ Of(v) \notin repeated => Of(v) \in Settlement \ {s}
  <2>1. /\ \A r \in sending : r.task \in Task
        /\ \A t \in tasks : t \in Task
        /\ \A v \in Workers : worker[v] # Idle => worker[v].task \in Task
    BY DEF TypedInv, TypeOK, Working
  <2> QED BY <1>1, <2>1 DEF TotalsInv, OneTask, Of, Task
<1> HIDE DEF s, new, rate
<1>10. FirstLines'
  <2>1. \A r \in sending' : r.task.op = "generate" => NoLines(r.task.settlement)'
    BY <1>1, <1>4, <1>9 DEF TotalsInv, FirstLines, NoLines
  <2>2. \A t \in tasks' : t.op = "generate" => NoLines(t.settlement)'
    BY <1>1, <1>4, <1>9 DEF TotalsInv, FirstLines, NoLines
  <2>3. ASSUME NEW v \in Workers, worker'[v] # Idle, worker'[v].task.op = "generate",
               worker'[v].phase \in {"started", "read", "failed"}
        PROVE  NoLines(Of(v))'
    <3>1. v # w /\ worker'[v] = worker[v] /\ Of(v)' = Of(v)
      BY <1>2, <1>3, <2>3 DEF Of
    <3>2. NoLines(Of(v))
      BY <2>3, <3>1 DEF TotalsInv, FirstLines
    <3> QED BY <1>1, <1>4, <1>9, <2>3, <3>1, <3>2 DEF NoLines
  <2> QED BY <2>1, <2>2, <2>3 DEF FirstLines
<1>11. ReadByFormula'
  <2>1. ASSUME NEW v \in Workers, In(v, "read")', Of(v)' \notin repeated'
        PROVE  ByFormula(worker'[v].lines, settlements'[Of(v)'].pct,
                         EffectiveRate(Of(v), worker[v].task.rate)')
    <3>1. v # w
      BY <1>2, <1>3, <2>1 DEF In
    <3>2. In(v, "read") /\ worker'[v] = worker[v] /\ Of(v)' = Of(v)
          /\ Of(v) \in Settlement \ {s} /\ Of(v) \notin repeated
      BY <1>1, <1>3, <1>9, <2>1, <3>1 DEF In, Of
    <3>3. ByFormula(worker[v].lines, settlements[Of(v)].pct,
                    EffectiveRate(Of(v), worker[v].task.rate))
      BY <3>2 DEF TotalsInv, ReadByFormula
    <3>4. EffectiveRate(Of(v), worker[v].task.rate)' = EffectiveRate(Of(v), worker[v].task.rate)
      BY <1>5, <3>2 DEF EffectiveRate
    <3> QED BY <1>5, <3>2, <3>3, <3>4
  <2> QED BY <2>1 DEF ReadByFormula, ByFormula
<1>12. AllMatch'
  <2> SUFFICES ASSUME NEW t \in Settlement, t \notin repeated', lines'[t] # {}
               PROVE  /\ settlements'[t].totals = TotalsOf(lines'[t])
                      /\ ByFormula(lines'[t], settlements'[t].pct, settlements'[t].rate)
    BY DEF AllMatch, Matches, ByFormula
  <2>1. CASE t = s
    BY <1>1, <1>5, <1>6, <1>7, <1>13, <2>1
  <2>2. CASE t # s
    <3>1. Matches(t) /\ settlements'[t] = settlements[t] /\ lines'[t] = lines[t]
      BY <1>1, <1>4, <1>5, <2>2 DEF TotalsInv, AllMatch
    <3> QED BY <3>1 DEF Matches
  <2> QED BY <2>1, <2>2
<1> QED BY <1>8, <1>10, <1>11, <1>12 DEF TotalsInv

\* What is cleaned up is a settlement that no other task is about.
LEMMA CleanUpTotals ==
    ASSUME TypedInv, TotalsInv, NEW w \in Workers, CleanUp(w)
    PROVE  TotalsInv'
<1> DEFINE s == Of(w)
<1>1. worker[w] # Idle /\ s \in Settlement /\ UNCHANGED <<sending, tasks, repeated>>
      /\ worker' = [worker EXCEPT ![w] = Idle]
  BY RowRead DEF CleanUp, In, TypedInv
<1>2. worker'[w] = Idle /\ \A v \in Workers \ {w} : worker'[v] = worker[v]
  BY <1>1 DEF TypedInv, TypeOK
<1>3. /\ \A t \in Settlement \ {s} : settlements'[t] = settlements[t] /\ lines'[t] = lines[t]
      /\ \/ settlements'[s] = settlements[s] /\ lines'[s] = lines[s]
         \/ lines'[s] = {}
  BY <1>1 DEF CleanUp, TypedInv, TypeOK
<1>4. OneTask'
  BY <1>1, GoesOnOneTask DEF TotalsInv
<1>5. \A v \in Workers \ {w} : worker[v] # Idle /\ Of(v) \notin repeated => Of(v) \in Settlement \ {s}
  <2>1. \A v \in Workers : worker[v] # Idle => worker[v].task \in Task
    BY DEF TypedInv, TypeOK, Working
  <2> QED BY <1>1, <2>1 DEF TotalsInv, OneTask, Of, Task
<1>6. \A t \in Settlement : NoLines(t) => NoLines(t)'
  BY <1>1, <1>3 DEF NoLines
<1> HIDE DEF s
<1>7. FirstLines'
  <2>1. /\ \A r \in sending : r.task.settlement \in Settlement
        /\ \A t \in tasks : t.settlement \in Settlement
        /\ \A v \in Workers : worker[v] # Idle => Of(v) \in Settlement
    BY DEF TypedInv, TypeOK, Working, Task, Of
  <2>2. ASSUME NEW v \in Workers, worker'[v] # Idle, worker'[v].task.op = "generate",
               worker'[v].phase \in {"started", "read", "failed"}
        PROVE  NoLines(Of(v))'
    <3>1. worker'[v] = worker[v] /\ Of(v)' = Of(v) /\ NoLines(Of(v)) /\ Of(v) \in Settlement
      BY <1>2, <2>1, <2>2 DEF TotalsInv, FirstLines, Of
    <3> QED BY <1>6, <3>1 DEF NoLines
  <2> QED BY <1>1, <1>6, <2>1, <2>2 DEF TotalsInv, FirstLines
<1>8. ReadByFormula'
  <2>1. ASSUME NEW v \in Workers, In(v, "read")', Of(v)' \notin repeated'
        PROVE  ByFormula(worker'[v].lines, settlements'[Of(v)'].pct,
                         EffectiveRate(Of(v), worker[v].task.rate)')
    <3>1. In(v, "read") /\ worker'[v] = worker[v] /\ Of(v)' = Of(v)
          /\ Of(v) \in Settlement \ {s} /\ Of(v) \notin repeated
      BY <1>1, <1>2, <1>5, <2>1 DEF In, Of
    <3>2. ByFormula(worker[v].lines, settlements[Of(v)].pct,
                    EffectiveRate(Of(v), worker[v].task.rate))
      BY <3>1 DEF TotalsInv, ReadByFormula
    <3>3. EffectiveRate(Of(v), worker[v].task.rate)' = EffectiveRate(Of(v), worker[v].task.rate)
      BY <1>3, <3>1 DEF EffectiveRate
    <3> QED BY <1>3, <3>1, <3>2, <3>3
  <2> QED BY <2>1 DEF ReadByFormula, ByFormula
<1>9. AllMatch'
  <2> SUFFICES ASSUME NEW t \in Settlement, t \notin repeated', lines'[t] # {}
               PROVE  /\ settlements'[t].totals = TotalsOf(lines'[t])
                      /\ ByFormula(lines'[t], settlements'[t].pct, settlements'[t].rate)
    BY DEF AllMatch, Matches, ByFormula
  <2>1. Matches(t) /\ settlements'[t] = settlements[t] /\ lines'[t] = lines[t]
    BY <1>1, <1>3 DEF TotalsInv, AllMatch
  <2> QED BY <2>1 DEF Matches
<1> QED BY <1>4, <1>7, <1>8, <1>9 DEF TotalsInv

LEMMA StepTotals == TypedInv /\ TasksInv /\ TotalsInv /\ [Next]_vars => TotalsInv'
<1> SUFFICES ASSUME TypedInv, TasksInv, TotalsInv, [Next]_vars PROVE TotalsInv'
  OBVIOUS
<1>1. ASSUME UNCHANGED <<sending, tasks, worker, settlements, lines, repeated>> PROVE TotalsInv'
  BY <1>1, TablesTotals DEF RowsKeep
<1>2. CASE WorkOrderStep \/ UNCHANGED vars \/ \E s \in Settlement : ExpireJob(s)
  BY <1>1, <1>2 DEF WorkOrderStep, vars, settlementVars, ExpireJob
<1>3. CASE ApiStep
  <2>1. ASSUME \/ \E p \in Payments : RegisterPayment(p) \/ VoidPayment(p)
               \/ \E m \in Periods, amount \in ChargeAmounts : SetCharge(m, amount)
               \/ \E p \in Pcts : ChangeCommission(p)
        PROVE  TotalsInv'
    BY <1>1, <2>1 DEF RegisterPayment, VoidPayment, SetCharge, ChangeCommission
  <2>2. ASSUME NEW s \in Settlement, Issue(s) PROVE TotalsInv'
    <3>1. RowsKeep /\ UNCHANGED <<sending, tasks, worker, repeated>>
      BY <2>2 DEF Issue, RowsKeep, TypedInv, TypeOK, Row
    <3> QED BY <3>1, TablesTotals
  <2> QED BY <1>3, <2>1, <2>2, QueuesTotals, GenerateTotals, RegenerateTotals DEF ApiStep
<1>4. ASSUME NEW w \in Workers, WorkerStep(w) \/ LoseWorker(w) PROVE TotalsInv'
  <2>1. CASE Skip(w) \/ Acknowledge(w)
    <3>1. worker[w] # Idle /\ worker' = [worker EXCEPT ![w] = Idle]
          /\ UNCHANGED <<sending, tasks, settlements, lines, repeated>>
      BY <2>1 DEF Skip, Acknowledge, In
    <3> QED BY <3>1, PhasesTotals DEF RowsKeep
  <2>2. CASE Fail(w) \/ Report(w)
    <3>1. worker[w] # Idle /\ worker[w] \in Working /\ UNCHANGED <<sending, tasks, settlements, lines, repeated>>
      BY <2>2 DEF Fail, Report, In, TypedInv, TypeOK
    <3>2. PICK phase \in {"failed", "reported"} :
             /\ worker' = [worker EXCEPT ![w].phase = phase]
             /\ phase = "failed" => worker[w].phase \in {"started", "read"}
      BY <2>2 DEF Fail, Report, In
    <3> DEFINE x == [worker[w] EXCEPT !.phase = phase]
    <3>3. worker' = [worker EXCEPT ![w] = x] /\ x.task = worker[w].task /\ x.phase = phase
      BY <3>1, <3>2 DEF Working
    <3> HIDE DEF x
    <3> QED BY <3>1, <3>2, <3>3, PhasesTotals DEF RowsKeep
  <2> QED BY <1>4, <2>1, <2>2, StartTotals, ReadTotals, ApplyTotals, CleanUpTotals, LoseTotals
          DEF WorkerStep
<1> QED BY <1>2, <1>3, <1>4 DEF Next

\* However many workers there are: the line of a payment is what was paid at
\* the rate in the row, rounded; the commission is the percentage in the row
\* of what was paid, to either side, rounded once; the totals are those of
\* the lines.  Unless the settlement was asked for again beside a job of its
\* own, or generated again after its commit.
THEOREM TotalsMatchLinesHolds == Spec => []TotalsMatchLines
<1>1. Init => TypedInv /\ TasksInv /\ TotalsInv
  BY InitTyped, InitTasks, InitTotals
<1>2. TypedInv /\ TasksInv /\ TotalsInv /\ [Next]_vars => (TypedInv /\ TasksInv /\ TotalsInv)'
  BY StepTyped, StepTasks, StepTotals
<1>3. TotalsInv => TotalsMatchLines
  BY MatchesAre DEF TotalsInv
<1> QED BY <1>1, <1>2, <1>3, PTL DEF Spec

=============================================================================
