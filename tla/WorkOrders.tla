------------------------------ MODULE WorkOrders ------------------------------
(***************************************************************************)
(* Work orders and their quotes (modules/maintenance/service.py), of one   *)
(* landlord's properties.  Every handler reads the order, checks its       *)
(* status, and writes; each is one step here, and several transactions of  *)
(* several statements in WorkOrdersTx.  What a settlement writes on an     *)
(* order, and when, is in Settlements, which composes the two.             *)
(***************************************************************************)
EXTENDS Integers, FiniteSets

CONSTANTS Orders,        \* identifiers of work orders
          Quotes,        \* identifiers of quotes
          QuoteOrder,    \* the order each quote is submitted for
          Costs,         \* amounts of quotes and final costs
          NoQuote,       \* approved_quote_id IS NULL
          NoSettlement   \* settled_in_settlement_id IS NULL

ASSUME WorkOrderConstants ==
    /\ QuoteOrder \in [Quotes -> Orders]
    /\ Costs \subseteq Nat
    /\ NoQuote \notin Quotes

VARIABLES orders,   \* work_orders rows; status "none": not created yet
          quotes    \* work_order_quotes rows; status "none": not submitted yet

orderVars == <<orders, quotes>>

NoCost == -1   \* final_cost IS NULL, or absent from a request's body

OrderStatus == {"none", "open", "in_progress", "closed", "cancelled"}

OrderRow(settlements) ==
    [status: OrderStatus, payer: {"landlord", "agency"}, final_cost: Costs \cup {NoCost},
     approved_quote: Quotes \cup {NoQuote}, settled: settlements \cup {NoSettlement}]

QuoteRow == [status: {"none", "submitted", "approved", "discarded"}, amount: Costs \cup {NoCost}]

QuotesOf(o, status) == {q \in Quotes : QuoteOrder[q] = o /\ quotes[q].status = status}

InitOrders ==
    /\ orders = [o \in Orders |-> [status |-> "none", payer |-> "agency", final_cost |-> NoCost,
                                   approved_quote |-> NoQuote, settled |-> NoSettlement]]
    /\ quotes = [q \in Quotes |-> [status |-> "none", amount |-> NoCost]]

-----------------------------------------------------------------------------
CreateOrder(o, payer) ==
    /\ orders[o].status = "none"
    /\ orders' = [orders EXCEPT ![o].status = "open", ![o].payer = payer]
    /\ UNCHANGED quotes

\* Quotes are accepted while the order is open.
AddQuote(q, amount) ==
    /\ quotes[q].status = "none"
    /\ orders[QuoteOrder[q]].status = "open"
    /\ quotes' = [quotes EXCEPT ![q] = [status |-> "submitted", amount |-> amount]]
    /\ UNCHANGED orders

(* Approving looks at the quotes of the order, not at its status: an order *)
(* closed or cancelled without an approved quote is put in progress.       *)
ApproveQuote(q) ==
    LET o == QuoteOrder[q] IN
    /\ quotes[q].status \notin {"none", "approved"}
    /\ QuotesOf(o, "approved") = {}
    /\ quotes' = [r \in Quotes |->
                    IF r = q THEN [quotes[r] EXCEPT !.status = "approved"]
                    ELSE IF r \in QuotesOf(o, "submitted")
                         THEN [quotes[r] EXCEPT !.status = "discarded"] ELSE quotes[r]]
    /\ orders' = [orders EXCEPT ![o].status = "in_progress", ![o].approved_quote = q,
                                ![o].final_cost = quotes[q].amount]

(* cost is the body's final_cost; absent, the approved quote's amount is   *)
(* the cost, and without one the request is refused.                       *)
CloseOrder(o, cost) ==
    LET q == orders[o].approved_quote IN
    /\ orders[o].status \in {"open", "in_progress"}
    /\ cost # NoCost \/ q # NoQuote
    /\ orders' = [orders EXCEPT ![o].status = "closed",
                    ![o].final_cost = IF cost # NoCost THEN cost ELSE quotes[q].amount]
    /\ UNCHANGED quotes

CancelOrder(o) ==
    /\ orders[o].settled = NoSettlement
    /\ orders[o].status \in {"open", "in_progress"}
    /\ orders' = [orders EXCEPT ![o].status = "cancelled"]
    /\ UNCHANGED quotes

OrderNext ==
    \/ \E o \in Orders, payer \in {"landlord", "agency"} : CreateOrder(o, payer)
    \/ \E q \in Quotes, amount \in Costs \ {0} : AddQuote(q, amount)
    \/ \E q \in Quotes : ApproveQuote(q)
    \/ \E o \in Orders, cost \in Costs \cup {NoCost} : CloseOrder(o, cost)
    \/ \E o \in Orders : CancelOrder(o)
=============================================================================
