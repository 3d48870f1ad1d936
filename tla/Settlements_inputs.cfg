SPECIFICATION Spec
CONSTANTS
    m1 = m1  m2 = m2
    p1 = p1  p2 = p2  p3 = p3
    o1 = o1  o2 = o2
    q1 = q1  q2 = q2
    Orders = {o2}
    Quotes = {q1}
    QuoteOrder <- MCQuoteOrder
    Costs = {2}
    NoQuote = NoQuote
    NoSettlement = NoSettlement
    Periods = {m1}
    Payments = {p3}
    PaymentOf <- MCPaymentOf
    ChargeAmounts = {3}
    Pcts = {10, 20}
    PctScale = 1
    Rates = {73}
    RateScale = 10
    Workers = {w1}
    MaxCalls = 2
    ActiveContract = FALSE
    Idle = Idle
INVARIANTS TotalsMatchLines
CHECK_DEADLOCK FALSE
