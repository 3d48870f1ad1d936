SPECIFICATION FairSpec
CONSTANTS
    m1 = m1  m2 = m2
    p1 = p1  p2 = p2  p3 = p3
    o1 = o1  o2 = o2
    q1 = q1  q2 = q2
    Orders = {o1}
    Quotes = {}
    QuoteOrder <- MCQuoteOrder
    Costs = {2}
    NoQuote = NoQuote
    NoSettlement = NoSettlement
    Periods = {m1, m2}
    Payments = {}
    PaymentOf <- MCPaymentOf
    ChargeAmounts = {}
    Pcts = {10}
    PctScale = 1
    Rates = {}
    RateScale = 10
    Workers = {w1, w2}
    MaxCalls = 2
    ActiveContract = TRUE
    Idle = Idle
INVARIANTS RepairDeductedOnce SettledRepairKeepsLine
PROPERTIES IssuedStays JobEnds
CHECK_DEADLOCK FALSE
