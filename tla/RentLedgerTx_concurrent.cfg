CONSTANTS
    m1 = m1
    m2 = m2
    c1 = c1
    r1 = r1
    r2 = r2
    r3 = r3
    r4 = r4
    Periods = {m1}
    Contracts = {c1}
    Requests = {r1, r2, r3}
    ContractOf <- MCOneMonth
    MaxAmount = 2
    OneAtATime = FALSE

SPECIFICATION FairSpec
CHECK_DEADLOCK FALSE

INVARIANTS
    CapitalInBounds
    HistoryStaysPaid
PROPERTIES
    EveryRequestEnds
