CONSTANTS
    c1 = c1
    c2 = c2
    p1 = p1
    Contracts = {c1}
    Properties = {p1}
    PropertyOf <- MCOneProperty
    Terms <- MCAdjusted
    MaxAmount = 2
    DaysPerMonth = 2
    FirstDay = 2
    MaxDay = 4
    NoticeDays = 1
    MaxApplying = 2

SPECIFICATION Spec
CHECK_DEADLOCK FALSE

INVARIANTS
    PendingMeansNoPeriod
