CONSTANTS
    c1 = c1
    c2 = c2
    p1 = p1
    Contracts = {c1, c2}
    Properties = {p1}
    PropertyOf <- MCOneProperty
    Terms <- MCRanges
    MaxAmount = 1
    DaysPerMonth = 4
    FirstDay = 0
    MaxDay = 3
    NoticeDays = 1
    MaxApplying = 2

SPECIFICATION FairSpec
CHECK_DEADLOCK FALSE

INVARIANTS
    NoActiveOverlap
    RentedHasActive

PROPERTIES
    PastEndLeavesActive
