CONSTANTS
    m1 = m1
    m2 = m2
    c1 = c1
    pay1 = pay1
    pay2 = pay2
    pay3 = pay3
    Periods = {m1, m2}
    Contracts = {c1}
    Payments = {pay1, pay2, pay3}
    ContractOf <- MCContractOf
    MaxAmount = 3

SPECIFICATION Spec
SYMMETRY MCSymmetry
CHECK_DEADLOCK FALSE

INVARIANTS
    LedgerBalanced
    StatusFollowsCapital
    DebtIsUnpaidCapital
