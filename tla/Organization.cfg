SPECIFICATION OrganizationSpec
CONSTANTS
    u1 = u1  u2 = u2
    r1 = r1  r2 = r2
    Users = {u1, u2}
    Requests = {r1, r2}
    Sizes <- MCSizes
    None = None
    Attempts = {r1, r2}
    MaxAttempts = 3
    MaxResets = 2
    MaxLost = 2
    Orgs = {"before", "after"}
    MaxDowngrades = 3
    NotCreated = NotCreated
    l1 = l1  l2 = l2  rt1 = rt1  n1 = n1  n2 = n2  p1 = p1  a1 = a1  c1 = c1
    north = north  south = south
    Landlords = {l1, l2}
    Renters = {rt1}
    Neighborhoods = {n1, n2}
    Properties = {p1}
    Accounts = {a1}
    Charges = {c1}
    Periods = {1, 2}
    CurrentPeriod = 1
    Names = {north, south}
    Percents = {u1, u2}
    Amounts = {u1, u2}
    Clerks = {r1, r2}
    Scopes <- MCScopes
    MaxAudited = 2
    o1 = o1
    Orders = {o1}
    Quotes = {u1, u2}
    QuoteOrder <- MCQuoteOrder
    Costs = {1, 2}
    NoQuote = NoQuote
    NoSettlement = NoSettlement
    Handlers = {r1, r2}
SYMMETRY MCSymmetry
INVARIANTS JoinsOnce OneGoodToken RevocationReachesAll GuessesBounded ResetsOnce MatrixHolds UniqueNames NeighborhoodStays TrailEndsInCurrent OneApprovedQuote
PROPERTIES OwnerRemains NoTokenRevives UpgradesKeepAccess DeletedStaysDeleted ImplementsOrders
CHECK_DEADLOCK FALSE
