SPECIFICATION LiveCustodySpec
CONSTANTS
    a1 = a1
    a2 = a2
    Workers = {w1, w2}
    DispatchLimit = 1
    PollLimit = 2
    MaxAttempts = 1
    MaxResumes = 1
    None = None
    RequestIds = {a1, a2}
CONSTRAINTS FirstRequestIsA1 OneOvertakenPass
INVARIANTS
    SendsWithinBudget
    ParkedTogether
PROPERTIES
    DeliverySpec
    CustodySettles
