CONSTANTS
    p1 = p1
    r1 = r1
    r2 = r2
    p2 = p2
    NoPrice = NoPrice
    NoList = NoList
    Absent = Absent
    Carried = Carried
    BadPrice = 0
    Item <- MCItem
    Run = {r1, r2}
    Proc = {p1, p2}
    Price <- MCPrice
    List <- MCList
    Listed <- MCListed
    Offer <- MCOffer
    GateBlocks <- MCGateBlocks
    Order <- MCOrder
    BatchSize = 2
    MaxRetries = 0
    MaxAttempts = 1
    MaxFaults = 1
    MaxEdits = 1
    Exclusive = FALSE
SPECIFICATION Spec
CHECK_DEADLOCK FALSE
INVARIANTS
    BlockedSentNothing
    OneRunDelivers
    NoOverlap
