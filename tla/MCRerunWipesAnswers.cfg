CONSTANTS
    p1 = p1
    r1 = r1
    r2 = r2
    p2 = p2
    NoPrice = NoPrice
    NoList = NoList
    Absent = Absent
    Carried = Carried
    BadPrice = 0
    Item <- MCItem
    Run = {r1}
    Proc = {p1}
    Price <- MCPrice
    List <- MCList
    Listed <- MCListed
    Offer <- MCOffer
    GateBlocks <- MCGateBlocks
    Order <- MCOrder
    BatchSize = 1
    MaxRetries = 1
    MaxAttempts = 2
    MaxFaults = 0
    MaxEdits = 0
    Exclusive = TRUE
SPECIFICATION Spec
CHECK_DEADLOCK FALSE
INVARIANTS
    NotSentMeansNothingHeld
