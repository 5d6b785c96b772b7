CONSTANTS
    low_a = low_a
    low_b = low_b
    other = other
    riser = riser
    drinks = drinks
    snacks = snacks
    brand = brand
    another = another
    Snapshots <- MCSnapshots
    Brand <- MCBrand
    Category <- MCCategory
    DropRatio = 60
    MinBaseline = 20
    Sales <- MCSales
    CauseOwner <- Owners
    DevelopmentTeam = "development"
    max_steps = 2
    MaxCauses = 1
    Doc = {d1, d2}
    Body <- MCBodies
    Chars <- Lengths
    Parts <- MCParts
    MAX_CHARS = 22
    MIN_CHARS = 3
    Embedder = {m1, m2}
    NoDoc = NoDoc
    MaxEdits = 3
SPECIFICATION GridSpec
CHECK_DEADLOCK FALSE
INVARIANTS
    GateAcceptsEngine
    NearestLegalPrice
    LadderHolds
    EvidenceIsTheCases
    IncrementalIsRebuild
    LongSectionsQuoted
