CONSTANTS
    promo = promo
    low = low
    low_before = low_before
    no_run = no_run
    x = x
    o = o
    b = b
    vic = vic
    dev = dev
    lead = lead
    promotions = promotions
    platform = platform
    Owner = {dev, lead, promotions}
    DevelopmentTeam = dev
    DecisionOwner = lead
    DataPlatform = platform
    Business = {lead, promotions}
    Person = {p1}
    Code = {low, low_before, no_run}
    Kind <- WeekKind
    Playbook <- WeekPlaybook
    Record = {o, b}
    CodeOf <- WeekCodeOf
    RegionOf <- WeekRegionOf
    SkuOf <- WeekSkuOf
    Earlier <- LowEarlier
    MaxDecisions = 0
    MaxChanges = 2
    MaxFaults = 1
SPECIFICATION FairNotices
CHECK_DEADLOCK FALSE
PROPERTIES
    OwnersHear
    NothingStaysUnknown
    FixedCaseCloses
