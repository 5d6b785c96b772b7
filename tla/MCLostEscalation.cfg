CONSTANTS
    promo = promo
    low = low
    low_before = low_before
    no_run = no_run
    x = x
    o = o
    b = b
    vic = vic
    dev = dev
    lead = lead
    promotions = promotions
    platform = platform
    Owner = {dev, lead, promotions}
    DevelopmentTeam = dev
    DecisionOwner = lead
    DataPlatform = platform
    Business = {lead, promotions}
    Person = {p1}
    Code = {promo, low, no_run}
    Kind <- WeekKind
    Playbook <- WeekPlaybook
    Record = {x}
    CodeOf <- WeekCodeOf
    RegionOf <- WeekRegionOf
    SkuOf <- WeekSkuOf
    Earlier <- NoEarlier
    MaxDecisions = 0
    MaxChanges = 1
    MaxFaults = 0
SPECIFICATION FairNotices
CHECK_DEADLOCK FALSE
PROPERTIES
    StopsWaitingSilently
