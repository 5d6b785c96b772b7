CONSTANTS
    promo = promo
    no_run = no_run
    x = x
    y = y
    vic = vic
    nsw = nsw
    dev = dev
    lead = lead
    promotions = promotions
    Owner = {dev, lead, promotions}
    DevelopmentTeam = dev
    DecisionOwner = lead
    Business = {lead, promotions}
    Person = {p1}
    Code = {promo, no_run}
    Kind <- RecordsKind
    Playbook <- RecordsPlaybook
    Record = {x, y}
    CodeOf <- RecordsCodeOf
    RegionOf <- RecordsRegionOf
    SkuOf <- RecordsSkuOf
    Earlier <- NoEarlier
    MaxDecisions = 1
    MaxChanges = 2
    MaxFaults = 0
SPECIFICATION FairSpec
CHECK_DEADLOCK FALSE
PROPERTIES
    DecisionStands
