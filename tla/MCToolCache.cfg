CONSTANTS
    vic = vic
    nsw = nsw
    s = s
    narrow = narrow
    wide = wide
    Sku = {s}
    Pack = {1}
    Region = {vic, nsw}
    NoPack = 0
    Run = {1}
    Caller = {narrow, wide}
    Allowed <- Access
    Tool = {"diagnose_batch", "get_api_log"}
    TTL = 1
    KEEP = 2
    MAX_CHECKS = 1
    Tracked = {"NOT_EFFECTIVE"}
    Moving <- MovingItems
    RowValues = {"UNSENT"}
    HeldValues = {"overridden"}
    Narrowed <- JustNsw
    RunArguments = {{}}
    MaxTime = 2
    MaxCalls = 2
    MaxChanges = 2
    MaxFindings = 1
SPECIFICATION MCSpec
CHECK_DEADLOCK FALSE
INVARIANTS
    CacheNeverWidens
    NeverOlderThanTheRun
    ReportedGoneWasGone
PROPERTIES
    ResolvedByEvidence
