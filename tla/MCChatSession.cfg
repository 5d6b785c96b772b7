CONSTANTS
    vic = vic
    Message = {1, 2, 3, 4}
    List = {a, b}
    Region = {vic}
    Permission <- Permissions
    MAX_STEPS = 2
    MaxUses = 1
    MAX_GROUPS = 1
    MAX_TURNS = 1
    MAX_EARLIER = 1
    MaxFaults = 1
SPECIFICATION MCSpec
CHECK_DEADLOCK FALSE
INVARIANTS
    TypeOK
    NoTurnForgotten
    HandlesNeverReused
    ResultsWithinPermission
    ToldTheTruth
PROPERTIES
    RefusedForCause
    ImplementsConversation
    EveryMessageEnds
