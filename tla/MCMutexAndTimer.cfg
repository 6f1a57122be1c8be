SPECIFICATION MCFairSpec
CONSTANTS
    Processes = {p1, p2, p3, p4}
    Permits = 2
    MaxTicks = 5
    BlockTimes = {0, 10, 20}
    Handles = {1, 2, 3, 4}
    Sockets = {s1, s2}
    MaxFilters = 2
    MaxResets = 1
INVARIANTS
    TypesOK
    PermitsAreSafe
    RunningIsArmed
PROPERTIES
    CallersAreServed
    TimerObeys
    SubscriptionsFollowTheirSocket
CHECK_DEADLOCK FALSE
