SPECIFICATION MCSpec
CONSTANTS
    Processes = {p1, p2}
    Permits = 1
    MaxTicks = 2
    BlockTimes = {0, 10, 20}
    Handles = {1, 2, 3, 4}
    Sockets = {s1}
    MaxFilters = 1
    MaxResets = 0
INVARIANTS
    MinesOneAtATime
CHECK_DEADLOCK FALSE
