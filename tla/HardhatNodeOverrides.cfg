SPECIFICATION MCSpec
CONSTANTS
    States = {s1, s2}
    Txs = {t1}
    AllowBlocksWithSameTimestamp = FALSE
    Increments = {}
    Intervals = {1}
    Counts = {2}
    ReserveAbove = 1
    OverriddenStates = {s2}
    TicksPerSecond = 2
    MaxTicks = 4
    MaxTime = 3
    MaxLength = 4
    MaxSnapshots = 1
    Parts = {"history"}
    ClockStates = {s1, s2}
    ClockTxs = {t1}
    ClockIncrements = {1}
    ClockCounts = {2}
    ClockTicks = 4
    ClockTime = 3
    ClockLength = 4
    ClockSnapshots = 1
INVARIANTS
    StateIsCurrent
CHECK_DEADLOCK FALSE
