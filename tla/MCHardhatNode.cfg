SPECIFICATION MCSpec
CONSTANTS
    States = {s1, s2}
    Txs = {t1, t2}
    AllowBlocksWithSameTimestamp = FALSE
    Increments = {}
    Intervals = {1}
    Counts = {}
    ReserveAbove = 1
    OverriddenStates = {}
    TicksPerSecond = 2
    MaxTicks = 2
    MaxTime = 1
    MaxLength = 3
    MaxSnapshots = 2
    Parts = {"history", "clock", "turned"}
    ClockStates = {s1}
    ClockTxs = {t1}
    ClockIncrements = {1, 2, 3}
    ClockCounts = {4}
    ClockTicks = 4
    ClockTime = 3
    ClockLength = 5
    ClockSnapshots = 1
SYMMETRY Symmetry
INVARIANTS
    TypeOK
    StateIsCurrent
    HistoryIsKept
PROPERTIES
    TimeIsInOrder
    RevertRestoresClock
    ImplementsWorld
CHECK_DEADLOCK FALSE
