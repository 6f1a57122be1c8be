SPECIFICATION MCFairSpec
CONSTANTS
    Clients = {c1, c2}
    Requests <- MCAllRequests
    NoRequest = NoRequest
    IntervalMining = 10
    MaxRequests = 2
    MaxTicks = 3
    States = {s1, s2}
    t1 = t1
    t2 = t2
    Txs = {t1, t2}
    Difficulty = 1
    Intervals = {1}
    Counts = {2, 3}
    MaxLength = 6
    RemoteBlocks <- MCRemoteBlocks
    RemoteTotalDifficulty <- MCRemoteTotals
    ForkBlockNumber = 1
    Parts = {"requests"}
PROPERTIES
    EveryRequestIsAnswered
CHECK_DEADLOCK FALSE
