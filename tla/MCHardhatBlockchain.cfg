SPECIFICATION MCSpec
CONSTANTS
    States = {s1, s2}
    Txs = {t1}
    Difficulty = 1
    Intervals = {1, 2}
    Counts = {2, 3}
    MaxLength = 6
    Addresses = {"A"}
    Keys = {"k"}
    Fields = {"0", "1"}
    Codes = {"0x", "c"}
    Values = {"0", "1"}
    ForkBlock = 2
    Remote <- MCRemote
    RemoteRoots <- MCRemoteRoots
    MaxChanges = 2
    MaxRoots = 2
    MaxCheckpoints = 2
    MaxReorg = 2
    MaxHeight = 4
    MaxNames = 7
    MaxEvents = 2
    LogsOfBlocks <- MCLogs
    Criteria <- MCCriteria
    Lifetime = 1
    MaxNews = 4
    MaxFilters = 1
    Functions = {"f", "g", "h"}
    MaxWorlds = 2
    MaxTaken = 4
    MaxResets = 1
    Calls <- MCCalls
    BlockGasLimits = {120000, 30000000, 2000000000}
INVARIANTS
    TypesOK
    MapsHoldOneChain
    AnswersStayTrue
    FixturesAreRestored
    EstimationsAreSound
PROPERTIES
    ImplementsChain
    ImplementsStateManager
    
CHECK_DEADLOCK FALSE
