SPECIFICATION MCSpec
CONSTANTS
    alice = alice
    bob = bob
    Senders <- MCSenders
    Contracts <- MCContracts
    Txs <- MCTxs
    Balances <- MCBalances
    GasLimits <- MCGasLimits
    InitialNonce = 0
    MaxNonce = 2
    MaxOrderId = 3
    MaxSnapshots = 1
    MaxFee = 14
    MinTxGas = 1
    BaseFees <- MCBaseFees
    MinGasPrices <- MCMinGasPrices
INVARIANTS
    TypeOK
    PendingIsExecutable
    QueuedCanBeMinedLater
    EntriesAreUnique
    BlocksAreGreedy
PROPERTIES
    NothingIsLost
    AutomineEnds
