--------------------------- MODULE ForkBlockchain ----------------------------
(***************************************************************************)
(* The chain of a node that forks a remote one: fork/ForkBlockchain.ts.    *)
(* Blocks after the fork are kept as in HardhatBlockchain.  Those up to    *)
(* the fork are fetched when they are read, by number, by hash or by       *)
(* transaction, and kept in the same maps; the transactions and receipts   *)
(* that are read are kept as well.  The remote chain goes on after the     *)
(* fork, maybe with transactions that are mined here too.                  *)
(*                                                                         *)
(* What the remote node says of a block does not change here: see          *)
(* JsonRpcClient.  A lookup whose request fails changes nothing; one of    *)
(* two requests that fails at its second has done what GetTransaction does.*)
(***************************************************************************)
EXTENDS HardhatBlockchain

CONSTANTS
    RemoteBlocks,           \* the remote chain: its blocks by number
    RemoteTotalDifficulty,  \* and their total difficulties
    ForkBlockNumber         \* _forkBlockNumber

\* data is _data, but for _transactions, and length is _latestBlockNumber + 1.
VARIABLE
    transactions    \* _data._transactions, the hashes of the transactions it has

forkChainVars == <<data, transactions, length>>

\* The remote chain is one that could have been mined.
RemoteIsAChain ==
    /\ ForkBlockNumber \in Nat /\ 0 .. ForkBlockNumber \subseteq DOMAIN RemoteBlocks
    /\ RemoteTotalDifficulty \in [DOMAIN RemoteBlocks -> Nat]
    /\ \A n \in DOMAIN RemoteBlocks :
        /\ RemoteBlocks[n] \in Block
        /\ RemoteBlocks[n].number = n
        /\ n # 0 => RemoteTotalDifficulty[n] = RemoteTotalDifficulty[n - 1] + RemoteBlocks[n].difficulty
    /\ \A m, n \in DOMAIN RemoteBlocks : m # n => RemoteBlocks[m].txs \cap RemoteBlocks[n].txs = {}

ForkChainInit ==
    /\ data = NoData
    /\ transactions = {}
    /\ length = ForkBlockNumber + 1

-----------------------------------------------------------------------------
(* What is fetched.                                                        *)

\* mutant of IsBeforeFork: the whole remote chain is used
IsBeforeFork_Always(n) == n \in DOMAIN RemoteBlocks

\* Only what the remote chain had at the fork is used: the checks in _processRemoteBlock,
\* _processRemoteTransaction and _processRemoteReceipt.
IsBeforeFork(n) == n <= ForkBlockNumber

\* The number of the block that the remote node gives for a transaction, if it does and
\* the block is from before the fork.
RemoteNumber(tx) == {n \in DOMAIN RemoteBlocks : tx \in RemoteBlocks[n].txs /\ IsBeforeFork(n)}

\* _processRemoteBlock
ProcessRemoteBlock(n) ==
    /\ IsBeforeFork(n)
    /\ data' = WithBlock(data, RemoteBlocks[n], RemoteTotalDifficulty[n])
    /\ transactions' = transactions \union RemoteBlocks[n].txs
    /\ UNCHANGED length

\* getBlock of a number; numbers above the latest are refused, reserved blocks are made
GetBlockByNumber(n) ==
    \/ GetBlock(n) /\ UNCHANGED transactions
    \/ /\ n < length
       /\ ~ IsReservedBlock(data, n) /\ Numbered(data, n) = {}
       /\ ProcessRemoteBlock(n)

\* getBlock of a hash, and getTotalDifficulty, which fetches the block first
GetBlockByHash(n) == RemoteBlocks[n] \notin data.blocksByHash /\ ProcessRemoteBlock(n)

\* getTransaction
GetTransaction(tx) ==
    /\ tx \notin transactions
    /\ RemoteNumber(tx) # {}
    /\ transactions' = transactions \union {tx}
    /\ UNCHANGED <<data, length>>

\* getBlockByTransactionHash: the transaction, and then the block it names.  For one
\* that is newer than the fork getBlock throws.
GetBlockByTransactionHash(tx) ==
    /\ \A e \in data.blocksByTransactions : e.tx # tx
    /\ \E n \in RemoteNumber(tx) : ProcessRemoteBlock(n)

\* getTransactionReceipt
GetTransactionReceipt(tx) ==
    /\ tx \notin data.transactionReceipts
    /\ RemoteNumber(tx) # {}
    /\ data' = [data EXCEPT !.transactionReceipts = @ \union {tx}]
    /\ transactions' = transactions \union {tx}
    /\ UNCHANGED length

-----------------------------------------------------------------------------
(* What is mined, and taken back.                                          *)

\* addBlock.  The latest block has been read before, and with it the fork block.  A
\* transaction of the remote chain cannot be mined again, for its nonce; one from after
\* the fork can.
ForkAddBlock(interval, state, txs) ==
    /\ \A tx \in txs : RemoteNumber(tx) = {}
    /\ AddBlock(interval, state, txs)
    /\ transactions' = transactions \union txs

ForkReserveBlocks(size, interval) ==
    ReserveBlocks(size, interval) /\ UNCHANGED transactions

\* mutant of ForkDeleteLaterBlocks: remote blocks are deleted like others
ForkDeleteLaterBlocks_RemoteToo(block) ==
    /\ DeleteLaterBlocks(block)
    /\ transactions' = transactions \ TxsOf({b \in data.blocksByNumber : b.number > block.number})

\* mutant of ForkDeleteLaterBlocks: _transactions keeps what was mined
ForkDeleteLaterBlocks_KeepsTransactions(block) ==
    /\ block.number >= ForkBlockNumber
    /\ DeleteLaterBlocks(block)
    /\ UNCHANGED transactions

\* deleteLaterBlocks refuses to delete remote blocks
ForkDeleteLaterBlocks(block) ==
    /\ block.number >= ForkBlockNumber
    /\ DeleteLaterBlocks(block)
    /\ transactions' = transactions \ TxsOf({b \in data.blocksByNumber : b.number > block.number})

ForkChainNext ==
    \/ \E n \in 0 .. MaxLength - 1 : GetBlockByNumber(n)
    \/ \E n \in DOMAIN RemoteBlocks : GetBlockByHash(n)
    \/ \E tx \in Txs : GetTransaction(tx) \/ GetBlockByTransactionHash(tx) \/ GetTransactionReceipt(tx)
    \/ \E interval \in Intervals, state \in States, txs \in SUBSET Txs :
        ForkAddBlock(interval, state, txs)
    \/ \E size \in Counts, interval \in Intervals : ForkReserveBlocks(size, interval)
    \/ \E block \in data.blocksByHash : ForkDeleteLaterBlocks(block)

ForkChainSpec == ForkChainInit /\ [][ForkChainNext]_forkChainVars

-----------------------------------------------------------------------------
(* What lookups answer.                                                    *)

\* _getBlockByNumber, of a number up to the latest
BlockNumbered(n) ==
    IF Numbered(data, n) # {} THEN CHOOSE b \in Numbered(data, n) : TRUE
    ELSE IF IsReservedBlock(data, n)
    THEN LET r == CHOOSE s \in data.blockReservations : Reserves(s, n)
             before == CHOOSE b \in Numbered(data, r.first - 1) : TRUE
         IN  ReservedBlock(before, r, n)
    ELSE RemoteBlocks[n]

\* getBlock of a hash finds the block
IsFound(block) ==
    block \in data.blocksByHash \/ \E n \in DOMAIN RemoteBlocks : block = RemoteBlocks[n] /\ IsBeforeFork(n)

\* getBlockByTransactionHash; nothing where it is null or throws
BlockOf(tx) ==
    LET local == {e \in data.blocksByTransactions : e.tx = tx}
    IN  IF local # {} THEN {e.block : e \in local} ELSE {RemoteBlocks[n] : n \in RemoteNumber(tx)}

\* getTransaction and getTransactionReceipt find one
HasTransaction(tx) == tx \in transactions \/ RemoteNumber(tx) # {}
HasReceipt(tx) == tx \in data.transactionReceipts \/ RemoteNumber(tx) # {}

\* BlockchainData.getLogs, for each block the transactions that logs are taken from
LocalLogs(from, to) ==
    [i \in 1 .. to - from + 1 |->
        TxsOf(Numbered(data, from + i - 1)) \cap data.transactionReceipts]

RemoteLogs(from, to) == [i \in 1 .. to - from + 1 |-> RemoteBlocks[from + i - 1].txs]

\* getLogs
GetLogs(from, to) ==
    IF from > ForkBlockNumber THEN LocalLogs(from, to)
    ELSE IF to <= ForkBlockNumber THEN RemoteLogs(from, to)
    ELSE RemoteLogs(from, ForkBlockNumber) \o LocalLogs(ForkBlockNumber + 1, to)

-----------------------------------------------------------------------------
(* Properties.                                                             *)

\* The maps are well typed and the latest block is at the fork or after it.
ForkChainTypeOK ==
    /\ data \in BlockchainData
    /\ transactions \subseteq Txs
    /\ length \in Nat /\ length > ForkBlockNumber

BlocksOfChain == [i \in 1 .. length |-> BlockNumbered(i - 1)]

\* Total difficulties are the remote ones up to the fork, and add up from there.
ForkDifficultiesAddUp ==
    /\ \A e \in data.totalDifficulty :
        IF IsBeforeFork(e.block.number) THEN e.td = RemoteTotalDifficulty[e.block.number]
        ELSE TotalDifficultyAt(e.block.number - 1) = {e.td - e.block.difficulty}
    /\ \A r \in data.blockReservations :
        TotalDifficultyAt(r.first - 1) = {r.previousBlockTotalDifficulty}

\* Whatever was read, mined and taken back before, and whatever the remote chain holds
\* after the fork, every lookup answers for the one chain of remote blocks and local ones:
\* by hash, by transaction, for receipts and total difficulties, and for logs on both
\* sides of the fork.
AnswersAreOfTheChain ==
    LET blocks == {BlocksOfChain[i] : i \in 1 .. length}
        Holding(tx) == {b \in blocks : tx \in b.txs}
    IN  /\ \A n \in 0 .. length - 1 : IsReservedBlock(data, n) \/ IsFound(BlockNumbered(n))
        /\ \A b \in data.blocksByHash \union {RemoteBlocks[n] : n \in DOMAIN RemoteBlocks} :
            IsFound(b) => b \in blocks
        /\ \A tx \in Txs :
            /\ BlockOf(tx) = Holding(tx)
            /\ HasTransaction(tx) <=> Holding(tx) # {}
            /\ HasReceipt(tx) <=> Holding(tx) # {}
        /\ \A e \in data.totalDifficulty : e.block \in blocks
        /\ ForkDifficultiesAddUp
        /\ \A from \in 0 .. length - 1 : \A to \in from .. length - 1 :
            GetLogs(from, to) = [i \in 1 .. to - from + 1 |-> BlocksOfChain[from + i].txs]

ForkVisibleChain == [i \in 1 .. length |-> Visible(BlockNumbered(i - 1))]

ForkPromised == INSTANCE Chain WITH chain <- ForkVisibleChain

\* The chain starts as the remote one up to the fork, which is never cut.
StartsAtTheFork ==
    ForkVisibleChain = [i \in 1 .. ForkBlockNumber + 1 |-> Visible(RemoteBlocks[i - 1])]

ChainStep == ForkPromised!Next /\ length' > ForkBlockNumber

\* A fork is one chain, of remote blocks and then of local ones: who reads it in order sees
\* it do what Chain does, and nothing of what is fetched, reserved or made.
ImplementsForkedChain ==
    /\ StartsAtTheFork
    /\ [][ChainStep]_ForkVisibleChain

=============================================================================
