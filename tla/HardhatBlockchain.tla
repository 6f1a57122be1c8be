------------------------- MODULE HardhatBlockchain --------------------------
(***************************************************************************)
(* The chain of a node that does not fork a remote one:                    *)
(* provider/HardhatBlockchain.ts, provider/BlockchainBase.ts and the maps  *)
(* of provider/BlockchainData.ts.                                          *)
(*                                                                         *)
(* hardhat_mine adds a long run of blocks as a reservation; the block of a *)
(* reserved number is made when it is first read by number, which splits   *)
(* the reservation in two.  Module Chain says what readers may expect.     *)
(***************************************************************************)
EXTENDS Integers, Sequences, FiniteSets

CONSTANTS
    States,         \* world states; a block's base fee goes with its state
    Txs,            \* transactions
    Difficulty,     \* the difficulty of a mined block: 0 after the merge
    Intervals,      \* seconds between blocks
    Counts,         \* how many blocks are reserved at a time
    MaxLength       \* bound on the length of the chain

ASSUME IntervalsAssumption == Intervals \subseteq Nat /\ Difficulty \in Nat
ASSUME CountsAssumption == Counts \subseteq Nat \ {0}
ASSUME MaxLengthAssumption == MaxLength \in Nat

VARIABLES
    data,           \* _data, the maps of BlockchainData
    length          \* _length

blockchainVars == <<data, length>>

-----------------------------------------------------------------------------
(* BlockchainData.  A block stands for its own hash.  A map from blocks, or   *)
(* from the hashes of transactions, is a set of entries.                      *)

Block == [number : Nat, timestamp : Nat, state : States, txs : SUBSET Txs,
          difficulty : Nat]

Reservation == [first : Nat, last : Nat, interval : Nat,
                previousBlockState : States, previousBlockTotalDifficulty : Nat]

BlockchainData ==
    [blocksByNumber       : SUBSET Block,
     blocksByHash         : SUBSET Block,
     blocksByTransactions : SUBSET [tx : Txs, block : Block],
     transactionReceipts  : SUBSET Txs,
     totalDifficulty      : SUBSET [block : Block, td : Nat],
     blockReservations    : SUBSET Reservation]

Reserves(r, n) == r.first <= n /\ n <= r.last
IsReservedBlock(d, n) == \E r \in d.blockReservations : Reserves(r, n)
Numbered(d, n) == {b \in d.blocksByNumber : b.number = n}

\* addBlock
WithBlock(d, block, td) ==
    [d EXCEPT
        !.blocksByNumber = {b \in @ : b.number # block.number} \union {block},
        !.blocksByHash = @ \union {block},
        !.totalDifficulty = {e \in @ : e.block # block} \union {[block |-> block, td |-> td]},
        !.blocksByTransactions = {e \in @ : e.tx \notin block.txs} \union
                                 {[tx |-> tx, block |-> block] : tx \in block.txs}]

TxsOf(blocks) == UNION {b.txs : b \in blocks}

\* mutant of WithoutBlocks: the receipts stay
WithoutBlocks_KeepsReceipts(d, blocks) ==
    [d EXCEPT
        !.blocksByNumber = @ \ blocks,
        !.blocksByHash = @ \ blocks,
        !.totalDifficulty = {e \in @ : e.block \notin blocks},
        !.blocksByTransactions = {e \in @ : e.tx \notin TxsOf(blocks)}]

\* removeBlock of each of blocks
WithoutBlocks(d, blocks) ==
    [d EXCEPT
        !.blocksByNumber = @ \ blocks,
        !.blocksByHash = @ \ blocks,
        !.totalDifficulty = {e \in @ : e.block \notin blocks},
        !.blocksByTransactions = {e \in @ : e.tx \notin TxsOf(blocks)},
        !.transactionReceipts = @ \ TxsOf(blocks)]

\* mutant of ReservedTimestamp: the first reserved block has the time of the one before
ReservedTimestamp_OffByOne(before, r, n) == before.timestamp + r.interval * (n - r.first)

\* _calculateTimestampForReservedBlock.  The block before a reservation is never reserved
\* itself (ReservationsFollowABlock), so the recursion of the code is never taken.
ReservedTimestamp(before, r, n) == before.timestamp + r.interval * (n - r.first + 1)

ReservedBlock(before, r, n) ==
    [number |-> n, timestamp |-> ReservedTimestamp(before, r, n),
     state |-> r.previousBlockState, txs |-> {}, difficulty |-> 0]

\* mutant of SplitAt: an end of the reservation that is empty stays in the list
SplitAt_KeepsEmptyParts(r, n) == {[r EXCEPT !.last = n - 1], [r EXCEPT !.first = n + 1]}

\* mutant of SplitAt: the reserved blocks after n are forgotten
SplitAt_DropsRest(r, n) == {s \in {[r EXCEPT !.last = n - 1]} : n # r.first}

SplitAt(r, n) ==
    {s \in {[r EXCEPT !.last = n - 1]} : n # r.first} \union
    {s \in {[r EXCEPT !.first = n + 1]} : n # r.last}

\* fulfillBlockReservation
Fulfilled(d, before, r, n) ==
    WithBlock([d EXCEPT !.blockReservations = (@ \ {r}) \union SplitAt(r, n)],
              ReservedBlock(before, r, n), r.previousBlockTotalDifficulty)

-----------------------------------------------------------------------------
(* HardhatBlockchain and BlockchainBase.                                      *)

GenesisBlock(state) ==
    [number |-> 0, timestamp |-> 0, state |-> state, txs |-> {}, difficulty |-> Difficulty]

NoData ==
    [blocksByNumber |-> {}, blocksByHash |-> {}, blocksByTransactions |-> {},
     transactionReceipts |-> {}, totalDifficulty |-> {}, blockReservations |-> {}]

\* putGenesisBlock
BlockchainInit ==
    /\ \E state \in States : data = WithBlock(NoData, GenesisBlock(state), Difficulty)
    /\ length = 1

\* getBlock of a number: a reserved block is made.  getLatestBlock is getBlock of the last.
GetBlock(n) ==
    /\ \E r \in data.blockReservations :
        /\ Reserves(r, n)
        /\ \E before \in Numbered(data, r.first - 1) : data' = Fulfilled(data, before, r, n)
    /\ UNCHANGED length

\* addBlock and then addTransactionReceipts, the way the node mines: on the latest block,
\* which it has read before, and with transactions that no block holds yet
AddBlock(interval, state, txs) ==
    /\ length < MaxLength
    /\ \A e \in data.blocksByTransactions : e.tx \notin txs
    /\ \E parent \in Numbered(data, length - 1), e \in data.totalDifficulty :
        /\ e.block = parent
        /\ data' = [WithBlock(data,
                        [number |-> length, timestamp |-> parent.timestamp + interval,
                         state |-> state, txs |-> txs, difficulty |-> Difficulty],
                        e.td + Difficulty)
                    EXCEPT !.transactionReceipts = @ \union txs]
    /\ length' = length + 1

\* mutant of ReserveBlocks: the difficulty of the previous block, not the total one
ReserveBlocks_BlockDifficulty(size, interval) ==
    /\ length + size <= MaxLength
    /\ \E latest \in Numbered(data, length - 1) :
        data' = [data EXCEPT !.blockReservations = @ \union
            {[first |-> length, last |-> length + size - 1, interval |-> interval,
              previousBlockState |-> latest.state,
              previousBlockTotalDifficulty |-> latest.difficulty]}]
    /\ length' = length + size

\* reserveBlocks, the way mineBlocks calls it: with the state, the total difficulty and
\* the base fee of the latest block, which it has read before
ReserveBlocks(size, interval) ==
    /\ length + size <= MaxLength
    /\ \E latest \in Numbered(data, length - 1), e \in data.totalDifficulty :
        /\ e.block = latest
        /\ data' = [data EXCEPT !.blockReservations = @ \union
            {[first |-> length, last |-> length + size - 1, interval |-> interval,
              previousBlockState |-> latest.state,
              previousBlockTotalDifficulty |-> e.td]}]
    /\ length' = length + size

\* mutant of DeleteLaterBlocks: reservations are not cancelled
DeleteLaterBlocks_KeepsReservations(block) ==
    /\ block \in data.blocksByHash
    /\ data' = WithoutBlocks(data, {b \in data.blocksByNumber : b.number > block.number})
    /\ length' = block.number + 1

\* deleteLaterBlocks, with _delBlock: reservations are cancelled as a whole, and blocks
\* removed one by one
DeleteLaterBlocks(block) ==
    /\ block \in data.blocksByHash
    /\ data' = [WithoutBlocks(data, {b \in data.blocksByNumber :
                    b.number > block.number /\ ~ IsReservedBlock(data, b.number)})
                EXCEPT !.blockReservations = {r \in @ : r.last <= block.number}]
    /\ length' = block.number + 1

BlockchainNext ==
    \/ \E n \in 0 .. MaxLength - 1 : GetBlock(n)
    \/ \E interval \in Intervals, state \in States, txs \in SUBSET Txs :
        AddBlock(interval, state, txs)
    \/ \E size \in Counts, interval \in Intervals : ReserveBlocks(size, interval)
    \/ \E block \in data.blocksByHash : DeleteLaterBlocks(block)

BlockchainSpec == BlockchainInit /\ [][BlockchainNext]_blockchainVars

-----------------------------------------------------------------------------
(* Properties *)

\* The maps are well typed and no reservation is empty.
BlockchainTypeOK ==
    /\ data \in BlockchainData
    /\ length \in Nat \ {0}
    /\ \A r \in data.blockReservations : r.first <= r.last

\* Every number below the length of the chain has either one block or one reservation,
\* and no number above it has any: nothing is lost or made twice when a reservation is
\* split or cancelled.
StoredOrReservedOnce ==
    /\ \A n \in 0 .. length - 1 :
        IF IsReservedBlock(data, n) THEN Numbered(data, n) = {} ELSE Numbered(data, n) # {}
    /\ \A b, c \in data.blocksByNumber : b.number = c.number => b = c
    /\ \A r, s \in data.blockReservations : r.first <= s.last /\ s.first <= r.last => r = s
    /\ \A b \in data.blocksByNumber : b.number < length
    /\ \A r \in data.blockReservations : r.last < length

\* The block before a reservation exists, so that the timestamp of a reserved block can
\* always be computed (the invariant _calculateTimestampForReservedBlock asserts).
ReservationsFollowABlock ==
    \A r \in data.blockReservations : Numbered(data, r.first - 1) # {}

\* Whatever is split, cancelled or deleted, each number is a block, or reserved behind a
\* block from which it can be made.
NumbersAreTaken == StoredOrReservedOnce /\ ReservationsFollowABlock

\* The five maps agree: what can be found by number can be found by hash and has a total
\* difficulty, and the transactions with a block or a receipt are those of stored blocks.
MapsAgree ==
    /\ data.blocksByHash = data.blocksByNumber
    /\ {e.block : e \in data.totalDifficulty} = data.blocksByNumber
    /\ data.blocksByTransactions =
        UNION {{[tx |-> tx, block |-> b] : tx \in b.txs} : b \in data.blocksByNumber}
    /\ data.transactionReceipts = TxsOf(data.blocksByNumber)

\* Total difficulties add up along the chain, through reservations as well.
TotalDifficultyAt(n) ==
    {e.td : e \in {x \in data.totalDifficulty : x.block.number = n}} \union
    {r.previousBlockTotalDifficulty : r \in {s \in data.blockReservations : Reserves(s, n)}}

DifficultiesAddUp ==
    /\ \A e \in data.totalDifficulty : e.block.number # 0 =>
        TotalDifficultyAt(e.block.number - 1) = {e.td - e.block.difficulty}
    /\ \A r \in data.blockReservations :
        TotalDifficultyAt(r.first - 1) = {r.previousBlockTotalDifficulty}

\* The copies of a block in the maps, and the difficulties along the chain, tell the same.
IndexesAgree == MapsAgree /\ DifficultiesAddUp

\* Both together: whatever is mined, reserved, read and taken back, the maps and the
\* reservations hold one chain, and each of its blocks once.
MapsHoldOneChain == NumbersAreTaken /\ IndexesAgree

\* Reservations cannot be told from blocks: the chain that readers see, in whatever order
\* they read it, is one that was filled when it grew.
Visible(b) == [timestamp |-> b.timestamp, state |-> b.state, txs |-> b.txs]

BlockAt(n) ==
    IF IsReservedBlock(data, n)
    THEN LET r == CHOOSE s \in data.blockReservations : Reserves(s, n)
             before == CHOOSE b \in Numbered(data, r.first - 1) : TRUE
         IN Visible(ReservedBlock(before, r, n))
    ELSE Visible(CHOOSE b \in Numbered(data, n) : TRUE)

VisibleChain == [i \in 1 .. length |-> BlockAt(i - 1)]

Promised == INSTANCE Chain WITH chain <- VisibleChain

ImplementsChain == Promised!Spec

=============================================================================
