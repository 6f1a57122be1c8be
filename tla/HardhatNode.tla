---------------------------- MODULE HardhatNode -----------------------------
(***************************************************************************)
(* The node of provider/node.ts: its clock, its chain, the current world   *)
(* state and the states that were edited by hand, the pending transactions *)
(* and the snapshots, under the requests of the evm, hardhat and eth       *)
(* modules that change them.                                               *)
(*                                                                         *)
(* The provider runs one request at a time, so a request that awaits       *)
(* nothing but its own work is one action; requests that mine several      *)
(* blocks, or mine one and take it back, are tasks of several steps,       *)
(* between which time passes and each of which may fail.  The chain is the *)
(* one of module Chain, the pool its pending transactions.                 *)
(***************************************************************************)
EXTENDS Integers, Sequences

CONSTANTS
    States,                         \* world states
    Txs,                            \* transactions
    AllowBlocksWithSameTimestamp,   \* _allowBlocksWithSameTimestamp
    Increments,                     \* seconds that evm_increaseTime may add, negative ones too
    Intervals,                      \* seconds between the blocks of hardhat_mine
    Counts,                         \* numbers of blocks for hardhat_mine
    ReserveAbove,                   \* mineBlocks reserves when more blocks remain: 5
    OverriddenStates,               \* where a call with a bad override set may stop
    TicksPerSecond,                 \* resolution of the system clock
    MaxTicks, MaxTime,              \* bounds on the system clock and on timestamps
    MaxLength, MaxSnapshots         \* bounds on the chain and on the snapshots taken

ASSUME TimeAssumption ==
    /\ TicksPerSecond \in Nat \ {0} /\ MaxTicks \in Nat /\ MaxTime \in Nat
    /\ Increments \subseteq Int
ASSUME MiningAssumption ==
    /\ AllowBlocksWithSameTimestamp \in BOOLEAN
    /\ Intervals \subseteq Nat
    /\ Counts \subseteq Nat \ {0}
    /\ ReserveAbove \in Nat \ {0}
    /\ OverriddenStates \subseteq States

VARIABLES
    now,                    \* the system clock, in ticks
    blockTimeOffsetSeconds, \* _blockTimeOffsetSeconds
    nextBlockTimestamp,     \* _nextBlockTimestamp: 0 if not set
    chain,                  \* _blockchain: the block with number n is chain[n + 1]
    stateRoot,              \* the root of _stateManager: the current world state
    irregularStates,        \* _irregularStatesByBlockNumber
    pending,                \* the pending transactions of _txPool
    poolSnapshots,          \* _snapshotIdToState of _txPool
    snapshots,              \* _snapshots
    nextSnapshotId,         \* _nextSnapshotId
    task                    \* the request under way

clockVars == <<blockTimeOffsetSeconds, nextBlockTimestamp>>
chainVars == <<chain, stateRoot, irregularStates>>
snapshotVars == <<poolSnapshots, snapshots, nextSnapshotId>>
vars == <<now, clockVars, chainVars, pending, snapshotVars, task>>

Block == [timestamp : Nat, state : States, txs : SUBSET Txs]

Idle == [op |-> "idle"]
Task ==
    {Idle}
    \union [op : {"pending"}, id : Nat]
    \union [op : {"send"}, id : Nat, tx : Txs]
    \union [op : {"mine"}, stage : {"first", "pending", "rest"}, left : Nat, interval : Intervals]

-----------------------------------------------------------------------------
(* Time.                                                                      *)

CeilSeconds(t) == (t + TicksPerSecond - 1) \div TicksPerSecond

\* utils/getCurrentTimestamp
CurrentTimestamp == CeilSeconds(now)

Tick == now < MaxTicks /\ now' = now + 1 /\ UNCHANGED <<clockVars, chainVars, pending, snapshotVars, task>>

-----------------------------------------------------------------------------
(* Blocks and states.                                                         *)

Latest == chain[Len(chain)]
LatestNumber == Len(chain) - 1
Mined == UNION {chain[i].txs : i \in 1 .. Len(chain)}

Lookup(map, key, default) == IF key \in DOMAIN map THEN map[key] ELSE default

\* mutant of With: an entry that exists is not replaced
With_First(map, key, value) ==
    [k \in DOMAIN map \union {key} |-> IF k \in DOMAIN map THEN map[k] ELSE value]

With(map, key, value) == [k \in DOMAIN map \union {key} |-> IF k = key THEN value ELSE map[k]]

\* mutant of NewOffset: the offset is not advanced with a block that was moved by one second
NewOffset_NotIncreased(asked, clash) ==
    IF asked # 0 THEN asked - CurrentTimestamp ELSE blockTimeOffsetSeconds

\* the offset that mineBlock leaves: increaseTime(1) comes before setTimeIncrement, which
\* undoes it
NewOffset(asked, clash) ==
    IF asked # 0 THEN asked - CurrentTimestamp
    ELSE IF clash THEN blockTimeOffsetSeconds + 1
    ELSE blockTimeOffsetSeconds

\* mutant of StillPending: the mined transactions stay as well
StillPending_All(pool, txs) == SUBSET pool

\* updatePendingAndQueued: what may still be pending once txs, of pool, are mined
StillPending(pool, txs) == SUBSET (pool \ txs)

\* mineBlock(timestamp), which may be 0 for none, with pool the transactions pending at the
\* time: the block takes some of them, others become invalid by it
MineBlock(timestamp, pool) ==
    LET asked == IF timestamp # 0 THEN timestamp ELSE nextBlockTimestamp
        computed == IF asked # 0 THEN asked ELSE CurrentTimestamp + blockTimeOffsetSeconds
        clash == ~ AllowBlocksWithSameTimestamp /\ computed = Latest.timestamp
    IN  /\ Len(chain) < MaxLength
        /\ \E txs \in SUBSET pool, state \in States :
            /\ chain' = Append(chain,
                [timestamp |-> IF clash THEN computed + 1 ELSE computed,
                 state |-> state, txs |-> txs])
            /\ stateRoot' = state
            /\ pending' \in StillPending(pool, txs)
        /\ blockTimeOffsetSeconds' = NewOffset(asked, clash)
        /\ nextBlockTimestamp' = 0
        /\ UNCHANGED irregularStates

-----------------------------------------------------------------------------
(* Snapshots.                                                                 *)

\* takeSnapshot: the snapshot keeps the map of irregular states and the node goes on with a
\* copy.  The pool counts its snapshots like the node, its only caller.
TakeSnapshot ==
    /\ nextSnapshotId <= MaxSnapshots
    /\ snapshots' = Append(snapshots,
        [id |-> nextSnapshotId,
         date |-> now,
         latestBlock |-> [number |-> LatestNumber, block |-> Latest],
         stateRoot |-> stateRoot,
         blockTimeOffsetSeconds |-> blockTimeOffsetSeconds,
         nextBlockTimestamp |-> nextBlockTimestamp,
         irregularStates |-> irregularStates])
    /\ poolSnapshots' = poolSnapshots \union {[id |-> nextSnapshotId, pending |-> pending]}
    /\ nextSnapshotId' = nextSnapshotId + 1

\* mutant of RevertedOffset: rounded down
RevertedOffset_Floor(snapshot) ==
    snapshot.blockTimeOffsetSeconds + (snapshot.date - now) \div TicksPerSecond

RevertedOffset(snapshot) ==
    snapshot.blockTimeOffsetSeconds + CeilSeconds(snapshot.date - now)

\* mutant of SnapshotsBefore: only that snapshot is removed
SnapshotsBefore_OnlyThis(i) == SubSeq(snapshots, 1, i - 1) \o SubSeq(snapshots, i + 1, Len(snapshots))

\* splice of _snapshots
SnapshotsBefore(i) == SubSeq(snapshots, 1, i - 1)

\* mutant of RevertToSnapshot: the edited states of later blocks stay
RevertToSnapshot_KeepsIrregular(id) ==
    \E i \in DOMAIN snapshots, saved \in poolSnapshots :
        LET snapshot == snapshots[i]
        IN  /\ snapshot.id = id
            /\ saved.id = id
            /\ chain' = SubSeq(chain, 1, snapshot.latestBlock.number + 1)
            /\ irregularStates' = irregularStates
            /\ stateRoot' = Lookup(irregularStates, snapshot.latestBlock.number, snapshot.stateRoot)
            /\ blockTimeOffsetSeconds' = RevertedOffset(snapshot)
            /\ nextBlockTimestamp' = snapshot.nextBlockTimestamp
            /\ pending' = saved.pending
            /\ poolSnapshots' = {p \in poolSnapshots : p.id < id}
            /\ snapshots' = SnapshotsBefore(i)
            /\ UNCHANGED nextSnapshotId

\* revertToSnapshot of a snapshot that exists; its latest block is looked up by hash
RevertToSnapshot(id) ==
    \E i \in DOMAIN snapshots, saved \in poolSnapshots :
        LET snapshot == snapshots[i]
        IN  /\ snapshot.id = id
            /\ saved.id = id
            /\ snapshot.latestBlock.number \in 0 .. LatestNumber
            /\ chain[snapshot.latestBlock.number + 1] = snapshot.latestBlock.block
            /\ chain' = SubSeq(chain, 1, snapshot.latestBlock.number + 1)
            /\ irregularStates' = snapshot.irregularStates
            /\ stateRoot' = Lookup(snapshot.irregularStates, snapshot.latestBlock.number,
                                   snapshot.stateRoot)
            /\ blockTimeOffsetSeconds' = RevertedOffset(snapshot)
            /\ nextBlockTimestamp' = snapshot.nextBlockTimestamp
            /\ pending' = saved.pending
            /\ poolSnapshots' = {p \in poolSnapshots : p.id < id}
            /\ snapshots' = SnapshotsBefore(i)
            /\ UNCHANGED nextSnapshotId

\* _removeSnapshot, which leaves the snapshot of the pool behind
RemoveSnapshot(id) ==
    /\ \E i \in DOMAIN snapshots :
        /\ snapshots[i].id = id
        /\ snapshots' = SnapshotsBefore(i)
    /\ UNCHANGED <<poolSnapshots, nextSnapshotId>>

-----------------------------------------------------------------------------
(* Requests of one step.  Each of them starts when none is under way.         *)

\* evm_mine, and a block of interval mining; if mining fails nothing has changed
EvmMine(timestamp) ==
    /\ task = Idle
    /\ timestamp = 0 \/ timestamp > Latest.timestamp
    /\ MineBlock(timestamp, pending)
    /\ UNCHANGED <<now, snapshotVars, task>>

\* evm_setNextBlockTimestamp
SetNextBlockTimestamp(timestamp) ==
    /\ task = Idle
    /\ IF AllowBlocksWithSameTimestamp THEN timestamp >= Latest.timestamp
                                       ELSE timestamp > Latest.timestamp
    /\ nextBlockTimestamp' = timestamp
    /\ UNCHANGED <<now, blockTimeOffsetSeconds, chainVars, pending, snapshotVars, task>>

\* evm_increaseTime, which does not ask for the sign of its number
IncreaseTime(increment) ==
    /\ task = Idle
    /\ blockTimeOffsetSeconds' = blockTimeOffsetSeconds + increment
    /\ UNCHANGED <<now, nextBlockTimestamp, chainVars, pending, snapshotVars, task>>

\* setAccountBalance, setAccountCode, setNextConfirmedNonce and setStorageAt, with
\* _persistIrregularWorldState
EditState(state) ==
    /\ task = Idle
    /\ stateRoot' = state
    /\ irregularStates' = With(irregularStates, LatestNumber, state)
    /\ UNCHANGED <<now, clockVars, chain, pending, snapshotVars, task>>

\* eth_call at the latest block: _applyStateOverrideSet runs before the try of
\* _runTxAndRevertMutations, so what was overridden before the error stays, nothing if the
\* first address is refused
CallWithBadOverrides(state) ==
    /\ task = Idle
    /\ stateRoot' = state
    /\ UNCHANGED <<now, clockVars, chain, irregularStates, pending, snapshotVars, task>>

\* evm_snapshot
EvmSnapshot == task = Idle /\ TakeSnapshot /\ UNCHANGED <<now, clockVars, chainVars, pending, task>>

\* evm_revert
EvmRevert(id) == task = Idle /\ RevertToSnapshot(id) /\ UNCHANGED <<now, task>>

\* addTransaction: with tx, queued transactions of its sender may become pending.  Until then
\* they are not part of this module.
AddTransaction(tx) ==
    /\ tx \notin Mined \union pending
    /\ \E promoted \in SUBSET (Txs \ Mined) : pending' = pending \union {tx} \union promoted

\* sendTransaction without automine: _addPendingTransaction
SubmitTransaction(tx) ==
    /\ task = Idle
    /\ AddTransaction(tx)
    /\ UNCHANGED <<now, clockVars, chainVars, snapshotVars, task>>

\* sendTransaction with automine and an empty pool: _mineTransaction.  If mining fails the
\* transaction stays in the pool, as if it had been submitted without automine.
MineTransaction(tx) ==
    /\ task = Idle
    /\ pending = {} /\ tx \notin Mined
    /\ MineBlock(0, {tx})
    /\ UNCHANGED <<now, snapshotVars, task>>

-----------------------------------------------------------------------------
(* sendTransaction with automine and others in the pool, pending or queued:    *)
(* _mineTransactionAndPending and _mineBlocksUntilTransactionIsIncluded.       *)

\* mutant of StartSend: the number of the next snapshot, not of the one taken
StartSend_NextId(tx) ==
    /\ task = Idle
    /\ TakeSnapshot
    /\ AddTransaction(tx)
    /\ task' = [op |-> "send", id |-> nextSnapshotId', tx |-> tx]
    /\ UNCHANGED <<now, clockVars, chainVars>>

StartSend(tx) ==
    /\ task = Idle
    /\ TakeSnapshot
    /\ AddTransaction(tx)
    /\ task' = [op |-> "send", id |-> nextSnapshotId, tx |-> tx]
    /\ UNCHANGED <<now, clockVars, chainVars>>

SendMines ==
    /\ task.op = "send"
    /\ pending # {}
    /\ MineBlock(0, pending)
    /\ UNCHANGED <<now, snapshotVars, task>>

SendEnds ==
    /\ task.op = "send"
    /\ pending = {} /\ task.tx \in Mined
    /\ RemoveSnapshot(task.id)
    /\ task' = Idle
    /\ UNCHANGED <<now, clockVars, chainVars, pending>>

\* adding the transaction, or mining a block, throws; or no pending transaction is left
\* and the one that was sent is not mined
SendFails ==
    /\ task.op = "send"
    /\ ~ (pending = {} /\ task.tx \in Mined)
    /\ RevertToSnapshot(task.id)
    /\ task' = Idle
    /\ UNCHANGED now

-----------------------------------------------------------------------------
(* Reads in the context of the pending block: _runInPendingBlockContext.      *)

StartPendingRead ==
    /\ task = Idle
    /\ TakeSnapshot
    /\ task' = [op |-> "pending", id |-> nextSnapshotId]
    /\ UNCHANGED <<now, clockVars, chainVars, pending>>

MinePendingBlock ==
    /\ task.op = "pending"
    /\ snapshots[Len(snapshots)].latestBlock.number = LatestNumber
    /\ MineBlock(0, pending)
    /\ UNCHANGED <<now, snapshotVars, task>>

EndPendingRead ==
    /\ task.op = "pending"
    /\ RevertToSnapshot(task.id)
    /\ task' = Idle
    /\ UNCHANGED now

-----------------------------------------------------------------------------
(* hardhat_mine: mineBlocks(count, interval).                                 *)

StartMineBlocks(count, interval) ==
    /\ task = Idle
    /\ Len(chain) + count <= MaxLength
    /\ task' = [op |-> "mine", stage |-> "first", left |-> count, interval |-> interval]
    /\ UNCHANGED <<now, clockVars, chainVars, pending, snapshotVars>>

\* the blocks that are really mined: the first, those with the pending transactions, one
\* more, and the rest when it is short or only its last block is left
MineOneOfBlocks ==
    /\ task.op = "mine"
    /\ task.stage = "rest" => task.left <= ReserveAbove
    /\ MineBlock(IF task.stage = "first" THEN 0 ELSE Latest.timestamp + task.interval, pending)
    /\ task' =
        IF task.left = 1 THEN Idle
        ELSE [task EXCEPT
            !.left = @ - 1,
            !.stage = IF @ = "first" THEN "pending" ELSE IF pending # {} THEN @ ELSE "rest"]
    /\ UNCHANGED <<now, snapshotVars>>

\* mutant of ReserveRest: the interval counts from the system clock
ReserveRest_FromNow ==
    /\ task.op = "mine"
    /\ task.stage = "rest" /\ task.left > ReserveAbove
    /\ chain' = chain \o
        [i \in 1 .. task.left - 1 |->
            [timestamp |-> CurrentTimestamp + i * task.interval, state |-> stateRoot, txs |-> {}]]
    /\ task' = [task EXCEPT !.left = 1]
    /\ UNCHANGED <<now, clockVars, stateRoot, irregularStates, pending, snapshotVars>>

ReserveRest ==
    /\ task.op = "mine"
    /\ task.stage = "rest" /\ task.left > ReserveAbove
    /\ chain' = chain \o
        [i \in 1 .. task.left - 1 |->
            [timestamp |-> Latest.timestamp + i * task.interval, state |-> stateRoot, txs |-> {}]]
    /\ task' = [task EXCEPT !.left = 1]
    /\ UNCHANGED <<now, clockVars, stateRoot, irregularStates, pending, snapshotVars>>

\* a block cannot be mined, because of one of its transactions: those before it stay
MineBlocksFails ==
    /\ task.op = "mine"
    /\ pending # {}
    /\ task' = Idle
    /\ UNCHANGED <<now, clockVars, chainVars, pending, snapshotVars>>

-----------------------------------------------------------------------------

NoIrregularStates == [number \in {} |-> CHOOSE state \in States : TRUE]

\* HardhatNode.create with a genesis block of that time
Created(timestamp, offset) ==
    /\ \E state \in States :
        /\ chain = << [timestamp |-> timestamp, state |-> state, txs |-> {}] >>
        /\ stateRoot = state
    /\ blockTimeOffsetSeconds = offset
    /\ nextBlockTimestamp = 0
    /\ irregularStates = NoIrregularStates
    /\ pending = {}
    /\ poolSnapshots = {}
    /\ snapshots = << >>
    /\ nextSnapshotId = 1
    /\ task = Idle

\* without an initial date, or with one
Init ==
    /\ now \in TicksPerSecond .. 2 * TicksPerSecond - 1
    /\ \/ Created(CurrentTimestamp, 0)
       \/ \E initialDate \in TicksPerSecond .. MaxTicks :
            Created(initialDate \div TicksPerSecond, (initialDate - now) \div TicksPerSecond)

\* the bound on the clock: a block of time 0 or before cannot be made, one after MaxTime is
\* not looked at
InTime(increment) == CurrentTimestamp + blockTimeOffsetSeconds + increment \in 1 .. MaxTime

Next ==
    \/ Tick
    \/ \E timestamp \in 0 .. MaxTime : EvmMine(timestamp)
    \/ \E timestamp \in 1 .. MaxTime : SetNextBlockTimestamp(timestamp)
    \/ \E increment \in Increments : InTime(increment) /\ IncreaseTime(increment)
    \/ \E state \in States : EditState(state)
    \/ \E state \in OverriddenStates \union {stateRoot} : CallWithBadOverrides(state)
    \/ EvmSnapshot
    \/ \E id \in 1 .. MaxSnapshots : EvmRevert(id)
    \/ \E tx \in Txs : SubmitTransaction(tx) \/ MineTransaction(tx) \/ StartSend(tx)
    \/ SendMines \/ SendEnds \/ SendFails
    \/ StartPendingRead \/ MinePendingBlock \/ EndPendingRead
    \/ \E count \in Counts, interval \in Intervals : StartMineBlocks(count, interval)
    \/ MineOneOfBlocks \/ ReserveRest \/ MineBlocksFails

Spec == Init /\ [][Next]_vars

-----------------------------------------------------------------------------
(* Properties *)

\* Everything is well typed, and a task that counts on a snapshot has one.
TypeOK ==
    /\ now \in Nat
    /\ blockTimeOffsetSeconds \in Int
    /\ nextBlockTimestamp \in Nat
    /\ chain \in Seq(Block) /\ chain # << >>
    /\ stateRoot \in States
    /\ DOMAIN irregularStates \subseteq Nat
    /\ \A n \in DOMAIN irregularStates : irregularStates[n] \in States
    /\ pending \subseteq Txs
    /\ poolSnapshots \subseteq [id : Nat, pending : SUBSET Txs]
    /\ nextSnapshotId \in Nat \ {0}
    /\ task \in Task
    /\ task.op \in {"pending", "send"} => \E i \in DOMAIN snapshots : snapshots[i].id = task.id

\* The current world state is the one after the latest block, or the one it was edited to:
\* no read in another context, revert or failure leaves another state behind.
StateIsCurrent == stateRoot = Lookup(irregularStates, LatestNumber, Latest.state)

\* Blocks are in the order of their timestamps, and no two have the same one unless that is
\* allowed: so it is while the clock is never turned back.
InOrder(earlier, later) ==
    IF AllowBlocksWithSameTimestamp THEN earlier <= later ELSE earlier < later

TimestampsIncrease ==
    \A i \in 2 .. Len(chain) : InOrder(chain[i - 1].timestamp, chain[i].timestamp)

\* The adjusted clock is not behind the latest block, so that mineBlock need only look for equal
\* timestamps.  hardhat_mine gives the timestamps of its last blocks and need not look.
ClockIsAhead ==
    \/ CurrentTimestamp + blockTimeOffsetSeconds >= Latest.timestamp
    \/ task.op = "mine" /\ task.stage = "rest"

NextTimestampIsPossible ==
    nextBlockTimestamp # 0 => InOrder(Latest.timestamp, nextBlockTimestamp)

NewBlocksFollow ==
    \A i \in Len(chain) + 1 .. Len(chain') : InOrder(chain'[i - 1].timestamp, chain'[i].timestamp)

TakenAhead(snapshot) ==
    CeilSeconds(snapshot.date) + snapshot.blockTimeOffsetSeconds
        >= snapshot.latestBlock.block.timestamp

\* what may put the clock behind the chain: evm_increaseTime with a negative number, and going
\* back to a snapshot that was taken when it was behind
TurnsBack ==
    LET increment == blockTimeOffsetSeconds' - blockTimeOffsetSeconds
    IN  increment < 0 /\ IncreaseTime(increment)
GoesBack ==
    \E i \in DOMAIN snapshots : ~ TakenAhead(snapshots[i]) /\ RevertToSnapshot(snapshots[i].id)

\* A timestamp set for the next block stays possible; with the clock ahead, new blocks follow the
\* latest one in time; and the clock falls behind only where it is turned back, until the next
\* block: no mixture of passing time, offsets, reservations, reverts and failures does it.
TimeIsInOrder ==
    /\ []NextTimestampIsPossible
    /\ [][/\ ClockIsAhead => NewBlocksFollow
          /\ \/ ClockIsAhead' \/ TurnsBack \/ GoesBack
             \/ ~ ClockIsAhead /\ UNCHANGED chain]_vars

\* Snapshots are in the order of their ids, each of a block that is still in the chain and
\* with a snapshot of the pool to go back to.
SnapshotsAreAncestors ==
    \A i \in DOMAIN snapshots :
        LET latest == snapshots[i].latestBlock
        IN  /\ latest.number \in 0 .. LatestNumber
            /\ chain[latest.number + 1] = latest.block
            /\ \E p \in poolSnapshots : p.id = snapshots[i].id
            /\ snapshots[i].id < nextSnapshotId
            /\ \A j \in 1 .. i - 1 :
                /\ snapshots[j].id < snapshots[i].id
                /\ snapshots[j].latestBlock.number <= latest.number

\* A transaction is in one block at most, and in the pool only while it is in none.
MinedOnce ==
    /\ pending \intersect Mined = {}
    /\ \A i, j \in 1 .. Len(chain) : i # j => chain[i].txs \intersect chain[j].txs = {}

\* Snapshots stay those of the chain, and its transactions those of one block each, through
\* reverts and requests that fail half way.
HistoryIsKept == SnapshotsAreAncestors /\ MinedOnce

\* A revert puts the adjusted clock back to what it was when the snapshot was taken, or, for
\* the fraction of a second, one ahead of it.
RevertRestoresClock ==
    [][\A i \in DOMAIN snapshots :
        LET before == CeilSeconds(snapshots[i].date) + snapshots[i].blockTimeOffsetSeconds
        IN  RevertToSnapshot(snapshots[i].id) =>
                CurrentTimestamp + blockTimeOffsetSeconds' \in {before, before + 1}]_vars

\* The blocks, the state after each of them, the pending transactions and the snapshots
\* behave as module World says: edits and reverts reach what they should and nothing else.
StateAfter(i, irregular) == Lookup(irregular, i - 1, chain[i].state)

History(length, irregular, root) ==
    [i \in 1 .. length |->
        [chain[i] EXCEPT !.state = IF i = length THEN root ELSE StateAfter(i, irregular)]]

Saved(snapshot) ==
    LET length == snapshot.latestBlock.number + 1
        p == CHOOSE x \in poolSnapshots : x.id = snapshot.id
    IN  [history |-> History(length, snapshot.irregularStates, snapshot.stateRoot),
         pending |-> p.pending]

Promised == INSTANCE World
    WITH history <- History(Len(chain), irregularStates, stateRoot),
         saved <- [i \in DOMAIN snapshots |-> Saved(snapshots[i])]

ImplementsWorld == Promised!Spec

=============================================================================
