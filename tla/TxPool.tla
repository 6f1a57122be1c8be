------------------------------- MODULE TxPool -------------------------------
(***************************************************************************)
(* The mempool of the Hardhat Network node: provider/TxPool.ts, with the   *)
(* record of provider/PoolState.ts and the list algorithm of               *)
(* provider/utils/reorganizeTransactionsLists.ts.                          *)
(*                                                                         *)
(* Every RPC request runs under the provider's mutex, so one action is one *)
(* complete call of the node into the pool.  The accounts the pool reads   *)
(* through the StateManager are external: MineBlock, SetBalance and        *)
(* SetNonce are the node's calls that change them.                         *)
(***************************************************************************)
EXTENDS Integers, Sequences, FiniteSets

CONSTANTS
    Senders,        \* addresses that send transactions
    Contracts,      \* impersonated senders with code: their nonce also moves by CREATE
    Txs,            \* the transactions clients may submit
    Balances,       \* balances an account may have
    GasLimits,      \* block gas limits the user may set
    InitialNonce,   \* nonce of every account in the genesis state
    MaxNonce,       \* bound on the nonces of the accounts
    MaxOrderId,     \* bound on the transactions accepted or refused as underpriced
    MaxSnapshots    \* bound on the snapshots taken

\* A transaction.  Two transactions with the same fields have the same hash, so
\* the record stands for its own hash.  Legacy ones have maxFee = priorityFee =
\* gasPrice; "executable" is what the last static checks of _validateTransaction
\* decide (a creation has data, the gas limit covers the intrinsic gas).
TxType == [sender : Senders, nonce : Nat, gasLimit : Nat, maxFee : Nat,
           priorityFee : Nat, value : Nat, executable : BOOLEAN]

ASSUME SendersAssumption == Contracts \subseteq Senders
ASSUME TxsAssumption == Txs \subseteq TxType
ASSUME AmountsAssumption ==
    /\ Balances \subseteq Nat
    /\ GasLimits \subseteq Nat
    /\ {InitialNonce, MaxNonce, MaxOrderId, MaxSnapshots} \subseteq Nat

VARIABLES
    pool,               \* TxPool._state, an immutable PoolState record
    snapshotIdToState,  \* TxPool._snapshotIdToState, with the accounts the node saves
    nextSnapshotId,     \* TxPool._nextSnapshotId
    nextOrderId,        \* TxPool._nextOrderId
    account             \* the StateManager's accounts (external)

vars == <<pool, snapshotIdToState, nextSnapshotId, nextOrderId, account>>

-----------------------------------------------------------------------------
(* OrderedTransaction: a transaction and its arrival number.               *)

OrderedTx == [orderId : Nat, data : Txs]

AccountType == [nonce : Nat, balance : Nat]

\* The pending list of a sender is kept in list order; of a queued list only the
\* members matter, because it is sorted by nonce before it is consumed.
PoolState ==
    [pendingTransactions : [Senders -> Seq(OrderedTx)],
     queuedTransactions  : [Senders -> SUBSET OrderedTx],
     hashToTransaction   : SUBSET OrderedTx,
     blockGasLimit       : Nat]

ElementsOf(seq) == {seq[i] : i \in DOMAIN seq}

Pending(p, s) == p.pendingTransactions[s]
Queued(p, s) == p.queuedTransactions[s]
Listed(p, s) == ElementsOf(Pending(p, s)) \union Queued(p, s)
AllListed(p) == UNION {Listed(p, s) : s \in Senders}

Smaller(a, b) == IF a < b THEN a ELSE b

MaxUpfrontCost(tx) == tx.gasLimit * tx.maxFee + tx.value
\* getUpfrontCost() without a base fee charges the capped priority fee only
UpfrontCost(tx) == tx.gasLimit * Smaller(tx.priorityFee, tx.maxFee) + tx.value

\* getNextPendingNonce: one past the last pending transaction, or the confirmed nonce
NextPendingNonce(p, acc, s) ==
    IF Pending(p, s) = << >> THEN acc[s].nonce
    ELSE Pending(p, s)[Len(Pending(p, s))].data.nonce + 1

HasPendingTransactions(p) == \E s \in Senders : Pending(p, s) # << >>
HasQueuedTransactions(p) == \E s \in Senders : Queued(p, s) # {}
IsEmpty(p) == ~ (HasPendingTransactions(p) \/ HasQueuedTransactions(p))

\* _deleteTransactionByHash for every transaction of txs, and _setTransactionByHash
Unindexed(index, txs) == {e \in index : e.data \notin txs}
Indexed(index, entry) == Unindexed(index, {entry.data}) \union {entry}

-----------------------------------------------------------------------------
(* _validateTransaction and _replaceTx: when a transaction is refused.     *)

KnownTransaction(p, tx) == \E e \in Listed(p, tx.sender) : e.data = tx

ValidTransaction(p, acc, tx) ==
    /\ ~ KnownTransaction(p, tx)
    /\ MaxUpfrontCost(tx) <= acc[tx.sender].balance
    /\ tx.nonce >= acc[tx.sender].nonce
    /\ tx.executable
    /\ tx.gasLimit <= p.blockGasLimit

\* _getMinNewFeePrice: 110% of the fee, rounded up
MinNewFeePrice(fee) ==
    IF (fee * 110) % 100 = 0 THEN (fee * 110) \div 100 ELSE (fee * 110) \div 100 + 1

CanReplace(new, old) ==
    /\ new.maxFee >= MinNewFeePrice(old.maxFee)
    /\ new.priorityFee >= MinNewFeePrice(old.priorityFee)

SameNonce(txs, nonce) == {e \in txs : e.data.nonce = nonce}

\* reorganizeTransactionsLists sorts the queued list and moves its head to the
\* pending list for as long as the nonces continue it: queued holds the nonces
\* next .. last, each but the last one once, and nothing before them
IsRun(queued, next, last) ==
    \/ last = next - 1
    \/ /\ \A e \in queued : e.data.nonce >= next
       /\ \A n \in next .. last : SameNonce(queued, n) # {}
       /\ \A n \in next .. last - 1 :
            \A e, f \in SameNonce(queued, n) : e = f

\* mutant of LongestRun: nothing is ever promoted
LongestRun_None(queued, next, last) == last = next - 1

LongestRun(queued, next, last) ==
    IsRun(queued, next, last) /\ ~ IsRun(queued, next, last + 1)

Run(queued, next, last) ==
    [i \in 1 .. last - next + 1 |-> CHOOSE e \in queued : e.data.nonce = next + i - 1]

-----------------------------------------------------------------------------
(* updatePendingAndQueued: what becomes of the lists of one sender when    *)
(* the accounts or the block gas limit have changed.                       *)

IsTxValid(p, acc, tx) ==
    /\ tx.gasLimit <= p.blockGasLimit
    /\ tx.nonce >= acc[tx.sender].nonce
    /\ UpfrontCost(tx) <= acc[tx.sender].balance

LeastOf(S) == CHOOSE i \in S : \A j \in S : i <= j

\* the loop drops the transactions whose nonce was used, up to FirstLive ...
FirstLive(p, acc, s) ==
    LeastOf({Len(Pending(p, s)) + 1} \union
            {i \in DOMAIN Pending(p, s) : Pending(p, s)[i].data.nonce >= acc[s].nonce})

\* ... and the first one that is invalid for another reason; moveToQueued holds after it
FirstInvalid(p, acc, s) ==
    LeastOf({Len(Pending(p, s)) + 1} \union
            {i \in DOMAIN Pending(p, s) :
                /\ Pending(p, s)[i].data.nonce >= acc[s].nonce
                /\ ~ IsTxValid(p, acc, Pending(p, s)[i].data)})

Kept(p, acc, s) ==
    SubSeq(Pending(p, s), FirstLive(p, acc, s), FirstInvalid(p, acc, s) - 1)

\* mutant of MovedToQueued: the transaction right after the invalid one is skipped
MovedToQueued_SkipsOne(p, acc, s) ==
    {Pending(p, s)[i] : i \in {j \in DOMAIN Pending(p, s) : j > FirstInvalid(p, acc, s) + 1}}

MovedToQueued(p, acc, s) ==
    {Pending(p, s)[i] : i \in {j \in DOMAIN Pending(p, s) : j > FirstInvalid(p, acc, s)}}

StillQueued(p, acc, s) == {e \in Queued(p, s) : IsTxValid(p, acc, e.data)}

\* mutant of LeavesIndex: the index is not brought up to date
LeavesIndex_Nothing(p, acc, s) == {}

\* _removeTx takes a transaction out of the hash index whenever it takes it out of a
\* list, and nothing puts back the ones that only move from pending to queued
LeavesIndex(p, acc, s) ==
    Listed(p, s) \ (ElementsOf(Kept(p, acc, s)) \union StillQueued(p, acc, s))

UpdatedPool(p, acc) ==
    [pendingTransactions |-> [s \in Senders |-> Kept(p, acc, s)],
     queuedTransactions  |-> [s \in Senders |->
        StillQueued(p, acc, s) \union
        {e \in MovedToQueued(p, acc, s) : IsTxValid(p, acc, e.data)}],
     hashToTransaction   |-> Unindexed(p.hashToTransaction,
        {e.data : e \in UNION {LeavesIndex(p, acc, s) : s \in Senders}}),
     blockGasLimit       |-> p.blockGasLimit]

-----------------------------------------------------------------------------
Init ==
    /\ pool \in [pendingTransactions : {[s \in Senders |-> << >>]},
                 queuedTransactions  : {[s \in Senders |-> {}]},
                 hashToTransaction   : {{}},
                 blockGasLimit       : GasLimits]
    /\ snapshotIdToState = << >>
    /\ nextSnapshotId = 0
    /\ nextOrderId = 0
    /\ account \in [Senders -> [nonce : {InitialNonce}, balance : Balances]]

\* addTransaction up to the choice of the list; the arrival number is taken before
\* the replacement is refused
Submit(tx) ==
    /\ nextOrderId < MaxOrderId
    /\ ValidTransaction(pool, account, tx)
    /\ nextOrderId' = nextOrderId + 1
    /\ UNCHANGED <<snapshotIdToState, nextSnapshotId, account>>

\* mutant of Arriving: the number is decremented before it is used
Arriving_Decremented(tx) == [orderId |-> nextOrderId - 1, data |-> tx]

Arriving(tx) == [orderId |-> nextOrderId, data |-> tx]

\* _addPendingTransaction when no pending transaction has the nonce
AddPendingTransaction(tx) ==
    /\ Submit(tx)
    /\ tx.nonce <= NextPendingNonce(pool, account, tx.sender)
    /\ SameNonce(ElementsOf(Pending(pool, tx.sender)), tx.nonce) = {}
    /\ LET queued == Queued(pool, tx.sender)
           next == tx.nonce + 1
       IN \E last \in {tx.nonce} \union {e.data.nonce : e \in queued} :
            /\ LongestRun(queued, next, last)
            /\ pool' = [pool EXCEPT
                !.pendingTransactions[tx.sender] =
                    Append(@, Arriving(tx)) \o Run(queued, next, last),
                !.queuedTransactions[tx.sender] =
                    @ \ ElementsOf(Run(queued, next, last)),
                !.hashToTransaction = Indexed(@, Arriving(tx))]

\* _replacePendingTx
ReplacePendingTransaction(tx) ==
    /\ Submit(tx)
    /\ tx.nonce <= NextPendingNonce(pool, account, tx.sender)
    /\ \E i \in DOMAIN Pending(pool, tx.sender) :
        LET old == Pending(pool, tx.sender)[i].data IN
        /\ old.nonce = tx.nonce
        /\ CanReplace(tx, old)
        /\ pool' = [pool EXCEPT
            !.pendingTransactions[tx.sender][i] = Arriving(tx),
            !.hashToTransaction = Indexed(Unindexed(@, {old}), Arriving(tx))]

\* _addQueuedTransaction when no queued transaction has the nonce
AddQueuedTransaction(tx) ==
    /\ Submit(tx)
    /\ tx.nonce > NextPendingNonce(pool, account, tx.sender)
    /\ SameNonce(Queued(pool, tx.sender), tx.nonce) = {}
    /\ pool' = [pool EXCEPT
        !.queuedTransactions[tx.sender] = @ \union {Arriving(tx)},
        !.hashToTransaction = Indexed(@, Arriving(tx))]

\* mutant of ReplaceQueuedTransaction: the new transaction is added beside the old one
ReplaceQueuedTransaction_KeepsOld(tx) ==
    /\ Submit(tx)
    /\ tx.nonce > NextPendingNonce(pool, account, tx.sender)
    /\ \E e \in SameNonce(Queued(pool, tx.sender), tx.nonce) :
        /\ CanReplace(tx, e.data)
        /\ pool' = [pool EXCEPT
            !.queuedTransactions[tx.sender] = @ \union {Arriving(tx)},
            !.hashToTransaction = Indexed(Unindexed(@, {e.data}), Arriving(tx))]

\* _replaceQueuedTx
ReplaceQueuedTransaction(tx) ==
    /\ Submit(tx)
    /\ tx.nonce > NextPendingNonce(pool, account, tx.sender)
    /\ \E e \in SameNonce(Queued(pool, tx.sender), tx.nonce) :
        /\ CanReplace(tx, e.data)
        /\ pool' = [pool EXCEPT
            !.queuedTransactions[tx.sender] = (@ \ {e}) \union {Arriving(tx)},
            !.hashToTransaction = Indexed(Unindexed(@, {e.data}), Arriving(tx))]

\* _replaceTx throws: the pool is as it was, the arrival number is spent
RefuseUnderpriced(tx) ==
    /\ Submit(tx)
    /\ \E e \in SameNonce(
            IF tx.nonce <= NextPendingNonce(pool, account, tx.sender)
            THEN ElementsOf(Pending(pool, tx.sender))
            ELSE Queued(pool, tx.sender), tx.nonce) : ~ CanReplace(tx, e.data)
    /\ pool' = pool

AddTransaction(tx) ==
    \/ AddPendingTransaction(tx)
    \/ ReplacePendingTransaction(tx)
    \/ AddQueuedTransaction(tx)
    \/ ReplaceQueuedTransaction(tx)
    \/ RefuseUnderpriced(tx)

\* mutant of RemovePendingTransaction: the following transactions stay pending
RemovePendingTransaction_ClosesUp(entry) ==
    /\ entry \in pool.hashToTransaction
    /\ LET s == entry.data.sender IN
       \E i \in DOMAIN Pending(pool, s) :
        /\ Pending(pool, s)[i] = entry
        /\ pool' = [pool EXCEPT
            !.pendingTransactions[s] = SubSeq(@, 1, i - 1) \o SubSeq(@, i + 1, Len(@)),
            !.hashToTransaction = Unindexed(@, {entry.data})]
    /\ UNCHANGED <<snapshotIdToState, nextSnapshotId, nextOrderId, account>>

\* removeTransaction of an indexed transaction found in the pending list: the
\* following ones are queued
RemovePendingTransaction(entry) ==
    /\ entry \in pool.hashToTransaction
    /\ LET s == entry.data.sender IN
       \E i \in DOMAIN Pending(pool, s) :
        /\ Pending(pool, s)[i] = entry
        /\ pool' = [pool EXCEPT
            !.pendingTransactions[s] = SubSeq(@, 1, i - 1),
            !.queuedTransactions[s] =
                @ \union {Pending(pool, s)[j] : j \in {k \in DOMAIN Pending(pool, s) : k > i}},
            !.hashToTransaction = Unindexed(@, {entry.data})]
    /\ UNCHANGED <<snapshotIdToState, nextSnapshotId, nextOrderId, account>>

\* removeTransaction of an indexed transaction found in the queued list.  When it is
\* in neither list removeTransaction throws; IndexedIsListed says it never does.
RemoveQueuedTransaction(entry) ==
    /\ entry \in pool.hashToTransaction
    /\ entry \in Queued(pool, entry.data.sender)
    /\ pool' = [pool EXCEPT
        !.queuedTransactions[entry.data.sender] = @ \ {entry},
        !.hashToTransaction = Unindexed(@, {entry.data})]
    /\ UNCHANGED <<snapshotIdToState, nextSnapshotId, nextOrderId, account>>

RemoveTransaction(entry) ==
    RemovePendingTransaction(entry) \/ RemoveQueuedTransaction(entry)

\* mutant of SetBlockGasLimit: the lists are not brought up to date
SetBlockGasLimit_LimitOnly(limit) ==
    /\ pool' = [pool EXCEPT !.blockGasLimit = limit]
    /\ UNCHANGED <<snapshotIdToState, nextSnapshotId, nextOrderId, account>>

\* node.setBlockGasLimit: the limit changes and the lists are brought up to date
SetBlockGasLimit(limit) ==
    /\ pool' = UpdatedPool([pool EXCEPT !.blockGasLimit = limit], account)
    /\ UNCHANGED <<snapshotIdToState, nextSnapshotId, nextOrderId, account>>

\* snapshot; the node saves the state root at the same time
Snapshot ==
    /\ nextSnapshotId < MaxSnapshots
    /\ snapshotIdToState' =
        [id \in DOMAIN snapshotIdToState \union {nextSnapshotId} |->
            IF id = nextSnapshotId THEN [pool |-> pool, account |-> account]
            ELSE snapshotIdToState[id]]
    /\ nextSnapshotId' = nextSnapshotId + 1
    /\ UNCHANGED <<pool, nextOrderId, account>>

\* mutant of Revert: the arrival numbers start again after the restored transactions
Revert_Renumbers(id) ==
    /\ id \in DOMAIN snapshotIdToState
    /\ pool' = snapshotIdToState[id].pool
    /\ account' = snapshotIdToState[id].account
    /\ snapshotIdToState' =
        [i \in {j \in DOMAIN snapshotIdToState : j < id} |-> snapshotIdToState[i]]
    /\ nextOrderId' = Cardinality(AllListed(snapshotIdToState[id].pool))
    /\ UNCHANGED nextSnapshotId

\* revert, with _removeSnapshotsAfter; the node restores the state root it saved
Revert(id) ==
    /\ id \in DOMAIN snapshotIdToState
    /\ pool' = snapshotIdToState[id].pool
    /\ account' = snapshotIdToState[id].account
    /\ snapshotIdToState' =
        [i \in {j \in DOMAIN snapshotIdToState : j < id} |-> snapshotIdToState[i]]
    /\ UNCHANGED <<nextSnapshotId, nextOrderId>>

\* _mineBlockWithPendingTxs (external: the EVM): a prefix of each pending list is
\* executed, balances move, a contract may create; then updatePendingAndQueued runs
MineBlock ==
    \E mined \in [Senders -> 0 .. MaxNonce], created \in [Contracts -> 0 .. 1],
       balance \in [Senders -> Balances] :
        /\ \A s \in Senders : mined[s] <= Len(Pending(pool, s))
        /\ account' = [s \in Senders |->
            [nonce |-> account[s].nonce + mined[s] +
                        (IF s \in Contracts THEN created[s] ELSE 0),
             balance |-> balance[s]]]
        /\ \A s \in Senders : account'[s].nonce <= MaxNonce
        /\ pool' = UpdatedPool(pool, account')
        /\ UNCHANGED <<snapshotIdToState, nextSnapshotId, nextOrderId>>

\* hardhat_setBalance writes the account and leaves the pool as it is
SetBalance(s, balance) ==
    /\ account' = [account EXCEPT ![s].balance = balance]
    /\ UNCHANGED <<pool, snapshotIdToState, nextSnapshotId, nextOrderId>>

\* hardhat_setNonce is refused unless the pool is empty, and never lowers a nonce
SetNonce(s, nonce) ==
    /\ IsEmpty(pool)
    /\ nonce >= account[s].nonce
    /\ account' = [account EXCEPT ![s].nonce = nonce]
    /\ UNCHANGED <<pool, snapshotIdToState, nextSnapshotId, nextOrderId>>

Next ==
    \/ \E tx \in Txs : AddTransaction(tx)
    \/ \E entry \in pool.hashToTransaction : RemoveTransaction(entry)
    \/ \E limit \in GasLimits : SetBlockGasLimit(limit)
    \/ Snapshot
    \/ \E id \in DOMAIN snapshotIdToState : Revert(id)
    \/ MineBlock
    \/ \E s \in Senders, balance \in Balances : SetBalance(s, balance)
    \/ \E s \in Senders, nonce \in 0 .. MaxNonce : SetNonce(s, nonce)

Spec == Init /\ [][Next]_vars

-----------------------------------------------------------------------------
(* Properties *)

\* Every variable holds a value of its type.
SnapshotType == [pool : PoolState, account : [Senders -> AccountType]]

TypeOK ==
    /\ pool \in PoolState
    /\ account \in [Senders -> AccountType]
    /\ nextSnapshotId \in Nat
    /\ nextOrderId \in Nat
    /\ DOMAIN snapshotIdToState \subseteq Nat
    /\ \A id \in DOMAIN snapshotIdToState : snapshotIdToState[id] \in SnapshotType

\* The pending list of a sender starts at its confirmed nonce and has no gap, so that
\* the block builder can execute it in order (TransactionQueue's constructor relies on
\* it: "sorted by nonce and without nonce gaps").
PendingIsGapFree(p, acc) ==
    \A s \in Senders : \A i \in DOMAIN Pending(p, s) :
        Pending(p, s)[i].data.nonce = acc[s].nonce + i - 1

PendingIsExecutable == PendingIsGapFree(pool, account)

\* A transaction waits in a queued list only because a nonce before its own is missing:
\* every nonce in a queued list is beyond the next pending nonce, so none was left
\* behind when it became executable.
QueuedIsBeyondPending(p, acc) ==
    \A s \in Senders : \A e \in Queued(p, s) :
        e.data.nonce > NextPendingNonce(p, acc, s)

NothingExecutableIsQueued == QueuedIsBeyondPending(pool, account)

\* A queued list holds one transaction per nonce: a second one either replaces the
\* first or is refused, also when a pending list is cut and its tail is queued.
QueuedNoncesAreDistinct ==
    \A s \in Senders : \A e, f \in Queued(pool, s) :
        e.data.nonce = f.data.nonce => e = f

\* Every entry of the hash index is, with the same arrival number, in a list of its
\* sender: removeTransaction never reaches its "Tx should have existed in the pending
\* or queued lists".
IndexedIsListed ==
    \A e \in pool.hashToTransaction : e \in Listed(pool, e.data.sender)

\* Every transaction in the pool can be found, and dropped, by its hash.
ListedIsIndexed == AllListed(pool) \subseteq pool.hashToTransaction

\* Arrival numbers are given out once, also across a revert of the pool: they order the
\* FIFO mempool and break the ties of the priority mempool.
ArrivalNumbersAreUnique ==
    /\ \A e, f \in AllListed(pool) : e.orderId = f.orderId => e = f
    /\ \A e \in AllListed(pool) : e.orderId < nextOrderId

\* What the index finds is one entry of the lists, whose number orders it.
EntriesAreUnique == IndexedIsListed /\ ArrivalNumbersAreUnique

\* Every transaction in the pool fits in a block of the pool's gas limit, which a
\* revert takes back together with the lists.
EveryTransactionFitsABlock ==
    \A e \in AllListed(pool) : e.data.gasLimit <= pool.blockGasLimit

\* A transaction that waits has something to wait for, alone with its nonce, and could be
\* mined in the end.
QueuedCanBeMinedLater ==
    NothingExecutableIsQueued /\ QueuedNoncesAreDistinct /\ EveryTransactionFitsABlock

\* A transaction leaves the pool only when it was dropped by its hash, replaced by a
\* better paying one of the same nonce, executed or overtaken by the nonce of its
\* sender, found invalid, or when the pool was reverted to a snapshot.
NothingIsLost ==
    [][ \A e \in AllListed(pool) \ AllListed(pool') :
            LET s == e.data.sender IN
            \/ e.data.nonce < account'[s].nonce
            \/ ~ IsTxValid(pool', account', e.data)
            \/ \E f \in Listed(pool', s) :
                f.data.nonce = e.data.nonce /\ CanReplace(f.data, e.data)
            \/ \E f \in pool.hashToTransaction : f = e /\ RemoveTransaction(f)
            \/ \E id \in DOMAIN snapshotIdToState : Revert(id) ]_vars

=============================================================================
