-------------------------- MODULE TransactionQueue ---------------------------
(***************************************************************************)
(* How the pending transactions of TxPool get into blocks:                 *)
(* provider/TransactionQueue.ts, the loop of _mineBlockWithPendingTxs that *)
(* fills a block from the queue, and the loop of an automined transaction  *)
(* that mines block after block until nothing is pending                   *)
(* (provider/node.ts).                                                     *)
(*                                                                         *)
(* Requests follow each other under the mutex of the provider; one that    *)
(* mines takes several steps, one per transaction of the queue.            *)
(***************************************************************************)
EXTENDS TxPool

CONSTANTS
    MaxFee,         \* the largest fee: 2^256 - 1 in the code
    MinTxGas,       \* the gas that any transaction takes
    BaseFees,       \* what the next base fee may be set to, and is at first
    MinGasPrices    \* what the minimum gas price may be set to

\* A block of one gas has no room for a transaction.
ASSUME QueueAssumption ==
    /\ \A tx \in Txs : tx.maxFee <= MaxFee /\ tx.priorityFee <= MaxFee
    /\ MaxFee \in Nat /\ MinTxGas \in Nat /\ BaseFees \subseteq Nat /\ MinGasPrices \subseteq Nat
    /\ \A limit \in GasLimits : limit > 1

NoTx == [orderId |-> -1]

VARIABLES
    london,         \* the hardfork has EIP-1559
    mempoolOrder,   \* _mempoolOrder
    minGasPrice,    \* _minGasPrice, which only a network without EIP-1559 has
    baseFee,        \* getNextBlockBaseFeePerGas, or 0 for undefined
    builder,        \* the block that is being built, and the queue it is filled from
    request         \* what the request that mines has still to do

config == <<london, mempoolOrder>>
queueVars == <<vars, config, minGasPrice, baseFee, builder, request>>

Idle == [phase |-> "idle"]
NotBuilding == [open |-> FALSE]

QueueInit ==
    /\ Init
    /\ london \in BOOLEAN /\ mempoolOrder \in {"priority", "fifo"}
    /\ minGasPrice = 0
    /\ baseFee \in (IF london THEN BaseFees ELSE {0})
    /\ builder = NotBuilding
    /\ request = Idle

-----------------------------------------------------------------------------
(* The queue.                                                                 *)

\* mutant of EffectiveMinerFee: what the base fee takes is not counted
EffectiveMinerFee_Nominal(tx) == tx.priorityFee

\* getEffectiveMinerFee
EffectiveMinerFee(tx) ==
    IF london THEN Smaller(tx.priorityFee, tx.maxFee - baseFee) ELSE tx.maxFee

\* mutant of Before: of two that pay the same, the one that came later goes first
Before_LatestFirst(a, b) ==
    \/ mempoolOrder = "priority" /\ EffectiveMinerFee(a.data) > EffectiveMinerFee(b.data)
    \/ /\ mempoolOrder = "priority" => EffectiveMinerFee(a.data) = EffectiveMinerFee(b.data)
       /\ a.orderId > b.orderId

\* the comparators of the heap
Before(a, b) ==
    \/ mempoolOrder = "priority" /\ EffectiveMinerFee(a.data) > EffectiveMinerFee(b.data)
    \/ /\ mempoolOrder = "priority" => EffectiveMinerFee(a.data) = EffectiveMinerFee(b.data)
       /\ a.orderId < b.orderId

\* the constructor: the first transaction of each sender in the heap, the others behind it;
\* lastSender is of none yet
NewQueue(p) ==
    [heap   |-> {Head(Pending(p, s)) : s \in {r \in Senders : Pending(p, r) # <<>>}},
     queued |-> [s \in Senders |-> IF Pending(p, s) = <<>> THEN <<>> ELSE Tail(Pending(p, s))],
     lastSender |-> {}]

\* _moveFirstEnqueuedTransactionToHeap, of the sender of the last transaction
Refilled(q) ==
    LET more == {s \in q.lastSender : q.queued[s] # <<>>} IN
    [q EXCEPT !.heap = @ \union {Head(q.queued[s]) : s \in more},
              !.queued = [s \in Senders |-> IF s \in more THEN Tail(@[s]) ELSE @[s]]]

\* heap.pop, with the transaction beside what is left
Popped(q) ==
    IF q.heap = {} THEN [tx |-> NoTx, queue |-> q]
    ELSE LET first == CHOOSE t \in q.heap : \A u \in q.heap \ {t} : Before(t, u)
         IN [tx |-> first,
             queue |-> [q EXCEPT !.heap = @ \ {first}, !.lastSender = {first.data.sender}]]

\* getNextTransaction
NextTransaction(q) == Popped(Refilled(q))

\* mutant of WithoutLastSender: only the transaction itself is passed over
WithoutLastSender_OnlyOne(q) == q

\* removeLastSenderTransactions
WithoutLastSender(q) ==
    [q EXCEPT !.queued = [s \in Senders |-> IF s \in q.lastSender THEN <<>> ELSE @[s]],
              !.lastSender = {}]

-----------------------------------------------------------------------------
(* Requests that mine nothing.                                                *)

\* what is pooled is of a type the hardfork has
IsLegacy(tx) == tx.priorityFee = tx.maxFee
Typed(tx) == london \/ IsLegacy(tx)

\* eth_sendTransaction while automine is off
Send(tx) ==
    /\ request = Idle
    /\ Typed(tx)
    /\ AddTransaction(tx)
    /\ UNCHANGED <<config, minGasPrice, baseFee, builder, request>>

\* hardhat_setBlockGasLimit, see TxPool
ChangeBlockGasLimit(limit) ==
    /\ request = Idle
    /\ SetBlockGasLimit(limit)
    /\ UNCHANGED <<config, minGasPrice, baseFee, builder, request>>

\* hardhat_setMinGasPrice, refused when EIP-1559 is active
SetMinGasPrice(price) ==
    /\ request = Idle
    /\ ~ london
    /\ minGasPrice' = price
    /\ UNCHANGED <<vars, config, baseFee, builder, request>>

\* hardhat_setNextBlockBaseFeePerGas, refused when it is not
SetNextBlockBaseFee(fee) ==
    /\ request = Idle
    /\ london
    /\ baseFee' = fee
    /\ UNCHANGED <<vars, config, minGasPrice, builder, request>>

-----------------------------------------------------------------------------
(* Requests that mine.                                                        *)

\* mineBlock up to the first transaction of the queue; the accounts of the block become those
\* of the state when it is done
NewBlock ==
    LET first == NextTransaction(NewQueue(pool)) IN
    [open |-> TRUE, tx |-> first.tx, queue |-> first.queue, block |-> <<>>, gasUsed |-> 0,
     account |-> account]

\* mutant of Begin: the queue is ordered by the base fee of the block before
Begin_OldBaseFee ==
    LET first == NextTransaction(NewQueue(pool')) IN
    builder' = [open |-> TRUE, tx |-> first.tx, queue |-> first.queue, block |-> <<>>,
                gasUsed |-> 0, account |-> account']

\* a block is begun, with the pool, the accounts and the base fee after the step
Begin == builder' = NewBlock'

\* evm_mine, and the mining timer
MineOne ==
    /\ request = Idle
    /\ request' = [phase |-> "once"]
    /\ UNCHANGED <<vars, config, minGasPrice, baseFee>>
    /\ Begin

\* _validateAutominedTx
CanBeAutomined(tx) ==
    /\ tx.nonce = NextPendingNonce(pool, account, tx.sender)
    /\ tx.priorityFee >= minGasPrice
    /\ tx.maxFee >= baseFee

\* eth_sendTransaction while automine is on, when the pool is empty
Automine(tx) ==
    /\ request = Idle
    /\ Typed(tx) /\ CanBeAutomined(tx) /\ IsEmpty(pool)
    /\ AddPendingTransaction(tx)
    /\ request' = [phase |-> "once"]
    /\ UNCHANGED <<config, minGasPrice, baseFee>>
    /\ Begin

\* the same when there is anything in the pool, up to the snapshot to go back to
AutomineWithOthers(tx) ==
    /\ request = Idle
    /\ Typed(tx) /\ CanBeAutomined(tx) /\ ~ IsEmpty(pool)
    /\ nextOrderId < MaxOrderId
    /\ Snapshot
    /\ request' = [phase |-> "adding", tx |-> tx, snapshot |-> nextSnapshotId, baseFee |-> baseFee]
    /\ UNCHANGED <<config, minGasPrice, baseFee, builder>>

\* the transaction is added, and blocks are mined until nothing is pending
AddAutomined ==
    /\ request.phase = "adding"
    /\ AddPendingTransaction(request.tx)
    /\ request' = [phase |-> "until_included", orderId |-> nextOrderId,
                   snapshot |-> request.snapshot, baseFee |-> request.baseFee]
    /\ UNCHANGED <<config, minGasPrice, baseFee>>
    /\ Begin

\* revertToSnapshot, when any of what follows the snapshot throws
GoBack ==
    /\ Revert(request.snapshot)
    /\ baseFee' = request.baseFee
    /\ request' = Idle

\* _addPendingTransaction throws
RefuseAutomined ==
    /\ request.phase = "adding"
    /\ ~ ValidTransaction(pool, account, request.tx)
    /\ GoBack
    /\ UNCHANGED <<config, minGasPrice, builder>>

\* _isTxMinable, and the gas that is left
IsTxMinable(tx) == tx.maxFee >= baseFee /\ tx.maxFee >= minGasPrice
Fits(tx, gasUsed) == tx.gasLimit <= pool.blockGasLimit - gasUsed

\* the condition of the loop that fills the block
HasNext ==
    /\ builder.tx # NoTx
    /\ pool.blockGasLimit - builder.gasUsed >= MinTxGas

WillBeAdded == HasNext /\ IsTxMinable(builder.tx.data) /\ Fits(builder.tx.data, builder.gasUsed)

\* a transaction that is passed over, with those of its sender
PassOver ==
    /\ builder.open
    /\ HasNext /\ ~ WillBeAdded
    /\ LET next == NextTransaction(WithoutLastSender(builder.queue)) IN
       builder' = [builder EXCEPT !.tx = next.tx, !.queue = next.queue]
    /\ UNCHANGED <<vars, config, minGasPrice, baseFee, request>>

\* what the execution takes from the sender
Charge(tx, gas) ==
    tx.value + gas * (IF london THEN Smaller(tx.maxFee, baseFee + tx.priorityFee) ELSE tx.maxFee)

\* addTransaction of the block builder (external): execution takes some gas of the limit,
\* here the least or all of it
Include ==
    /\ builder.open
    /\ WillBeAdded
    /\ LET tx == builder.tx.data
           next == NextTransaction(builder.queue)
       IN /\ MaxUpfrontCost(tx) <= builder.account[tx.sender].balance
          /\ \E gas \in {g \in {MinTxGas, tx.gasLimit} : g <= tx.gasLimit} :
              builder' = [builder EXCEPT !.tx = next.tx, !.queue = next.queue,
                !.block = Append(@, [entry |-> builder.tx, gasBefore |-> builder.gasUsed]),
                !.gasUsed = @ + gas,
                !.account[tx.sender] = [nonce |-> @.nonce + 1, balance |-> @.balance - Charge(tx, gas)]]
    /\ UNCHANGED <<vars, config, minGasPrice, baseFee, request>>

\* addTransaction throws, because the sender has not enough funds left: the block is undone,
\* and so is all that _mineTransactionAndPending has done
Fail ==
    /\ builder.open
    /\ WillBeAdded
    /\ MaxUpfrontCost(builder.tx.data) > builder.account[builder.tx.data.sender].balance
    /\ builder' = NotBuilding
    /\ \/ request.phase = "once" /\ request' = Idle /\ UNCHANGED <<vars, baseFee>>
       \/ request.phase # "once" /\ GoBack
    /\ UNCHANGED <<config, minGasPrice>>

\* mutant of NextBaseFee: blocks without much gas leave it as it is
NextBaseFee_NeverFalls ==
    LET target == pool.blockGasLimit \div 2 IN
    IF builder.gasUsed > target THEN baseFee + 1 ELSE baseFee

\* calcNextBaseFee of the header (external): an eighth more or less, as the gas used is
\* more or less than half of the limit, but at least 1 more
NextBaseFee ==
    LET target == pool.blockGasLimit \div 2
        eighth(gas) == (baseFee * gas) \div (8 * target)
    IN  IF ~ london \/ builder.gasUsed = target THEN baseFee
        ELSE IF builder.gasUsed > target
             THEN baseFee + (IF eighth(builder.gasUsed - target) > 1
                             THEN eighth(builder.gasUsed - target) ELSE 1)
             ELSE baseFee - eighth(target - builder.gasUsed)

\* whether the transaction of the request has a receipt
IsIncluded ==
    \E i \in DOMAIN builder.block : builder.block[i].entry.orderId = request.orderId

\* mutant of MoreToMine: what waits in the queued lists is waited for
MoreToMine_QueuedToo(p) == ~ IsEmpty(p)

\* the conditions of the two loops of _mineBlocksUntilTransactionIsIncluded
MoreToMine(p) == HasPendingTransactions(p)

\* the block is done; the pool is brought up to date, and the request mines another block,
\* returns, or fails because its transaction is not included and nothing is pending ("this
\* should never happen"), and then undoes everything
Close ==
    /\ builder.open
    /\ ~ HasNext
    /\ UNCHANGED <<config, minGasPrice>>
    /\ LET updated == UpdatedPool(pool, builder.account)
           included == request.phase = "until_included" => IsIncluded
           goesOn == request.phase # "once" /\ MoreToMine(updated)
           done == /\ pool' = updated /\ account' = builder.account /\ baseFee' = NextBaseFee
                   /\ UNCHANGED <<snapshotIdToState, nextSnapshotId, nextOrderId>>
       IN \/ /\ goesOn /\ done
             /\ request' = IF included THEN [request EXCEPT !.phase = "until_empty"] ELSE request
             /\ Begin
          \/ /\ ~ goesOn /\ included /\ done
             /\ request' = Idle /\ builder' = NotBuilding
          \/ /\ ~ goesOn /\ ~ included
             /\ GoBack /\ builder' = NotBuilding

Mining == AddAutomined \/ RefuseAutomined \/ PassOver \/ Include \/ Fail \/ Close

QueueNext ==
    \/ \E tx \in Txs : Send(tx) \/ Automine(tx) \/ AutomineWithOthers(tx)
    \/ \E limit \in GasLimits : ChangeBlockGasLimit(limit)
    \/ \E price \in MinGasPrices : SetMinGasPrice(price)
    \/ \E fee \in BaseFees : SetNextBlockBaseFee(fee)
    \/ MineOne
    \/ Mining

\* a request that mines goes on
QueueFairness == WF_queueVars(Mining)

QueueSpec == QueueInit /\ [][QueueNext]_queueVars /\ QueueFairness

-----------------------------------------------------------------------------
(* Properties *)

\* The transactions of a sender that come after the first of them, in a block.
Taken(s, n) == {i \in 1 .. n : builder.block[i].entry.data.sender = s}
LeftAfter(s, n) == SubSeq(Pending(pool, s), Cardinality(Taken(s, n)) + 1, Len(Pending(pool, s)))

\* What could come next, after the first n transactions of the block and the gas they used.
Candidates(n, gasUsed) ==
    {e \in {Head(LeftAfter(s, n)) : s \in {r \in Senders : LeftAfter(r, n) # <<>>}} :
        IsTxMinable(e.data) /\ Fits(e.data, gasUsed)}

\* What the miner gets for each gas.
Tip(tx) == (IF london THEN Smaller(tx.maxFee, baseFee + tx.priorityFee) ELSE tx.maxFee) - baseFee

\* Each transaction of a block is, of those that could come next in it, the one that pays
\* the miner best, or in a fifo mempool any of them, and of equal ones the first to arrive;
\* and no block is done that has room for another: whom the builder passes over, on the way,
\* has nothing that could still be added.
BlocksAreGreedy ==
    builder.open =>
        /\ \A n \in DOMAIN builder.block :
            LET tx == builder.block[n].entry
                candidates == Candidates(n - 1, builder.block[n].gasBefore)
            IN  /\ tx \in candidates
                /\ \A e \in candidates \ {tx} :
                    \/ mempoolOrder = "priority" /\ Tip(tx.data) > Tip(e.data)
                    \/ /\ mempoolOrder = "priority" => Tip(tx.data) = Tip(e.data)
                       /\ tx.orderId < e.orderId
        /\ HasNext
           \/ pool.blockGasLimit - builder.gasUsed < MinTxGas
           \/ Candidates(Len(builder.block), builder.gasUsed) = {}

\* An eighth of a base fee below 8 is nothing: empty blocks do not lower it any more.
LowestBaseFee == 7

\* Each pending transaction can be mined when the base fee has come down.
PendingPays ==
    \A s \in Senders : \A e \in ElementsOf(Pending(pool, s)) :
        e.data.maxFee >= minGasPrice /\ (london => e.data.maxFee >= LowestBaseFee)

\* A request that mines ends, also one that mines until nothing is pending, unless what is
\* pending pays too little for ever.
AutomineEnds == request # Idle ~> (request = Idle \/ ~ PendingPays)

\* "Failed to mine transaction for unknown reason, this should never happen": a transaction
\* that was accepted is included as long as blocks are mined, or it is still pending.
UnknownReasonNeverHappens ==
    builder.open /\ ~ HasNext /\ request.phase = "until_included" =>
        IsIncluded \/ HasPendingTransactions(UpdatedPool(pool, builder.account))

=============================================================================
