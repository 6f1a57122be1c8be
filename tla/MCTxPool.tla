------------------------------ MODULE MCTxPool ------------------------------
(* Instances of TxPool and of TransactionQueue for TLC, one behaviour in one  *)
(* of them.  The pool part: two senders, nonces 0 .. 2, replacements of a     *)
(* pending and of a queued transaction, one that needs the larger block and   *)
(* one that needs the larger balance.  The queue part: two senders with two   *)
(* transactions each, which fill a block together, and a replacement; each is *)
(* affordable alone, the two of a sender are not together.                    *)
EXTENDS TransactionQueue

CONSTANTS alice, bob

VARIABLE part

FeeTx(s, n, gas, maxFee, priorityFee, value) ==
    [sender |-> s, nonce |-> n, gasLimit |-> gas, maxFee |-> maxFee,
     priorityFee |-> priorityFee, value |-> value, executable |-> TRUE]
Tx(s, n, gas, fee, value) == FeeTx(s, n, gas, fee, fee, value)

MCSenders == {alice, bob}
MCContracts == {}
MCPoolTxs ==
    {Tx(alice, 0, 2, 1, 0), Tx(alice, 1, 3, 1, 0), Tx(alice, 1, 2, 2, 1),
     Tx(alice, 2, 2, 1, 0), Tx(bob, 0, 2, 1, 0)}
MCPoolBalances == {3, 30}
MCPoolGasLimits == {2, 3}

MCQueueTxs ==
    {Tx(alice, 0, 2, 12, 0), FeeTx(alice, 1, 3, 10, 1, 0), Tx(bob, 0, 3, 10, 0),
     FeeTx(bob, 1, 2, 7, 2, 0), FeeTx(bob, 0, 1, 14, 11, 0)}
MCQueueBalances == {30}
MCQueueGasLimits == {3, 4}
MCBaseFees == {8}
MCMinGasPrices == {0, 12}

MCTxs == MCPoolTxs \union MCQueueTxs
MCBalances == MCPoolBalances \union MCQueueBalances
MCGasLimits == MCPoolGasLimits \union MCQueueGasLimits

\* Whether the transactions, the limit and the balances are those of one part.
Within(txs, gasLimits) ==
    /\ \A e \in AllListed(pool) : e.data \in txs
    /\ request.phase = "adding" => request.tx \in txs
    /\ pool.blockGasLimit \in gasLimits
BalancesWithin(balances) == \A s \in Senders : account[s].balance \in balances

MCInit ==
    /\ QueueInit
    /\ \/ /\ part = "pool"
          /\ Within(MCPoolTxs, MCPoolGasLimits) /\ BalancesWithin(MCPoolBalances)
          /\ ~ london /\ mempoolOrder = "fifo"
       \/ /\ part = "queue"
          /\ Within(MCQueueTxs, MCQueueGasLimits) /\ BalancesWithin(MCQueueBalances)

MCNext ==
    \/ /\ part = "pool"
       /\ Next
       /\ UNCHANGED <<part, config, minGasPrice, baseFee, builder, request>>
       /\ Within(MCPoolTxs, MCPoolGasLimits)' /\ BalancesWithin(MCPoolBalances)'
    \/ /\ part = "queue"
       /\ QueueNext
       /\ Within(MCQueueTxs, MCQueueGasLimits)'
       /\ UNCHANGED part

MCSpec == MCInit /\ [][MCNext]_<<part, queueVars>> /\ QueueFairness

=============================================================================
