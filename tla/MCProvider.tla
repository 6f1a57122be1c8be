----------------------------- MODULE MCProvider -----------------------------
(* Instance of Provider and of ForkBlockchain for TLC.  Two clients send a    *)
(* few requests, enough for resets, interval changes and loops of old timers  *)
(* to interleave.  A chain forks at block 1 of one that goes on with a        *)
(* transaction which may be mined here as well.  The two share nothing: part  *)
(* says which of them a behaviour is one of.                                  *)
EXTENDS Provider, ForkBlockchain, TLC

CONSTANTS t1, t2, Parts

VARIABLE part

MCReset == [method |-> "hardhat_reset"]
MCSetInterval(blockTime) == [method |-> "evm_setIntervalMining", blockTime |-> blockTime]
MCHandle == [method |-> "handle"]
MCObjectParams == [method |-> "objectParams"]

MCArrayRequests == {MCReset, MCHandle, MCSetInterval(0), MCSetInterval(10)}
MCAllRequests == MCArrayRequests \union {MCObjectParams}

RemoteBlock(n, txs) ==
    [number |-> n, timestamp |-> n, state |-> CHOOSE s \in States : TRUE, txs |-> txs, difficulty |-> Difficulty]

MCRemoteBlocks == (0 :> RemoteBlock(0, {})) @@ (1 :> RemoteBlock(1, {t1})) @@ (2 :> RemoteBlock(2, {t2}))
MCRemoteTotals == [n \in 0 .. 2 |-> (n + 1) * Difficulty]

\* The remote chain is such as exist; the theorems are about those.
ASSUME RemoteAssumption == RemoteIsAChain

MCInit == part \in Parts /\ Init /\ ForkChainInit

MCNext ==
    \/ part = "requests" /\ Next /\ UNCHANGED <<part, forkChainVars>>
    \/ part = "fork" /\ ForkChainNext /\ UNCHANGED <<part, vars>>

MCFairSpec == MCInit /\ [][MCNext]_<<part, vars, forkChainVars>> /\ Fairness

=============================================================================
