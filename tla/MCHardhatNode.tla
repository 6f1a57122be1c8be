--------------------------- MODULE MCHardhatNode ----------------------------
(* Instance of HardhatNode for TLC, three times: the history part has the    *)
(* states and transactions that snapshots and irregular states need, and     *)
(* begins at one time; the clock part has the times and lengths that         *)
(* timestamps need; in the turned part evm_increaseTime may turn the clock   *)
(* back.  hardhat_mine reserves as soon as two blocks remain, so that four   *)
(* blocks are enough to see it.                                              *)
EXTENDS HardhatNode, TLC

CONSTANTS
    Parts, ClockStates, ClockTxs, ClockIncrements, ClockCounts, ClockTicks, ClockTime, ClockLength,
    ClockSnapshots

VARIABLE part

Clock == INSTANCE HardhatNode
    WITH States <- ClockStates, Txs <- ClockTxs, Increments <- ClockIncrements,
         Counts <- ClockCounts, MaxTicks <- ClockTicks,
         MaxTime <- ClockTime, MaxLength <- ClockLength, MaxSnapshots <- ClockSnapshots

Turned == INSTANCE HardhatNode
    WITH States <- ClockStates, Txs <- {}, Increments <- {-1, 1, 2},
         Counts <- {2}, MaxTicks <- 3, MaxTime <- 3, MaxLength <- 4, MaxSnapshots <- 1

MCInit ==
    /\ part \in Parts
    /\ \/ part = "history" /\ Init /\ now = TicksPerSecond
       \/ part = "clock" /\ Clock!Init
       \/ part = "turned" /\ Turned!Init

MCNext ==
    /\ UNCHANGED part
    /\ \/ part = "history" /\ Next
       \/ part = "clock" /\ Clock!Next
       \/ part = "turned" /\ Turned!Next

MCSpec == MCInit /\ [][MCNext]_<<part, vars>>

\* The states and transactions are alike; a behaviour of the other parts knows only one of
\* each and is never taken for another.
Symmetry == Permutations(States) \union Permutations(Txs)
=============================================================================
