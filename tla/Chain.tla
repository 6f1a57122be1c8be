------------------------------- MODULE Chain --------------------------------
(***************************************************************************)
(* What the local blockchain promises to the rest of the node: a list of   *)
(* blocks that grows at its end, by one block or by a run of empty ones,   *)
(* and is cut when the node goes back to an earlier block.  Reading it     *)
(* changes nothing.                                                        *)
(***************************************************************************)
EXTENDS Integers, Sequences

CONSTANTS
    States,         \* the world states (with the base fees) a block may end in
    Txs,            \* the transactions blocks may hold
    Intervals,      \* seconds between blocks
    Counts          \* lengths of a run of empty blocks

VARIABLE chain      \* the block with number n is chain[n + 1]

Latest == chain[Len(chain)]

BlockAfter(block, interval, state, txs) ==
    [timestamp |-> block.timestamp + interval, state |-> state, txs |-> txs]

Init == \E state \in States : chain = << [timestamp |-> 0, state |-> state, txs |-> {}] >>

AddBlock(interval, state, txs) ==
    chain' = Append(chain, BlockAfter(Latest, interval, state, txs))

AddEmptyBlocks(count, interval) ==
    chain' = chain \o
        [i \in 1 .. count |-> BlockAfter(Latest, i * interval, Latest.state, {})]

DeleteLaterBlocks(n) == chain' = SubSeq(chain, 1, n)

Next ==
    \/ \E interval \in Intervals, state \in States, txs \in SUBSET Txs :
        AddBlock(interval, state, txs)
    \/ \E count \in Counts, interval \in Intervals : AddEmptyBlocks(count, interval)
    \/ \E n \in 1 .. Len(chain) : DeleteLaterBlocks(n)

Spec == Init /\ [][Next]_chain

=============================================================================
