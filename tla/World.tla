------------------------------- MODULE World --------------------------------
(***************************************************************************)
(* What the node promises to its clients: a history of blocks, each with   *)
(* the state after it, that grows at its end, and that can be put back as  *)
(* a whole, with the pending transactions, to where it was when a snapshot *)
(* was taken.  Only the state after the latest block can be edited.        *)
(***************************************************************************)
EXTENDS Integers, Sequences

CONSTANTS
    States,         \* world states
    Txs             \* transactions

VARIABLES
    history,        \* the block with number n and the state after it are history[n + 1]
    pending,        \* transactions waiting to be mined
    saved           \* snapshots, the oldest first

worldVars == <<history, pending, saved>>

Latest == history[Len(history)]

Init ==
    /\ Len(history) = 1 /\ Latest.state \in States /\ Latest.txs = {}
    /\ pending = {}
    /\ saved = <<>>

Grows == Len(history') > Len(history) /\ SubSeq(history', 1, Len(history)) = history

\* a block on top, with some of the transactions in pool; others may be given up
MineFrom(pool) ==
    /\ Grows /\ Len(history') = Len(history) + 1
    /\ LET block == history'[Len(history')]
       IN  /\ block.state \in States
           /\ block.txs \subseteq pool
           /\ pending' \subseteq pool \ block.txs

Mine == MineFrom(pending) /\ UNCHANGED saved

\* a run of blocks without transactions, in which nothing happens
MineEmptyBlocks ==
    /\ Grows
    /\ \A i \in Len(history) + 1 .. Len(history') :
        /\ history'[i].state = Latest.state
        /\ history'[i].txs = {}
    /\ UNCHANGED <<pending, saved>>

Edit ==
    /\ \E state \in States : history' = [history EXCEPT ![Len(history)].state = state]
    /\ UNCHANGED <<pending, saved>>

\* one transaction, with others that had to wait for it
Submit(txs) == pending' = pending \union txs /\ UNCHANGED <<history, saved>>

SubmitAndMine(tx) == MineFrom(pending \union {tx}) /\ UNCHANGED saved

Save == saved' = Append(saved, [history |-> history, pending |-> pending])

Snapshot == Save /\ UNCHANGED <<history, pending>>

SnapshotAndSubmit(txs) == Save /\ pending' = pending \union txs /\ UNCHANGED history

Revert(i) ==
    /\ history' = saved[i].history
    /\ pending' = saved[i].pending
    /\ saved' = SubSeq(saved, 1, i - 1)

Forget(i) == saved' = SubSeq(saved, 1, i - 1) /\ UNCHANGED <<history, pending>>

Next ==
    \/ Mine \/ MineEmptyBlocks \/ Edit \/ Snapshot
    \/ \E txs \in SUBSET Txs : Submit(txs) \/ SnapshotAndSubmit(txs)
    \/ \E tx \in Txs : SubmitAndMine(tx)
    \/ \E i \in DOMAIN saved : Revert(i) \/ Forget(i)

Spec == Init /\ [][Next]_worldVars

=============================================================================
