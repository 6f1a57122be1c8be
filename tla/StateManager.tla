---------------------------- MODULE StateManager ----------------------------
(* What a node needs of its state manager, on a fork too: accounts that are   *)
(* changed one at a time, checkpoints to go back to, and roots, each of which *)
(* brings back the accounts it was given out for.  A node looks at an earlier *)
(* block in between, and then goes on where it was.                           *)
EXTENDS Integers, Sequences

CONSTANTS
    Addresses, Keys,
    Fields,     \* the values of the nonce and balance of an account
    Codes,
    Values,     \* the values of a slot of the storage
    ForkBlock,  \* the last block of the remote chain that the node knows
    Remote      \* the accounts of the remote chain after each block up to that

VARIABLES
    accounts,   \* the accounts, as they are read
    stateOf,    \* the accounts that each root stands for
    checkpoints,
    saved       \* the root to go on with, while a node looks at another block

vars == <<accounts, stateOf, checkpoints, saved>>

NoCode == "0x"

Zero == "0"

Nothing == 0

Account == [fields : Fields, code : Codes, storage : [Keys -> Values]]

Empty == [fields |-> Zero, code |-> NoCode, storage |-> [k \in Keys |-> Zero]]

Init ==
    /\ accounts \in [Addresses -> Account]
    /\ \A root \in DOMAIN stateOf : stateOf[root] = accounts
    /\ checkpoints = <<>> /\ saved = Nothing

\* An account that has code is put with the code it has.
PutAccount(a, f, hasCode) ==
    /\ accounts' = [accounts EXCEPT ![a].fields = f, ![a].code = IF hasCode THEN @ ELSE NoCode]
    /\ UNCHANGED <<stateOf, checkpoints, saved>>

PutContractCode(a, c) ==
    /\ accounts' = [accounts EXCEPT ![a].code = c]
    /\ UNCHANGED <<stateOf, checkpoints, saved>>

PutContractStorage(a, k, v) ==
    /\ accounts' = [accounts EXCEPT ![a].storage[k] = v]
    /\ UNCHANGED <<stateOf, checkpoints, saved>>

ClearContractStorage(a) ==
    /\ accounts' = [accounts EXCEPT ![a].storage = Empty.storage]
    /\ UNCHANGED <<stateOf, checkpoints, saved>>

DeleteAccount(a) ==
    /\ accounts' = [accounts EXCEPT ![a] = Empty]
    /\ UNCHANGED <<stateOf, checkpoints, saved>>

\* Roots are given out for some states, and none changes its meaning.
GivesOut(states) ==
    /\ \A root \in DOMAIN stateOf : root \in DOMAIN stateOf' /\ stateOf'[root] = stateOf[root]
    /\ \A root \in DOMAIN stateOf' \ DOMAIN stateOf : stateOf'[root] \in states

GetStateRoot ==
    /\ GivesOut({accounts})
    /\ UNCHANGED <<accounts, checkpoints, saved>>

Checkpoint ==
    /\ GivesOut({accounts})
    /\ checkpoints' = Append(checkpoints, accounts)
    /\ UNCHANGED <<accounts, saved>>

Commit ==
    /\ checkpoints # <<>>
    /\ checkpoints' = SubSeq(checkpoints, 1, Len(checkpoints) - 1)
    /\ UNCHANGED <<accounts, stateOf, saved>>

Revert ==
    /\ checkpoints # <<>>
    /\ accounts' = checkpoints[Len(checkpoints)]
    /\ checkpoints' = SubSeq(checkpoints, 1, Len(checkpoints) - 1)
    /\ UNCHANGED <<stateOf, saved>>

SetStateRoot(root) ==
    /\ accounts' = stateOf[root]
    /\ UNCHANGED <<stateOf, checkpoints, saved>>

\* The node looks at the accounts of another block, a remote one or one it has a root of ...
LookAt(past) ==
    /\ saved = Nothing /\ checkpoints = <<>>
    /\ accounts' = past
    /\ GivesOut({accounts, past})
    /\ saved' \in DOMAIN stateOf' /\ stateOf'[saved'] = accounts
    /\ UNCHANGED checkpoints

LookAtRoot(root) == LookAt(stateOf[root])

LookAtBlock(blockNumber) == LookAt(Remote[blockNumber])

\* ... and goes on where it was.
GoOn ==
    /\ saved # Nothing /\ checkpoints = <<>>
    /\ accounts' = stateOf[saved]
    /\ saved' = Nothing
    /\ UNCHANGED <<stateOf, checkpoints>>

Next ==
    \/ \E a \in Addresses :
        \/ \E f \in Fields, hasCode \in BOOLEAN : PutAccount(a, f, hasCode)
        \/ \E c \in Codes : PutContractCode(a, c)
        \/ \E k \in Keys, v \in Values : PutContractStorage(a, k, v)
        \/ ClearContractStorage(a) \/ DeleteAccount(a)
    \/ GetStateRoot \/ Checkpoint \/ Commit \/ Revert
    \/ \E root \in DOMAIN stateOf : SetStateRoot(root) \/ LookAtRoot(root)
    \/ \E b \in 0..ForkBlock - 1 : LookAtBlock(b)
    \/ GoOn

Spec == Init /\ [][Next]_vars

=============================================================================
