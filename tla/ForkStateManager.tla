-------------------------- MODULE ForkStateManager --------------------------
(* The state manager of a forked node (provider/fork/ForkStateManager.ts):    *)
(* what was changed since the fork is kept beside the remote chain, which is  *)
(* asked for the rest, at the block the node looks at.  The remote roots and  *)
(* those made up here name such overlays.  Accounts, roots and overlays are   *)
(* values; the calls to the remote node, and their cache, are in              *)
(* JsonRpcClient.                                                             *)
EXTENDS Integers, Sequences, FiniteSets

CONSTANTS
    Addresses, Keys, Fields, Codes, Values,
    ForkBlock,      \* _forkBlockNumber
    Remote,         \* the accounts of the remote chain after each block up to that
    RemoteRoots,    \* the state roots of those blocks: equal for equal accounts
    MaxChanges, MaxRoots, MaxCheckpoints    \* bounds

VARIABLES
    state, stateRoot, stateRootToState, stateCheckpoints, contextBlockNumber, contextChanged,
    saved,          \* of the node: the root to go on with
    contextOf,      \* of each root, the block it was looked at when it was given out
    changes

forkVars == <<state, stateRoot, stateRootToState, stateCheckpoints, contextBlockNumber, contextChanged, saved, contextOf, changes>>

context == <<contextBlockNumber, contextChanged, saved>>

roots == <<stateRoot, stateRootToState, contextOf>>

NoCode == "0x"

Zero == "0"

Undefined == "undefined"

Null == "null"

Nothing == 0

InitialRoot == 1

\* makeAccountState, of every address
NoOverlay ==
    [a \in Addresses |->
        [fields |-> Undefined, code |-> Undefined, storage |-> [k \in Keys |-> Undefined], storageCleared |-> FALSE]]

ForkInit ==
    \E genesisAccounts \in SUBSET Addresses, f \in Fields \ {Zero} :
        /\ state = [a \in Addresses |->
                IF a \in genesisAccounts THEN [NoOverlay[a] EXCEPT !.fields = f, !.code = NoCode] ELSE NoOverlay[a]]
        /\ stateRoot = InitialRoot
        /\ stateRootToState = [root \in {InitialRoot} |-> state]
        /\ contextOf = [root \in {InitialRoot} |-> ForkBlock]
        /\ stateCheckpoints = <<>>
        /\ contextBlockNumber = ForkBlock /\ contextChanged = FALSE
        /\ saved = Nothing /\ changes = 0

-----------------------------------------------------------------------------
(* What is read: getAccount, getContractCode, getContractStorage.          *)

\* mutant of Slot: a slot that was set to zero is read from the remote chain
Slot_RemoteForNull(local, remote, k) ==
    IF local.storage[k] \notin {Undefined, Null} THEN local.storage[k]
    ELSE IF local.storageCleared THEN Zero ELSE remote.storage[k]

Slot(local, remote, k) ==
    IF local.storage[k] \notin {Undefined, Null} THEN local.storage[k]
    ELSE IF local.storageCleared \/ local.storage[k] = Null THEN Zero
    ELSE remote.storage[k]

AccountOf(local, remote) ==
    [fields |-> IF local.fields = Undefined THEN remote.fields ELSE local.fields,
     code |-> IF local.code = Undefined THEN remote.code ELSE local.code,
     storage |-> [k \in Keys |-> Slot(local, remote, k)]]

AccountsOf(overlay, blockNumber) ==
    [a \in Addresses |-> AccountOf(overlay[a], Remote[blockNumber][a])]

-----------------------------------------------------------------------------
(* Changes of an account.                                                  *)

Changes(a, local) ==
    /\ changes < MaxChanges /\ changes' = changes + 1
    /\ state' = [state EXCEPT ![a] = local]
    /\ UNCHANGED <<roots, stateCheckpoints, context>>

\* The code is not written here, but for an account that has none.
PutAccount(a, f, hasCode) ==
    Changes(a, [state[a] EXCEPT !.fields = f, !.code = IF hasCode THEN @ ELSE NoCode])

PutContractCode(a, c) == Changes(a, [state[a] EXCEPT !.code = c])

PutContractStorage(a, k, v) == Changes(a, [state[a] EXCEPT !.storage[k] = IF v = Zero THEN Null ELSE v])

ClearContractStorage(a) ==
    Changes(a, [state[a] EXCEPT !.storageCleared = TRUE, !.storage = [k \in Keys |-> Undefined]])

\* mutant of DeleteAccount: the account is no longer kept here
DeleteAccount_Forgets(a) == Changes(a, NoOverlay[a])

\* makeEmptyAccountState: an empty account is kept, or the remote one would be back.
DeleteAccount(a) ==
    Changes(a, [fields |-> Zero, code |-> NoCode, storage |-> [k \in Keys |-> Undefined], storageCleared |-> TRUE])

-----------------------------------------------------------------------------
(* Roots and checkpoints.                                                  *)

NextRoot == Cardinality({root \in DOMAIN stateRootToState : root > 0}) + 1

\* The root that stands for the overlay, a new one if it was changed.
GivenRoot == IF stateRootToState[stateRoot] = state THEN stateRoot ELSE NextRoot

WithRoot(map, root, value) == [r \in DOMAIN map \union {root} |-> IF r = root THEN value ELSE map[r]]

GetStateRootStep ==
    /\ GivenRoot <= MaxRoots
    /\ stateRoot' = GivenRoot
    /\ stateRootToState' = WithRoot(stateRootToState, GivenRoot, state)
    /\ contextOf' = WithRoot(contextOf, GivenRoot, contextBlockNumber)

GetStateRoot ==
    /\ GetStateRootStep
    /\ UNCHANGED <<state, stateCheckpoints, context, changes>>

Checkpoint ==
    /\ Len(stateCheckpoints) < MaxCheckpoints
    /\ GetStateRootStep
    /\ stateCheckpoints' = Append(stateCheckpoints, GivenRoot)
    /\ UNCHANGED <<state, context, changes>>

LatestCheckpoint == stateCheckpoints[Len(stateCheckpoints)]

PopCheckpoint == stateCheckpoints' = SubSeq(stateCheckpoints, 1, Len(stateCheckpoints) - 1)

Commit ==
    /\ stateCheckpoints # <<>>
    /\ PopCheckpoint
    /\ UNCHANGED <<state, roots, context, changes>>

GoToRoot(root) == stateRoot' = root /\ state' = stateRootToState[root]

Revert ==
    /\ stateCheckpoints # <<>>
    /\ PopCheckpoint
    /\ GoToRoot(LatestCheckpoint)
    /\ UNCHANGED <<stateRootToState, contextOf, context, changes>>

\* The node goes back to roots it took while it looked at the same block: those of its
\* blocks and snapshots on the fork, and the one before a call in any context.
SetStateRoot(root) ==
    /\ contextOf[root] = contextBlockNumber
    /\ GoToRoot(root)
    /\ UNCHANGED <<stateRootToState, contextOf, stateCheckpoints, context, changes>>

-----------------------------------------------------------------------------
(* _runInBlockContext: the root is taken, and another block looked at.     *)

\* The fork block, a local block, or one with an irregular state: its root is known.
SetBlockContextToRoot(root) ==
    /\ saved = Nothing /\ stateCheckpoints = <<>>
    /\ contextOf[root] = ForkBlock
    /\ GivenRoot <= MaxRoots
    /\ saved' = GivenRoot
    /\ stateRootToState' = WithRoot(stateRootToState, GivenRoot, state)
    /\ contextOf' = WithRoot(contextOf, GivenRoot, contextBlockNumber)
    /\ GoToRoot(root)
    /\ UNCHANGED <<stateCheckpoints, contextBlockNumber, contextChanged, changes>>

\* A block before the fork: nothing of it was changed here.
SetBlockContext(blockNumber) ==
    LET root == RemoteRoots[blockNumber] IN
    /\ saved = Nothing /\ stateCheckpoints = <<>>
    /\ GivenRoot <= MaxRoots
    /\ saved' = GivenRoot
    /\ state' = NoOverlay
    /\ stateRoot' = root
    /\ stateRootToState' = WithRoot(WithRoot(stateRootToState, GivenRoot, state), root, NoOverlay)
    /\ contextOf' = WithRoot(WithRoot(contextOf, GivenRoot, contextBlockNumber), root, blockNumber)
    /\ contextBlockNumber' = blockNumber
    /\ contextChanged' = TRUE
    /\ UNCHANGED <<stateCheckpoints, changes>>

\* mutant of RestoreForkBlockContext: reads go on at the block that was looked at
RestoreForkBlockContext_KeepsNumber ==
    /\ saved # Nothing /\ stateCheckpoints = <<>>
    /\ GoToRoot(saved)
    /\ contextChanged' = FALSE
    /\ contextBlockNumber' = contextBlockNumber
    /\ saved' = Nothing
    /\ UNCHANGED <<stateRootToState, contextOf, stateCheckpoints, changes>>

RestoreForkBlockContext ==
    /\ saved # Nothing /\ stateCheckpoints = <<>>
    /\ GoToRoot(saved)
    /\ contextChanged' = FALSE
    /\ contextBlockNumber' = IF contextChanged THEN ForkBlock ELSE contextBlockNumber
    /\ saved' = Nothing
    /\ UNCHANGED <<stateRootToState, contextOf, stateCheckpoints, changes>>

ForkNext ==
    \/ \E a \in Addresses :
        \/ \E f \in Fields, hasCode \in BOOLEAN : PutAccount(a, f, hasCode)
        \/ \E c \in Codes : PutContractCode(a, c)
        \/ \E k \in Keys, v \in Values : PutContractStorage(a, k, v)
        \/ ClearContractStorage(a) \/ DeleteAccount(a)
    \/ GetStateRoot \/ Checkpoint \/ Commit \/ Revert
    \/ \E root \in DOMAIN stateRootToState : SetStateRoot(root) \/ SetBlockContextToRoot(root)
    \/ \E b \in 0..ForkBlock - 1 : SetBlockContext(b)
    \/ RestoreForkBlockContext

ForkSpec == ForkInit /\ [][ForkNext]_forkVars

-----------------------------------------------------------------------------
(* Properties, and what they take for granted.                             *)

ForkTypeOK ==
    /\ state \in [Addresses -> [fields : Fields \union {Undefined}, code : Codes \union {Undefined},
                              storage : [Keys -> Values \union {Undefined, Null}], storageCleared : BOOLEAN]]
    /\ stateRoot \in DOMAIN stateRootToState
    /\ DOMAIN contextOf = DOMAIN stateRootToState
    /\ contextBlockNumber \in 0..ForkBlock

\* The accounts as they are read, and the accounts that the roots stand for.
S == INSTANCE StateManager WITH
    accounts <- AccountsOf(state, contextBlockNumber),
    stateOf <- [root \in DOMAIN stateRootToState |-> AccountsOf(stateRootToState[root], contextOf[root])],
    checkpoints <- [i \in DOMAIN stateCheckpoints |->
                        AccountsOf(stateRootToState[stateCheckpoints[i]], contextOf[stateCheckpoints[i]])]

\* The remote chain: blocks with accounts, and roots that say which accounts they have.
RemoteIsConsistent ==
    /\ ForkBlock \in Nat
    /\ Remote \in [0..ForkBlock -> [Addresses -> S!Account]]
    /\ RemoteRoots \in [0..ForkBlock -> {root \in Int : root < 0}]
    /\ \A b, c \in 0..ForkBlock : RemoteRoots[b] = RemoteRoots[c] => Remote[b] = Remote[c]

\* What is put is a value, and the values of an account without anything are values.
ValuesAreValues ==
    /\ Undefined \notin Fields /\ Zero \in Fields
    /\ Undefined \notin Codes /\ NoCode \in Codes
    /\ Undefined \notin Values /\ Null \notin Values /\ Zero \in Values

\* Each operation does what it is asked to.
DoesAsAsked ==
    /\ \A a \in Addresses :
        /\ \A f \in Fields, hasCode \in BOOLEAN : PutAccount(a, f, hasCode) => S!PutAccount(a, f, hasCode)
        /\ \A c \in Codes : PutContractCode(a, c) => S!PutContractCode(a, c)
        /\ \A k \in Keys, v \in Values : PutContractStorage(a, k, v) => S!PutContractStorage(a, k, v)
        /\ ClearContractStorage(a) => S!ClearContractStorage(a)
        /\ DeleteAccount(a) => S!DeleteAccount(a)
    /\ GetStateRoot => S!GetStateRoot
    /\ Checkpoint => S!Checkpoint
    /\ Commit => S!Commit
    /\ Revert => S!Revert
    /\ \A root \in DOMAIN stateRootToState :
        /\ SetStateRoot(root) => S!SetStateRoot(root)
        /\ SetBlockContextToRoot(root) => S!LookAtRoot(root)
    /\ \A b \in 0..ForkBlock - 1 : SetBlockContext(b) => S!LookAtBlock(b)
    /\ RestoreForkBlockContext => S!GoOn

\* What a forked node reads is what one would read that holds every account: deleted
\* accounts and cleared slots stay empty though the remote chain has them, checkpoints and
\* roots bring back the accounts they were taken for, and after a look at an earlier block
\* the node goes on with the accounts it had.
ImplementsStateManager == S!Init /\ [][DoesAsAsked]_forkVars

=============================================================================
