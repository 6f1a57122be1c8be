------------------------------ MODULE Fixtures -------------------------------
(***************************************************************************)
(* loadFixture and takeSnapshot of hardhat-network-helpers, over the       *)
(* snapshots of a node: a fixture is run once, and later loads of it bring *)
(* back the world it left.                                                 *)
(*                                                                         *)
(* A snapshot of the node can be used once and takes the later ones with   *)
(* it, so that restore takes a new one in its place.  A test, or a fixture *)
(* that loads others, awaits each of its calls: one call is one action.    *)
(***************************************************************************)
EXTENDS Integers, Sequences, SequencesExt

CONSTANTS
    Functions,      \* the functions a test uses as fixtures
    MaxWorlds,      \* bound on the changes made to the world
    MaxTaken,       \* bound on the snapshots taken
    MaxResets       \* bound on hardhat_reset

NothingLoaded == -1

VARIABLES
    world,          \* state and blocks of the node: the number of the change that led to them
    worlds,         \* changes so far: none leads to a world that was there before
    nodeSnapshots,  \* _snapshots of the node, the oldest first
    nextSnapshotId, \* _nextSnapshotId of the node
    taken,          \* snapshots taken so far
    snapshots,      \* snapshots of loadFixture.ts: a set, for they are found by their fixture
    running,        \* fixtures that have been called and have not returned, the latest last
    restorers,      \* for the snapshots that the test takes itself, the id that restore uses
    loaded,         \* the data that loadFixture has just returned, or NothingLoaded
    resets,
    wentBack        \* the test has restored a snapshot of its own, or reset the node

nodeState == <<world, worlds, nodeSnapshots, nextSnapshotId, taken, resets>>
fixtureVars == <<nodeState, snapshots, running, restorers, loaded, wentBack>>

FixturesInit ==
    /\ world = 0 /\ worlds = 0
    /\ nodeSnapshots = <<>> /\ nextSnapshotId = 1 /\ taken = 0
    /\ snapshots = {} /\ running = <<>> /\ restorers = <<>>
    /\ loaded = NothingLoaded /\ resets = 0 /\ wentBack = FALSE

-----------------------------------------------------------------------------
(* Requests to the node.                                                      *)

\* evm_snapshot, with the snapshots that are left
Snapshot(left) ==
    /\ taken < MaxTaken
    /\ taken' = taken + 1
    /\ nodeSnapshots' = Append(left, [id |-> nextSnapshotId, world |-> world'])
    /\ nextSnapshotId' = nextSnapshotId + 1

Found(id) == \E i \in DOMAIN nodeSnapshots : nodeSnapshots[i].id = id

\* mutant of Restore: no snapshot is taken in place of the one that was used
Restore_Once(id) ==
    /\ \E i \in DOMAIN nodeSnapshots :
        /\ nodeSnapshots[i].id = id
        /\ world' = nodeSnapshots[i].world
        /\ nodeSnapshots' = SubSeq(nodeSnapshots, 1, i - 1)
    /\ UNCHANGED <<worlds, nextSnapshotId, taken, resets>>

\* restore, of a snapshot that is there: evm_revert, and evm_snapshot to use it again
Restore(id) ==
    /\ \E i \in DOMAIN nodeSnapshots :
        /\ nodeSnapshots[i].id = id
        /\ world' = nodeSnapshots[i].world
        /\ Snapshot(SubSeq(nodeSnapshots, 1, i - 1))
    /\ UNCHANGED <<worlds, resets>>

-----------------------------------------------------------------------------
(* Calls of a test, or of the fixture that runs.                              *)

\* anything that changes the state or the blocks
Change ==
    /\ worlds < MaxWorlds
    /\ worlds' = worlds + 1
    /\ world' = worlds + 1
    /\ loaded' = NothingLoaded
    /\ UNCHANGED <<nodeSnapshots, nextSnapshotId, taken, resets, snapshots, running, restorers, wentBack>>

\* takeSnapshot, called by the test
TakeSnapshot ==
    /\ running = <<>>
    /\ world' = world
    /\ Snapshot(nodeSnapshots)
    /\ restorers' = Append(restorers, nextSnapshotId)
    /\ loaded' = NothingLoaded
    /\ UNCHANGED <<worlds, resets, snapshots, running, wentBack>>

\* restore of such a snapshot, which throws when it is not there any more
RestoreSnapshot(i) ==
    /\ running = <<>>
    /\ IF Found(restorers[i])
       THEN /\ Restore(restorers[i])
            /\ restorers' = [restorers EXCEPT ![i] = nextSnapshotId]
            /\ wentBack' = TRUE
       ELSE UNCHANGED <<nodeState, restorers, wentBack>>
    /\ loaded' = NothingLoaded
    /\ UNCHANGED <<snapshots, running>>

\* hardhat_reset: another node, whose snapshots are numbered from 1 again
Reset ==
    /\ running = <<>>
    /\ resets < MaxResets
    /\ resets' = resets + 1
    /\ world' = 0
    /\ nodeSnapshots' = <<>> /\ nextSnapshotId' = 1
    /\ loaded' = NothingLoaded
    /\ wentBack' = TRUE
    /\ UNCHANGED <<worlds, taken, snapshots, running, restorers>>

Known(f) == \E s \in snapshots : s.fixture = f

\* loadFixture of a function that it has no snapshot of: the function is called.  One that
\* loads itself would never return.
CallFixture(f) ==
    /\ ~ Known(f) /\ ~ Contains(running, f)
    /\ running' = Append(running, f)
    /\ loaded' = NothingLoaded
    /\ UNCHANGED <<nodeState, snapshots, restorers, wentBack>>

\* and returns: its snapshot is taken.  snapshotId is the id at that time and stays; id is
\* the one that restore uses.
FixtureReturns ==
    /\ running # <<>>
    /\ world' = world
    /\ Snapshot(nodeSnapshots)
    /\ snapshots' = snapshots \union
        {[fixture |-> Last(running), snapshotId |-> nextSnapshotId, id |-> nextSnapshotId,
          data |-> world]}
    /\ running' = Front(running)
    /\ loaded' = world
    /\ UNCHANGED <<worlds, resets, restorers, wentBack>>

\* mutant of Kept: the snapshots of later fixtures stay
Kept_All(id) == snapshots

\* the fixtures that loadFixture keeps after it has restored the one taken as snapshot id
Kept(id) == {s \in snapshots : s.snapshotId <= id}

\* loadFixture of a function that it has a snapshot of
RestoreFixture(f) ==
    /\ \E snapshot \in snapshots :
        /\ snapshot.fixture = f
        /\ Found(snapshot.id)
        /\ Restore(snapshot.id)
        /\ snapshots' = {IF s.fixture = f THEN [s EXCEPT !.id = nextSnapshotId] ELSE s :
                            s \in Kept(snapshot.snapshotId)}
        /\ loaded' = snapshot.data
    /\ UNCHANGED <<running, restorers, wentBack>>

\* FixtureSnapshotError, which ends the fixtures that were loading this one as well
LoadFails(f) ==
    /\ \E s \in snapshots : s.fixture = f /\ ~ Found(s.id)
    /\ running' = <<>>
    /\ loaded' = NothingLoaded
    /\ UNCHANGED <<nodeState, snapshots, restorers, wentBack>>

FixturesNext ==
    \/ Change \/ TakeSnapshot \/ Reset \/ FixtureReturns
    \/ \E i \in DOMAIN restorers : RestoreSnapshot(i)
    \/ \E f \in Functions : CallFixture(f) \/ RestoreFixture(f) \/ LoadFails(f)

FixturesSpec == FixturesInit /\ [][FixturesNext]_fixtureVars

-----------------------------------------------------------------------------
(* Properties *)

\* Ids grow with age, among the snapshots of the node and among the fixtures.
FixturesTypeOK ==
    /\ \A i \in DOMAIN nodeSnapshots : nodeSnapshots[i].id < nextSnapshotId
    /\ \A i, j \in DOMAIN nodeSnapshots : i < j => nodeSnapshots[i].id < nodeSnapshots[j].id
    /\ \A s1, s2 \in snapshots : s1.fixture = s2.fixture => s1 = s2
    /\ ToSet(running) \subseteq Functions

\* As long as the node is not reset, it is, when loadFixture returns, in the world in which
\* the fixture ended that made the data it returns.
LoadedIsRestored == resets = 0 /\ loaded # NothingLoaded => world = loaded

\* Until the test goes back by itself, whatever fixtures are loaded in whatever order, also
\* from within fixtures, each that loadFixture remembers can be loaded again: the node still
\* has its snapshot, which is of the world its data is about.
RememberedIsRestorable ==
    ~ wentBack =>
        \A s \in snapshots : [id |-> s.id, world |-> s.data] \in ToSet(nodeSnapshots)

\* A load brings back the right world or fails, and it fails only if the test went back.
FixturesAreRestored == LoadedIsRestored /\ RememberedIsRestorable

=============================================================================
