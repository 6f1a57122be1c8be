# polkahat: a TLA+ model of the development node

polkahat is a development environment for smart contracts: a task runner, a compiler
pipeline, an in-process Ethereum node ("Hardhat Network") and plugins. This directory
models the parts whose correctness depends on histories, not on single calls: the node and
what stands in front of it, its fork of a remote chain, and the files that the compiler
pipeline keeps between runs. All paths below are relative to
`src/packages/hardhat-core/src/internal/hardhat-network/provider/` unless they say
otherwise.

## 1. The system

### Components, their state and their operations

| component | state | operations |
|---|---|---|
| `HardhatNetworkProvider` (`provider.ts`) | the mutex, the node (created lazily), its mining timer, the listener for its events | `request`, `_init`, `_reset`, the timer's own `hardhat_intervalMine` requests |
| `Semaphore` (`internal/vendor/await-semaphore`) | free permits, queue of callers, ticks that were asked for | `acquire`, `_sched`, release |
| `MiningTimer` (`MiningTimer.ts`) | running or not, block time, the latest timeout, the loops alive | `start`, `stop`, `setBlockTime`, `_loop` |
| `HardhatNode` (`node.ts`, `modules/evm.ts`, `modules/hardhat.ts`) | clock offset, next timestamp, snapshots, states edited by hand, the world state, filters, accounts | `mineBlock`, `mineBlocks`, `sendTransaction`, `takeSnapshot`, `revertToSnapshot`, edits, reads in the context of another block |
| `TxPool` (`TxPool.ts`, `PoolState.ts`, `utils/reorganizeTransactionsLists.ts`) | pending and queued lists per sender, the hash index, block gas limit, snapshots, arrival counter | add, replace, remove, `updatePendingAndQueued`, `setBlockGasLimit`, snapshot and revert |
| `HardhatBlockchain` (`HardhatBlockchain.ts`, `BlockchainBase.ts`, `BlockchainData.ts`) | six maps of blocks, transactions, receipts and difficulties, a list of reservations, the length | `addBlock`, `reserveBlocks`, `getBlock` (which makes reserved blocks), `deleteLaterBlocks` |
| transaction queue (`TransactionQueue.ts`, and the loops of `node.ts` around it) | a heap, the rest of each sender's list; minimum gas price, next base fee | `getNextTransaction`, `removeLastSenderTransactions`; filling a block, mining until nothing is pending |
| filters and subscriptions (`node.ts`, `filter.ts`) | hashes and logs not collected yet, deadlines | create, poll, remove; fed by every block |
| fork (`fork/*`, `jsonrpc/client.ts`) | local chain and state over remote ones, caches in memory and on disk | lookups, checkpoints, fork context |
| JSON-RPC server (`jsonrpc/handler.ts`) | the subscriptions of each websocket | messages, notifications, close |
| compiler downloader and multi-process mutex (`internal/solidity/compiler/downloader.ts`, `internal/util/multi-process-mutex.ts`) | lock file, compiler files | `downloadCompiler`, `use` |
| HTTP provider and wrappers (`internal/core/providers/*`) | request ids, values cached per provider | `request`, `sendBatch`, retries |
| network helpers (`packages/hardhat-network-helpers`) | the list of fixtures and their snapshots | `loadFixture`, `takeSnapshot`, `restore` |
| compile task, artifacts, cache; resolver; tasks and configuration; plugins | files | sequential pipelines |

### How they interact

Clients (and the loops of the mining timer, which are clients too) call
`HardhatNetworkProvider.request`. It acquires a semaphore with one permit, creates the
node if there is none, hands the request to one of the modules, and releases. So one
request at a time runs inside a node; what interleaves is everything before the mutex (who
waits, timers that fire, a reset that replaces the node while others wait for it), and
within a request the system clock, and failures between its steps. `HardhatNode` calls the
pool and the chain synchronously; snapshots of the three are taken and reverted together,
by number. Node events go through the provider to its listeners.

### What is hard about it

* The mutex is released by callbacks that run on later ticks; a request may throw before
  the `try` that releases it.
* The mining timer awaits its callback; it can be stopped, restarted or dropped meanwhile.
* Five structures (chain, pool, states edited by hand, snapshots, clock) have to go back
  together on a revert, on a failing automined transaction and after every read in the
  pending block.
* Time: an offset to a clock whose seconds are rounded up, timestamps given by hand, blocks
  whose timestamps are computed long after they were "mined" (reservations).
* A block is filled from a queue that changes while it is walked through; a transaction that
  does not fit, or does not pay the base fee, waits for a later block, for which its sender
  may be too poor.
* The pool keeps the same transaction in a list and in an index, and moves it between lists
  as a result of changes elsewhere.
* Filters are told of blocks as they are mined; blocks are taken back, the answers to
  subscriptions travel while sockets close, and ids start again after a reset.
* A fork's state is an overlay whose holes are read from the remote chain, at a block that
  changes for the length of a request; its client caches answers of a chain that may still
  be reorganised.
* Compile tasks fail or stop between the files they write, while files are edited;
  downloads are made by several processes that share a lock file which may be stale.

### What makes each part correct

Provider: requests take turns and every one is answered; one node, one running timer, one
source of events. Timer: running means armed; stopped means running out. Pool: pending lists are executable
without gaps, nothing executable is queued, the index agrees, nothing is lost, arrival
numbers are unique. Queue: blocks take what pays best until nothing fits, and mining ends. Chain: lazily made blocks are indistinguishable from blocks made in
time. Node: one consistent history of blocks, states, pending transactions and snapshots,
with timestamps that increase while the clock is not turned back. Filters: told everything of the chain once. Connections: sent
their own events. Fixtures: a load brings back the world the fixture left. Fork: reads as if the node held every account; cached answers stay true.
Compile: artifacts as a full compilation would make them. Downloads: one at a time, and
what is found runs. `PROJECT.json` lists the hazards behind these, each at its line.

## 2. The modules

| module | models | specification it is measured by |
|---|---|---|
| `Semaphore` | the vendored semaphore | its own invariants |
| `MiningTimer` | one timer: record `timer`, operators for the synchronous methods, actions for timeouts and for the end of the mining function | its own invariants |
| `Provider` | `provider.ts`; instances of `Semaphore` (its mutex) and of `MiningTimer` (one timer per node) | its own properties |
| `TxPool` | the pool, and the node's calls that change the accounts under it | its own invariants |
| `TransactionQueue` | extends `TxPool`: the queue, `_mineBlockWithPendingTxs` transaction by transaction, the loop of an automined transaction, base fee and minimum gas price | what a greedy builder may choose, read off the pool |
| `HardhatBlockchain` | the chain without a fork, with all its maps | refines `Chain` |
| `ForkBlockchain` | the chain of a forked node: extends `HardhatBlockchain` by a remote chain, and its lookups | refines `Chain`, from the fork on |
| `Chain` | a sequence of blocks that grows and is cut back | abstract |
| `HardhatNode` | the node over an abstract chain and pool | refines `World` |
| `World` | a history with the state after each block, pending transactions, saved copies of both | abstract |
| `Filters` | the filters and subscriptions of a node, `filter.ts`, and the requests on them | what each filter was given, against the chain |
| `WebSockets` | the subscriptions of websocket connections (`jsonrpc/handler.ts`) | what each connection was sent |
| `ForkStateManager` | the overlay of accounts of a forked node, its roots, checkpoints and block contexts | each operation does what it does in `StateManager` |
| `StateManager` | accounts, roots and checkpoints, as the node and the EVM count on them | abstract |
| `JsonRpcClient` | what the client of a fork caches, in memory and on disk | the remote chain |
| `GasEstimation` | `estimateGas` and its search | the least gas that is enough |
| `Fixtures` | `loadFixture` and `takeSnapshot` over the snapshots of a node | the world each fixture left |
| `Compile` | the compile task: dependency graph, jobs, cache file, artifacts, debug files and build infos | what a full compilation would make |
| `Downloader` | the multi-process mutex and the download of a compiler under it | its own invariants |
| `*Proofs` | theorems about the module they extend | |
| `MC*` | the instances TLC checks | |

Operators with an underscore (`Sched_LastFirst`) are mutants: what a plausible slip in the
code of the operator before the underscore would be. No action uses them; each shows that
the property named for it in `PROJECT.json` depends on that code.

Modules that share nothing are checked in one run where that saves one: the `MC` module
has a variable `part`, fixed at the start, that says which of them a behaviour is one of;
the variables of the others stay as they are. `MCMutexAndTimer`, `MCProvider`, `MCTxPool`,
`MCCompile`, `MCHardhatBlockchain` are of this kind, and so is `MCHardhatNode`, whose three
parts are three instances of the same module with different bounds.

### How state and actions correspond to the code

* **Granularity.** JavaScript is atomic between awaits. In `Semaphore`, `MiningTimer`,
  `Provider` and `WebSockets` an action is the code between two awaits, or a whole handler
  if only the holder of the mutex can see what it changes. In `TxPool`,
  `HardhatBlockchain`, `ForkBlockchain`, `HardhatNode`, `Filters` and `ForkStateManager` an action is a whole
  call, since the mutex keeps other requests out, except where a request consists of several
  blocks (`mineBlocks`, automining with a full pool) or of a block that is taken back
  (`_runInPendingBlockContext`): these are tasks of several steps, between which the clock
  may advance and any step may fail. `TransactionQueue` looks inside one block: a step is one
  transaction of the queue. In `Fixtures` a step is one call that the test awaits. In `Compile` and `Downloader`, where processes may stop
  anywhere and several run at once, an action is one write to disk.
* **Semaphore.** `count`, `tasks` and `holders` (who has a permit) are the fields; `ticks`
  counts calls of `_sched` deferred with `process.nextTick`. `Acquire` queues the caller and
  asks for a tick; `Release` gives the permit back and schedules at once.
* **MiningTimer.** A timer is a record; `pending` are timeouts that are set, `mining` loops
  that await the mining function, `timeout` the only handle the object remembers. The
  length of a block time does not matter to order, only whether it is zero and whether it
  changes.
* **Provider.** `request[c]` is what a caller is waiting for; a `hardhat_reset` continues as
  `Resetting` after it has dropped the node. Handlers that change nothing of the provider
  are one step.
* **TxPool.** A transaction is a record of what the pool reads of it, and stands for its
  hash. A pending list is a sequence; of a queued list only the members matter, because
  it is sorted whenever it is read. `MineBlock`, `SetBalance` and `SetNonce` are the node's
  calls that change accounts. Only the first ends with a refresh of the pool
  (`updatePendingAndQueued`); the others leave it as it is.
* **TransactionQueue.** `builder` is the block builder with the queue it is filled from and
  its own copy of the accounts, which become those of the state when the block is done;
  `request` is what the request that mines has still to do: one block (`once`), adding its
  transaction (`adding`), blocks until that is included (`until_included`), blocks until
  nothing is pending (`until_empty`). The queue of a block is ordered by the base fee of that
  block. Executing a transaction takes the least gas or all of its limit. The base fee
  follows `calcNextBaseFee`, in units small enough for 8 to be a base fee. It uses `TxPool`'s
  own `AddTransaction`, `UpdatedPool`, `Snapshot` and `Revert`: an automined transaction that
  finds others in the pool takes a snapshot and goes back to it when anything throws
  (`GoBack`), as `_mineTransactionAndPending` does.
* **HardhatBlockchain.** A block stands for its hash. `GetBlock` of a reserved number makes
  the block, splits the reservation and, when the block before is missing, fails as the
  code does. The refinement maps the maps to a sequence in which reserved numbers already
  have the block they would get.
* **ForkBlockchain.** The maps are those of `HardhatBlockchain`, with `_transactions` beside
  them; the actions on local blocks are its actions. `RemoteBlocks` is the remote chain,
  which goes on after the fork and does not change (that is `JsonRpcClient`'s part).
  `GetBlockByNumber`, `GetBlockByHash`, `GetTransaction`, `GetBlockByTransactionHash` and
  `GetTransactionReceipt` are lookups that fetch something and keep it; what lookups answer
  is read off the maps and the remote chain by the operators after them. `addBlock` raises
  `_latestBlockNumber` before it awaits the parent's total difficulty; the parent is stored
  by then, because the node has read it to mine, so that nothing can fail in between.
* **HardhatNode.** `chain[n + 1]` is block `n`, with the state its root denotes. The clock
  `now` counts ticks, several to a second, so that the rounding of
  `getCurrentTimestamp` and of the elapsed time of a revert is visible. `irregularStates`
  is the map of states edited by hand. The pool keeps its own snapshots by id, as in the
  code, where `_removeSnapshot` leaves them behind. Of the pool only the pending transactions
  are in this module. A queued one shows when a transaction is added: some of those that are
  in no block may then become pending with it (`AddTransaction`), and `StartSend`, for a pool
  that is not empty, may find it without pending ones. `evm_increaseTime` takes any number
  (`Increments`), a negative one too; `InTime` bounds it so that the clock does not go to 0 or
  before, where no block can be made, nor past `MaxTime`. Numbers that are not whole are
  refused by `BigInt` and change nothing.
* **Filters.** A filter records all it was ever given (`history`) and how much of it polls
  have collected; a bloom contains what is in the block and perhaps more. Blocks have a
  flag that says whether they were announced: reserved ones are not. The logs of one answer,
  or of one block, are given in some order, which no property is about.
* **WebSockets.** Between a request and its answer lie two steps, at which the connection
  may close and the node may be replaced.
* **ForkStateManager.** An account is its fields (nonce and balance), code and storage. A
  root is a number: a positive one was made up here, a negative one is the root of a remote
  block. `contextOf` is not in the code: it remembers at which block a root was given
  out, for the refinement mapping and for the guard of `SetStateRoot`, which says what
  the callers do (they go back to roots of the context they are in, `node.ts:2294-2302` and
  `2541-2676`). An overlay that equals the registered one counts as the same map, while the
  code compares references and may make up one more root of the same meaning.
* **JsonRpcClient.** A block of the remote chain is a name. A request is sent in one step
  and answered in another, and the chain may be reorganised in between, to `MaxReorg` blocks
  at most: that is the meaning of `_maxReorg`. A batch is cached whole, like one request.
* **Fixtures.** The state and the blocks of the node are one number, `world`, and no change
  leads to a world that was there before. `snapshots` is the list of `loadFixture.ts`, a set
  here because a fixture is found by its function and filtering keeps any order, with the
  two ids it knows a snapshot by: `snapshotId`, which the restorer returned and never
  changes, and `id`, which `restore` uses. `running` are the fixtures that have been called
  and have not returned: a fixture may load others.
* **GasEstimation.** The numbers are the real ones. A step is one run of the transaction,
  whose outcome is the EVM's: a steady transaction succeeds with `least` gas and with more,
  any other as it likes. `succeeded` is not in the code: it remembers which amounts were
  tried.
* **Compile.** `EmitArtifacts` writes all the contracts of a file in one step: the code
  starts these writes together (`Promise.all`), and a stop that leaves some of them written
  is not told from one before or after. Between files, and between the artifacts and the debug
  files of one, a process may stop. A content stands for a file's text and its hash; what solc makes of a file
  is determined by the contents it reads and by the configuration. What a file reads, and the
  connected component it is in, are `Reachable` in a graph: that is the least set with the
  file that is closed under the edges, which is what a proof needs to know of it. Two
  variables are not in the code and only say which files the properties leave out:
  `unrecorded` has the files that a task emitted without recording it, `leftOut` those that no
  task looked at when one that they were made from was compiled again.
* **Downloader.** `lock` says who wrote the lock file, which the file does not; only
  `lost`, `overstayed` and the properties look at that. Of its age counts whether it is
  past the lifespan. The native build and the wasm build have a folder each.

### Decisions a reader may question

* `hardhat_mine` is allowed to fail between blocks only while transactions are pending:
  mining an empty block has no failure on a chain that is not forked.
* The ids of the pool's snapshots equal those of the node: the node is the only caller, and
  both counters advance in the same synchronous stretch.
* The code reserves when more than five blocks remain; the constant `ReserveAbove` is 1 in
  the runs, so that chains of five blocks show every stage. Nothing else depends on it.
* What a block makes of the world state is external: any state may follow. Which pending
  transactions it takes is any subset; which others become invalid, any subset.
* `CallWithBadOverrides`: a call whose overrides are refused at the first address changes
  nothing; one refused later leaves what came before (see section 6). The passing runs have
  `OverriddenStates = {}`, so that only the first kind happens in them.
* `PutAccount` of a fork with code (`hasCode`) is put with the code the account has: the
  manager ignores the code hash it is given, and the EVM and `modifyAccountFields` pass the
  one they have read.
* `CleanGlobal` (`hardhat clean --global`) happens while no process downloads; the code has
  no lock against it.
* The temporary file of a download is written in one step: one that is cut off is not
  moved, and is overwritten by the next download.

## 3. The runs

| run | question | bounds and why they are enough |
|---|---|---|
| `mutex_and_timer` | are permits conserved, wake-ups never lost, callers served in order; does a running timer keep mining and a stopped one run out, whatever is called while it mines; do events reach the connection that subscribed, and do subscriptions end with it | 4 callers, 2 permits: callers queue behind each other while permits are free and while ticks are pending; 5 ticks exceed what 4 callers leave pending in any interesting state. Block times 0 (off), 10, 20; 4 handles: two more loops than the overlap below needs. 2 connections, 2 subscriptions and a reset: an id is given out again |
| `mining_timer_overlap` | (violated) does the timer mine one block at a time | same |
| `provider_and_fork` | one node, one timer, one source of events; do requests take turns, and does the mutex go on to the next caller when one is refused, fails or resets the node; is every request with array params answered, do old loops end, does interval mining survive; does a forked chain read as one | 2 clients, 3 requests: a reset, a change of the interval and one more, with up to 4 nodes each with a timer. A forked chain of 6, with 2 remote blocks up to the fork, 1 after it, and a transaction in each of the last two: 4 local blocks, one of which may hold the transaction that the remote chain has after the fork |
| `provider_object_params` | (violated) is every request answered when params may be objects | 2 requests: one refused, one that then waits |
| `tx_pool` | lists, index, arrival numbers and limits under every mixture of operations; are blocks filled by what pays best, and does a request that mines end | 2 senders, nonces 0..2, 5 transactions: a replacement in a list and in the queue, one that needs the larger block, one that needs the larger balance; 1 snapshot, 3 arrivals. For the queue 2 senders with 2 transactions each, and a replacement: of different fees, of which some do not pay the next base fee or the minimum gas price, and not all fit in a block of gas 3 or 4; those of a sender are affordable each but not together; with and without EIP-1559, both orders. Both parts check all the properties: the pool goes through the steps of its callers in the one, and through those of mining requests in the other. The one snapshot lets one automined transaction find others in the pool |
| `tx_pool_index` | (violated) is every listed transaction in the index | same |
| `unknown_reason` | (violated) is an automined transaction included, or still pending, when a block is done | same |
| `blockchain` | do the maps agree, and do lazily made blocks equal those of an eager chain; does a fork read what a node would that holds every account; do cached answers stay true; is every filter told what it waits for, once; does a fixture bring back its world; is an estimation of gas enough and close | reservations of 2 and 3 blocks in a chain of 6: room for two reservations, read at first, last, middle and only number. State forked at block 2 of a chain whose first two blocks share a state and root, 1 account with 1 slot (accounts and slots do not touch each other), 2 changes between 2 roots and 2 nested checkpoints, before, in and after a look at another block. Remote chain of 4 blocks, reorganisations of 1 or 2, restarts and cut-off files: the first block becomes final, the last two never are. 1 filter, 4 events (blocks, transactions, ticks), 3 kinds of criteria (one topic or another, an address in a range of blocks, a null among the topics), pending reads and reverts. 3 fixtures that may load each other, 2 changes, 4 snapshots, a reset. Estimations in blocks of 120 thousand, 30 million and 2 thousand million gas (there the rounds run out), of calls that need just more than they are charged, than a tolerance, or than a block has |
| `node` | do blocks, states, pool and snapshots stay one history; do timestamps increase while the clock is ahead, and by what does it fall behind; does a revert restore it | history part: 2 states, 2 transactions, 3 blocks, 2 nested snapshots, 1 second; clock part: 2 ticks to a second, 3 seconds, `hardhat_mine` of 4 blocks with a reservation in a chain of 5, 1 snapshot, `evm_increaseTime` of 1 to 3; turned part: the same with -1, in a chain of 4: behind by one second or two, with a snapshot taken behind and one taken ahead |
| `node_overrides` | (violated) is the state after a failed call the state before it | 2 states |
| `compile` | is what an incremental compilation leaves what a full one would, whatever was edited, lost or stopped; do processes download one at a time and end | 2 files and a library that one of them may import, each with a content that changes its imports or contracts and one that does not compile; two configurations, one with the optimizer bug; 4 edits, losses or processes. 2 processes, 3 calls, 1 failing request, 1 stop |
| `compile_after_failure` | (violated) the same, also for files that a failed task emitted | 2 files without imports, 7 events: two tasks with an edit before, between and after |

`CHECK_DEADLOCK FALSE` is said where the bounds, not the program, end a behaviour (the
requests run out, the chain is full, all websockets are closed). The runs of the pool check
deadlock; that no caller of the semaphore waits for ever is a property of its own. Symmetry is used in `node`, over states and transactions, which
nothing orders, and with safety properties only (a refinement without fairness is one).

With `AllowBlocksWithSameTimestamp = TRUE` and intervals that include 0, the clock part and
the turned part of `node` pass as well (in chains of 4); they are not a run of their own
because they ask nothing new.

### Properties

Each is stated in words at its definition. A property with a general name is the
conjunction of named parts, which say more. The ones that took thought:

* `PermitsAreSafe` (`Semaphore`): permits are conserved, and a free permit and a waiting
  caller imply a tick under way. `CallersAreServed`: in the order in which they asked.
* `RequestsTakeTurns` (`Provider`): one request at a time holds the mutex; and as long as
  params are arrays none keeps it after its answer, so that whoever waits, waits for a
  request under way or for a tick. It holds of the handlers that answer, of those that throw,
  of a node that cannot be made and of a reset.
* `LoopsFollowTheNode` (`Provider`): the loop of a running timer gets the mutex again and
  again, whatever fails, and the loops of nodes that were dropped end.
* `NothingIsLost` (`TxPool`): a transaction leaves the pool only by being mined, removed,
  replaced, invalid, or reverted. `QueuedCanBeMinedLater`, `EntriesAreUnique`: see the parts.
* `BlocksAreGreedy` (`TransactionQueue`): what the heap and the passing over of senders leave
  in a block is what a builder that looks at the whole pool before each transaction would
  take, and a finished block has room for nothing more. `AutomineEnds`: the loop of an
  automined transaction ends, unless a pending one pays less than the minimum gas price or
  than what the base fee can fall to.
* `MapsHoldOneChain`, `ImplementsChain` (`HardhatBlockchain`): nothing is
  lost or made twice when reservations are split, the six maps say the same, and no reader
  can tell that reservations exist.
* `StateIsCurrent`, `HistoryIsKept`, `RevertRestoresClock`, `ImplementsWorld`
  (`HardhatNode`).
* `TimeIsInOrder` (`HardhatNode`): `mineBlock` looks for equal timestamps only, which is enough
  while the adjusted clock is not behind the latest block. So: blocks that come while it is
  ahead follow the latest one in time, all of a reservation included; it gets behind only by
  a negative number given to `evm_increaseTime`, or by going back to a snapshot taken while
  it was behind; and the next block puts it right. A timestamp set for the next block stays
  possible in any case. That timestamps increase all along the chain is proved for clocks that
  are never turned back (`TimestampsStayOrdered`), and false of others (see section 6).
* `ImplementsForkedChain`, `AnswersAreOfTheChain` (`ForkBlockchain`): the chain is the remote
  one up to the fork and then one that does what `Chain` does; every lookup, by hash, by
  transaction, for receipts, difficulties or logs on both sides of the fork, answers for that
  chain, whatever was fetched, mined or taken back before.
* `FiltersAreServed` (`Filters`): each log of the chain that a filter asks for was given to it
  exactly once, whether its block came before the filter or after, whatever the bloom says,
  and no other log was (what only a null among the topics matches may be left out, see
  section 6, but is not given twice);
  blocks once and in order, through reverts and reads of the pending block. A filter that is
  polled within its lifetime stays. `LogsAreGiven` says what is wanted (`Wanted`) on its own,
  not with the operators that the filter uses.
* `SubscriptionsFollowTheirSocket` (`WebSockets`): a connection is sent all the events of its
  subscriptions and no others, and its subscriptions end with it.
* `FixturesAreRestored` (`Fixtures`): a load that returns has restored the world that its data
  is about, and as long as the test does not go back by itself no load fails.
* `ImplementsStateManager` (`ForkStateManager`): operation by operation, with its
  arguments. A plain refinement would also accept a manager that writes another value than
  the one it was given.
* `AnswersStayTrue` (`JsonRpcClient`): what is kept is what the remote node would answer now.
* `EstimationsAreSound` (`GasEstimation`): the answer was tried, or is all that a block has;
  it is not below the least sufficient gas, and above it by at most the tolerance of the
  code; no attempt is refused for too little gas.
* `TasksAreComplete`, `FilesAgree` (`Compile`): a task that ends well leaves the artifacts and
  build infos that compiling everything would make, and nothing to compile; and what a later
  task goes by, the cache file and the folder of artifacts, agree wherever a task stopped.
  `ArtifactsAreCurrent` leaves out `unrecorded` and `leftOut` files, for which the code does
  not see to it (see section 6).
* `DownloadsAreSound` (`Downloader`): two processes are at work only after a lock was
  lost, which takes an overlong download or a process that stopped; and who gets a compiler
  gets one with the listed hash that runs. `DownloadsEnd`: a lock left behind does not
  block for ever.

## 4. Fairness

Stated only where liveness is checked, and always weak.

* `Semaphore`: ticks run (Node.js runs every `nextTick` callback), holders release (for
  the provider this is shown in `Provider`, not assumed).
* `MiningTimer`: a timeout that is not cleared fires; the mining function returns.
* `Provider`: ticks and timeouts as above; every handler and every node creation ends, with
  a result or an error. Nothing is assumed of clients, and nothing says that a creation
  succeeds.
* `WebSockets`: an `eth_unsubscribe` that the close of a connection sent is handled
  (`Unsubscribe`), as `Provider` shows of every request.
* `Downloader`: a process that runs takes its next step (a request has a timeout, the
  waiting loop a timer), and time passes, so that a lock that stays gets old. Processes may
  stop, which ends what is assumed of them.

* `TransactionQueue`: a request that mines takes its next step (`Mining`); nothing is assumed
  of requests that have not begun.

The other modules have no liveness properties: their calls are sequential.

## 5. What is proved

TLAPS checks these for every value of the constants that satisfies the named `ASSUME`s
(which type the constants and keep them apart); theorems with a further hypothesis name it in their
statement. TLC evaluates the assumptions in the runs, and so it does the hypotheses
`NamesDiffer` of `CompileProofs`, and `RemoteIsAChain`, `RemoteIsConsistent` and
`ValuesAreValues` of `ForkProofs`.

* **`MutexAndTimerProofs`**. Of the semaphore: `TypeCorrect`, `PermitsConserved`,
  `WakeupsAreNotLost`, together `PermitsStaySafe`. The inductive invariant is the conjunction
  of all three and the finiteness of the set of holders, without which cardinalities say
  nothing. `SchedLemma` treats `_sched` once for both of its callers. Of the timer:
  `TimerTypeCorrect`, `RunningTimerIsArmed`. The invariant says that
  the remembered timeout of a running timer is set, or some loop is mining, and that no loop
  is both. The synchronous methods are lemmas, since actions compose them. Of the
  connections: `ConnectionsTypeCorrect` and `EventsStayWithTheirSocket`, the safety half of
  `SubscriptionsFollowTheirSocket`, for any number of connections, subscriptions and resets.
  `HearTheirOwn` is not inductive alone: that an id a connection knows, or is about to be
  told, was handed out to it (`IdsAreTheirOwn`) holds until a reset hands ids out again. A
  step of one connection that hands out nothing is one lemma (`OneConnectionLemma`), which
  four actions use. `TypesStayCorrect` puts the three side by side, as the run does.
* **`ProviderProofs`**: `RequestsKeepTakingTurns`, for any number of clients and timers. That
  the one permit is free or held by one caller, and that a free one that somebody waits for
  has a tick under way, is inductive (`OnePermit`). That holders have requests is so only
  while params are arrays: who waits has sent a request (part of `TypeCorrect`), an answer
  hands the mutex to one who waits, and a request that is refused for its params was sent by
  a client (`ObjectParamsOfClients`), so that `ArrayParamsOnly` excludes it. Further
  `OldTimersStopped` with `ForwardsCurrentNode`, together `OneNodeStaysAlive`. The invariant `OneNode` adds that
  nodes are numbered in the order of their creation, so that the next node's timer is not in
  use. `TypeCorrect` says that the numbers of nodes and of loops which `MaxRequests` leaves
  room for are enough, so that the bounds of the runs cut nothing off. Its invariant counts
  (`Budgeted`): the nodes created, and the loops of each timer, are no more than the requests
  that clients have sent and got spent, for one request drops one node or restarts a timer
  once; a free handle is left for the next one. The methods of the timer are lemmas that say
  by how many loops each adds to it.
* **`TxPoolProofs`**: `TypeCorrect`, `PendingExecutable`, `QueuedWait`,
  `EntriesStayUnique` and `NothingGetsLost`. That pending lists have no gap
  is inductive only together with the same fact about every saved snapshot
  (`GapFreeInv`). `CutNonces` describes where `updatePendingAndQueued` cuts a list;
  `RunEnd` what the promotion of queued transactions appends. On it rests `QueuedWait`,
  under `Contracts = {}` (see the divergences): without gaps the next pending nonce is the
  confirmed one plus the length of the list, what is promoted ends where the queue has a
  hole (`LeftByRun`), and what a cut moves to the queue lies between the cut and what was
  queued before (`UpdateKeepsQueues`). `EntriesStayUnique` needs only what each operation
  takes out of the lists and the index and what it brings in (`Differs`, `UpdateContents`);
  its invariant, too, is that of the pool and of every snapshot. `NothingGetsLost` needs that
  each list holds transactions of its own sender (`SendersInv`): an addition then replaces
  one of the same sender and nonce (`AddReplaces`), and an update drops only what was
  executed, overtaken or cannot be paid or fit any more (`DroppedByUpdate`).
  The second half of the module is about the steps of `TransactionQueue`.
  * `BuildingKeepsThePool` and `NothingGetsLostInBlocks`: what holds of the pool holds of it
    under mining requests too. A block is not one step there, as it is in `TxPool`, so that
    the accounts change by what the builder has done to its copy; `Count` ties the two
    together, by the number of transactions that each sender has in the block.
  * `BlocksStayGreedy`. The inductive invariant (`Building`) says where each sender stands:
    its next transaction is in the heap (`Holds`), or is the one in hand (`InHand`), or it
    was passed over and nothing of it can be added any more (`Spent`). Only one sender is
    between two of these at a time, the one of `lastSender`. The heap has a first element
    (`FirstExists`): of the finitely many whose fee is best, the one that arrived first, and
    arrival numbers differ. That a sender who was passed over has nothing to add later in the
    block holds because the gas that is left only shrinks and the base fee of a block is
    fixed. With the queue ordered by the base fee of the block before, as an earlier version
    of the model had it at the second block of a request, the proof fails, and so does the
    property (`Begin_OldBaseFee`).
  * `ExecutedInNonceOrder`, of the same invariant: what is in hand has the nonce of its
    sender's account in the builder's copy.
* **`HardhatBlockchainProofs`**: `TypeCorrect`, `NothingLostOrMadeTwice` and
  `BlockBeforeReservation` (together `NumbersStayTaken`), for reservations of any length.
  Blocks and reservations tile `0 .. length - 1` (`Tiled`), each reservation is preceded by
  a stored block (`Follow`); one lemma per operation on that shape (`AppendShape`,
  `ReserveShape`, `SplitShape`, `DeleteShape`), independent of the maps, and then one step
  per action. `IndexesStayInAgreement` adds the maps (`MapsInv`): one total difficulty per
  block, no transaction in two blocks, and each block or reservation adds its own
  difficulty to that of what precedes it. `MapsHoldOneChainAlways` joins the two.
  `ReadsAsAChain` is the refinement of `Chain`: a
  number whose block or reservation stays is seen as before (`Kept`), and a block made in
  the middle of a reservation moves no later timestamp (`Distributes`).
* **`HardhatNodeProofs`**, for any number of states, transactions and snapshots and any
  resolution of the clock. Four inductive invariants, the first under the others:
  * `Structure`: types; ids that are fresh; snapshots in order, each of a block of the chain
    (`SnapshotsStayAncestors`); and `TimeIsPositive`, without which timestamps could not be
    shown to be naturals, because offsets may be negative. `TypeCorrect` follows, and
    `RevertsRestoreClock`, which is arithmetic of rounding up (`CeilOfSum`,
    `CeilOfSumBound`).
  * `StatesAreTraced` gives `StateStaysCurrent`: every snapshot's state is the one its own
    edits and its block say, and no edit is of a block that is not there yet. It is under
    `OverriddenStates = {}`, the condition that the run `node_overrides` shows to be needed.
  * `NextIsOrdered` gives `TimeStaysInOrder`, for whatever numbers `evm_increaseTime` is given:
    the timestamps set for the next block, here and in the snapshots, are possible, and a
    `hardhat_mine` past its first block has no timestamp set and, in its last part, no pending
    transaction. `TimeGoesOn` says what every step does to the time of the chain, with one
    lemma for each kind of step (`MiningInTime`, `TakingInTime`, `RevertInTime`,
    `ReservingInTime`, `SmallStepInTime`). It is under `IntervalsAreAllowed` (no interval of
    0, or equal timestamps allowed), which the first divergence met while modelling shows to
    be needed.
  * `TimeIsOrdered` adds that every snapshot's date and offset cover its block
    (`SnapshotsAreAhead`). If besides `Increments \subseteq Nat`, no step turns the clock
    back, and the same lemmas give `TimestampsStayOrdered` and `ClockStaysAhead`. That this
    hypothesis is needed the turned part of `node` shows (section 6).
  * `Apart` gives `TransactionsAreMinedOnce`: the pool of a snapshot shares nothing with
    the blocks that the snapshot goes back to. With `SnapshotsStayAncestors` it makes
    `HistoryStaysKept`.
  * `NodeReadsAsAWorld` is the refinement of `World`, which says nothing of timestamps, under
    `OverriddenStates = {}` alone. `Mapped` puts the invariants of blocks and states together
    and adds that no two
    snapshots of the pool have one id. `HistoryShape` says what
    the history of states is after each way a block comes or goes, and one lemma per kind
    of step of the world (`MiningIsPromised`, `EditingIsPromised`, `RevertingIsPromised` and
    so on) says which steps of the node are of it.
* **`CompileProofs`**, of the compile task and of the downloader.
  * `TasksStayComplete`, `FilesStayInAgreement` and `CompileTypeCorrect`, for any files,
    imports (in circles, too), contracts and configurations. An artifact tells the contents it
    was made from, and these are `Whole`: those of its file and of all that it imported then.
    On that rests the step from what the cache compares to what it means: if every file that
    is read now, as far as it was read then, has the content it had then, then the same files
    are read (`WholeIsReads`), though the cache never recorded which. `JobsLemma`, over
    `MergeIsGood`, `MergedJobs` and `CreatedJobs`, says that no merging loses a file or gives
    it another compiler, and that every file that is not as it was has a job. The invariant
    (`CompileInv`) says of the disk that an entry of the cache file is true of the artifacts
    and, for the files they were made from, of the entries of these (`CacheInv`); of a running
    task that each file is written, about to be, or as it was (`JobsInv`, `EmittedInv`); and of
    one that has recorded its results that the cache file has each file as it was read and
    that what is valid is on disk (`RecordedInv`). `RecordStep`, the write of the cache file,
    is where the three meet.
  * `DownloadsStaySound`, for any number of processes, calls, failing requests and stops.
    Until a lock is lost, a process that works wrote the lock file; until somebody stops or
    overstays, that file is new and its writer at work. For each platform the folder has no
    compiler, one that its owner is making, or one that can be used, and what a process has
    found out about it stays so. `DownloadTypeCorrect` is part of it; `TypesStayCorrect` puts
    both modules side by side, as the run does.
* **`ForkProofs`**. Of the chain, `ForkTypeCorrect`, `ForkReadsAsOneChain` and
  `ForkAnswersForTheChain`: for every
  remote chain (`RemoteIsAChain`: its blocks are numbered, no transaction is in two of them,
  and total difficulties add up), every fork block and local chains of any length, lookups
  answer for one chain and the local operations do what `Chain` promises. The maps of a fork
  have holes that lookups fill in any order, so that nothing of `Tiled` or `MapsInv` holds of
  them. It does hold of the maps `Completed` by everything up to the fork, which no lookup
  changes and on which each operation does what `HardhatBlockchain`'s does; so the lemmas of
  `HardhatBlockchainProofs` are stated for any maps, and are used for both. `ForkInv` adds
  that local blocks stand on a fork block that has been fetched, and that the known
  transactions are those of the blocks. Of the state, `ForkReadsAsOneState`, the refinement of
  `StateManager`, for any remote chain whose equal roots stand for equal accounts. Made-up
  roots are `1 .. n`; a root of the remote chain stands for no changes over a block before
  the fork; the current root and the checkpoints are of the block that is looked at; and the
  root that was put aside for a look at an older block is of the fork block. One lemma says
  what each operation does to the accounts as they are read, and one step per action follows.
  `ForkStateTypeCorrect` is of the same invariant.
* **`AnswersProofs`**, four modules whose answers must stay true later.
  * `KeptAnswersStayTrue`, for the client of a fork. An answer is `Settled` if it is what
    would be answered now and depends on a block too deep to be reorganised away; everything
    in memory and in whole files is, and an answer on its way is if it will be kept.
    `SettledStays` goes through the methods: the number of the newest block is never deep,
    and the block of a transaction, once deep, is the only one. `MaxReorgAssumption` (at
    least 1) is used here: with 0 the newest block would count as final.
  * `FixturesStayRestorable`, for any number of fixtures and any nesting. `loadFixture`
    compares ids as they were when the snapshots were taken and restores by ids that change
    with each load; the invariant `SameOrder` is that the two order the fixtures alike, so
    that those it forgets are those whose snapshots the node drops.
  * `EstimationsStaySound`, for every call and block. The highest amount that failed is below
    what a steady call needs, the lowest that succeeded is not, and after `n` rounds their
    difference is at most the block gas limit halved `n - 1` times (`Narrowing`).
    `CallsAssumption` says that a steady transaction needs at least what it is charged and
    its intrinsic cost. `EstimationTypeCorrect` is of the same invariant.
  * `FiltersStayServed` and `FiltersTypeCorrect`, for any logs, criteria, lifetime and number
    of filters, whatever is mined, reserved, taken back, polled and uninstalled, and in
    whatever order. A block that was taken back and one that replaces it have one number, so
    that the proof goes by hashes: they grow along the chain (`ChainIsOrdered`) and along what
    a block filter was given, and nothing is known yet of a block still to be mined
    (`FiltersInv`). On that rests that the logs of a new block are given once (`NewsAreGiven`)
    and those of others as often as before (`NewsOfOthers`); that the logs found when a filter
    is made are those of distinct blocks, so that none is found twice; and that the filter is
    told of none of them again. `BloomsHideNothing` is where the bloom is sound, `TopicsMatch`
    where `topicMatched` does what was asked for. `FiltersAssumption` types the constants: a
    block has finitely many logs, topics are sequences, and a range of blocks has a first one.

Only model-checked: all liveness, for which TLAPS has no rule here (`AutomineEnds`,
`CallersAreServed`, `TimerObeys`, `LoopsFollowTheNode`, `ArrayParamsAreAnswered`,
`DownloadsEnd`, and the half of `SubscriptionsFollowTheirSocket` that is `SubscriptionsEnd`).
`TypesOK` of `blockchain` is only a name for the type invariants of its six parts: each is a
theorem of its part, in three modules of proofs that cannot be extended together.

## 6. Where code and words disagree

Each of the six violated runs has a counterexample that follows the code step by step.

* `provider_object_params`: `request` throws between the acquire and the `try`
  (`provider.ts:113`) when params are an object, and the mutex is never released.
* `mining_timer_overlap`: `setBlockTime` while the mining function is awaited leaves two
  loops alive (`MiningTimer.ts:51`).
* `tx_pool_index`: transactions moved from pending to queued lose their index entry
  (`TxPool.ts:297`), so `removeTransaction` does not find them.
* `unknown_reason`: an automined transaction is accepted while another of its sender is
  pending, each affordable alone. Both do not fit in one block (with the default gas limit,
  that of a block, no two do). The first is mined, the second is dropped as unaffordable, and
  the request ends with "Failed to mine transaction for unknown reason, this should never
  happen" (`node.ts:1780`).
* `node_overrides`: a call refused half way through its overrides leaves them in the state
  (`node.ts:2543`).
* `compile_after_failure`: artifacts are written job by job, the cache file only when all
  jobs have succeeded (`builtin-tasks/compile.ts`). A file that was changed, compiled in a
  task that did not get there, and changed back, is unchanged for the cache, and the artifact
  of the other content stays. In the counterexample the task is one whose process stops;
  with these constants its two files are of one job, so that a file that does not compile
  leaves nothing of the other. Where there are several jobs, one that fails beside
  others that have emitted their artifacts does the same.

Met while modelling, without a run of their own. Those about the node, the pool, the queue,
fixtures, blocks and estimations can be seen by changing a constant or a property of a run:

* **Node.** `Intervals = {0}`, `Counts = {2}` in the clock part of `node` violates
  `TimeIsInOrder`: `mineBlock` moves a clashing block by a second, advances the offset,
  and then stores the offset it computed before (`node.ts:578-582`), so that the clock
  falls behind the chain.
* **Clock.** `evm_increaseTime` does not ask for the sign of its number (`evm.ts:27` and
  `120`). After a negative one the clock may be behind the latest block, and `mineBlock` moves
  a block only if its time equals that of the latest one (`node.ts:549`): with
  `TimestampsIncrease` as an invariant, the turned part of `node` finds blocks with lower
  timestamps than their parents, and with the timestamps of earlier blocks. Of a node that
  does not allow it the docs say that "each block should have a different timestamp"
  (`src/docs/src/content/hardhat-network/docs/reference/index.md:93`). `evm_mine` and
  `evm_setNextBlockTimestamp` refuse such timestamps, and the network helpers refuse negative
  numbers. `TimeIsInOrder` says what holds all the same.
* **Pool.** A sender in `Contracts` in `tx_pool` violates `NothingExecutableIsQueued`: an
  impersonated contract's nonce moves by CREATE, and `updatePendingAndQueued` never
  promotes.
* **Queue and fixtures.** `AutomineEnds` without its last part is violated: a pending
  transaction below `hardhat_setMinGasPrice`, or below a base fee of 7 that falls no more,
  makes the loop of an automined transaction mine empty blocks for ever (`node.ts:1787`).
  `LoadedIsRestored` without `resets = 0` is violated: after `hardhat_reset` snapshot ids
  start at 1 again (`node.ts:391`), while `loadFixture` remembers its ids. It may restore
  another snapshot of the same id without an error, and return data of a world that is gone,
  while the docs say that "the blockchain will be restored to that snapshot"
  (`src/docs/src/content/hardhat-network-helpers/docs/reference.md:244`).
* **Blocks.** When the pending transactions of a sender fit in one block but exceed its balance
  together, `addTransaction` throws and the whole block is undone (`node.ts:1961`), each
  time one is mined, while the docs say that a block "will include as many pending
  transactions as possible"
  (`src/docs/src/content/hardhat-network/docs/explanation/mining-modes.md:11`).
* **Provider.** A loop that waits for the mutex while `evm_setIntervalMining(0)` or
  `hardhat_reset` runs still mines its block afterwards.
* **Filters.** A filter whose `toBlock` is past the latest block is clipped to it when its
  past logs are read. `topics: [[null]]` matches every log in `topicMatched`, while
  `bloomFilter` turns the block down; `OnlyNullMatches`
  excepts these logs in the property, and no others. The block that a read of the pending block takes back
  is announced; a reserved block never is. A subscription that has expired gets one
  more event.
* **Websockets.** Ids start again after `hardhat_reset`, so that a connection may hear, and
  unsubscribe, the subscription of another. A subscription answered after its connection
  closed stays until it expires; events emitted before the answer reaches the handler are
  dropped; subscriptions expire after five minutes, like filters.
* **Compile.** The valid artifacts accumulate in the `Artifacts` object, so that a second
  task of one process keeps what the first made. The cache file is not written atomically: a
  truncated one makes each later compilation fail until it is cleaned. A library keeps its
  entry in the cache file while nobody imports it: only files that are gone are dropped
  (`solidity-files-cache.ts:85`), and only files of the graph are looked at
  (`compile.ts:1521`). If L imports M, nobody imports L while M is changed and compiled (for
  another file), and L is then imported again, neither has changed for the cache, and the
  artifact of L stays the one that was made from the old M. With `Libraries = {"L", "M"}`,
  contents in which `L` and `B` import `M` and `A` imports `L` or not, and 6 events,
  `CompilesTheEntireProject` is violated without a task that fails. The proof of
  `TasksStayComplete` did not go through until such files were named (`leftOut`).
* **Downloader.** A compiler is in its final place before it is checked. A process that
  stops in between leaves one that no later call checks, while a comment says that
  `getCompiler` "Returns undefined if the compiler has been downloaded but can't be run"
  (`downloader.ts:70`). Two waiters that find the same old lock file may both delete it, the
  second one the lock of the first. The cache period of the list, `3_600_00`, is six
  minutes.
* **Fork.** `eth_getTransactionByHash` of a transaction that the remote chain got after the
  fork is an error and not `null`, as a test says
  (`test/internal/hardhat-network/provider/fork/ForkBlockchain.ts:556`); a request that fails
  while a block is read by number or hash is answered with `null` (`node.ts:956-970`). A truncated file of the disk cache makes its request throw until the file is
  removed. `hasStateRoot` looks in a map that holds no roots of the remote chain, and
  `ForkStateManager.copy` leaves out the context; neither is used. The code of the beacon
  roots contract is put after the first root was registered, so that it is missing in the
  context of the fork block.

* **Estimations.** The search begins with the block gas limit as an amount that succeeds
  (`node.ts:2369`), which was never tried. A call that gives more gas than a block has, is
  charged more than that and needs still more crosses the bounds from the start, where the
  comment says "This shouldn't happen" (`node.ts:2381`): `BoundsNeverCross` without its
  second condition is violated. The block gas limit is answered, with which the transaction
  fails.

## 7. Not modelled

* ethereumjs (EVM, trie, block and transaction classes): external; the models let every
  result happen that the code handles.
* Of a fork: the choice of the fork block, the conversion of RPC data to blocks and
  transactions, and the cache of original storage values.
* Fee history: it changes nothing. `HardhatNode` leaves open which pending transactions a
  block takes, so that the order of `TransactionQueue` is one of its behaviours.
* The network helpers other than `loadFixture`, `takeSnapshot` and `reset`: each forwards one
  request.
* The HTTP provider, its retries and batches, and the wrappers around it.
* Logging, stack traces, `console.log` decoding, error messages: output only.
* Parsing, the resolver's rules for names, configuration, the task DSL, the command line,
  telemetry: sequential set-up whose content is validation and defaults.
* Plugins around an external tool (ethers, viem, ledger, verify, vyper, truffle, web3,
  foundry, solhint, solpp, shorthand, toolboxes, chai matchers): adapters.
* Documentation site, end-to-end tests, build scripts.
* Within what is modelled: a build info cut off by a stop (`Compile`), other processes
  that write the artifacts folder at the same time, and the contents of blocks beyond what
  is named in section 2.

## 8. Plan

Done: the node and its chain, pool, transaction queue, clock and provider; gas estimation;
filters and websockets; the multi-process mutex and the downloader; chain, state and client
of a fork; the compile task with its cache and artifacts; fixtures. Next, by what can go
wrong most:

1. HTTP retries and batches.

No safety property of a run is left to prove; the liveness that is left to TLC is listed in
section 5.
