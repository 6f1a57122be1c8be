---------------------------- MODULE JsonRpcClient ---------------------------
(* The client through which a forked node reads the remote chain              *)
(* (hardhat-network/jsonrpc/client.ts), with its cache in memory and its      *)
(* files on disk.  The remote chain grows and is reorganised; the node is     *)
(* restarted, or stops while it writes a file.  A block is a name and the     *)
(* transaction in it; answers are taken apart as far as caching tells them    *)
(* apart: what they say, and the last block they depend on.                   *)
EXTENDS Integers, Sequences

CONSTANTS
    MaxReorg,       \* _maxReorg: no reorganisation of the chain is deeper
    MaxHeight, MaxNames, MaxEvents  \* bounds

\* getLargestPossibleReorg, or FALLBACK_MAX_REORG: 5 on the mainnet, and no less on others.
ASSUME MaxReorgAssumption == MaxReorg \in Nat /\ MaxReorg >= 1

ASSUME HeightAssumption == MaxHeight \in Nat /\ MaxHeight >= 1

VARIABLES
    chain,          \* the blocks of the remote chain
    names,          \* block names given out
    latestBlockNumberOnCreation,
    cache,          \* _cache: what was answered to which request
    forkCache,      \* _forkCachePath is set
    disk,           \* the files of the fork cache
    sent,           \* the request on its way, with its answer, or NothingSent
    events

clientVars == <<chain, names, latestBlockNumberOnCreation, cache, forkCache, disk, sent, events>>

\* Methods that ask for the state at a block, whether there is such a block or not, for a
\* block, and for the block of a transaction; and those that ask for the newest there is.
Requests ==
    [method : {"eth_getStorageAt", "eth_getBlockByNumber"}, of : 1..MaxHeight]
        \union [method : {"eth_getTransactionByHash", "eth_blockNumber", "eth_feeHistory"}, of : {0}]

Answer(what, blockNumber) == [what |-> what, blockNumber |-> blockNumber]

NotFound == 0

NothingSent == [request |-> [method |-> "", of |-> 0], answer |-> Answer(NotFound, NotFound)]

\* What is read from a file whose writing was cut off: no answer at all.
Truncated == Answer(-1, -1)

\* where the transaction is: nowhere, or in one block
Places == {n \in DOMAIN chain : chain[n].tx}

Place == CHOOSE n \in Places : TRUE

\* What the remote node answers, with the block number that the client looks at.
Asked(request) ==
    LET n == request.of  height == Len(chain) IN
    IF request.method = "eth_getStorageAt"
    THEN Answer(IF n <= height THEN chain[n].name ELSE NotFound, n)
    ELSE IF request.method = "eth_getBlockByNumber"
    THEN IF n <= height THEN Answer(chain[n].name, n) ELSE Answer(NotFound, NotFound)
    ELSE IF request.method = "eth_getTransactionByHash"
    THEN IF Places = {} THEN Answer(NotFound, NotFound)
         ELSE Answer(chain[Place].name, Place)
    ELSE IF request.method = "eth_blockNumber" THEN Answer(height, height)
    ELSE Answer(chain[height].name, height + 1) \* eth_feeHistory

ClientInit ==
    /\ \E tx \in BOOLEAN : chain = <<[name |-> 1, tx |-> tx]>>
    /\ names = 1
    /\ latestBlockNumberOnCreation = 1
    /\ cache = [request \in {} |-> NotFound]
    /\ forkCache \in BOOLEAN /\ disk = cache
    /\ sent = NothingSent /\ events = 0

-----------------------------------------------------------------------------
(* The client.                                                             *)

\* mutant of CanBeReorgedOut: blocks that are still to come cannot be
CanBeReorgedOut_AfterLatest(blockNumber) == blockNumber > latestBlockNumberOnCreation

CanBeReorgedOut(blockNumber) == blockNumber > latestBlockNumberOnCreation - MaxReorg

\* mutant of CanBeCached: that there is no answer yet is cached, too
CanBeCached_NotFound(blockNumber) == ~ CanBeReorgedOut(blockNumber)

CanBeCached(blockNumber) == blockNumber # NotFound /\ ~ CanBeReorgedOut(blockNumber)

Stored(map, request, answer) == [r \in DOMAIN map \union {request} |-> IF r = request THEN answer ELSE map[r]]

\* A file on disk is read, once; one that is not whole makes every such request fail.
ReadFile(request) ==
    /\ sent = NothingSent /\ request \in DOMAIN disk \ DOMAIN cache
    /\ disk[request] # Truncated
    /\ cache' = Stored(cache, request, disk[request])
    /\ UNCHANGED <<chain, names, latestBlockNumberOnCreation, disk, forkCache, sent, events>>

\* Nothing is kept of the request: it is sent.
Send(request) ==
    /\ sent = NothingSent /\ request \notin DOMAIN cache \union DOMAIN disk
    /\ sent' = [request |-> request, answer |-> Asked(request)]
    /\ UNCHANGED <<chain, names, latestBlockNumberOnCreation, cache, forkCache, disk, events>>

\* The answer is kept in memory and then, if there is a fork cache, in a file.
Receive ==
    LET answer == sent.answer IN
    /\ sent # NothingSent /\ sent' = NothingSent
    /\ IF CanBeCached(answer.blockNumber)
       THEN /\ cache' = Stored(cache, sent.request, answer)
            /\ disk' = IF forkCache THEN Stored(disk, sent.request, answer) ELSE disk
       ELSE UNCHANGED <<cache, disk>>
    /\ UNCHANGED <<chain, names, latestBlockNumberOnCreation, forkCache, events>>

\* The second error in a row, or the first that is not tried again.
RequestFails ==
    /\ sent # NothingSent /\ sent' = NothingSent
    /\ UNCHANGED <<chain, names, latestBlockNumberOnCreation, cache, forkCache, disk, events>>

Happens == events < MaxEvents /\ events' = events + 1

Create ==
    /\ latestBlockNumberOnCreation' = Len(chain)
    /\ cache' = [request \in {} |-> NotFound]
    /\ sent' = NothingSent

Restart == Happens /\ Create /\ UNCHANGED <<chain, names, forkCache, disk>>

\* The file is begun and not ended.
StopWhileWriting ==
    /\ sent # NothingSent /\ forkCache
    /\ CanBeCached(sent.answer.blockNumber)
    /\ disk' = Stored(disk, sent.request, Truncated)
    /\ Happens /\ Create
    /\ UNCHANGED <<chain, names, forkCache>>

-----------------------------------------------------------------------------
(* The remote chain.                                                       *)

NewBlock(tx) == [name |-> names + 1, tx |-> tx]

Grow ==
    /\ Len(chain) < MaxHeight /\ names < MaxNames
    /\ \E tx \in {FALSE, Places = {}} : chain' = Append(chain, NewBlock(tx))
    /\ names' = names + 1
    /\ UNCHANGED <<latestBlockNumberOnCreation, cache, forkCache, disk, sent, events>>

\* The last blocks give way to as many others, which may hold the transaction elsewhere.
Reorganise(depth) ==
    LET kept == Len(chain) - depth  rest == SubSeq(chain, 1, kept) IN
    /\ depth <= MaxReorg /\ kept >= 1 /\ names + depth <= MaxNames
    /\ Happens
    /\ \E place \in kept..Len(chain) :
        /\ \A n \in 1..kept : chain[n].tx => place = kept
        /\ chain' = rest \o [i \in 1..depth |-> [name |-> names + i, tx |-> kept + i = place]]
    /\ names' = names + depth
    /\ UNCHANGED <<latestBlockNumberOnCreation, cache, forkCache, disk, sent>>

ClientNext ==
    \/ \E request \in Requests : ReadFile(request) \/ Send(request)
    \/ Receive \/ RequestFails \/ StopWhileWriting \/ Restart \/ Grow
    \/ \E depth \in 1..MaxReorg : Reorganise(depth)

ClientSpec == ClientInit /\ [][ClientNext]_clientVars

-----------------------------------------------------------------------------
(* Properties.                                                             *)

ClientTypeOK ==
    /\ latestBlockNumberOnCreation \in 1..MaxHeight
    /\ DOMAIN cache \subseteq Requests /\ DOMAIN disk \subseteq Requests

\* What is kept, in memory or in files that later processes read, is what the remote node
\* answers now and will answer: however the chain grew and was reorganised since.
AnswersStayTrue ==
    /\ \A request \in DOMAIN cache : cache[request] = Asked(request)
    /\ \A request \in DOMAIN disk : disk[request] \in {Asked(request), Truncated}

=============================================================================
