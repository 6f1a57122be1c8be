------------------------------ MODULE Filters -------------------------------
(***************************************************************************)
(* The filters and subscriptions a node keeps (node.ts, filter.ts), the    *)
(* requests that make, poll and remove them (modules/eth.ts), and the      *)
(* blocks and transactions they are told about.                            *)
(*                                                                         *)
(* A block is a number that no other block has (its hash), its logs and    *)
(* its bloom.  A request is one action, since the provider's mutex is held *)
(* while it runs.  A filter records all it was ever given: what was        *)
(* collected by polls and what is not yet, or, for a subscription, the     *)
(* events emitted for it.                                                  *)
(***************************************************************************)
EXTENDS Integers, Sequences, SequencesExt, FiniteSets

CONSTANTS
    LogsOfBlocks, \* the sets of logs a block may have: records of address and topics
    Criteria,     \* what a log filter may ask for
    Lifetime,     \* how long a filter lives when nobody polls it
    MaxNews, MaxFilters   \* bounds

LATEST_BLOCK == -1
BlockNumbers == Nat \union {LATEST_BLOCK}

\* The topics asked for have a set of topics for each position; the empty set, which is
\* also null, asks for nothing there, and a null in a set for any topic.
NullTopic == "null"

IsSequence(s) == s \in Seq(Range(s))

\* A block has finitely many logs; what is asked for was parsed by the RPC types.
ASSUME FiltersAssumption ==
    /\ \A logs \in LogsOfBlocks : IsFiniteSet(logs) /\ \A log \in logs : IsSequence(log.topics)
    /\ Criteria \subseteq [fromBlock : BlockNumbers, toBlock : BlockNumbers,
                            addresses : {c.addresses : c \in Criteria}, topics : {c.topics : c \in Criteria}]
    /\ \A criteria \in Criteria : IsSequence(criteria.topics)
    /\ Lifetime \in Nat

VARIABLES
    blocks,       \* the chain; block number n is blocks[n + 1]
    mined,        \* how many blocks there ever were
    pooled,       \* how many transactions were sent to the pool
    lengths,      \* the snapshots: lengths of the chain to go back to
    filters,      \* the filters, by id
    lastFilterId,
    now

filterVars == <<blocks, mined, pooled, lengths, filters, lastFilterId, now>>

MinedBlock(hash, logs, bloom, announced) ==
    [hash |-> hash, logs |-> logs, bloom |-> bloom, announced |-> announced]

\* The bound on everything that is counted.
MoreEvents == mined + pooled + lastFilterId + now < MaxNews

LatestNumber == Len(blocks) - 1
Latest == Last(blocks)

-----------------------------------------------------------------------------
(* filter.ts.                                                              *)

Items(logs) == UNION {{log.address} \union Range(log.topics) : log \in logs}

\* A bloom has everything that is in the block, and may seem to have more.
Blooms(logs) == {Items(logs), Items(UNION LogsOfBlocks)}

bloomFilter(bloom, addresses, topics) ==
    /\ addresses = {} \/ addresses \intersect bloom # {}
    /\ \A i \in DOMAIN topics :
        topics[i] = {} \/ (topics[i] \ {NullTopic}) \intersect bloom # {}

\* mutant of topicMatched: the positions do not matter
topicMatched_Unordered(topics, logTopics) ==
    \A i \in DOMAIN topics :
        topics[i] = {} \/ Range(logTopics) \intersect topics[i] # {}

topicMatched(topics, logTopics) ==
    \A i \in DOMAIN topics :
        /\ Len(topics) <= Len(logTopics)
        /\ \/ topics[i] = {}
           \/ NullTopic \in topics[i]
           \/ logTopics[i] \in topics[i]

\* mutant of filterLogs: the last block of the range is left out
filterLogs_ToBlockExcluded(n, logs, criteria) ==
    {log \in logs :
        /\ n >= criteria.fromBlock
        /\ criteria.toBlock = LATEST_BLOCK \/ n < criteria.toBlock
        /\ criteria.addresses = {} \/ log.address \in criteria.addresses
        /\ topicMatched(criteria.topics, log.topics)}

\* The logs of block number n that a filter wants.
filterLogs(n, logs, criteria) ==
    {log \in logs :
        /\ n >= criteria.fromBlock
        /\ criteria.toBlock = LATEST_BLOCK \/ n <= criteria.toBlock
        /\ criteria.addresses = {} \/ log.address \in criteria.addresses
        /\ topicMatched(criteria.topics, log.topics)}

\* The logs of a block for a filter, as pairs of the block and the log.
LogsOf(block, n, criteria) ==
    IF bloomFilter(block.bloom, criteria.addresses, criteria.topics)
    THEN {<<block.hash, log>> : log \in filterLogs(n, block.logs, criteria)}
    ELSE {}

-----------------------------------------------------------------------------
(* The filters of the node.                                                *)

\* _computeFilterParams: tags and numbers past the latest block become its number,
\* except the open end of a filter.
Clip(n) == IF n = LATEST_BLOCK \/ n > LatestNumber THEN LatestNumber ELSE n

ComputeFilterParams(criteria, isFilter) ==
    [criteria EXCEPT
        !.fromBlock = Clip(@),
        !.toBlock = IF isFilter /\ @ = LATEST_BLOCK THEN @ ELSE Clip(@)]

\* getLogs: the logs of the blocks there are.
GetLogs(criteria) ==
    LET params == ComputeFilterParams(criteria, FALSE)
    IN  UNION {LogsOf(blocks[n + 1], n, params) : n \in params.fromBlock .. params.toBlock}

\* A filter.  Of what it was ever given (history), the rest after the first collected
\* items are its hashes or logs.  born and bornTx are the blocks and transactions there
\* were when it was made, polled is when it was made or polled last.
Filter(type, criteria, items, subscription) ==
    [type |-> type, criteria |-> criteria, subscription |-> subscription,
     deadline |-> now + Lifetime, history |-> items, collected |-> 0,
     born |-> mined, bornTx |-> pooled, polled |-> now]

NoCriteria == [fromBlock |-> 0, toBlock |-> 0, addresses |-> {}, topics |-> <<>>]

\* mutant of FirstItems: the logs there are already are forgotten
FirstItems_NoEarlierLogs(type, criteria) ==
    IF type = "blocks" THEN <<Latest.hash>> ELSE <<>>

\* What a filter starts with.  (The logs are given in some order: nothing asks for one.)
FirstItems(type, criteria) ==
    IF type = "logs" THEN SetToSeq(GetLogs(criteria))
    ELSE IF type = "blocks" THEN <<Latest.hash>>
    ELSE <<>>

\* newFilter, newBlockFilter and newPendingTransactionFilter.
NewFilter(request, subscription) ==
    LET criteria == ComputeFilterParams(request.criteria, TRUE)
    IN  Filter(request.type, criteria, FirstItems(request.type, criteria), subscription)

FilterRequests ==
    {[type |-> type, criteria |-> NoCriteria] : type \in {"blocks", "pendingTransactions"}}
        \union {[type |-> "logs", criteria |-> criteria] : criteria \in Criteria}

\* mutant of AddFilter: the counter is left as it was
AddFilter_NotCounted(filter) ==
    /\ lastFilterId < MaxFilters /\ MoreEvents
    /\ filters' = [id \in DOMAIN filters \union {lastFilterId + 1} |->
                    IF id \in DOMAIN filters THEN filters[id] ELSE filter]
    /\ UNCHANGED lastFilterId

AddFilter(filter) ==
    /\ lastFilterId < MaxFilters /\ MoreEvents
    /\ lastFilterId' = lastFilterId + 1
    /\ filters' = [id \in DOMAIN filters \union {lastFilterId + 1} |->
                    IF id \in DOMAIN filters THEN filters[id] ELSE filter]

\* One more item to collect, or an event to the listeners.
Given(filter, new) == [filter EXCEPT !.history = @ \o new]

\* _saveBlockAsSuccessfullyRun: what block number n means to a filter.
News(filter, block, n) ==
    IF filter.type = "logs" THEN SetToSeq(LogsOf(block, n, filter.criteria))
    ELSE IF filter.type = "blocks" THEN <<block.hash>>
    ELSE <<>>

Expired(filter) == filter.deadline < now

\* mutant of Announce: a filter is left out when its deadline is now
Announce_NotAtTheDeadline(block, n) ==
    filters' = [id \in {i \in DOMAIN filters : ~ Expired(filters[i])} |->
                    IF filters[id].deadline = now THEN filters[id]
                    ELSE Given(filters[id], News(filters[id], block, n))]

\* Expired filters go, with a last event for a subscription; the forEach gives the others their news.
Announce(block, n) ==
    filters' = [id \in {i \in DOMAIN filters : ~ Expired(filters[i])} |->
                    Given(filters[id], News(filters[id], block, n))]

-----------------------------------------------------------------------------
(* Requests.                                                               *)

\* eth_newFilter, eth_newBlockFilter, eth_newPendingTransactionFilter, eth_subscribe.
MakeFilter(request, subscription) ==
    /\ AddFilter(NewFilter(request, subscription))
    /\ UNCHANGED <<blocks, mined, pooled, lengths, now>>

\* mutant of Poll: the deadline stays
Poll_NotRefreshed(id) ==
    /\ id \in DOMAIN filters
    /\ filters' = [filters EXCEPT ![id].collected = Len(filters[id].history), ![id].polled = now]
    /\ UNCHANGED <<blocks, mined, pooled, lengths, lastFilterId, now>>

\* eth_getFilterChanges
Poll(id) ==
    /\ id \in DOMAIN filters
    /\ filters' = [filters EXCEPT ![id].collected = Len(filters[id].history), ![id].polled = now,
                                  ![id].deadline = now + Lifetime]
    /\ UNCHANGED <<blocks, mined, pooled, lengths, lastFilterId, now>>

\* eth_getFilterLogs: hashes are left where they are.
GetLogsOf(id) ==
    /\ id \in DOMAIN filters
    /\ filters' = [filters EXCEPT ![id].collected = IF filters[id].type = "logs" THEN Len(filters[id].history) ELSE @,
                                  ![id].polled = now, ![id].deadline = now + Lifetime]
    /\ UNCHANGED <<blocks, mined, pooled, lengths, lastFilterId, now>>

\* eth_uninstallFilter and eth_unsubscribe: neither removes what the other one made.
Uninstall(id, subscription) ==
    /\ id \in DOMAIN filters
    /\ filters[id].subscription = subscription
    /\ filters' = [i \in DOMAIN filters \ {id} |-> filters[i]]
    /\ UNCHANGED <<blocks, mined, pooled, lengths, lastFilterId, now>>

\* A block is mined with some logs, and announced.
MineBlock ==
    \E logs \in LogsOfBlocks : \E bloom \in Blooms(logs) :
        LET block == MinedBlock(mined + 1, logs, bloom, TRUE)
        IN  /\ MoreEvents
            /\ blocks' = Append(blocks, block)
            /\ mined' = mined + 1
            /\ Announce(block, LatestNumber + 1)
            /\ UNCHANGED <<pooled, lengths, lastFilterId, now>>

\* hardhat_mine reserves blocks: they are empty, and nobody is told.
ReserveBlock ==
    /\ MoreEvents
    /\ blocks' = Append(blocks, MinedBlock(mined + 1, {}, {}, FALSE))
    /\ mined' = mined + 1
    /\ UNCHANGED <<pooled, lengths, filters, lastFilterId, now>>

\* A read in the pending block mines it, announces it, and takes it back.
ReadPendingBlock ==
    \E logs \in LogsOfBlocks : \E bloom \in Blooms(logs) :
        /\ MoreEvents
        /\ mined' = mined + 1
        /\ Announce(MinedBlock(mined + 1, logs, bloom, TRUE), LatestNumber + 1)
        /\ UNCHANGED <<blocks, pooled, lengths, lastFilterId, now>>

\* mutant of SendTransaction: only the listeners of subscriptions are told
SendTransaction_NotCollected ==
    /\ MoreEvents
    /\ pooled' = pooled + 1
    /\ filters' = [id \in DOMAIN filters |->
                    IF filters[id].type = "pendingTransactions" /\ filters[id].subscription
                    THEN Given(filters[id], <<pooled + 1>>) ELSE filters[id]]
    /\ UNCHANGED <<blocks, mined, lengths, lastFilterId, now>>

\* A transaction enters the pool and is announced; nothing expires here.
SendTransaction ==
    /\ MoreEvents
    /\ pooled' = pooled + 1
    /\ filters' = [id \in DOMAIN filters |->
                    IF filters[id].type = "pendingTransactions"
                    THEN Given(filters[id], <<pooled + 1>>) ELSE filters[id]]
    /\ UNCHANGED <<blocks, mined, lengths, lastFilterId, now>>

KeepLength ==
    /\ lengths = <<>>
    /\ lengths' = <<Len(blocks)>>
    /\ UNCHANGED <<blocks, mined, pooled, filters, lastFilterId, now>>

\* The chain goes back; the filters know nothing of it.
ReturnToLength ==
    /\ lengths # <<>>
    /\ blocks' = SubSeq(blocks, 1, Last(lengths))
    /\ lengths' = <<>>
    /\ UNCHANGED <<mined, pooled, filters, lastFilterId, now>>

Tick ==
    /\ MoreEvents
    /\ now' = now + 1
    /\ UNCHANGED <<blocks, mined, pooled, lengths, filters, lastFilterId>>

-----------------------------------------------------------------------------
FiltersInit ==
    /\ blocks = <<MinedBlock(0, {}, {}, TRUE)>>
    /\ mined = 0 /\ pooled = 0
    /\ lengths = <<>>
    /\ filters = <<>> /\ lastFilterId = 0
    /\ now = 0

FilterSteps ==
    \/ \E request \in FilterRequests, subscription \in BOOLEAN : MakeFilter(request, subscription)
    \/ \E id \in DOMAIN filters : Poll(id) \/ GetLogsOf(id) \/ \E subscription \in BOOLEAN : Uninstall(id, subscription)
    \/ MineBlock \/ ReserveBlock \/ ReadPendingBlock \/ SendTransaction
    \/ KeepLength \/ ReturnToLength

FiltersNext == FilterSteps \/ Tick

FiltersSpec == FiltersInit /\ [][FiltersNext]_filterVars

-----------------------------------------------------------------------------
(* Properties.                                                             *)

\* Ids are those that were handed out; nothing is collected that was not given.
FiltersTypeOK ==
    /\ DOMAIN filters \subseteq 1 .. lastFilterId
    /\ \A id \in DOMAIN filters :
        /\ filters[id].type \in {"blocks", "logs", "pendingTransactions"}
        /\ filters[id].collected \in 0 .. Len(filters[id].history)
        /\ filters[id].deadline \in Nat
    /\ \A i \in DOMAIN lengths : lengths[i] \in 1 .. Len(blocks)

Never(item, history) == \A i \in DOMAIN history : history[i] # item
Once(item, history) == \E i \in DOMAIN history : \A j \in DOMAIN history : history[j] = item <=> j = i

\* Each block of the chain that was announced after born is given once, in their order.
BlocksAreGiven(born, history) ==
    LET awaited == {i \in DOMAIN blocks : blocks[i].announced /\ blocks[i].hash > born}
    IN  /\ \A i \in awaited : Once(blocks[i].hash, history)
        /\ \A i, j \in awaited : \A m, n \in DOMAIN history :
            history[m] = blocks[i].hash /\ history[n] = blocks[j].hash /\ i < j => m < n

\* A block filter was given every block of the chain that was mined since it was made,
\* each once and in the order of the chain, whatever was reverted, read or polled
\* meanwhile.
BlocksAreTold ==
    \A id \in DOMAIN filters : filters[id].type = "blocks" =>
        BlocksAreGiven(filters[id].born, filters[id].history)

\* What JSON-RPC promises of a log filter: the range, one of the addresses, and at each
\* position one of the topics asked for.
Wanted(n, log, criteria) ==
    /\ n >= criteria.fromBlock
    /\ n <= criteria.toBlock \/ criteria.toBlock = LATEST_BLOCK
    /\ log.address \in criteria.addresses \/ criteria.addresses = {}
    /\ \A i \in DOMAIN criteria.topics :
        /\ i \in DOMAIN log.topics
        /\ criteria.topics[i] \intersect {log.topics[i], NullTopic} # {} \/ criteria.topics[i] = {}

\* At some position no topic of the log is asked for by its name: a null lets it through.
OnlyNullMatches(log, criteria) ==
    \E i \in DOMAIN criteria.topics :
        criteria.topics[i] # {} /\ log.topics[i] \notin criteria.topics[i] \ {NullTopic}

\* What was given of block number n: each log that is asked for once, and no other log.
\* (bloomFilter does not know of null: it may leave out a log that only a null matches.)
LogsAreGiven(block, n, criteria, history) ==
    \A log \in block.logs :
        IF Wanted(n, log, criteria)
        THEN \/ Once(<<block.hash, log>>, history)
             \/ Never(<<block.hash, log>>, history) /\ OnlyNullMatches(log, criteria)
        ELSE Never(<<block.hash, log>>, history)

\* A log filter was given each log of the chain that it asks for exactly once, whether
\* the block came before or after the filter, and no other log: the bloom never hides
\* one, and the logs found when it was made do not overlap with those announced later.
LogsAreTold ==
    \A id \in DOMAIN filters : filters[id].type = "logs" =>
        \A n \in 0 .. LatestNumber :
            LogsAreGiven(blocks[n + 1], n, filters[id].criteria, filters[id].history)

\* A pending transaction filter was given every transaction since it was made.
TransactionsAreTold ==
    \A id \in DOMAIN filters : filters[id].type = "pendingTransactions" =>
        filters[id].history = [i \in 1 .. pooled - filters[id].bornTx |-> filters[id].bornTx + i]

\* Filters of every type are told what they wait for, once and in order.
FiltersAreTold == BlocksAreTold /\ LogsAreTold /\ TransactionsAreTold

\* A filter that was made or polled within its lifetime is removed by a request only.
PolledFiltersStay ==
    [][\A id \in DOMAIN filters :
        id \notin DOMAIN filters' =>
            now - filters[id].polled > Lifetime \/ \E b \in BOOLEAN : Uninstall(id, b)]_filterVars

\* A filter is told of everything it waits for exactly once, and lives as long as it is
\* polled: what expires or is reverted takes nothing from the others.
FiltersAreServed == []FiltersAreTold /\ PolledFiltersStay

=============================================================================
