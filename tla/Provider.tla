------------------------------ MODULE Provider ------------------------------
(***************************************************************************)
(* provider/provider.ts: how requests of clients and of mining timers      *)
(* reach the Hardhat Network node.                                         *)
(*                                                                         *)
(* A request waits for the mutex (module Semaphore with one permit), finds *)
(* or creates the node, is handled, and gives the mutex back.  A node is   *)
(* created by the first request and again by hardhat_reset, each time with *)
(* a mining timer of its own (module MiningTimer), whose loops call        *)
(* request like any client.  Between two awaits JavaScript is atomic: an   *)
(* action is the code between two awaits, or a whole handler when only the *)
(* holder of the mutex can see what it changes.                            *)
(***************************************************************************)
EXTENDS Integers, Sequences, FiniteSets

CONSTANTS
    Clients,            \* users of the provider, one outstanding request each
    Requests,           \* the requests they may send
    NoRequest,          \* no request: the caller has its answer
    IntervalMining,     \* config.intervalMining, in milliseconds
    MaxRequests,        \* bound on the requests clients send
    MaxTicks            \* bound on the ticks of the mutex pending at the same time

RequestType ==
    [method : {"handle", "hardhat_reset", "objectParams"}]
        \union [method : {"evm_setIntervalMining"}, blockTime : Nat]

ASSUME RequestsAssumption == Requests \subseteq RequestType
ASSUME MaxRequestsAssumption == MaxRequests \in Nat /\ IntervalMining \in Nat

\* what these bounds leave room for: one node more than there are resets, one loop of a
\* timer more than there are restarts
Nodes == 1 .. MaxRequests + 1
Handles == 1 .. MaxRequests + 1
BlockTimes == {IntervalMining} \union
    {r.blockTime : r \in {q \in Requests : q.method = "evm_setIntervalMining"}}

Loops == Nodes \X Handles
Callers == Clients \union Loops

VARIABLES
    count, tasks, ticks, holders,   \* _mutex, see module Semaphore
    request,        \* the request a caller has sent and not got the answer of
    sent,           \* requests of clients so far
    node,           \* _node: 0 when undefined, or the number of the node
    created,        \* nodes created so far
    timers,         \* the mining timer created with each node
    listening       \* the nodes whose ethEvents the provider forwards

mutexVars == <<count, tasks, ticks, holders>>
nodeVars == <<node, created, timers, listening>>
vars == <<mutexVars, request, sent, nodeVars>>

Mutex == INSTANCE Semaphore
    WITH Processes <- Callers, Permits <- 1
Timer == INSTANCE MiningTimer WITH timer <- timers

\* the request of a timer's loop, and what is left of a hardhat_reset that has dropped
\* the node
IntervalMine == [method |-> "hardhat_intervalMine"]
Resetting == [method |-> "hardhat_reset_init"]

AnyRequest == Requests \union {IntervalMine, Resetting}

ASSUME NoRequestAssumption == NoRequest \notin AnyRequest

Init ==
    /\ Mutex!Init
    /\ request = [c \in Callers |-> NoRequest]
    /\ sent = 0
    /\ node = 0
    /\ created = 0
    /\ timers = [n \in Nodes |-> Timer!New(IntervalMining)]
    /\ listening = {}

\* mutant of SendRequest: the caller does not wait for the mutex it asked for
SendRequest_NotAwaited(c, r) ==
    /\ sent < MaxRequests
    /\ request[c] = NoRequest
    /\ c \notin holders
    /\ holders' = holders \union {c}
    /\ request' = [request EXCEPT ![c] = r]
    /\ sent' = sent + 1
    /\ UNCHANGED <<count, tasks, ticks, nodeVars>>

\* request up to the acquire
SendRequest(c, r) ==
    /\ sent < MaxRequests
    /\ request[c] = NoRequest
    /\ Mutex!Acquire(c)
    /\ request' = [request EXCEPT ![c] = r]
    /\ sent' = sent + 1
    /\ UNCHANGED nodeVars

MutexTick ==
    /\ Mutex!Tick
    /\ UNCHANGED <<request, sent, nodeVars>>

\* the answer, and the finally clause that releases the mutex
Answer(c) ==
    /\ request' = [request EXCEPT ![c] = NoRequest]
    /\ Mutex!Release(c)
    /\ UNCHANGED sent

Holds(c, method) ==
    /\ c \in holders
    /\ request[c] # NoRequest
    /\ request[c].method = method

\* mutant of RefuseObjectParams: the request is refused while it waits for the mutex
RefuseObjectParams_WhileWaiting(c) ==
    /\ c \in Mutex!Waiting
    /\ request[c] = [method |-> "objectParams"]
    /\ request' = [request EXCEPT ![c] = NoRequest]
    /\ UNCHANGED <<mutexVars, sent, nodeVars>>

\* params sent as an object: the request is refused between the acquire and the try
RefuseObjectParams(c) ==
    /\ Holds(c, "objectParams")
    /\ request' = [request EXCEPT ![c] = NoRequest]
    /\ UNCHANGED <<mutexVars, sent, nodeVars>>

NeedsNode(c) ==
    /\ c \in holders
    /\ request[c] \notin {NoRequest, [method |-> "objectParams"]}
    /\ node = 0

\* _init: a node, its modules, its timer, and the listener for its events
InitNode(c) ==
    /\ NeedsNode(c)
    /\ node' = created + 1
    /\ created' = created + 1
    /\ timers' = [timers EXCEPT ![created + 1] = Timer!Started(Timer!New(IntervalMining))]
    /\ listening' = listening \union {created + 1}
    /\ UNCHANGED <<mutexVars, request, sent>>

\* mutant of InitFails: the mutex is kept
InitFails_KeepsMutex(c) ==
    /\ NeedsNode(c)
    /\ request' = [request EXCEPT ![c] = NoRequest]
    /\ UNCHANGED <<mutexVars, sent, nodeVars>>

\* HardhatNode.create fails, the remote node of a fork being unreachable
InitFails(c) ==
    /\ NeedsNode(c)
    /\ Answer(c)
    /\ UNCHANGED nodeVars

\* a handler that changes nothing of the provider, or throws
HandleRequest(c) ==
    /\ node # 0
    /\ \E method \in {"handle", "hardhat_intervalMine", "hardhat_reset_init"} :
        Holds(c, method)
    /\ Answer(c)
    /\ UNCHANGED nodeVars

\* evm_setIntervalMining
SetIntervalMining(c) ==
    /\ node # 0
    /\ Holds(c, "evm_setIntervalMining")
    /\ timers' = [timers EXCEPT ![node] = Timer!WithBlockTime(@, request[c].blockTime)]
    /\ Answer(c)
    /\ UNCHANGED <<node, created, listening>>

\* mutant of ResetNode: the timer goes on
ResetNode_KeepsTimer(c) ==
    /\ node # 0
    /\ Holds(c, "hardhat_reset")
    /\ listening' = listening \ {node}
    /\ node' = 0
    /\ request' = [request EXCEPT ![c] = Resetting]
    /\ UNCHANGED <<mutexVars, sent, created, timers>>

\* mutant of ResetNode: the node is dropped before its listener is removed
ResetNode_KeepsListening(c) ==
    /\ node # 0
    /\ Holds(c, "hardhat_reset")
    /\ node' = 0
    /\ timers' = [timers EXCEPT ![node] = Timer!Stopped(@)]
    /\ request' = [request EXCEPT ![c] = Resetting]
    /\ UNCHANGED <<mutexVars, sent, created, listening>>

\* _reset up to its _init
ResetNode(c) ==
    /\ node # 0
    /\ Holds(c, "hardhat_reset")
    /\ listening' = listening \ {node}
    /\ node' = 0
    /\ timers' = [timers EXCEPT ![node] = Timer!Stopped(@)]
    /\ request' = [request EXCEPT ![c] = Resetting]
    /\ UNCHANGED <<mutexVars, sent, created>>

\* a timeout fires: _loop of a running timer sends hardhat_intervalMine
FireTimer(n, h) ==
    /\ h \in timers[n].pending
    /\ timers' = [timers EXCEPT ![n] = Timer!Fired(@, h)]
    /\ IF timers[n].state = "RUNNING"
       THEN /\ Mutex!Acquire(<<n, h>>)
            /\ request' = [request EXCEPT ![<<n, h>>] = IntervalMine]
       ELSE UNCHANGED <<mutexVars, request>>
    /\ UNCHANGED <<sent, node, created, listening>>

\* mutant of LoopContinues: a loop whose request is done sets no timeout
LoopContinues_Ends(n, h) ==
    /\ h \in timers[n].mining
    /\ request[<<n, h>>] = NoRequest
    /\ timers' = [timers EXCEPT ![n].mining = @ \ {h}]
    /\ UNCHANGED <<mutexVars, request, sent, node, created, listening>>

\* the request of a loop is answered, with a block or an error: the mining function
\* catches the error and _loop sets its next timeout
LoopContinues(n, h) ==
    /\ h \in timers[n].mining
    /\ request[<<n, h>>] = NoRequest
    /\ timers' = [timers EXCEPT ![n] = Timer!Mined(@, h)]
    /\ UNCHANGED <<mutexVars, request, sent, node, created, listening>>

Serve(c) ==
    \/ RefuseObjectParams(c)
    \/ InitNode(c)
    \/ InitFails(c)
    \/ HandleRequest(c)
    \/ SetIntervalMining(c)
    \/ ResetNode(c)

Next ==
    \/ \E c \in Clients, r \in Requests : SendRequest(c, r)
    \/ MutexTick
    \/ \E c \in Callers : Serve(c)
    \/ \E n \in Nodes, h \in Handles : FireTimer(n, h) \/ LoopContinues(n, h)

Spec == Init /\ [][Next]_vars

\* Ticks and timeouts are run by the event loop; every handler and every creation of a
\* node ends, with a result or an error.
Fairness ==
    /\ WF_vars(MutexTick)
    /\ \A c \in Callers : WF_vars(Serve(c))
    /\ \A n \in Nodes, h \in Handles : WF_vars(FireTimer(n, h)) /\ WF_vars(LoopContinues(n, h))

FairSpec == Spec /\ Fairness

-----------------------------------------------------------------------------
(* Properties *)

\* Every variable holds a value of its type, and a caller that waits for the mutex has
\* sent a request.
TypeOK ==
    /\ Mutex!TypeOK
    /\ request \in [Callers -> AnyRequest \union {NoRequest}]
    /\ sent \in 0 .. MaxRequests
    /\ node \in Nodes \union {0}
    /\ created \in Nodes \union {0}
    /\ timers \in [Nodes -> Timer!TimerType]
    /\ listening \subseteq Nodes
    /\ \A c \in Mutex!Waiting : request[c] # NoRequest

\* Only the timer of the current node runs: the timer of a node that was dropped by
\* hardhat_reset is stopped, also while or after the creation of the next node fails.
OldTimersAreStopped ==
    \A n \in Nodes : timers[n].state = "RUNNING" => n = node

\* Subscribers get the events of the current node and of no other one.
EventsOfTheCurrentNode == listening = {node} \ {0}

\* However requests, resets and failing creations follow each other, one node is alive: the
\* only one whose timer runs and whose events are heard.
OneNodeIsAlive == OldTimersAreStopped /\ EventsOfTheCurrentNode

\* Every request of a client is answered.
EveryRequestIsAnswered ==
    \A c \in Clients : request[c] # NoRequest ~> request[c] = NoRequest

\* Nobody sends params as an object, after which nothing is answered any more.
ArrayParamsOnly == \A c \in Clients : request[c] # [method |-> "objectParams"]

\* Requests take turns: at most one holds the mutex.  And while nobody sends params as an
\* object the mutex is not kept by a caller that has its answer, whether its handler ended,
\* threw or made no node: whoever waits, waits for a request under way or for a tick.
RequestsTakeTurns ==
    /\ [](\A c, d \in holders : c = d)
    /\ []ArrayParamsOnly =>
           [](/\ \A c \in holders : request[c] # NoRequest
              /\ Mutex!Waiting # {} /\ holders = {} => ticks > 0)

\* Every request of a client is answered, whatever the other clients send, whether or not
\* nodes can be created, and however often the timers ask for blocks in between.
ArrayParamsAreAnswered == []ArrayParamsOnly => EveryRequestIsAnswered

\* The loops of the timer of a dropped node come to an end.
OldTimersRunOut ==
    []ArrayParamsOnly =>
        \A n \in Nodes : n < created ~> timers[n].pending = {} /\ timers[n].mining = {}

\* As long as the timer of the current node is running, its loops get the mutex again and
\* again: no request, and no error of an earlier block, ends interval mining.
IntervalMiningGoesOn ==
    []ArrayParamsOnly =>
        \A n \in Nodes :
            <>[](node = n /\ timers[n].state = "RUNNING")
                => []<>(\E h \in Handles : <<n, h>> \in holders)

\* The loops of a timer live as long as its node: those of a dropped node end, and those of
\* the current one go on.
LoopsFollowTheNode == OldTimersRunOut /\ IntervalMiningGoesOn

=============================================================================
