---------------------------- MODULE WebSockets ------------------------------
(***************************************************************************)
(* The subscriptions of websocket connections: handleWs of                 *)
(* jsonrpc/handler.ts over the subscriptions of the node (module Filters), *)
(* of which only the ids matter here and who asked for them.               *)
(*                                                                         *)
(* A request is one action where the node handles it; a connection may     *)
(* close, and the node may be reset, between a request and its answer.     *)
(***************************************************************************)
EXTENDS Naturals, FiniteSets

CONSTANTS
    Sockets,      \* the websocket connections
    MaxFilters, MaxResets   \* bounds

ASSUME IdsAssumption == MaxFilters \in Nat

VARIABLES
    subscribed,   \* the node's subscriptions: by id, the connection that asked
    lastFilterId,
    resets,       \* how often the node was replaced
    socket,       \* the connections
    heard         \* for each connection, whose events it was sent

connectionVars == <<subscribed, lastFilterId, resets, socket, heard>>

(* What handleWs keeps for a connection: whether it is closed, and the     *)
(* subscriptions it knows.  asked counts requests the node has not handled *)
(* yet, answers are the ids whose answer is on its way, closing those      *)
(* whose eth_unsubscribe the close sent, late those answered after it.     *)
Connection == [isClosed |-> FALSE, subscriptions |-> {}, asked |-> 0, answers |-> {}, closing |-> {}, late |-> {}]

ConnectionsInit ==
    /\ subscribed = <<>> /\ lastFilterId = 0 /\ resets = 0
    /\ socket = [s \in Sockets |-> Connection]
    /\ heard = [s \in Sockets |-> {}]

Drop(id) == subscribed' = [i \in DOMAIN subscribed \ {id} |-> subscribed[i]]

\* A message with an eth_subscribe request, or several in a batch.
Ask(s) ==
    /\ ~ socket[s].isClosed /\ socket[s].asked < 2
    /\ socket' = [socket EXCEPT ![s].asked = @ + 1]
    /\ UNCHANGED <<subscribed, lastFilterId, resets, heard>>

\* mutant of Subscribe: the counter is left as it was
Subscribe_NotCounted(s) ==
    /\ socket[s].asked > 0 /\ lastFilterId < MaxFilters
    /\ subscribed' = [i \in DOMAIN subscribed \union {lastFilterId + 1} |->
                        IF i = lastFilterId + 1 THEN s ELSE subscribed[i]]
    /\ socket' = [socket EXCEPT ![s].asked = @ - 1, ![s].answers = @ \union {lastFilterId + 1}]
    /\ UNCHANGED <<lastFilterId, resets, heard>>

\* The node handles eth_subscribe.
Subscribe(s) ==
    /\ socket[s].asked > 0 /\ lastFilterId < MaxFilters
    /\ lastFilterId' = lastFilterId + 1
    /\ subscribed' = [i \in DOMAIN subscribed \union {lastFilterId'} |->
                        IF i = lastFilterId' THEN s ELSE subscribed[i]]
    /\ socket' = [socket EXCEPT ![s].asked = @ - 1, ![s].answers = @ \union {lastFilterId'}]
    /\ UNCHANGED <<resets, heard>>

\* mutant of Subscribed: one connection keeps one subscription
Subscribed_OnlyOne(s, id) ==
    /\ id \in socket[s].answers
    /\ socket' = [socket EXCEPT ![s].answers = @ \ {id},
                                ![s].subscriptions = IF @ = {} THEN {id} ELSE @]
    /\ UNCHANGED <<subscribed, lastFilterId, resets, heard>>

\* _handleSingleWsRequest: the id is kept, also when the connection closed meanwhile.
Subscribed(s, id) ==
    /\ id \in socket[s].answers
    /\ socket' = [socket EXCEPT ![s].answers = @ \ {id},
                                ![s].subscriptions = @ \union {id},
                                ![s].late = IF socket[s].isClosed THEN @ \union {id} ELSE @]
    /\ UNCHANGED <<subscribed, lastFilterId, resets, heard>>

\* mutant of Listening: every connection is told of every event
Listening_All(id) == {s \in Sockets : ~ socket[s].isClosed}

\* The connections whose listener passes an event on.
Listening(id) == {s \in Sockets : ~ socket[s].isClosed /\ id \in socket[s].subscriptions}

\* The node emits an event of a subscription.
Emit(id) ==
    /\ id \in DOMAIN subscribed
    /\ heard' = [s \in Sockets |->
                    IF s \in Listening(id) THEN heard[s] \union {subscribed[id]} ELSE heard[s]]
    /\ UNCHANGED <<subscribed, lastFilterId, resets, socket>>

\* eth_unsubscribe by any client, or the node dropping an expired subscription.
Lose(id) ==
    /\ id \in DOMAIN subscribed
    /\ Drop(id)
    /\ UNCHANGED <<lastFilterId, resets, socket, heard>>

\* mutant of Close: nothing is unsubscribed
Close_OnlyMarked(s) ==
    /\ ~ socket[s].isClosed
    /\ socket' = [socket EXCEPT ![s].isClosed = TRUE]
    /\ UNCHANGED <<subscribed, lastFilterId, resets, heard>>

\* ws.on("close"): an eth_unsubscribe is sent for each subscription known by now.
Close(s) ==
    /\ ~ socket[s].isClosed
    /\ socket' = [socket EXCEPT ![s].isClosed = TRUE, ![s].closing = socket[s].subscriptions]
    /\ UNCHANGED <<subscribed, lastFilterId, resets, heard>>

Unsubscribe(s) ==
    \E id \in socket[s].closing :
        /\ Drop(id)
        /\ socket' = [socket EXCEPT ![s].closing = @ \ {id}]
        /\ UNCHANGED <<lastFilterId, resets, heard>>

\* hardhat_reset: a node without subscriptions, whose ids start from 1 again.  The
\* connections keep theirs.
ResetNode ==
    /\ resets < MaxResets
    /\ resets' = resets + 1
    /\ subscribed' = <<>> /\ lastFilterId' = 0
    /\ UNCHANGED <<socket, heard>>

ConnectionsNext ==
    \/ \E s \in Sockets :
        \/ Ask(s) \/ Subscribe(s) \/ Close(s) \/ Unsubscribe(s)
        \/ \E id \in socket[s].answers : Subscribed(s, id)
    \/ \E id \in DOMAIN subscribed : Emit(id) \/ Lose(id)
    \/ ResetNode

\* Every request that was sent is answered (module Provider).
ConnectionsFairness == \A s \in Sockets : WF_connectionVars(Unsubscribe(s))

ConnectionsSpec == ConnectionsInit /\ [][ConnectionsNext]_connectionVars /\ ConnectionsFairness

-----------------------------------------------------------------------------
(* Properties.                                                             *)

\* Only ids that were handed out are subscribed, kept or being unsubscribed.
ConnectionsTypeOK ==
    /\ lastFilterId \in 0 .. MaxFilters
    /\ DOMAIN subscribed \subseteq 1 .. lastFilterId
    /\ \A s \in Sockets :
        /\ socket[s].closing \subseteq socket[s].subscriptions
        /\ socket[s].subscriptions \union socket[s].answers \subseteq 1 .. MaxFilters
        /\ socket[s].closing # {} => socket[s].isClosed

\* While the node is the same, a connection is sent events of its own subscriptions only.
\* (After a reset ids are handed out again, and a connection hears whoever got its id.)
HearTheirOwn == resets = 0 => \A s \in Sockets : heard[s] \subseteq {s}

\* Once the answer to eth_subscribe has reached the handler, the events of the subscription
\* reach the open connection that asked for it, whatever other connections do and also
\* after a reset.  (Those emitted before are dropped.)
EventsArrive ==
    \A id \in DOMAIN subscribed :
        LET s == subscribed[id]
        IN  socket[s].isClosed \/ id \in socket[s].answers \/ s \in Listening(id)

\* While the node is the same, the subscriptions that a connection had when it closed are
\* removed from the node; the ones answered later are left to expire.
SubscriptionsEnd ==
    \A s \in Sockets : \A id \in 1 .. MaxFilters :
        socket[s].isClosed /\ id \in socket[s].subscriptions \ socket[s].late
            ~> id \notin DOMAIN subscribed \/ resets > 0

\* A subscription goes with the connection that asked for it: its events reach that one and
\* no other, and it ends with it.
EventsFollowTheirSocket == HearTheirOwn /\ EventsArrive
SubscriptionsFollowTheirSocket == []EventsFollowTheirSocket /\ SubscriptionsEnd

=============================================================================
