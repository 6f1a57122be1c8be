-------------------------- MODULE MCMutexAndTimer ---------------------------
(* Instance of Semaphore, of MiningTimer and of WebSockets for TLC: what is  *)
(* driven by callbacks.  The three share nothing here (Provider brings the   *)
(* first two together): part says which of them a behaviour is one of.       *)
EXTENDS Semaphore, MiningTimer, WebSockets

VARIABLE part

MCInit ==
    /\ part \in {"mutex", "timer", "connections"}
    /\ Init /\ TimerInit /\ ConnectionsInit
    /\ part # "timer" => timer.blockTime = 0

MCNext ==
    \/ part = "mutex" /\ Next /\ UNCHANGED <<part, timer, connectionVars>>
    \/ part = "timer" /\ TimerNext /\ UNCHANGED <<part, semaphoreVars, connectionVars>>
    \/ part = "connections" /\ ConnectionsNext /\ UNCHANGED <<part, semaphoreVars, timer>>

MCSpec == MCInit /\ [][MCNext]_<<part, semaphoreVars, timer, connectionVars>>

MCFairSpec == MCSpec /\ Fairness /\ TimerFairness /\ ConnectionsFairness

\* The mutex, the timer and the connections are of their types.
TypesOK == TypeOK /\ TimerTypeOK /\ ConnectionsTypeOK

=============================================================================
