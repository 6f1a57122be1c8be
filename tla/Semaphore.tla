----------------------------- MODULE Semaphore ------------------------------
(***************************************************************************)
(* The semaphore of internal/vendor/await-semaphore, whose one-permit form *)
(* is the mutex the Hardhat Network provider takes around every request.   *)
(*                                                                         *)
(* acquire only enqueues the caller and asks process.nextTick for a call   *)
(* of _sched; release calls _sched itself.  A tick may therefore find no   *)
(* permit, or no task, and do nothing.                                     *)
(***************************************************************************)
EXTENDS Integers, Sequences, FiniteSets

CONSTANTS
    Processes,      \* the callers of acquire
    Permits,        \* the count the semaphore is constructed with
    MaxTicks        \* bound on the ticks pending at the same time

ASSUME PermitsAssumption == Permits \in Nat \ {0}
ASSUME ProcessesAssumption == IsFiniteSet(Processes)

VARIABLES
    count,          \* Semaphore.count: free permits
    tasks,          \* Semaphore._tasks: the callers waiting, oldest first
    ticks,          \* calls of _sched that process.nextTick has yet to make
    holders         \* callers whose release has not been called yet

semaphoreVars == <<count, tasks, ticks, holders>>

Waiting == {tasks[i] : i \in DOMAIN tasks}

Init ==
    /\ count = Permits
    /\ tasks = << >>
    /\ ticks = 0
    /\ holders = {}

\* mutant of Acquire: _sched is not asked for
Acquire_NoTick(p) ==
    /\ p \notin Waiting \union holders
    /\ tasks' = Append(tasks, p)
    /\ UNCHANGED <<count, ticks, holders>>

\* A caller waits for its permit and gives it back before it asks for another.
Acquire(p) ==
    /\ p \notin Waiting \union holders
    /\ ticks < MaxTicks
    /\ tasks' = Append(tasks, p)
    /\ ticks' = ticks + 1
    /\ UNCHANGED <<count, holders>>

\* mutant of Sched: the caller that asked last goes first
Sched_LastFirst(free, holding) ==
    IF free > 0 /\ tasks # << >>
    THEN /\ count' = free - 1
         /\ tasks' = SubSeq(tasks, 1, Len(tasks) - 1)
         /\ holders' = holding \union {tasks[Len(tasks)]}
    ELSE /\ count' = free
         /\ holders' = holding
         /\ UNCHANGED tasks

\* mutant of Sched: the caller served stays in the queue
Sched_NotShifted(free, holding) ==
    IF free > 0 /\ tasks # << >>
    THEN /\ count' = free - 1
         /\ holders' = holding \union {Head(tasks)}
         /\ UNCHANGED tasks
    ELSE /\ count' = free
         /\ holders' = holding
         /\ UNCHANGED tasks

\* _sched with free permits and the callers still holding one
Sched(free, holding) ==
    IF free > 0 /\ tasks # << >>
    THEN /\ count' = free - 1
         /\ tasks' = Tail(tasks)
         /\ holders' = holding \union {Head(tasks)}
    ELSE /\ count' = free
         /\ holders' = holding
         /\ UNCHANGED tasks

Tick ==
    /\ ticks > 0
    /\ ticks' = ticks - 1
    /\ Sched(count, holders)

\* mutant of Release: the permit is given back twice
Release_Twice(p) ==
    /\ p \in holders
    /\ Sched(count + 2, holders \ {p})
    /\ UNCHANGED ticks

\* mutant of Release: the permit is given back and nobody is woken up
Release_NoSched(p) ==
    /\ p \in holders
    /\ count' = count + 1
    /\ holders' = holders \ {p}
    /\ UNCHANGED <<tasks, ticks>>

\* the function that resolves acquire; calling it again does nothing
Release(p) ==
    /\ p \in holders
    /\ Sched(count + 1, holders \ {p})
    /\ UNCHANGED ticks

Next ==
    \/ \E p \in Processes : Acquire(p) \/ Release(p)
    \/ Tick

Spec == Init /\ [][Next]_semaphoreVars

\* Node.js runs every tick it was asked for, and every holder gives its permit back.
Fairness ==
    /\ WF_semaphoreVars(Tick)
    /\ \A p \in Processes : WF_semaphoreVars(Release(p))

FairSpec == Spec /\ Fairness

-----------------------------------------------------------------------------
(* Properties *)

\* The variables are well typed, a caller waits at most once, and none waits while it
\* holds a permit.
TypeOK ==
    /\ count \in Nat
    /\ tasks \in Seq(Processes)
    /\ ticks \in Nat
    /\ holders \subseteq Processes
    /\ \A i, j \in DOMAIN tasks : tasks[i] = tasks[j] => i = j
    /\ Waiting \cap holders = {}

\* Every permit is either free or held by one caller, so that never more than Permits
\* callers are between acquire and release: with one permit, mutual exclusion.
PermitsAreConserved == count + Cardinality(holders) = Permits

\* No wake-up is lost: as long as a permit is free and a caller waits, a call of _sched
\* is under way for each permit that could be handed out.
NoLostWakeup ==
    (IF count < Len(tasks) THEN count ELSE Len(tasks)) <= ticks

\* Permits are neither lost nor made, and none is kept from a caller that waits for it.
PermitsAreSafe == PermitsAreConserved /\ NoLostWakeup

\* Whoever waits is served.
EveryCallerIsServed ==
    \A p \in Processes : p \in Waiting ~> p \in holders

\* Callers are served in the order in which they asked: a caller never gets its permit
\* while one that asked before it is still waiting.
ServedInOrder ==
    [][ \A p, q \in Processes :
            (\E i, j \in DOMAIN tasks : i < j /\ tasks[i] = p /\ tasks[j] = q)
            /\ q \in holders' => p \in holders' ]_semaphoreVars

\* Every caller gets the mutex, in the order in which they asked for it.
CallersAreServed == EveryCallerIsServed /\ ServedInOrder

=============================================================================
