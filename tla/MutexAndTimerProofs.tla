------------------------- MODULE MutexAndTimerProofs -------------------------
(***************************************************************************)
(* What TLAPS proves of modules Semaphore, MiningTimer and WebSockets, and *)
(* of the three side by side, for every set of callers, number of permits  *)
(* and block times and any number of loops, connections and subscriptions. *)
(***************************************************************************)
EXTENDS MCMutexAndTimer, FiniteSetTheorems, SequenceTheorems, TLAPS

(* The semaphore.                                                          *)

\* What a queue holds after its head was taken, or a caller put at its end.
LEMMA TailLemma ==
    ASSUME tasks \in Seq(Processes), tasks # << >>,
           \A i, j \in DOMAIN tasks : tasks[i] = tasks[j] => i = j
    PROVE  /\ Tail(tasks) \in Seq(Processes)
           /\ Len(Tail(tasks)) = Len(tasks) - 1
           /\ Head(tasks) \in Processes
           /\ Head(tasks) \in Waiting
           /\ \A i, j \in DOMAIN Tail(tasks) : Tail(tasks)[i] = Tail(tasks)[j] => i = j
           /\ {Tail(tasks)[i] : i \in DOMAIN Tail(tasks)} = Waiting \ {Head(tasks)}
<1>1. /\ Len(tasks) \in Nat \ {0}
      /\ DOMAIN tasks = 1 .. Len(tasks)
      /\ Head(tasks) = tasks[1]
      /\ 1 \in DOMAIN tasks
  OBVIOUS
<1>2. /\ Tail(tasks) \in Seq(Processes)
      /\ Len(Tail(tasks)) = Len(tasks) - 1
      /\ DOMAIN Tail(tasks) = 1 .. Len(tasks) - 1
      /\ \A i \in 1 .. Len(tasks) - 1 : Tail(tasks)[i] = tasks[i + 1]
  BY <1>1
<1>3. \A i \in 1 .. Len(tasks) - 1 : i + 1 \in DOMAIN tasks /\ i + 1 # 1
  BY <1>1
<1>4. \A i, j \in DOMAIN Tail(tasks) : Tail(tasks)[i] = Tail(tasks)[j] => i = j
  BY <1>1, <1>2, <1>3
<1>5. {Tail(tasks)[i] : i \in DOMAIN Tail(tasks)} \subseteq Waiting \ {Head(tasks)}
  BY <1>1, <1>2, <1>3 DEF Waiting
<1>6. \A i \in DOMAIN tasks : i # 1 => i - 1 \in 1 .. Len(tasks) - 1 /\ (i - 1) + 1 = i
  BY <1>1
<1>7. Waiting \ {Head(tasks)} \subseteq {Tail(tasks)[i] : i \in DOMAIN Tail(tasks)}
  BY <1>1, <1>2, <1>6 DEF Waiting
<1> QED
  BY <1>1, <1>2, <1>4, <1>5, <1>7 DEF Waiting

LEMMA AppendLemma ==
    ASSUME tasks \in Seq(Processes), NEW p \in Processes, p \notin Waiting,
           \A i, j \in DOMAIN tasks : tasks[i] = tasks[j] => i = j
    PROVE  LET longer == Append(tasks, p) IN
           /\ longer \in Seq(Processes)
           /\ Len(longer) = Len(tasks) + 1
           /\ \A i, j \in DOMAIN longer : longer[i] = longer[j] => i = j
           /\ {longer[i] : i \in DOMAIN longer} = Waiting \union {p}
<1> DEFINE longer == Append(tasks, p)
<1>1. /\ Len(tasks) \in Nat
      /\ DOMAIN tasks = 1 .. Len(tasks)
      /\ longer \in Seq(Processes)
      /\ Len(longer) = Len(tasks) + 1
      /\ DOMAIN longer = 1 .. Len(tasks) + 1
      /\ \A i \in 1 .. Len(tasks) : longer[i] = tasks[i]
      /\ longer[Len(tasks) + 1] = p
  OBVIOUS
<1> HIDE DEF longer
<1>2. \A i \in DOMAIN longer : i \in DOMAIN tasks \/ i = Len(tasks) + 1
  BY <1>1
<1>3. \A i, j \in DOMAIN longer : longer[i] = longer[j] => i = j
  BY <1>1, <1>2 DEF Waiting
<1>4. {longer[i] : i \in DOMAIN longer} = Waiting \union {p}
  <2>1. \A i \in DOMAIN tasks : i \in DOMAIN longer
    BY <1>1
  <2>2. Len(tasks) + 1 \in DOMAIN longer
    BY <1>1
  <2> QED
    BY <1>1, <1>2, <2>1, <2>2 DEF Waiting
<1> QED
  BY <1>1, <1>3, <1>4 DEF longer

-----------------------------------------------------------------------------
(* The inductive invariant.  The count of holders only means something for a  *)
(* finite set of them, and a caller at the head of the queue adds one holder  *)
(* because no caller waits and holds at once.                                 *)

Inv == TypeOK /\ IsFiniteSet(holders) /\ PermitsAreConserved /\ NoLostWakeup

\* _sched keeps what the invariant says, whatever permits and holders it finds.
LEMMA SchedLemma ==
    ASSUME TypeOK,
           NEW free \in Nat, NEW holding \in SUBSET Processes, IsFiniteSet(holding),
           Waiting \cap holding = {},
           free + Cardinality(holding) = Permits,
           Sched(free, holding)
    PROVE  /\ count' \in Nat
           /\ tasks' \in Seq(Processes)
           /\ holders' \subseteq Processes
           /\ \A i, j \in DOMAIN tasks' : tasks'[i] = tasks'[j] => i = j
           /\ Waiting' \cap holders' = {}
           /\ IsFiniteSet(holders')
           /\ PermitsAreConserved'
           /\ IF free > 0 /\ Len(tasks) > 0
              THEN count' = free - 1 /\ Len(tasks') = Len(tasks) - 1
              ELSE count' = free /\ Len(tasks') = Len(tasks)
<1>0. Len(tasks) \in Nat /\ (Len(tasks) > 0 <=> tasks # << >>)
  BY DEF TypeOK
<1>1. CASE free > 0 /\ tasks # << >>
  <2>1. /\ count' = free - 1
        /\ tasks' = Tail(tasks)
        /\ holders' = holding \union {Head(tasks)}
    BY <1>1 DEF Sched
  <2>2. /\ tasks' \in Seq(Processes)
        /\ Len(tasks') = Len(tasks) - 1
        /\ Head(tasks) \in Processes
        /\ Head(tasks) \in Waiting
        /\ \A i, j \in DOMAIN tasks' : tasks'[i] = tasks'[j] => i = j
        /\ Waiting' = Waiting \ {Head(tasks)}
    BY <1>1, <2>1, TailLemma DEF TypeOK, Waiting
  <2>3. Head(tasks) \notin holding
    BY <2>2
  <2>4. IsFiniteSet(holders') /\ Cardinality(holders') = Cardinality(holding) + 1
    BY <2>1, <2>3, FS_AddElement
  <2>5. Cardinality(holding) \in Nat
    BY FS_CardinalityType
  <2>6. PermitsAreConserved'
    BY <2>1, <2>4, <2>5, PermitsAssumption DEF PermitsAreConserved
  <2>7. Waiting' \cap holders' = {}
    BY <2>1, <2>2
  <2>8. holders' \subseteq Processes
    BY <2>1, <2>2
  <2>9. free > 0 /\ Len(tasks) > 0 /\ count' \in Nat
    BY <1>0, <1>1, <2>1
  <2> QED
    BY <2>1, <2>2, <2>4, <2>6, <2>7, <2>8, <2>9
<1>2. CASE ~ (free > 0 /\ tasks # << >>)
  <2>1. count' = free /\ tasks' = tasks /\ holders' = holding
    BY <1>2 DEF Sched
  <2>2. Waiting' = Waiting
    BY <2>1 DEF Waiting
  <2> QED
    BY <1>0, <1>2, <2>1, <2>2 DEF TypeOK, PermitsAreConserved
<1> QED
  BY <1>1, <1>2

LEMMA InvInit == Init => Inv
<1> SUFFICES ASSUME Init PROVE Inv
  OBVIOUS
<1>1. IsFiniteSet(holders) /\ Cardinality(holders) = 0
  BY FS_EmptySet DEF Init
<1>2. TypeOK
  BY PermitsAssumption DEF Init, TypeOK, Waiting
<1> QED
  BY <1>1, <1>2, PermitsAssumption DEF Init, Inv, PermitsAreConserved, NoLostWakeup

LEMMA InvStep == Inv /\ [Next]_semaphoreVars => Inv'
<1> SUFFICES ASSUME Inv, [Next]_semaphoreVars PROVE Inv'
  OBVIOUS
<1> USE DEF Inv
<1>0. Len(tasks) \in Nat /\ count \in Nat /\ ticks \in Nat
  BY DEF TypeOK
<1>1. ASSUME NEW p \in Processes, Acquire(p) PROVE Inv'
  <2>1. /\ tasks' = Append(tasks, p) /\ ticks' = ticks + 1
        /\ count' = count /\ holders' = holders
        /\ p \notin Waiting /\ p \notin holders
    BY <1>1 DEF Acquire
  <2>2. /\ tasks' \in Seq(Processes)
        /\ Len(tasks') = Len(tasks) + 1
        /\ \A i, j \in DOMAIN tasks' : tasks'[i] = tasks'[j] => i = j
        /\ Waiting' = Waiting \union {p}
    BY <2>1, AppendLemma DEF TypeOK, Waiting
  <2>3. TypeOK'
    BY <1>0, <2>1, <2>2 DEF TypeOK
  <2>4. PermitsAreConserved'
    BY <2>1 DEF PermitsAreConserved
  <2>5. NoLostWakeup'
    BY <1>0, <2>1, <2>2 DEF NoLostWakeup
  <2> QED
    BY <2>1, <2>3, <2>4, <2>5
<1>2. ASSUME Tick PROVE Inv'
  <2>1. ticks > 0 /\ ticks' = ticks - 1 /\ Sched(count, holders)
    BY <1>2 DEF Tick
  <2>2. /\ count \in Nat /\ holders \in SUBSET Processes /\ Waiting \cap holders = {}
        /\ count + Cardinality(holders) = Permits
    BY DEF TypeOK, PermitsAreConserved
  <2>3. /\ count' \in Nat
        /\ tasks' \in Seq(Processes)
        /\ holders' \subseteq Processes
        /\ \A i, j \in DOMAIN tasks' : tasks'[i] = tasks'[j] => i = j
        /\ Waiting' \cap holders' = {}
        /\ IsFiniteSet(holders')
        /\ PermitsAreConserved'
        /\ IF count > 0 /\ Len(tasks) > 0
           THEN count' = count - 1 /\ Len(tasks') = Len(tasks) - 1
           ELSE count' = count /\ Len(tasks') = Len(tasks)
    BY <2>1, <2>2, SchedLemma
  <2>4. ticks' \in Nat
    BY <1>0, <2>1
  <2>5. NoLostWakeup'
    BY <1>0, <2>1, <2>3 DEF NoLostWakeup
  <2> QED
    BY <2>3, <2>4, <2>5 DEF TypeOK
<1>3. ASSUME NEW p \in Processes, Release(p) PROVE Inv'
  <2>1. p \in holders /\ Sched(count + 1, holders \ {p}) /\ ticks' = ticks
    BY <1>3 DEF Release
  <2>2. /\ IsFiniteSet(holders \ {p})
        /\ Cardinality(holders \ {p}) = Cardinality(holders) - 1
    BY <2>1, FS_RemoveElement
  <2>3. /\ count + 1 \in Nat /\ holders \ {p} \in SUBSET Processes
        /\ Waiting \cap (holders \ {p}) = {}
    BY <1>0 DEF TypeOK
  <2>4. count + 1 + Cardinality(holders \ {p}) = Permits
    BY <1>0, <2>2, FS_CardinalityType DEF PermitsAreConserved
  <2>5. /\ count' \in Nat
        /\ tasks' \in Seq(Processes)
        /\ holders' \subseteq Processes
        /\ \A i, j \in DOMAIN tasks' : tasks'[i] = tasks'[j] => i = j
        /\ Waiting' \cap holders' = {}
        /\ IsFiniteSet(holders')
        /\ PermitsAreConserved'
        /\ IF count + 1 > 0 /\ Len(tasks) > 0
           THEN count' = (count + 1) - 1 /\ Len(tasks') = Len(tasks) - 1
           ELSE count' = count + 1 /\ Len(tasks') = Len(tasks)
    BY <2>1, <2>2, <2>3, <2>4, SchedLemma
  <2>6. NoLostWakeup'
    BY <1>0, <2>1, <2>5 DEF NoLostWakeup
  <2> QED
    BY <1>0, <2>1, <2>5, <2>6 DEF TypeOK
<1>4. ASSUME UNCHANGED semaphoreVars PROVE Inv'
  BY <1>4 DEF semaphoreVars, TypeOK, Waiting, PermitsAreConserved, NoLostWakeup
<1> QED
  BY <1>1, <1>2, <1>3, <1>4 DEF Next

LEMMA InvAlways == Spec => []Inv
BY InvInit, InvStep, PTL DEF Spec

\* Semaphore: the queue and the holders are well typed, and no caller waits twice or
\* waits while it holds a permit.
THEOREM TypeCorrect == Spec => []TypeOK
BY InvAlways, PTL DEF Inv

\* Permits are neither lost nor made: with one permit, the provider's mutex excludes.
THEOREM PermitsConserved == Spec => []PermitsAreConserved
BY InvAlways, PTL DEF Inv

\* A permit that is free while callers wait is always about to be handed out: acquire's
\* nextTick and release's _sched together miss no wake-up.
THEOREM WakeupsAreNotLost == Spec => []NoLostWakeup
BY InvAlways, PTL DEF Inv

\* Both together, whatever the order of ticks, releases and further callers.
THEOREM PermitsStaySafe == Spec => []PermitsAreSafe
BY InvAlways, PTL DEF Inv, PermitsAreSafe

-----------------------------------------------------------------------------
(* The mining timer.                                                       *)

\* What the invariant says of one timer.
Typed(t) == t \in TimerType /\ t.pending \cap t.mining = {}

Armed(t) == t.state = "RUNNING" => t.timeout \in t.pending \/ t.mining # {}

LEMMA WithTimeoutLemma ==
    ASSUME NEW t, Typed(t), FreeHandles(t) # {}
    PROVE  /\ Typed(WithTimeout(t))
           /\ Armed(WithTimeout(t))
           /\ WithTimeout(t).state = t.state
<1> DEFINE handle == CHOOSE h \in FreeHandles(t) : TRUE
<1>1. handle \in FreeHandles(t)
  OBVIOUS
<1>2. handle \in Handles /\ handle \notin t.pending /\ handle \notin t.mining
  BY <1>1 DEF FreeHandles
<1>3. WithTimeout(t) = [t EXCEPT !.timeout = handle, !.pending = @ \union {handle}]
  BY DEF WithTimeout
<1> HIDE DEF handle
<1>4. /\ WithTimeout(t).state = t.state
      /\ WithTimeout(t).mining = t.mining
      /\ WithTimeout(t).pending = t.pending \union {handle}
      /\ WithTimeout(t).timeout = handle
  BY <1>3 DEF Typed, TimerType
<1>5. WithTimeout(t) \in TimerType
  <2>1. t \in TimerType
    BY DEF Typed
  <2>2. t.pending \union {handle} \in SUBSET Handles /\ handle \in Handles \union {NoTimeout}
    BY <1>2, <2>1 DEF TimerType
  <2> QED
    BY <1>3, <2>1, <2>2 DEF TimerType
<1>6. WithTimeout(t).pending \intersect WithTimeout(t).mining = {}
  BY <1>2, <1>4 DEF Typed
<1>7. WithTimeout(t).timeout \in WithTimeout(t).pending
  BY <1>4
<1> QED
  BY <1>4, <1>5, <1>6, <1>7 DEF Typed, Armed

LEMMA StartedLemma ==
    ASSUME NEW t, Typed(t), Armed(t), FreeHandles(t) # {}
    PROVE  Typed(Started(t)) /\ Armed(Started(t))
<1>1. CASE t.state = "RUNNING" \/ ~ Enabled(t)
  BY <1>1 DEF Started
<1>2. CASE ~ (t.state = "RUNNING" \/ ~ Enabled(t))
  <2> DEFINE running == [t EXCEPT !.state = "RUNNING"]
  <2>1. Typed(running) /\ FreeHandles(running) # {}
    BY DEF Typed, TimerType, FreeHandles
  <2>2. Started(t) = WithTimeout(running)
    BY <1>2 DEF Started
  <2> HIDE DEF running
  <2> QED
    BY <2>1, <2>2, WithTimeoutLemma
<1> QED
  BY <1>1, <1>2

LEMMA StoppedLemma ==
    ASSUME NEW t, Typed(t)
    PROVE  /\ Typed(Stopped(t))
           /\ Armed(Stopped(t))
           /\ Stopped(t).state = "STOP"
           /\ FreeHandles(t) \subseteq FreeHandles(Stopped(t))
BY DEF Typed, TimerType, Stopped, Armed, FreeHandles

TimerInv == Typed(timer) /\ Armed(timer)

LEMMA TimerInvInit == TimerInit => TimerInv
<1> SUFFICES ASSUME NEW blockTime \in BlockTimes, timer = Started(New(blockTime))
             PROVE  TimerInv
  BY DEF TimerInit
<1>1. /\ Typed(New(blockTime)) /\ Armed(New(blockTime))
      /\ FreeHandles(New(blockTime)) # {}
  BY HandlesAssumption DEF New, Typed, TimerType, Armed, FreeHandles
<1> QED
  BY <1>1, StartedLemma DEF TimerInv

LEMMA SetBlockTimeStep ==
    ASSUME TimerInv, NEW blockTime \in BlockTimes, SetBlockTime(blockTime)
    PROVE  TimerInv'
<1>1. timer' = WithBlockTime(timer, blockTime) /\ FreeHandles(timer) # {}
  BY DEF SetBlockTime
<1>2. CASE blockTime = 0
  BY <1>1, <1>2, StoppedLemma DEF WithBlockTime, TimerInv
<1>3. CASE blockTime # 0
  <2> DEFINE t == [timer EXCEPT !.blockTime = blockTime]
  <2>1. Typed(t) /\ FreeHandles(t) # {}
    BY <1>1 DEF TimerInv, Typed, TimerType, FreeHandles
  <2>2. timer' = Started(Stopped(t))
    BY <1>1, <1>3 DEF WithBlockTime
  <2> HIDE DEF t
  <2>3. Typed(Stopped(t)) /\ Armed(Stopped(t)) /\ FreeHandles(Stopped(t)) # {}
    BY <2>1, StoppedLemma
  <2> QED
    BY <2>2, <2>3, StartedLemma DEF TimerInv
<1> QED
  BY <1>2, <1>3

LEMMA LoopStep ==
    ASSUME TimerInv, NEW handle \in Handles, Fire(handle) \/ MineDone(handle)
    PROVE  TimerInv'
<1>1. CASE Fire(handle)
  BY <1>1 DEF Fire, Fired, TimerInv, Typed, TimerType, Armed
<1>2. CASE MineDone(handle)
  <2> DEFINE t == [timer EXCEPT !.mining = @ \ {handle}]
  <2>1. Typed(t) /\ FreeHandles(t) # {}
    BY <1>2 DEF MineDone, TimerInv, Typed, TimerType, FreeHandles
  <2>2. timer' = WithTimeout(t)
    BY <1>2 DEF MineDone, Mined
  <2> HIDE DEF t
  <2> QED
    BY <2>1, <2>2, WithTimeoutLemma DEF TimerInv
<1> QED
  BY <1>1, <1>2

LEMMA TimerInvStep == TimerInv /\ [TimerNext]_timer => TimerInv'
<1> SUFFICES ASSUME TimerInv, [TimerNext]_timer PROVE TimerInv'
  OBVIOUS
<1>1. CASE Start
  BY <1>1, StartedLemma DEF Start, TimerInv
<1>2. CASE Stop
  BY <1>2, StoppedLemma DEF Stop, TimerInv
<1>3. CASE UNCHANGED timer
  BY <1>3 DEF TimerInv
<1> QED
  BY <1>1, <1>2, <1>3, SetBlockTimeStep, LoopStep DEF TimerNext, UserStep

LEMMA TimerInvAlways == TimerSpec => []TimerInv
BY TimerInvInit, TimerInvStep, PTL DEF TimerSpec

\* MiningTimer: a loop is either pending or mining, and every handle is one of a loop.
THEOREM TimerTypeCorrect == TimerSpec => []TimerTypeOK
<1>1. TimerInv => TimerTypeOK
  BY DEF TimerInv, Typed, TimerTypeOK
<1> QED
  BY <1>1, TimerInvAlways, PTL

\* A running mining timer never loses its loop, however often it is started, stopped and
\* set while the mining function is being awaited.
THEOREM RunningTimerIsArmed == TimerSpec => []RunningIsArmed
<1>1. TimerInv => RunningIsArmed
  BY DEF TimerInv, Armed, RunningIsArmed
<1> QED
  BY <1>1, TimerInvAlways, PTL
-----------------------------------------------------------------------------
(* The subscriptions of connections.  While the node is the same, an id that a   *)
(* connection keeps, or is about to be told, was handed out to it and is handed  *)
(* out once; the events an open connection passes on are therefore its own.      *)

ConnectionType ==
    [isClosed : BOOLEAN, subscriptions : SUBSET (1 .. MaxFilters), asked : Nat,
     answers : SUBSET (1 .. MaxFilters), closing : SUBSET (1 .. MaxFilters),
     late : SUBSET (1 .. MaxFilters)]

ConnectionsTyped ==
    /\ lastFilterId \in 0 .. MaxFilters /\ resets \in Nat
    /\ DOMAIN subscribed \subseteq 1 .. lastFilterId
    /\ \A id \in DOMAIN subscribed : subscribed[id] \in Sockets
    /\ socket \in [Sockets -> ConnectionType]
    /\ heard \in [Sockets -> SUBSET Sockets]

\* A closed connection unsubscribes what it had; an open one has nothing to end.
ClosingOK(c) == c.closing \subseteq c.subscriptions /\ (c.closing # {} => c.isClosed)

ClosingIsKept == \A s \in Sockets : ClosingOK(socket[s])

Known(c) == c.subscriptions \union c.answers

IdsAreTheirOwn ==
    resets = 0 => \A s \in Sockets : \A id \in Known(socket[s]) :
                      /\ id <= lastFilterId
                      /\ id \in DOMAIN subscribed => subscribed[id] = s

ConnectionsInv ==
    ConnectionsTyped /\ ClosingIsKept /\ IdsAreTheirOwn /\ HearTheirOwn /\ EventsArrive

LEMMA ConnectionsInvInit == ConnectionsInit => ConnectionsInv
<1> SUFFICES ASSUME ConnectionsInit PROVE ConnectionsInv
  OBVIOUS
<1>1. Connection \in ConnectionType
  BY DEF Connection, ConnectionType
<1>2. DOMAIN subscribed = {}
  BY DEF ConnectionsInit
<1>3. \A s \in Sockets : /\ socket[s] = Connection /\ heard[s] = {}
                         /\ ClosingOK(Connection) /\ Known(Connection) = {}
  BY DEF ConnectionsInit, Connection, ClosingOK, Known
<1>4. ConnectionsTyped
  BY <1>1, <1>2, IdsAssumption DEF ConnectionsInit, ConnectionsTyped
<1>5. ClosingIsKept /\ IdsAreTheirOwn /\ HearTheirOwn
  BY <1>3 DEF ClosingIsKept, IdsAreTheirOwn, HearTheirOwn
<1>6. EventsArrive
  BY <1>2 DEF EventsArrive
<1> QED
  BY <1>4, <1>5, <1>6 DEF ConnectionsInv

\* What a step that changes one connection and hands out no id has to leave as it was.
LEMMA OneConnectionLemma ==
    ASSUME ConnectionsInv, NEW s \in Sockets, NEW c \in ConnectionType,
           socket' = [socket EXCEPT ![s] = c],
           UNCHANGED <<subscribed, lastFilterId, resets, heard>>,
           ClosingOK(c),
           Known(c) \subseteq Known(socket[s]),
           c.isClosed \/ /\ ~ socket[s].isClosed
                         /\ socket[s].subscriptions \subseteq c.subscriptions
                         /\ Known(c) = Known(socket[s])
    PROVE  ConnectionsInv'
<1>1. /\ socket \in [Sockets -> ConnectionType]
      /\ socket' \in [Sockets -> ConnectionType]
      /\ socket'[s] = c
      /\ \A r \in Sockets : r # s => socket'[r] = socket[r]
  BY DEF ConnectionsInv, ConnectionsTyped
<1>2. ConnectionsTyped'
  BY <1>1 DEF ConnectionsInv, ConnectionsTyped
<1>3. ClosingIsKept'
  BY <1>1 DEF ConnectionsInv, ClosingIsKept
<1>4. \A r \in Sockets : Known(socket'[r]) \subseteq Known(socket[r])
  BY <1>1
<1>5. IdsAreTheirOwn'
  BY <1>4 DEF ConnectionsInv, IdsAreTheirOwn
<1>6. HearTheirOwn'
  BY DEF ConnectionsInv, HearTheirOwn
<1>7. ASSUME NEW id \in DOMAIN subscribed
      PROVE  \/ socket'[subscribed[id]].isClosed
             \/ id \in socket'[subscribed[id]].answers
             \/ /\ ~ socket'[subscribed[id]].isClosed
                /\ id \in socket'[subscribed[id]].subscriptions
  <2>1. subscribed[id] \in Sockets
    BY DEF ConnectionsInv, ConnectionsTyped
  <2>2. \/ socket[subscribed[id]].isClosed
        \/ id \in socket[subscribed[id]].answers
        \/ id \in socket[subscribed[id]].subscriptions
    BY DEF ConnectionsInv, EventsArrive, Listening
  <2>3. CASE subscribed[id] # s
    BY <1>1, <2>1, <2>2, <2>3
  <2>4. CASE subscribed[id] = s
    BY <1>1, <2>2, <2>4 DEF Known
  <2> QED
    BY <2>3, <2>4
<1>8. EventsArrive'
  BY <1>1, <1>7 DEF EventsArrive, Listening, ConnectionsInv, ConnectionsTyped
<1> QED
  BY <1>2, <1>3, <1>5, <1>6, <1>8 DEF ConnectionsInv

\* The four steps of that kind.
LEMMA AskStep ==
    ASSUME ConnectionsInv, NEW s \in Sockets, Ask(s)
    PROVE  ConnectionsInv'
<1> DEFINE c == [socket[s] EXCEPT !.asked = @ + 1]
<1>1. socket[s] \in ConnectionType /\ ClosingOK(socket[s])
  BY DEF ConnectionsInv, ConnectionsTyped, ClosingIsKept
<1>2. /\ c \in ConnectionType
      /\ c.isClosed = socket[s].isClosed /\ c.subscriptions = socket[s].subscriptions
      /\ c.answers = socket[s].answers /\ c.closing = socket[s].closing
  BY <1>1 DEF ConnectionType
<1>3. /\ socket' = [socket EXCEPT ![s] = c]
      /\ UNCHANGED <<subscribed, lastFilterId, resets, heard>>
  BY DEF Ask
<1> HIDE DEF c
<1>4. ClosingOK(c) /\ Known(c) = Known(socket[s])
  BY <1>1, <1>2 DEF ClosingOK, Known
<1> QED
  BY <1>2, <1>3, <1>4, OneConnectionLemma

LEMMA SubscribedStep ==
    ASSUME ConnectionsInv, NEW s \in Sockets, NEW id \in socket[s].answers, Subscribed(s, id)
    PROVE  ConnectionsInv'
<1> DEFINE c == [socket[s] EXCEPT !.answers = @ \ {id},
                                  !.subscriptions = @ \union {id},
                                  !.late = IF socket[s].isClosed THEN @ \union {id} ELSE @]
<1>1. socket[s] \in ConnectionType /\ ClosingOK(socket[s])
  BY DEF ConnectionsInv, ConnectionsTyped, ClosingIsKept
<1>2. /\ c \in ConnectionType
      /\ c.isClosed = socket[s].isClosed
      /\ c.subscriptions = socket[s].subscriptions \union {id}
      /\ c.answers = socket[s].answers \ {id}
      /\ c.closing = socket[s].closing
  BY <1>1 DEF ConnectionType
<1>3. /\ socket' = [socket EXCEPT ![s] = c]
      /\ UNCHANGED <<subscribed, lastFilterId, resets, heard>>
  BY DEF Subscribed
<1> HIDE DEF c
<1>4. ClosingOK(c) /\ Known(c) = Known(socket[s])
  BY <1>1, <1>2 DEF ClosingOK, Known
<1> QED
  BY <1>2, <1>3, <1>4, OneConnectionLemma

LEMMA CloseStep ==
    ASSUME ConnectionsInv, NEW s \in Sockets, Close(s)
    PROVE  ConnectionsInv'
<1> DEFINE c == [socket[s] EXCEPT !.isClosed = TRUE, !.closing = socket[s].subscriptions]
<1>1. socket[s] \in ConnectionType
  BY DEF ConnectionsInv, ConnectionsTyped
<1>2. /\ c \in ConnectionType
      /\ c.isClosed
      /\ c.subscriptions = socket[s].subscriptions
      /\ c.answers = socket[s].answers
      /\ c.closing = socket[s].subscriptions
  BY <1>1 DEF ConnectionType
<1>3. /\ socket' = [socket EXCEPT ![s] = c]
      /\ UNCHANGED <<subscribed, lastFilterId, resets, heard>>
  BY DEF Close
<1> HIDE DEF c
<1>4. ClosingOK(c) /\ Known(c) = Known(socket[s])
  BY <1>2 DEF ClosingOK, Known
<1> QED
  BY <1>2, <1>3, <1>4, OneConnectionLemma

\* An id the node drops is followed by no event: what remains is what was subscribed.
LEMMA DropLemma ==
    ASSUME NEW id, Drop(id)
    PROVE  /\ DOMAIN subscribed' \subseteq DOMAIN subscribed
           /\ \A i \in DOMAIN subscribed' : subscribed'[i] = subscribed[i]
BY DEF Drop

LEMMA LoseStep ==
    ASSUME ConnectionsInv, NEW id, Lose(id)
    PROVE  ConnectionsInv'
<1>1. /\ DOMAIN subscribed' \subseteq DOMAIN subscribed
      /\ \A i \in DOMAIN subscribed' : subscribed'[i] = subscribed[i]
      /\ UNCHANGED <<lastFilterId, resets, socket, heard>>
  BY DropLemma DEF Lose
<1>2. ConnectionsTyped' /\ ClosingIsKept' /\ HearTheirOwn'
  BY <1>1 DEF ConnectionsInv, ConnectionsTyped, ClosingIsKept, HearTheirOwn
<1>3. IdsAreTheirOwn'
  BY <1>1 DEF ConnectionsInv, IdsAreTheirOwn
<1>4. EventsArrive'
  BY <1>1 DEF ConnectionsInv, EventsArrive, Listening
<1> QED
  BY <1>2, <1>3, <1>4 DEF ConnectionsInv

LEMMA UnsubscribeStep ==
    ASSUME ConnectionsInv, NEW s \in Sockets, Unsubscribe(s)
    PROVE  ConnectionsInv'
<1>1. PICK id \in socket[s].closing :
        /\ Drop(id)
        /\ socket' = [socket EXCEPT ![s].closing = @ \ {id}]
        /\ UNCHANGED <<lastFilterId, resets, heard>>
  BY DEF Unsubscribe
<1>2. /\ DOMAIN subscribed' \subseteq DOMAIN subscribed
      /\ \A i \in DOMAIN subscribed' : subscribed'[i] = subscribed[i]
  BY <1>1, DropLemma
<1>3. /\ socket \in [Sockets -> ConnectionType]
      /\ \A r \in Sockets : ClosingOK(socket[r])
  BY DEF ConnectionsInv, ConnectionsTyped, ClosingIsKept
<1>4. /\ socket' \in [Sockets -> ConnectionType]
      /\ \A r \in Sockets : /\ socket'[r].isClosed = socket[r].isClosed
                            /\ socket'[r].subscriptions = socket[r].subscriptions
                            /\ socket'[r].answers = socket[r].answers
                            /\ socket'[r].closing \subseteq socket[r].closing
  BY <1>1, <1>3 DEF ConnectionType
<1>5. ConnectionsTyped' /\ HearTheirOwn'
  BY <1>1, <1>2, <1>4 DEF ConnectionsInv, ConnectionsTyped, HearTheirOwn
<1>6. ClosingIsKept'
  BY <1>3, <1>4 DEF ClosingIsKept, ClosingOK
<1>7. IdsAreTheirOwn'
  BY <1>1, <1>2, <1>4 DEF ConnectionsInv, IdsAreTheirOwn, Known
<1>8. EventsArrive'
  BY <1>2, <1>4 DEF ConnectionsInv, ConnectionsTyped, EventsArrive, Listening
<1> QED
  BY <1>5, <1>6, <1>7, <1>8 DEF ConnectionsInv

\* The id that is handed out is one no connection knows.
LEMMA SubscribeStep ==
    ASSUME ConnectionsInv, NEW s \in Sockets, Subscribe(s)
    PROVE  ConnectionsInv'
<1> DEFINE id == lastFilterId + 1
           c == [socket[s] EXCEPT !.asked = @ - 1, !.answers = @ \union {id}]
<1>1. /\ socket \in [Sockets -> ConnectionType] /\ socket[s] \in ConnectionType
      /\ lastFilterId \in 0 .. MaxFilters /\ lastFilterId < MaxFilters
      /\ socket[s].asked > 0
  BY DEF ConnectionsInv, ConnectionsTyped, Subscribe
<1>2. id \in 1 .. MaxFilters /\ lastFilterId \in Nat /\ id = lastFilterId + 1
  BY <1>1, IdsAssumption
<1>3. /\ c \in ConnectionType
      /\ c.isClosed = socket[s].isClosed
      /\ c.subscriptions = socket[s].subscriptions
      /\ c.answers = socket[s].answers \union {id}
      /\ c.closing = socket[s].closing
  <2>1. socket[s].asked - 1 \in Nat
    BY <1>1 DEF ConnectionType
  <2>2. socket[s].answers \union {id} \in SUBSET (1 .. MaxFilters)
    <3> HIDE DEF id
    <3> QED
      BY <1>1, <1>2 DEF ConnectionType
  <2> QED
    BY <1>1, <2>1, <2>2 DEF ConnectionType
<1>4. /\ lastFilterId' = id
      /\ DOMAIN subscribed' = DOMAIN subscribed \union {id}
      /\ \A i \in DOMAIN subscribed' : subscribed'[i] = IF i = id THEN s ELSE subscribed[i]
      /\ socket' = [socket EXCEPT ![s] = c]
      /\ UNCHANGED <<resets, heard>>
  BY DEF Subscribe
<1> HIDE DEF id, c
<1>5. /\ socket' \in [Sockets -> ConnectionType]
      /\ socket'[s] = c
      /\ \A r \in Sockets : r # s => socket'[r] = socket[r]
  BY <1>1, <1>3, <1>4
<1>6. id \notin DOMAIN subscribed
  BY <1>2 DEF ConnectionsInv, ConnectionsTyped
<1>7. ConnectionsTyped'
  <2>1. DOMAIN subscribed' \subseteq 1 .. id
    BY <1>2, <1>4 DEF ConnectionsInv, ConnectionsTyped
  <2>2. \A i \in DOMAIN subscribed' : subscribed'[i] \in Sockets
    BY <1>4 DEF ConnectionsInv, ConnectionsTyped
  <2>3. id \in 0 .. MaxFilters
    BY <1>2
  <2> QED
    BY <1>4, <1>5, <2>1, <2>2, <2>3 DEF ConnectionsInv, ConnectionsTyped
<1>8. ClosingIsKept' /\ HearTheirOwn'
  BY <1>3, <1>4, <1>5 DEF ConnectionsInv, ClosingIsKept, ClosingOK, HearTheirOwn
<1>9. IdsAreTheirOwn'
  <2> SUFFICES ASSUME resets = 0, NEW r \in Sockets, NEW i \in Known(socket'[r])
               PROVE  i <= id /\ (i \in DOMAIN subscribed' => subscribed'[i] = r)
    BY <1>4 DEF IdsAreTheirOwn
  <2>1. CASE i = id
    <3>1. id \notin Known(socket[r])
      BY <1>2 DEF ConnectionsInv, IdsAreTheirOwn
    <3>2. r = s
      BY <1>5, <2>1, <3>1
    <3> QED
      BY <1>2, <1>4, <2>1, <3>2
  <2>2. CASE i # id
    <3>1. i \in Known(socket[r])
      BY <1>3, <1>5, <2>2 DEF Known
    <3>2. i <= lastFilterId /\ (i \in DOMAIN subscribed => subscribed[i] = r)
      BY <3>1 DEF ConnectionsInv, IdsAreTheirOwn
    <3>3. i \in 1 .. MaxFilters
      BY <1>1, <3>1 DEF Known, ConnectionType
    <3> QED
      BY <1>2, <1>4, <2>2, <3>2, <3>3
  <2> QED
    BY <2>1, <2>2
<1>10. EventsArrive'
  <2>1. ASSUME NEW i \in DOMAIN subscribed'
        PROVE  \/ socket'[subscribed'[i]].isClosed
               \/ i \in socket'[subscribed'[i]].answers
               \/ i \in socket'[subscribed'[i]].subscriptions
    <3>1. CASE i = id
      BY <1>3, <1>4, <1>5, <3>1
    <3>2. CASE i # id
      <4>1. i \in DOMAIN subscribed /\ subscribed'[i] = subscribed[i] /\ subscribed[i] \in Sockets
        BY <1>4, <3>2 DEF ConnectionsInv, ConnectionsTyped
      <4>2. \/ socket[subscribed[i]].isClosed
            \/ i \in socket[subscribed[i]].answers
            \/ i \in socket[subscribed[i]].subscriptions
        BY <4>1 DEF ConnectionsInv, EventsArrive, Listening
      <4> QED
        BY <1>3, <1>5, <4>1, <4>2
    <3> QED
      BY <3>1, <3>2
  <2> QED
    BY <1>7, <2>1 DEF EventsArrive, Listening, ConnectionsTyped
<1> QED
  BY <1>7, <1>8, <1>9, <1>10 DEF ConnectionsInv

\* A connection passes an event on only if it knows the id, and then the id is its own.
LEMMA EmitStep ==
    ASSUME ConnectionsInv, NEW id \in DOMAIN subscribed, Emit(id)
    PROVE  ConnectionsInv'
<1>1. /\ heard' = [s \in Sockets |-> IF s \in Listening(id)
                                     THEN heard[s] \union {subscribed[id]} ELSE heard[s]]
      /\ UNCHANGED <<subscribed, lastFilterId, resets, socket>>
  BY DEF Emit
<1>2. subscribed[id] \in Sockets /\ heard \in [Sockets -> SUBSET Sockets]
  BY DEF ConnectionsInv, ConnectionsTyped
<1>3. ConnectionsTyped'
  BY <1>1, <1>2 DEF ConnectionsInv, ConnectionsTyped
<1>4. ClosingIsKept' /\ IdsAreTheirOwn'
  BY <1>1 DEF ConnectionsInv, ClosingIsKept, IdsAreTheirOwn
<1>5. HearTheirOwn'
  <2> SUFFICES ASSUME resets = 0, NEW s \in Sockets PROVE heard'[s] \subseteq {s}
    BY <1>1 DEF HearTheirOwn
  <2>1. heard[s] \subseteq {s}
    BY DEF ConnectionsInv, HearTheirOwn
  <2>2. s \in Listening(id) => subscribed[id] = s
    BY DEF ConnectionsInv, IdsAreTheirOwn, Listening, Known
  <2> QED
    BY <1>1, <2>1, <2>2
<1>6. EventsArrive'
  BY <1>1 DEF ConnectionsInv, EventsArrive, Listening
<1> QED
  BY <1>3, <1>4, <1>5, <1>6 DEF ConnectionsInv

\* hardhat_reset keeps what the connections know, which is then no longer their own.
LEMMA ResetNodeStep ==
    ASSUME ConnectionsInv, ResetNode
    PROVE  ConnectionsInv'
<1>1. /\ resets' = resets + 1 /\ resets' # 0 /\ resets' \in Nat
      /\ lastFilterId' = 0 /\ DOMAIN subscribed' = {}
      /\ UNCHANGED <<socket, heard>>
  BY DEF ConnectionsInv, ConnectionsTyped, ResetNode
<1>2. ConnectionsTyped'
  BY <1>1, IdsAssumption DEF ConnectionsInv, ConnectionsTyped
<1>3. ClosingIsKept' /\ IdsAreTheirOwn' /\ HearTheirOwn' /\ EventsArrive'
  BY <1>1 DEF ConnectionsInv, ClosingIsKept, IdsAreTheirOwn, HearTheirOwn, EventsArrive
<1> QED
  BY <1>2, <1>3 DEF ConnectionsInv

LEMMA ConnectionsInvStep ==
    ConnectionsInv /\ [ConnectionsNext]_connectionVars => ConnectionsInv'
<1> SUFFICES ASSUME ConnectionsInv, [ConnectionsNext]_connectionVars PROVE ConnectionsInv'
  OBVIOUS
<1>1. CASE UNCHANGED connectionVars
  BY <1>1 DEF connectionVars, ConnectionsInv, ConnectionsTyped, ClosingIsKept, IdsAreTheirOwn,
              HearTheirOwn, EventsArrive, Listening
<1>2. CASE ConnectionsNext
  BY <1>2, AskStep, SubscribeStep, CloseStep, UnsubscribeStep, SubscribedStep, EmitStep,
     LoseStep, ResetNodeStep DEF ConnectionsNext
<1> QED
  BY <1>1, <1>2

LEMMA ConnectionsInvAlways == ConnectionsSpec => []ConnectionsInv
BY ConnectionsInvInit, ConnectionsInvStep, PTL DEF ConnectionsSpec

LEMMA ConnectionsInvTypes == ConnectionsInv => ConnectionsTypeOK
<1> SUFFICES ASSUME ConnectionsInv, NEW s \in Sockets
             PROVE  /\ socket[s].closing \subseteq socket[s].subscriptions
                    /\ socket[s].subscriptions \union socket[s].answers \subseteq 1 .. MaxFilters
                    /\ socket[s].closing # {} => socket[s].isClosed
  BY DEF ConnectionsInv, ConnectionsTyped, ConnectionsTypeOK
<1>1. socket[s] \in ConnectionType /\ ClosingOK(socket[s])
  BY DEF ConnectionsInv, ConnectionsTyped, ClosingIsKept
<1> QED
  BY <1>1 DEF ConnectionType, ClosingOK

\* WebSockets: only ids that were handed out are subscribed or kept, and only a closed
\* connection ends them.
THEOREM ConnectionsTypeCorrect == ConnectionsSpec => []ConnectionsTypeOK
BY ConnectionsInvAlways, ConnectionsInvTypes, PTL

\* While the node is the same, a connection is sent events of its own subscriptions only;
\* and once it knows the id they reach it, whatever other connections do, are answered late
\* or lose, and also after hardhat_reset.
THEOREM EventsStayWithTheirSocket == ConnectionsSpec => []EventsFollowTheirSocket
BY ConnectionsInvAlways, PTL DEF ConnectionsInv, EventsFollowTheirSocket

-----------------------------------------------------------------------------
(* The three together, as a run of MCMutexAndTimer interleaves them.           *)

\* The mutex, the timer and the connections keep their types side by side.
THEOREM TypesStayCorrect == MCSpec => []TypesOK
<1> DEFINE Everything == Inv /\ TimerInv /\ ConnectionsInv
<1>1. MCInit => Everything
  BY InvInit, TimerInvInit, ConnectionsInvInit DEF MCInit
<1>2. Everything /\ [MCNext]_<<part, semaphoreVars, timer, connectionVars>> => Everything'
  <2> SUFFICES ASSUME Everything, [MCNext]_<<part, semaphoreVars, timer, connectionVars>>
               PROVE  Everything'
    OBVIOUS
  <2>1. /\ [Next]_semaphoreVars
        /\ [TimerNext]_timer
        /\ [ConnectionsNext]_connectionVars
    BY DEF MCNext
  <2> QED
    BY <2>1, InvStep, TimerInvStep, ConnectionsInvStep
<1>3. Everything => TypesOK
  BY ConnectionsInvTypes DEF Inv, TimerInv, Typed, TimerTypeOK, TypesOK
<1> QED
  BY <1>1, <1>2, <1>3, PTL DEF MCSpec

=============================================================================
