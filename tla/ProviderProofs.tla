--------------------------- MODULE ProviderProofs ---------------------------
(***************************************************************************)
(* What TLAPS proves of module Provider, for all clients, requests and     *)
(* bounds.                                                                 *)
(***************************************************************************)
EXTENDS Provider, FiniteSetTheorems, SequenceTheorems, TLAPS

(* One node at a time.  The two properties are inductive together: a new node *)
(* is only made when there is none, and then no timer runs.                   *)

OneNode ==
    /\ node \in Nat /\ created \in Nat
    /\ DOMAIN timers = Nodes
    /\ \A n \in Nodes : "state" \in DOMAIN timers[n]
    /\ OldTimersAreStopped
    /\ EventsOfTheCurrentNode

LEMMA TimerStates ==
    ASSUME NEW t, "state" \in DOMAIN t
    PROVE  /\ "state" \in DOMAIN Timer!Stopped(t) /\ Timer!Stopped(t).state # "RUNNING"
           /\ "state" \in DOMAIN Timer!Started(t)
           /\ \A blockTime : "state" \in DOMAIN Timer!WithBlockTime(t, blockTime)
           /\ \A h : /\ "state" \in DOMAIN Timer!Fired(t, h)
                     /\ Timer!Fired(t, h).state = t.state
                     /\ "state" \in DOMAIN Timer!Mined(t, h)
                     /\ Timer!Mined(t, h).state = t.state
BY DEF Timer!Stopped, Timer!Started, Timer!WithBlockTime, Timer!Fired, Timer!Mined,
       Timer!WithTimeout

LEMMA OneNodeInit == Init => OneNode
BY MaxRequestsAssumption
   DEF Init, OneNode, Nodes, Timer!New, OldTimersAreStopped, EventsOfTheCurrentNode

\* A step that leaves the nodes alone, and lets no timer start to run.
LEMMA TimerStep ==
    ASSUME OneNode, UNCHANGED <<node, created, listening>>,
           DOMAIN timers' = Nodes,
           \A n \in Nodes :
                /\ "state" \in DOMAIN timers'[n]
                /\ timers'[n].state = "RUNNING" => timers[n].state = "RUNNING" \/ n = node
    PROVE  OneNode'
BY DEF OneNode, OldTimersAreStopped, EventsOfTheCurrentNode

LEMMA OneNodeStep == OneNode /\ [Next]_vars => OneNode'
<1> SUFFICES ASSUME OneNode, [Next]_vars PROVE OneNode'
  OBVIOUS
<1>0. /\ node \in Nat /\ created \in Nat /\ DOMAIN timers = Nodes
      /\ \A n \in Nodes : "state" \in DOMAIN timers[n]
  BY DEF OneNode
<1>1. ASSUME NEW c \in Clients, NEW r \in Requests, SendRequest(c, r) PROVE OneNode'
  BY <1>0, <1>1, TimerStep DEF SendRequest, nodeVars
<1>2. ASSUME MutexTick \/ UNCHANGED vars PROVE OneNode'
  BY <1>0, <1>2, TimerStep DEF MutexTick, vars, nodeVars
<1>3. ASSUME NEW c \in Callers, Serve(c) PROVE OneNode'
  <2>1. CASE RefuseObjectParams(c) \/ InitFails(c) \/ HandleRequest(c)
    BY <1>0, <2>1, TimerStep DEF RefuseObjectParams, InitFails, HandleRequest, nodeVars
  <2>2. CASE InitNode(c)
    <3> DEFINE started == Timer!Started(Timer!New(IntervalMining))
    <3>1. /\ node = 0 /\ node' = created + 1 /\ created' = created + 1
          /\ timers' = [timers EXCEPT ![created + 1] = started]
          /\ listening' = listening \union {created + 1}
      BY <2>2 DEF InitNode, NeedsNode
    <3>2. "state" \in DOMAIN Timer!New(IntervalMining)
      BY DEF Timer!New
    <3>3. "state" \in DOMAIN started
      BY <3>2, TimerStates
    <3> HIDE DEF started
    <3>4. \A n \in Nodes : timers[n].state # "RUNNING"
      BY <3>1 DEF OneNode, OldTimersAreStopped, Nodes
    <3>5. listening = {} /\ created + 1 \in Nat /\ created + 1 # 0
      BY <1>0, <3>1 DEF OneNode, EventsOfTheCurrentNode
    <3>6. \A n \in Nodes :
              /\ "state" \in DOMAIN timers'[n]
              /\ timers'[n].state = "RUNNING" => n = node'
      BY <1>0, <3>1, <3>3, <3>4
    <3> QED
      BY <1>0, <3>1, <3>5, <3>6 DEF OneNode, OldTimersAreStopped, EventsOfTheCurrentNode
  <2>3. CASE SetIntervalMining(c)
    <3>1. /\ timers' = [timers EXCEPT ![node] =
                            Timer!WithBlockTime(timers[node], request[c].blockTime)]
          /\ UNCHANGED <<node, created, listening>>
      BY <2>3 DEF SetIntervalMining
    <3>2. \A n \in Nodes :
              /\ "state" \in DOMAIN timers'[n]
              /\ timers'[n].state = "RUNNING" => timers[n].state = "RUNNING" \/ n = node
      BY <1>0, <3>1, TimerStates
    <3> QED
      BY <1>0, <3>1, <3>2, TimerStep
  <2>4. CASE ResetNode(c)
    <3>1. /\ node # 0 /\ node' = 0 /\ created' = created
          /\ listening' = listening \ {node}
          /\ timers' = [timers EXCEPT ![node] = Timer!Stopped(timers[node])]
      BY <2>4 DEF ResetNode
    <3>2. \A n \in Nodes :
              "state" \in DOMAIN timers'[n] /\ timers'[n].state # "RUNNING"
      BY <1>0, <3>1, TimerStates DEF OneNode, OldTimersAreStopped
    <3>3. listening' = {}
      BY <3>1 DEF OneNode, EventsOfTheCurrentNode
    <3> QED
      BY <1>0, <3>1, <3>2, <3>3 DEF OneNode, OldTimersAreStopped, EventsOfTheCurrentNode
  <2> QED
    BY <1>3, <2>1, <2>2, <2>3, <2>4 DEF Serve
<1>4. ASSUME NEW n \in Nodes, NEW h \in Handles, FireTimer(n, h) \/ LoopContinues(n, h)
      PROVE  OneNode'
  <2>1. UNCHANGED <<node, created, listening>>
    BY <1>4 DEF FireTimer, LoopContinues
  <2>2. \/ timers' = [timers EXCEPT ![n] = Timer!Fired(timers[n], h)]
        \/ timers' = [timers EXCEPT ![n] = Timer!Mined(timers[n], h)]
    BY <1>4 DEF FireTimer, LoopContinues
  <2>3. \A k \in Nodes :
            "state" \in DOMAIN timers'[k] /\ timers'[k].state = timers[k].state
    BY <1>0, <2>2, TimerStates
  <2> QED
    BY <1>0, <2>1, <2>2, <2>3, TimerStep
<1> QED
  BY <1>1, <1>2, <1>3, <1>4 DEF Next

LEMMA OneNodeAlways == Spec => []OneNode
BY OneNodeInit, OneNodeStep, PTL DEF Spec

\* No timer but that of the current node runs, at every point of a reset.
THEOREM OldTimersStopped == Spec => []OldTimersAreStopped
BY OneNodeAlways, PTL DEF OneNode

\* The provider forwards the events of the current node and of no other.
THEOREM ForwardsCurrentNode == Spec => []EventsOfTheCurrentNode
BY OneNodeAlways, PTL DEF OneNode

\* Both together: one node is alive.
THEOREM OneNodeStaysAlive == Spec => []OneNodeIsAlive
BY OneNodeAlways, PTL DEF OneNode, OneNodeIsAlive

-----------------------------------------------------------------------------
(* Types.  That there are nodes and timeouts enough is a matter of counting:  *)
(* each node but the first, and each loop of a timer but its first, takes one *)
(* request of a client.                                                       *)

\* What a queue without duplicates holds after its head was taken.
LEMMA TailLemma ==
    ASSUME NEW S, NEW seq \in Seq(S), seq # << >>,
           \A i, j \in DOMAIN seq : seq[i] = seq[j] => i = j
    PROVE  /\ Tail(seq) \in Seq(S)
           /\ Head(seq) \in {seq[i] : i \in DOMAIN seq}
           /\ \A i, j \in DOMAIN Tail(seq) : Tail(seq)[i] = Tail(seq)[j] => i = j
           /\ {Tail(seq)[i] : i \in DOMAIN Tail(seq)} = {seq[i] : i \in DOMAIN seq} \ {Head(seq)}
<1>1. /\ Len(seq) \in Nat \ {0}
      /\ DOMAIN seq = 1 .. Len(seq)
      /\ Head(seq) = seq[1]
      /\ 1 \in DOMAIN seq
  OBVIOUS
<1>2. /\ Tail(seq) \in Seq(S)
      /\ Len(Tail(seq)) = Len(seq) - 1
      /\ DOMAIN Tail(seq) = 1 .. Len(seq) - 1
      /\ \A i \in 1 .. Len(seq) - 1 : Tail(seq)[i] = seq[i + 1]
  BY <1>1
<1>3. \A i \in 1 .. Len(seq) - 1 : i + 1 \in DOMAIN seq /\ i + 1 # 1
  BY <1>1
<1>4. \A i, j \in DOMAIN Tail(seq) : Tail(seq)[i] = Tail(seq)[j] => i = j
  BY <1>1, <1>2, <1>3
<1>5. {Tail(seq)[i] : i \in DOMAIN Tail(seq)} \subseteq {seq[i] : i \in DOMAIN seq} \ {Head(seq)}
  BY <1>1, <1>2, <1>3
<1>6. \A i \in DOMAIN seq : i # 1 => i - 1 \in 1 .. Len(seq) - 1 /\ (i - 1) + 1 = i
  BY <1>1
<1>7. {seq[i] : i \in DOMAIN seq} \ {Head(seq)} \subseteq {Tail(seq)[i] : i \in DOMAIN Tail(seq)}
  BY <1>1, <1>2, <1>6
<1>8. Head(seq) \in {seq[i] : i \in DOMAIN seq}
  BY <1>1
<1> QED
  BY <1>2, <1>4, <1>5, <1>7, <1>8

\* The mutex: who waits has asked, and nobody waits and holds at once.
LEMMA SchedTypes ==
    ASSUME Mutex!TypeOK, NEW free \in Nat, NEW holding \in SUBSET holders,
           Mutex!Sched(free, holding), ticks' \in Nat
    PROVE  Mutex!TypeOK' /\ Mutex!Waiting' \subseteq Mutex!Waiting
<1>1. CASE free > 0 /\ tasks # << >>
  <2>1. count' = free - 1 /\ tasks' = Tail(tasks) /\ holders' = holding \union {Head(tasks)}
    BY <1>1 DEF Mutex!Sched
  <2>2. tasks \in Seq(Callers) /\ \A i, j \in DOMAIN tasks : tasks[i] = tasks[j] => i = j
    BY DEF Mutex!TypeOK
  <2>3. /\ Tail(tasks) \in Seq(Callers)
        /\ Head(tasks) \in Mutex!Waiting
        /\ \A i, j \in DOMAIN Tail(tasks) : Tail(tasks)[i] = Tail(tasks)[j] => i = j
        /\ {Tail(tasks)[i] : i \in DOMAIN Tail(tasks)} = Mutex!Waiting \ {Head(tasks)}
    BY <1>1, <2>2, TailLemma DEF Mutex!Waiting
  <2>4. Mutex!Waiting' = Mutex!Waiting \ {Head(tasks)}
    BY <2>1, <2>3 DEF Mutex!Waiting
  <2>5. Mutex!Waiting \subseteq Callers
    BY <2>2, ElementOfSeq, LenProperties DEF Mutex!Waiting
  <2>6. holders' \subseteq Callers /\ Mutex!Waiting' \intersect holders' = {}
    BY <2>1, <2>3, <2>4, <2>5 DEF Mutex!TypeOK
  <2> QED
    BY <1>1, <2>1, <2>3, <2>4, <2>6 DEF Mutex!TypeOK
<1>2. CASE ~ (free > 0 /\ tasks # << >>)
  <2>1. count' = free /\ tasks' = tasks /\ holders' = holding
    BY <1>2 DEF Mutex!Sched
  <2> QED
    BY <2>1 DEF Mutex!TypeOK, Mutex!Waiting
<1> QED
  BY <1>1, <1>2

LEMMA TickTypes ==
    ASSUME Mutex!TypeOK, Mutex!Tick
    PROVE  Mutex!TypeOK' /\ Mutex!Waiting' \subseteq Mutex!Waiting
BY SchedTypes DEF Mutex!Tick, Mutex!TypeOK

LEMMA ReleaseTypes ==
    ASSUME Mutex!TypeOK, NEW c, Mutex!Release(c)
    PROVE  Mutex!TypeOK' /\ Mutex!Waiting' \subseteq Mutex!Waiting
<1>1. count + 1 \in Nat /\ holders \ {c} \in SUBSET holders /\ ticks' \in Nat
  BY DEF Mutex!Release, Mutex!TypeOK
<1>2. Mutex!Sched(count + 1, holders \ {c})
  BY DEF Mutex!Release
<1> QED
  BY <1>1, <1>2, SchedTypes

LEMMA AcquireTypes ==
    ASSUME Mutex!TypeOK, NEW c \in Callers, Mutex!Acquire(c)
    PROVE  Mutex!TypeOK' /\ Mutex!Waiting' = Mutex!Waiting \union {c}
<1>1. /\ c \notin Mutex!Waiting /\ c \notin holders
      /\ tasks' = Append(tasks, c) /\ ticks' = ticks + 1 /\ count' = count /\ holders' = holders
  BY DEF Mutex!Acquire
<1>2. /\ tasks \in Seq(Callers) /\ Len(tasks) \in Nat /\ DOMAIN tasks = 1 .. Len(tasks)
      /\ \A i, j \in 1 .. Len(tasks) : tasks[i] = tasks[j] => i = j
  BY LenProperties DEF Mutex!TypeOK
<1>3. /\ tasks' \in Seq(Callers) /\ Len(tasks') = Len(tasks) + 1
      /\ \A i \in 1 .. Len(tasks) : tasks'[i] = tasks[i]
      /\ tasks'[Len(tasks) + 1] = c
  BY <1>1, <1>2, AppendProperties
<1>4. DOMAIN tasks' = 1 .. Len(tasks) + 1
  BY <1>3, LenProperties
<1>5. \A i \in 1 .. Len(tasks) : tasks[i] # c
  BY <1>1, <1>2 DEF Mutex!Waiting
<1>6. \A i, j \in DOMAIN tasks' : tasks'[i] = tasks'[j] => i = j
  BY <1>2, <1>3, <1>4, <1>5
<1>7. Mutex!Waiting' = Mutex!Waiting \union {c}
  <2>1. Mutex!Waiting' \subseteq Mutex!Waiting \union {c}
    BY <1>2, <1>3, <1>4 DEF Mutex!Waiting
  <2>2. c \in Mutex!Waiting'
    BY <1>2, <1>3, <1>4 DEF Mutex!Waiting
  <2>3. Mutex!Waiting \subseteq Mutex!Waiting'
    BY <1>2, <1>3, <1>4 DEF Mutex!Waiting
  <2> QED
    BY <2>1, <2>2, <2>3
<1> QED
  BY <1>1, <1>3, <1>6, <1>7 DEF Mutex!TypeOK

\* One element more is at most one more.
LEMMA OneMore ==
    ASSUME NEW S, NEW x, IsFiniteSet(S)
    PROVE  /\ IsFiniteSet(S \union {x})
           /\ Cardinality(S \union {x}) \in Nat
           /\ Cardinality(S \union {x}) <= Cardinality(S) + 1
<1>1. IsFiniteSet(S \union {x}) /\ Cardinality(S) \in Nat
  BY FS_AddElement, FS_CardinalityType
<1>2. Cardinality(S \union {x}) = IF x \in S THEN Cardinality(S) ELSE Cardinality(S) + 1
  BY FS_AddElement
<1> QED
  BY <1>1, <1>2

\* The timers: what the loops of one are after each of its methods.
LoopsOf(t) == t.pending \union t.mining

Typed(t) == t \in Timer!TimerType /\ t.pending \cap t.mining = {}

LEMMA WithTimeoutLemma ==
    ASSUME NEW t, Typed(t), Timer!FreeHandles(t) # {}
    PROVE  /\ Typed(Timer!WithTimeout(t))
           /\ \E h \in Handles : LoopsOf(Timer!WithTimeout(t)) = LoopsOf(t) \union {h}
<1> DEFINE handle == CHOOSE h \in Timer!FreeHandles(t) : TRUE
<1>1. handle \in Timer!FreeHandles(t)
  OBVIOUS
<1>2. handle \in Handles /\ handle \notin t.pending /\ handle \notin t.mining
  BY <1>1 DEF Timer!FreeHandles
<1>3. Timer!WithTimeout(t) = [t EXCEPT !.timeout = handle, !.pending = @ \union {handle}]
  BY DEF Timer!WithTimeout
<1> HIDE DEF handle
<1>4. t \in Timer!TimerType /\ t.pending \cap t.mining = {}
  BY DEF Typed
<1>5. t.pending \union {handle} \in SUBSET Handles /\ handle \in Handles \union {Timer!NoTimeout}
  BY <1>2, <1>4 DEF Timer!TimerType
<1>6. /\ Timer!WithTimeout(t) \in Timer!TimerType
      /\ Timer!WithTimeout(t).mining = t.mining
      /\ Timer!WithTimeout(t).pending = t.pending \union {handle}
  BY <1>3, <1>4, <1>5 DEF Timer!TimerType
<1>7. Typed(Timer!WithTimeout(t))
  BY <1>2, <1>4, <1>6 DEF Typed
<1> QED
  BY <1>2, <1>6, <1>7 DEF LoopsOf

LEMMA StartedLemma ==
    ASSUME NEW t, Typed(t), Timer!FreeHandles(t) # {}
    PROVE  /\ Typed(Timer!Started(t))
           /\ \E h \in Handles : LoopsOf(Timer!Started(t)) \subseteq LoopsOf(t) \union {h}
<1>1. CASE t.state = "RUNNING" \/ ~ Timer!Enabled(t)
  <2>1. Timer!Started(t) = t
    BY <1>1 DEF Timer!Started
  <2> QED
    BY <2>1 DEF Timer!FreeHandles
<1>2. CASE ~ (t.state = "RUNNING" \/ ~ Timer!Enabled(t))
  <2> DEFINE running == [t EXCEPT !.state = "RUNNING"]
  <2>1. Typed(running) /\ Timer!FreeHandles(running) # {} /\ LoopsOf(running) = LoopsOf(t)
    BY DEF Typed, Timer!TimerType, Timer!FreeHandles, LoopsOf
  <2>2. Timer!Started(t) = Timer!WithTimeout(running)
    BY <1>2 DEF Timer!Started
  <2> HIDE DEF running
  <2> QED
    BY <2>1, <2>2, WithTimeoutLemma
<1> QED
  BY <1>1, <1>2

LEMMA StoppedLemma ==
    ASSUME NEW t, Typed(t)
    PROVE  /\ Typed(Timer!Stopped(t))
           /\ LoopsOf(Timer!Stopped(t)) \subseteq LoopsOf(t)
           /\ Timer!FreeHandles(t) \subseteq Timer!FreeHandles(Timer!Stopped(t))
BY DEF Typed, Timer!TimerType, Timer!Stopped, Timer!FreeHandles, LoopsOf

LEMMA WithBlockTimeLemma ==
    ASSUME NEW t, Typed(t), Timer!FreeHandles(t) # {}, NEW blockTime \in BlockTimes
    PROVE  /\ Typed(Timer!WithBlockTime(t, blockTime))
           /\ \E h \in Handles : LoopsOf(Timer!WithBlockTime(t, blockTime)) \subseteq LoopsOf(t) \union {h}
<1>1. CASE blockTime = 0
  <2>1. PICK h \in Handles : TRUE
    BY DEF Timer!FreeHandles
  <2>2. Timer!WithBlockTime(t, blockTime) = Timer!Stopped(t)
    BY <1>1 DEF Timer!WithBlockTime
  <2> QED
    BY <2>1, <2>2, StoppedLemma
<1>2. CASE blockTime # 0
  <2> DEFINE set == [t EXCEPT !.blockTime = blockTime]
  <2>1. Typed(set) /\ Timer!FreeHandles(set) # {} /\ LoopsOf(set) = LoopsOf(t)
    BY DEF Typed, Timer!TimerType, Timer!FreeHandles, LoopsOf
  <2>2. Timer!WithBlockTime(t, blockTime) = Timer!Started(Timer!Stopped(set))
    BY <1>2 DEF Timer!WithBlockTime
  <2> HIDE DEF set
  <2>3. Typed(Timer!Stopped(set)) /\ Timer!FreeHandles(Timer!Stopped(set)) # {}
        /\ LoopsOf(Timer!Stopped(set)) \subseteq LoopsOf(t)
    BY <2>1, StoppedLemma
  <2>4. PICK h \in Handles : LoopsOf(Timer!Started(Timer!Stopped(set))) \subseteq LoopsOf(Timer!Stopped(set)) \union {h}
    BY <2>3, StartedLemma
  <2>5. Typed(Timer!Started(Timer!Stopped(set)))
    BY <2>3, StartedLemma
  <2> QED
    BY <2>2, <2>3, <2>4, <2>5
<1> QED
  BY <1>1, <1>2

LEMMA FiredLemma ==
    ASSUME NEW t, Typed(t), NEW h \in t.pending
    PROVE  Typed(Timer!Fired(t, h)) /\ LoopsOf(Timer!Fired(t, h)) \subseteq LoopsOf(t)
BY DEF Typed, Timer!TimerType, Timer!Fired, LoopsOf

LEMMA MinedLemma ==
    ASSUME NEW t, Typed(t), NEW h \in t.mining
    PROVE  /\ Typed(Timer!Mined(t, h))
           /\ \E k \in Handles : LoopsOf(Timer!Mined(t, h)) = (LoopsOf(t) \ {h}) \union {k}
<1> DEFINE mined == [t EXCEPT !.mining = @ \ {h}]
<1>1. Typed(mined) /\ Timer!FreeHandles(mined) # {} /\ LoopsOf(mined) = LoopsOf(t) \ {h}
  BY DEF Typed, Timer!TimerType, Timer!FreeHandles, LoopsOf
<1>2. Timer!Mined(t, h) = Timer!WithTimeout(mined)
  BY DEF Timer!Mined
<1> HIDE DEF mined
<1> QED
  BY <1>1, <1>2, WithTimeoutLemma

\* The requests of clients that have not been answered, nor dropped the node.
Unspent == {c \in Callers : request[c] \in Requests}

Mutexed ==
    /\ Mutex!TypeOK
    /\ request \in [Callers -> AnyRequest \union {NoRequest}]
    /\ \A c \in Mutex!Waiting : request[c] # NoRequest

TimersTyped ==
    /\ timers \in [Nodes -> Timer!TimerType]
    /\ \A n \in Nodes : Typed(timers[n])
    /\ \A n \in Nodes : n > created => LoopsOf(timers[n]) = {}

\* Who drops the node, or starts a timer again, has spent its request.
Budgeted ==
    /\ IsFiniteSet(Unspent)
    /\ created + (IF node = 0 THEN 1 ELSE 0) + Cardinality(Unspent) <= sent + 1
    /\ \A n \in Nodes : Cardinality(LoopsOf(timers[n])) + Cardinality(Unspent) <= sent + 1

\* The inductive invariant.
ProviderInv ==
    /\ sent \in 0 .. MaxRequests /\ node \in Nat /\ created \in Nat /\ node <= created
    /\ listening \subseteq Nodes
    /\ Mutexed /\ TimersTyped /\ Budgeted

LEMMA CountsAreNumbers ==
    ASSUME ProviderInv
    PROVE  /\ Cardinality(Unspent) \in Nat /\ sent \in Nat /\ created \in Nat /\ node \in Nat
           /\ MaxRequests \in Nat /\ sent <= MaxRequests
           /\ created <= MaxRequests + 1
           /\ \A n \in Nodes : /\ IsFiniteSet(LoopsOf(timers[n]))
                               /\ Cardinality(LoopsOf(timers[n])) \in Nat
           /\ IsFiniteSet(Handles) /\ Cardinality(Handles) = MaxRequests + 1
<1>1. /\ Cardinality(Unspent) \in Nat /\ sent \in Nat /\ created \in Nat /\ node \in Nat
      /\ MaxRequests \in Nat /\ sent <= MaxRequests
  BY FS_CardinalityType, MaxRequestsAssumption DEF ProviderInv, Budgeted
<1>2. created <= MaxRequests + 1
  BY <1>1 DEF ProviderInv, Budgeted
<1>3. IsFiniteSet(Handles) /\ Cardinality(Handles) = MaxRequests + 1
  <2>1. MaxRequests + 1 \in Int /\ 1 \in Int /\ ~ (1 > MaxRequests + 1) /\ (MaxRequests + 1) - 1 + 1 = MaxRequests + 1
    BY <1>1
  <2> QED
    BY <2>1, FS_Interval DEF Handles
<1>4. \A n \in Nodes : LoopsOf(timers[n]) \in SUBSET Handles
  BY DEF ProviderInv, TimersTyped, LoopsOf, Timer!TimerType
<1>5. \A n \in Nodes : IsFiniteSet(LoopsOf(timers[n])) /\ Cardinality(LoopsOf(timers[n])) \in Nat
  BY <1>3, <1>4, FS_Subset, FS_CardinalityType
<1> QED
  BY <1>1, <1>2, <1>3, <1>5

\* What a client's new request, an answer and a spent request are in Unspent.
LEMMA SentIsUnspent ==
    ASSUME ProviderInv, NEW c \in Callers, NEW r \in Requests, request[c] = NoRequest,
           request' = [request EXCEPT ![c] = r]
    PROVE  /\ IsFiniteSet(Unspent') /\ Cardinality(Unspent') = Cardinality(Unspent) + 1
           /\ request' \in [Callers -> AnyRequest \union {NoRequest}]
<1>1. request \in [Callers -> AnyRequest \union {NoRequest}]
  BY DEF ProviderInv, Mutexed
<1>2. Unspent' = Unspent \union {c}
  BY <1>1 DEF Unspent
<1>3. c \notin Unspent
  BY NoRequestAssumption DEF Unspent, AnyRequest
<1> QED
  BY <1>1, <1>2, <1>3, FS_AddElement DEF ProviderInv, Budgeted, AnyRequest

LEMMA AnsweredIsSpent ==
    ASSUME ProviderInv, NEW c \in Callers, NEW r \in {NoRequest, IntervalMine, Resetting},
           request' = [request EXCEPT ![c] = r]
    PROVE  /\ IsFiniteSet(Unspent')
           /\ Cardinality(Unspent') \in Nat
           /\ Cardinality(Unspent') =
                IF request[c] \in Requests THEN Cardinality(Unspent) - 1 ELSE Cardinality(Unspent)
           /\ request' \in [Callers -> AnyRequest \union {NoRequest}]
<1>1. request \in [Callers -> AnyRequest \union {NoRequest}]
  BY DEF ProviderInv, Mutexed
<1>2. r \notin Requests
  <2>1. \A q \in Requests : q.method \in {"handle", "hardhat_reset", "objectParams", "evm_setIntervalMining"}
    BY RequestsAssumption DEF RequestType
  <2>2. IntervalMine \notin Requests
    BY <2>1 DEF IntervalMine
  <2>3. Resetting \notin Requests
    BY <2>1 DEF Resetting
  <2>4. NoRequest \notin Requests
    BY NoRequestAssumption DEF AnyRequest
  <2> QED
    BY <2>2, <2>3, <2>4
<1>3. Unspent' = Unspent \ {c}
  BY <1>1, <1>2 DEF Unspent
<1>4. c \in Unspent <=> request[c] \in Requests
  BY DEF Unspent
<1>5. IsFiniteSet(Unspent) /\ IsFiniteSet(Unspent')
  BY <1>3, FS_RemoveElement DEF ProviderInv, Budgeted
<1> QED
  BY <1>1, <1>3, <1>4, <1>5, FS_RemoveElement, FS_CardinalityType DEF AnyRequest

\* The parts of the invariant, after steps that change only some variables.
LEMMA MutexedAfterAnswer ==
    ASSUME ProviderInv, NEW c \in holders, Answer(c)
    PROVE  /\ Mutexed' /\ sent' = sent
           /\ IsFiniteSet(Unspent') /\ Cardinality(Unspent') \in Nat
           /\ Cardinality(Unspent') =
                IF request[c] \in Requests THEN Cardinality(Unspent) - 1 ELSE Cardinality(Unspent)
<1>1. Mutex!TypeOK /\ c \in Callers
  BY DEF ProviderInv, Mutexed, Mutex!TypeOK
<1>2. request' = [request EXCEPT ![c] = NoRequest] /\ Mutex!Release(c) /\ sent' = sent
  BY DEF Answer
<1>3. Mutex!TypeOK' /\ Mutex!Waiting' \subseteq Mutex!Waiting
  BY <1>1, <1>2, ReleaseTypes
<1>4. c \notin Mutex!Waiting
  BY <1>1 DEF Mutex!TypeOK
<1>5. Mutex!Waiting \subseteq Callers
  BY <1>1, ElementOfSeq, LenProperties DEF Mutex!TypeOK, Mutex!Waiting
<1>6. request \in [Callers -> AnyRequest \union {NoRequest}] /\ \A d \in Mutex!Waiting : request[d] # NoRequest
  BY DEF ProviderInv, Mutexed
<1>7. \A d \in Mutex!Waiting' : request'[d] # NoRequest
  BY <1>2, <1>3, <1>4, <1>5, <1>6
<1> QED
  BY <1>1, <1>2, <1>3, <1>7, AnsweredIsSpent DEF Mutexed

LEMMA Spending ==
    ASSUME NEW n \in Int, NEW u \in Nat, NEW v \in Nat, NEW s \in Nat, NEW next \in Nat,
           n + u <= s + 1, v - next <= u - s
    PROVE  n + v <= next + 1
OBVIOUS

LEMMA BudgetStays ==
    ASSUME ProviderInv, UNCHANGED nodeVars, IsFiniteSet(Unspent'), Cardinality(Unspent') \in Nat,
           sent' \in Nat, Cardinality(Unspent') - sent' <= Cardinality(Unspent) - sent
    PROVE  TimersTyped' /\ Budgeted'
<1>1. TimersTyped'
  BY DEF ProviderInv, TimersTyped, nodeVars
<1>2. /\ created + (IF node = 0 THEN 1 ELSE 0) + Cardinality(Unspent) <= sent + 1
      /\ \A n \in Nodes : Cardinality(LoopsOf(timers[n])) + Cardinality(Unspent) <= sent + 1
  BY DEF ProviderInv, Budgeted
<1>3. /\ created' + (IF node' = 0 THEN 1 ELSE 0) + Cardinality(Unspent') <= sent' + 1
      /\ \A n \in Nodes : Cardinality(LoopsOf(timers'[n])) + Cardinality(Unspent') <= sent' + 1
  <2>1. created' = created /\ node' = node /\ timers' = timers
    BY DEF nodeVars
  <2> DEFINE u == Cardinality(Unspent)
             v == Cardinality(Unspent')
  <2>2. /\ u \in Nat /\ v \in Nat /\ sent \in Nat /\ sent' \in Nat /\ created \in Nat
        /\ v - sent' <= u - sent
    BY CountsAreNumbers
  <2>3. created + (IF node = 0 THEN 1 ELSE 0) + u <= sent + 1
    BY <1>2
  <2>4. \A n \in Nodes : Cardinality(LoopsOf(timers[n])) + u <= sent + 1 /\ Cardinality(LoopsOf(timers[n])) \in Nat
    BY <1>2, CountsAreNumbers
  <2>7. created + (IF node = 0 THEN 1 ELSE 0) \in Int
    BY <2>2
  <2> HIDE DEF u, v
  <2>5. created + (IF node = 0 THEN 1 ELSE 0) + v <= sent' + 1
    BY <2>2, <2>3, <2>7, Spending
  <2>6. \A n \in Nodes : Cardinality(LoopsOf(timers[n])) + v <= sent' + 1
    <3> SUFFICES ASSUME NEW n \in Nodes PROVE Cardinality(LoopsOf(timers[n])) + v <= sent' + 1
      OBVIOUS
    <3>1. Cardinality(LoopsOf(timers[n])) + u <= sent + 1 /\ Cardinality(LoopsOf(timers[n])) \in Int
      BY <2>4
    <3> QED
      BY <2>2, <3>1, Spending
  <2> QED
    BY <2>1, <2>5, <2>6 DEF v
<1> QED
  BY <1>1, <1>3 DEF Budgeted, LoopsOf

\* One timer changes: its loops grow by one at most, and then a request was spent.
LEMMA TimerChanges ==
    ASSUME ProviderInv, NEW n \in Nodes, n <= created, NEW t, Typed(t),
           timers' = [timers EXCEPT ![n] = t], created' = created, node' = node \/ Cardinality(Unspent') < Cardinality(Unspent),
           sent' = sent, IsFiniteSet(Unspent'), Cardinality(Unspent') \in Nat,
           Cardinality(Unspent') <= Cardinality(Unspent), node' \in Nat,
           Cardinality(LoopsOf(t)) \in Nat,
           Cardinality(LoopsOf(t)) + Cardinality(Unspent') <= Cardinality(LoopsOf(timers[n])) + Cardinality(Unspent)
    PROVE  TimersTyped' /\ Budgeted'
<1>1. timers \in [Nodes -> Timer!TimerType] /\ t \in Timer!TimerType
  BY DEF ProviderInv, TimersTyped, Typed
<1>2. timers' \in [Nodes -> Timer!TimerType] /\ timers'[n] = t
      /\ \A m \in Nodes : m # n => timers'[m] = timers[m]
  BY <1>1
<1>3. TimersTyped'
  <2>1. \A m \in Nodes : Typed(timers'[m])
    BY <1>2 DEF ProviderInv, TimersTyped
  <2>2. \A m \in Nodes : m > created => m # n
    BY CountsAreNumbers DEF Nodes
  <2>3. \A m \in Nodes : m > created => LoopsOf(timers'[m]) = {}
    BY <1>2, <2>2 DEF ProviderInv, TimersTyped
  <2> QED
    BY <1>2, <2>1, <2>3 DEF TimersTyped, Typed, LoopsOf
<1> DEFINE u == Cardinality(Unspent)
           v == Cardinality(Unspent')
           loops(m) == Cardinality(LoopsOf(timers[m]))
<1>4. /\ u \in Nat /\ v \in Nat /\ v <= u /\ sent \in Nat /\ created \in Nat
      /\ \A m \in Nodes : loops(m) \in Nat /\ loops(m) + u <= sent + 1
      /\ created + (IF node = 0 THEN 1 ELSE 0) + u <= sent + 1
      /\ node' = node \/ v < u
      /\ Cardinality(LoopsOf(t)) + v <= loops(n) + u
  BY CountsAreNumbers DEF ProviderInv, Budgeted
<1> HIDE DEF u, v
<1>5. created' + (IF node' = 0 THEN 1 ELSE 0) + v <= sent' + 1
  BY <1>4
<1>6. \A m \in Nodes : Cardinality(LoopsOf(timers'[m])) + v <= sent' + 1
  <2> SUFFICES ASSUME NEW m \in Nodes PROVE Cardinality(LoopsOf(timers'[m])) + v <= sent' + 1
    OBVIOUS
  <2>1. CASE m = n
    BY <1>2, <1>4, <2>1
  <2>2. CASE m # n
    <3>1. Cardinality(LoopsOf(timers'[m])) = loops(m)
      BY <1>2, <2>2
    <3> QED
      BY <1>4, <3>1
  <2> QED
    BY <2>1, <2>2
<1> QED
  BY <1>3, <1>5, <1>6 DEF Budgeted, LoopsOf, v

\* The invariant of a step that changes neither the node nor its timers.
LEMMA SameNode ==
    ASSUME ProviderInv, UNCHANGED nodeVars, sent' \in 0 .. MaxRequests, Mutexed',
           IsFiniteSet(Unspent'), Cardinality(Unspent') \in Nat,
           Cardinality(Unspent') - sent' <= Cardinality(Unspent) - sent
    PROVE  ProviderInv'
<1>1. sent' \in Nat
  BY CountsAreNumbers
<1>2. TimersTyped' /\ Budgeted'
  BY <1>1, BudgetStays
<1> QED
  BY <1>2 DEF ProviderInv, nodeVars

\* A step that takes no request of a client off the mutex, and adds nobody to its queue.
LEMMA SameMutex ==
    ASSUME ProviderInv, UNCHANGED <<mutexVars, sent>>, NEW c \in holders,
           NEW r \in {NoRequest, IntervalMine, Resetting},
           request' = [request EXCEPT ![c] = r]
    PROVE  /\ Mutexed'
           /\ IsFiniteSet(Unspent') /\ Cardinality(Unspent') \in Nat
           /\ Cardinality(Unspent') =
                IF request[c] \in Requests THEN Cardinality(Unspent) - 1 ELSE Cardinality(Unspent)
<1>1. Mutex!TypeOK /\ c \in Callers
  BY DEF ProviderInv, Mutexed, Mutex!TypeOK
<1>2. Mutex!TypeOK' /\ Mutex!Waiting' = Mutex!Waiting
  BY <1>1 DEF Mutex!TypeOK, Mutex!Waiting, mutexVars
<1>3. c \notin Mutex!Waiting
  BY <1>1 DEF Mutex!TypeOK
<1>4. Mutex!Waiting \subseteq Callers
  BY <1>1, ElementOfSeq, LenProperties DEF Mutex!TypeOK, Mutex!Waiting
<1>5. request \in [Callers -> AnyRequest \union {NoRequest}] /\ \A d \in Mutex!Waiting : request[d] # NoRequest
  BY DEF ProviderInv, Mutexed
<1>6. \A d \in Mutex!Waiting' : request'[d] # NoRequest
  BY <1>2, <1>3, <1>4, <1>5
<1> QED
  BY <1>1, <1>2, <1>6, AnsweredIsSpent DEF Mutexed

LEMMA SendKeeps ==
    ASSUME ProviderInv, NEW c \in Clients, NEW r \in Requests, SendRequest(c, r)
    PROVE  ProviderInv'
<1>1. /\ sent < MaxRequests /\ sent' = sent + 1 /\ c \in Callers
      /\ request[c] = NoRequest /\ request' = [request EXCEPT ![c] = r]
      /\ Mutex!Acquire(c) /\ UNCHANGED nodeVars
  BY DEF SendRequest, Callers
<1>2. /\ IsFiniteSet(Unspent') /\ Cardinality(Unspent') = Cardinality(Unspent) + 1
      /\ request' \in [Callers -> AnyRequest \union {NoRequest}]
  BY <1>1, SentIsUnspent
<1>3. Mutex!TypeOK' /\ Mutex!Waiting' = Mutex!Waiting \union {c} /\ Mutex!Waiting \subseteq Callers
  <2>1. Mutex!TypeOK
    BY DEF ProviderInv, Mutexed
  <2>2. Mutex!Waiting \subseteq Callers
    BY <2>1, ElementOfSeq, LenProperties DEF Mutex!TypeOK, Mutex!Waiting
  <2> QED
    BY <1>1, <2>1, <2>2, AcquireTypes
<1>4. r # NoRequest
  BY NoRequestAssumption DEF AnyRequest
<1>5. request \in [Callers -> AnyRequest \union {NoRequest}] /\ \A d \in Mutex!Waiting : request[d] # NoRequest
  BY DEF ProviderInv, Mutexed
<1>6. \A d \in Mutex!Waiting' : request'[d] # NoRequest
  BY <1>1, <1>3, <1>4, <1>5
<1>7. Mutexed'
  BY <1>2, <1>3, <1>6 DEF Mutexed
<1>8. sent' \in 0 .. MaxRequests
  BY <1>1, CountsAreNumbers
<1>9. Cardinality(Unspent') \in Nat /\ Cardinality(Unspent') - sent' <= Cardinality(Unspent) - sent
  BY <1>1, <1>2, CountsAreNumbers
<1> QED
  BY <1>1, <1>2, <1>7, <1>8, <1>9, SameNode

LEMMA TickKeeps ==
    ASSUME ProviderInv, MutexTick
    PROVE  ProviderInv'
<1>1. Mutex!Tick /\ request' = request /\ sent' = sent /\ UNCHANGED nodeVars
  BY DEF MutexTick
<1>2. Mutex!TypeOK' /\ Mutex!Waiting' \subseteq Mutex!Waiting
  BY <1>1, TickTypes DEF ProviderInv, Mutexed
<1>3. Mutexed'
  BY <1>1, <1>2 DEF ProviderInv, Mutexed
<1>4. Unspent' = Unspent
  BY <1>1 DEF Unspent
<1>5. IsFiniteSet(Unspent') /\ Cardinality(Unspent') \in Nat
      /\ Cardinality(Unspent') - sent' <= Cardinality(Unspent) - sent
  BY <1>1, <1>4, CountsAreNumbers DEF ProviderInv, Budgeted
<1>6. sent' \in 0 .. MaxRequests
  BY <1>1 DEF ProviderInv
<1> QED
  BY <1>1, <1>3, <1>5, <1>6, SameNode

LEMMA RefuseKeeps ==
    ASSUME ProviderInv, NEW c, RefuseObjectParams(c)
    PROVE  ProviderInv'
<1>1. /\ c \in holders /\ request' = [request EXCEPT ![c] = NoRequest]
      /\ UNCHANGED <<mutexVars, sent>> /\ UNCHANGED nodeVars /\ sent' = sent
  BY DEF RefuseObjectParams, Holds
<1>2. /\ Mutexed'
      /\ IsFiniteSet(Unspent') /\ Cardinality(Unspent') \in Nat
      /\ Cardinality(Unspent') =
           IF request[c] \in Requests THEN Cardinality(Unspent) - 1 ELSE Cardinality(Unspent)
  BY <1>1, SameMutex
<1>3. Cardinality(Unspent') - sent' <= Cardinality(Unspent) - sent
  BY <1>1, <1>2, CountsAreNumbers
<1>4. sent' \in 0 .. MaxRequests
  BY <1>1 DEF ProviderInv
<1> QED
  BY <1>1, <1>2, <1>3, <1>4, SameNode

\* An answer that leaves the node and its timers alone.
LEMMA AnswerKeeps ==
    ASSUME ProviderInv, NEW c \in holders, Answer(c), UNCHANGED nodeVars
    PROVE  ProviderInv'
<1>1. /\ Mutexed' /\ sent' = sent
      /\ IsFiniteSet(Unspent') /\ Cardinality(Unspent') \in Nat
      /\ Cardinality(Unspent') =
           IF request[c] \in Requests THEN Cardinality(Unspent) - 1 ELSE Cardinality(Unspent)
  BY MutexedAfterAnswer
<1>2. Cardinality(Unspent') - sent' <= Cardinality(Unspent) - sent
  BY <1>1, CountsAreNumbers
<1>3. sent' \in 0 .. MaxRequests
  BY <1>1 DEF ProviderInv
<1> QED
  BY <1>1, <1>2, <1>3, SameNode

\* The first node of the provider, or the next one after a reset, finds its number free.
LEMMA InitNodeKeeps ==
    ASSUME ProviderInv, NEW c, InitNode(c)
    PROVE  ProviderInv'
<1>1. /\ node = 0 /\ node' = created + 1 /\ created' = created + 1
      /\ timers' = [timers EXCEPT ![created + 1] = Timer!Started(Timer!New(IntervalMining))]
      /\ listening' = listening \union {created + 1}
      /\ UNCHANGED <<mutexVars, request, sent>>
  BY DEF InitNode, NeedsNode
<1> DEFINE t == Timer!Started(Timer!New(IntervalMining))
           u == Cardinality(Unspent)
<1>2. /\ u \in Nat /\ sent \in Nat /\ created \in Nat /\ MaxRequests \in Nat /\ sent <= MaxRequests
      /\ created + 1 + u <= sent + 1
  BY <1>1, CountsAreNumbers DEF ProviderInv, Budgeted
<1> HIDE DEF u
<1>3. created + 1 \in Nodes
  BY <1>2 DEF Nodes
<1>4. 1 \in Handles
  BY <1>2 DEF Handles
<1>5. Typed(Timer!New(IntervalMining)) /\ Timer!FreeHandles(Timer!New(IntervalMining)) # {}
      /\ LoopsOf(Timer!New(IntervalMining)) = {}
  BY <1>4 DEF Timer!New, Typed, Timer!TimerType, Timer!FreeHandles, LoopsOf, BlockTimes
<1>6. Typed(t)
  BY <1>5, StartedLemma
<1>7. PICK h \in Handles : LoopsOf(t) \subseteq {h}
  BY <1>5, StartedLemma
<1>8. Cardinality(LoopsOf(t)) \in Nat /\ Cardinality(LoopsOf(t)) <= 1
  <2>1. IsFiniteSet({h}) /\ Cardinality({h}) = 1
    BY FS_Singleton
  <2>2. IsFiniteSet(LoopsOf(t)) /\ Cardinality(LoopsOf(t)) <= Cardinality({h})
    BY <1>7, <2>1, FS_Subset
  <2> QED
    BY <2>1, <2>2, FS_CardinalityType
<1> HIDE DEF t
<1>9. /\ timers \in [Nodes -> Timer!TimerType] /\ t \in Timer!TimerType
      /\ \A n \in Nodes : Typed(timers[n])
      /\ \A n \in Nodes : n > created => LoopsOf(timers[n]) = {}
      /\ timers' = [timers EXCEPT ![created + 1] = t]
  BY <1>1, <1>6 DEF ProviderInv, TimersTyped, Typed, t
<1>10. /\ timers' \in [Nodes -> Timer!TimerType] /\ timers'[created + 1] = t
       /\ \A n \in Nodes : n # created + 1 => timers'[n] = timers[n]
  BY <1>3, <1>9
<1>11. \A n \in Nodes : Typed(timers'[n])
  BY <1>6, <1>9, <1>10
<1>12. \A n \in Nodes : n > created' => LoopsOf(timers'[n]) = {}
  <2>1. \A n \in Nodes : n > created + 1 => n # created + 1 /\ n > created
    BY <1>2 DEF Nodes
  <2> QED
    BY <1>1, <1>9, <1>10, <2>1
<1>13. TimersTyped'
  BY <1>10, <1>11, <1>12 DEF TimersTyped, Typed, LoopsOf
<1>14. Unspent' = Unspent
  BY <1>1 DEF Unspent
<1>15. /\ created' + (IF node' = 0 THEN 1 ELSE 0) + u <= sent' + 1
  BY <1>1, <1>2
<1>16. \A n \in Nodes : Cardinality(LoopsOf(timers'[n])) + u <= sent' + 1
  <2> SUFFICES ASSUME NEW n \in Nodes PROVE Cardinality(LoopsOf(timers'[n])) + u <= sent' + 1
    OBVIOUS
  <2>1. CASE n = created + 1
    BY <1>1, <1>2, <1>8, <1>10, <2>1
  <2>2. CASE n # created + 1
    <3>1. Cardinality(LoopsOf(timers[n])) + u <= sent + 1
      BY DEF ProviderInv, Budgeted, u
    <3> QED
      BY <1>1, <1>10, <2>2, <3>1
  <2> QED
    BY <2>1, <2>2
<1>17. Budgeted'
  BY <1>14, <1>15, <1>16 DEF ProviderInv, Budgeted, LoopsOf, u
<1>18. Mutexed'
  BY <1>1 DEF ProviderInv, Mutexed, Mutex!TypeOK, Mutex!Waiting, mutexVars
<1>19. listening' \subseteq Nodes /\ sent' \in 0 .. MaxRequests
       /\ node' \in Nat /\ created' \in Nat /\ node' <= created'
  BY <1>1, <1>2, <1>3 DEF ProviderInv
<1> QED
  BY <1>13, <1>17, <1>18, <1>19 DEF ProviderInv

\* A timer that is started again finds a timeout free: its request is spent.
LEMMA SetIntervalKeeps ==
    ASSUME ProviderInv, NEW c, SetIntervalMining(c)
    PROVE  ProviderInv'
<1> DEFINE blockTime == request[c].blockTime
           t == Timer!WithBlockTime(timers[node], blockTime)
<1>1. /\ node # 0 /\ c \in holders /\ request[c] # NoRequest
      /\ request[c].method = "evm_setIntervalMining"
      /\ timers' = [timers EXCEPT ![node] = t] /\ Answer(c)
      /\ node' = node /\ created' = created /\ listening' = listening
  BY DEF SetIntervalMining, Holds
<1>2. request[c] \in Requests
  <2>1. request[c] \in AnyRequest
    BY <1>1 DEF ProviderInv, Mutexed, Mutex!TypeOK
  <2>2. request[c] # IntervalMine
    BY <1>1 DEF IntervalMine
  <2>3. request[c] # Resetting
    BY <1>1 DEF Resetting
  <2> QED
    BY <2>1, <2>2, <2>3 DEF AnyRequest
<1>3. blockTime \in BlockTimes
  BY <1>1, <1>2 DEF BlockTimes
<1> HIDE DEF blockTime
<1>4. /\ Mutexed' /\ sent' = sent
      /\ IsFiniteSet(Unspent') /\ Cardinality(Unspent') \in Nat
      /\ Cardinality(Unspent') = Cardinality(Unspent) - 1
  BY <1>1, <1>2, MutexedAfterAnswer
<1>5. node \in Nodes /\ node <= created
  BY <1>1, CountsAreNumbers DEF ProviderInv, Nodes
<1>6. Typed(timers[node])
  BY <1>5 DEF ProviderInv, TimersTyped
<1>7. /\ Cardinality(LoopsOf(timers[node])) + Cardinality(Unspent) <= sent + 1
      /\ Cardinality(LoopsOf(timers[node])) \in Nat /\ Cardinality(Unspent) \in Nat
      /\ sent \in Nat /\ MaxRequests \in Nat /\ sent <= MaxRequests
      /\ IsFiniteSet(LoopsOf(timers[node]))
      /\ IsFiniteSet(Handles) /\ Cardinality(Handles) = MaxRequests + 1
  BY <1>5, CountsAreNumbers DEF ProviderInv, Budgeted
<1>8. Timer!FreeHandles(timers[node]) # {}
  <2>1. Cardinality(LoopsOf(timers[node])) < Cardinality(Handles)
    BY <1>4, <1>7
  <2>2. ~ Handles \subseteq LoopsOf(timers[node])
    <3> SUFFICES ASSUME Handles \subseteq LoopsOf(timers[node]) PROVE FALSE
      OBVIOUS
    <3>1. Cardinality(Handles) <= Cardinality(LoopsOf(timers[node]))
      BY <1>7, FS_Subset
    <3> QED
      BY <1>7, <2>1, <3>1
  <2> QED
    BY <2>2 DEF LoopsOf, Timer!FreeHandles
<1>9. Typed(t)
  BY <1>3, <1>6, <1>8, WithBlockTimeLemma
<1>10. PICK h \in Handles : LoopsOf(t) \subseteq LoopsOf(timers[node]) \union {h}
  BY <1>3, <1>6, <1>8, WithBlockTimeLemma
<1>11. /\ Cardinality(LoopsOf(t)) \in Nat
       /\ Cardinality(LoopsOf(t)) <= Cardinality(LoopsOf(timers[node])) + 1
  <2> DEFINE more == LoopsOf(timers[node]) \union {h}
  <2>1. IsFiniteSet(more) /\ Cardinality(more) \in Nat
        /\ Cardinality(more) <= Cardinality(LoopsOf(timers[node])) + 1
    BY <1>7, OneMore
  <2> HIDE DEF more
  <2>2. IsFiniteSet(LoopsOf(t)) /\ Cardinality(LoopsOf(t)) <= Cardinality(more)
    BY <1>10, <2>1, FS_Subset DEF more
  <2> QED
    BY <1>7, <2>1, <2>2, FS_CardinalityType
<1> HIDE DEF t
<1>12. /\ Cardinality(Unspent') <= Cardinality(Unspent)
       /\ Cardinality(LoopsOf(t)) + Cardinality(Unspent') <= Cardinality(LoopsOf(timers[node])) + Cardinality(Unspent)
  BY <1>4, <1>7, <1>11
<1>13. node' \in Nat
  BY <1>1, CountsAreNumbers
<1>14. TimersTyped' /\ Budgeted'
  BY <1>1, <1>4, <1>5, <1>9, <1>11, <1>12, <1>13, TimerChanges
<1> QED
  BY <1>1, <1>4, <1>14 DEF ProviderInv

\* hardhat_reset spends its request on the node it drops.
LEMMA ResetKeeps ==
    ASSUME ProviderInv, NEW c, ResetNode(c)
    PROVE  ProviderInv'
<1> DEFINE t == Timer!Stopped(timers[node])
<1>1. /\ node # 0 /\ c \in holders /\ request[c] # NoRequest
      /\ request[c].method = "hardhat_reset"
      /\ timers' = [timers EXCEPT ![node] = t]
      /\ request' = [request EXCEPT ![c] = Resetting]
      /\ node' = 0 /\ created' = created /\ listening' = listening \ {node}
      /\ UNCHANGED <<mutexVars, sent>> /\ sent' = sent
  BY DEF ResetNode, Holds
<1>2. request[c] \in Requests
  <2>1. request[c] \in AnyRequest
    BY <1>1 DEF ProviderInv, Mutexed, Mutex!TypeOK
  <2>2. request[c] # IntervalMine
    BY <1>1 DEF IntervalMine
  <2>3. request[c] # Resetting
    BY <1>1 DEF Resetting
  <2> QED
    BY <2>1, <2>2, <2>3 DEF AnyRequest
<1>4. /\ Mutexed'
      /\ IsFiniteSet(Unspent') /\ Cardinality(Unspent') \in Nat
      /\ Cardinality(Unspent') = Cardinality(Unspent) - 1
  BY <1>1, <1>2, SameMutex
<1>5. node \in Nodes /\ node <= created
  BY <1>1, CountsAreNumbers DEF ProviderInv, Nodes
<1>6. Typed(timers[node])
  BY <1>5 DEF ProviderInv, TimersTyped
<1>7. Typed(t) /\ LoopsOf(t) \subseteq LoopsOf(timers[node])
  BY <1>6, StoppedLemma
<1>8. /\ IsFiniteSet(LoopsOf(timers[node])) /\ Cardinality(LoopsOf(timers[node])) \in Nat
      /\ Cardinality(Unspent) \in Nat
  BY <1>5, CountsAreNumbers
<1>9. /\ Cardinality(LoopsOf(t)) \in Nat
      /\ Cardinality(LoopsOf(t)) <= Cardinality(LoopsOf(timers[node]))
  BY <1>7, <1>8, FS_Subset, FS_CardinalityType
<1> HIDE DEF t
<1>10. /\ Cardinality(Unspent') < Cardinality(Unspent)
       /\ Cardinality(Unspent') <= Cardinality(Unspent)
       /\ Cardinality(LoopsOf(t)) + Cardinality(Unspent') <= Cardinality(LoopsOf(timers[node])) + Cardinality(Unspent)
  BY <1>4, <1>8, <1>9
<1>11. TimersTyped' /\ Budgeted'
  BY <1>1, <1>4, <1>5, <1>7, <1>9, <1>10, TimerChanges
<1> QED
  BY <1>1, <1>4, <1>11, CountsAreNumbers DEF ProviderInv

\* A loop comes and goes without a request of a client.
LEMMA TimerKeeps ==
    ASSUME ProviderInv, NEW n \in Nodes, NEW h \in Handles,
           FireTimer(n, h) \/ LoopContinues(n, h)
    PROVE  ProviderInv'
<1>1. /\ timers \in [Nodes -> Timer!TimerType] /\ Typed(timers[n])
      /\ n > created => LoopsOf(timers[n]) = {}
  BY DEF ProviderInv, TimersTyped
<1>2. h \in LoopsOf(timers[n])
  BY DEF FireTimer, LoopContinues, LoopsOf
<1>3. n <= created
  BY <1>1, <1>2, CountsAreNumbers DEF Nodes
<1>4. /\ sent' = sent /\ node' = node /\ created' = created /\ listening' = listening
  BY DEF FireTimer, LoopContinues
<1>5. PICK t : /\ timers' = [timers EXCEPT ![n] = t]
               /\ Typed(t)
               /\ Cardinality(LoopsOf(t)) \in Nat
               /\ Cardinality(LoopsOf(t)) <= Cardinality(LoopsOf(timers[n]))
  <2>1. IsFiniteSet(LoopsOf(timers[n])) /\ Cardinality(LoopsOf(timers[n])) \in Nat
    BY CountsAreNumbers
  <2>2. CASE FireTimer(n, h)
    <3>1. h \in timers[n].pending /\ timers' = [timers EXCEPT ![n] = Timer!Fired(timers[n], h)]
      BY <2>2 DEF FireTimer
    <3>2. Typed(Timer!Fired(timers[n], h)) /\ LoopsOf(Timer!Fired(timers[n], h)) \subseteq LoopsOf(timers[n])
      BY <1>1, <3>1, FiredLemma
    <3> QED
      BY <2>1, <3>1, <3>2, FS_Subset, FS_CardinalityType
  <2>3. CASE LoopContinues(n, h)
    <3>1. h \in timers[n].mining /\ timers' = [timers EXCEPT ![n] = Timer!Mined(timers[n], h)]
      BY <2>3 DEF LoopContinues
    <3>2. Typed(Timer!Mined(timers[n], h))
      BY <1>1, <3>1, MinedLemma
    <3>3. PICK k \in Handles : LoopsOf(Timer!Mined(timers[n], h)) = (LoopsOf(timers[n]) \ {h}) \union {k}
      BY <1>1, <3>1, MinedLemma
    <3> DEFINE fewer == LoopsOf(timers[n]) \ {h}
    <3>4. IsFiniteSet(fewer) /\ Cardinality(fewer) = Cardinality(LoopsOf(timers[n])) - 1
      BY <1>2, <2>1, FS_RemoveElement
    <3> HIDE DEF fewer
    <3>5. /\ IsFiniteSet(fewer \union {k})
          /\ Cardinality(fewer \union {k}) \in Nat
          /\ Cardinality(fewer \union {k}) <= Cardinality(fewer) + 1
      BY <3>4, OneMore
    <3>6. LoopsOf(Timer!Mined(timers[n], h)) = fewer \union {k}
      BY <3>3 DEF fewer
    <3>7. Cardinality(LoopsOf(Timer!Mined(timers[n], h))) <= Cardinality(LoopsOf(timers[n]))
      BY <2>1, <3>4, <3>5, <3>6
    <3> QED
      BY <3>1, <3>2, <3>5, <3>6, <3>7
  <2> QED
    BY <2>2, <2>3
<1>6. Mutexed' /\ IsFiniteSet(Unspent') /\ Cardinality(Unspent') \in Nat /\ Cardinality(Unspent') <= Cardinality(Unspent)
  <2>1. CASE UNCHANGED <<mutexVars, request>>
    <3>1. Unspent' = Unspent
      BY <2>1 DEF Unspent
    <3>2. Mutexed'
      BY <2>1 DEF ProviderInv, Mutexed, Mutex!TypeOK, Mutex!Waiting, mutexVars
    <3> QED
      BY <3>1, <3>2, CountsAreNumbers DEF ProviderInv, Budgeted
  <2>2. CASE Mutex!Acquire(<<n, h>>) /\ request' = [request EXCEPT ![<<n, h>>] = IntervalMine]
    <3> DEFINE c == <<n, h>>
    <3>1. c \in Callers
      BY DEF Callers, Loops
    <3> HIDE DEF c
    <3>2. Mutex!Acquire(c) /\ request' = [request EXCEPT ![c] = IntervalMine]
      BY <2>2 DEF c
    <3>3. Mutex!TypeOK /\ Mutex!Waiting \subseteq Callers
      <4>1. Mutex!TypeOK
        BY DEF ProviderInv, Mutexed
      <4> QED
        BY <4>1, ElementOfSeq, LenProperties DEF Mutex!TypeOK, Mutex!Waiting
    <3>4. Mutex!TypeOK' /\ Mutex!Waiting' = Mutex!Waiting \union {c}
      BY <3>1, <3>2, <3>3, AcquireTypes
    <3>5. IntervalMine # NoRequest
      BY NoRequestAssumption DEF AnyRequest
    <3>6. request \in [Callers -> AnyRequest \union {NoRequest}] /\ \A d \in Mutex!Waiting : request[d] # NoRequest
      BY DEF ProviderInv, Mutexed
    <3>7. \A d \in Mutex!Waiting' : request'[d] # NoRequest
      BY <3>1, <3>2, <3>3, <3>4, <3>5, <3>6
    <3>8. /\ IsFiniteSet(Unspent') /\ Cardinality(Unspent') \in Nat
          /\ Cardinality(Unspent') =
               IF request[c] \in Requests THEN Cardinality(Unspent) - 1 ELSE Cardinality(Unspent)
          /\ request' \in [Callers -> AnyRequest \union {NoRequest}]
      BY <3>1, <3>2, AnsweredIsSpent
    <3>9. Cardinality(Unspent') <= Cardinality(Unspent)
      BY <3>8, CountsAreNumbers
    <3> QED
      BY <3>4, <3>7, <3>8, <3>9 DEF Mutexed
  <2> QED
    BY <2>1, <2>2 DEF FireTimer, LoopContinues, mutexVars
<1>7. Cardinality(LoopsOf(t)) + Cardinality(Unspent') <= Cardinality(LoopsOf(timers[n])) + Cardinality(Unspent)
  BY <1>5, <1>6, CountsAreNumbers
<1>8. TimersTyped' /\ Budgeted'
  BY <1>3, <1>4, <1>5, <1>6, <1>7, CountsAreNumbers, TimerChanges
<1> QED
  BY <1>4, <1>6, <1>8 DEF ProviderInv

LEMMA ProviderInit == Init => ProviderInv
<1> SUFFICES ASSUME Init PROVE ProviderInv
  OBVIOUS
<1>1. MaxRequests \in Nat /\ sent = 0 /\ node = 0 /\ created = 0 /\ listening = {}
  BY MaxRequestsAssumption DEF Init
<1>2. request = [c \in Callers |-> NoRequest]
  BY DEF Init
<1>3. Mutexed
  <2>1. Mutex!Waiting = {} /\ Mutex!TypeOK
    BY DEF Init, Mutex!Init, Mutex!Waiting, Mutex!TypeOK
  <2> QED
    BY <1>2, <2>1 DEF Mutexed
<1>4. TimersTyped
  <2>1. /\ Typed(Timer!New(IntervalMining)) /\ LoopsOf(Timer!New(IntervalMining)) = {}
        /\ Timer!New(IntervalMining) \in Timer!TimerType
    BY DEF Timer!New, Typed, Timer!TimerType, LoopsOf, BlockTimes
  <2>2. timers = [n \in Nodes |-> Timer!New(IntervalMining)]
    BY DEF Init
  <2> QED
    BY <2>1, <2>2 DEF TimersTyped
<1>5. Unspent = {}
  BY <1>2, NoRequestAssumption DEF Unspent, AnyRequest
<1>6. \A n \in Nodes : LoopsOf(timers[n]) = {}
  <2>1. \A n \in Nodes : n > 0
    BY <1>1 DEF Nodes
  <2> QED
    BY <1>1, <1>4, <2>1 DEF TimersTyped
<1>7. Budgeted
  <2>1. IsFiniteSet({}) /\ Cardinality({}) = 0
    BY FS_EmptySet
  <2> QED
    BY <1>1, <1>5, <1>6, <2>1 DEF Budgeted
<1> QED
  BY <1>1, <1>3, <1>4, <1>7 DEF ProviderInv

LEMMA ProviderStep == ProviderInv /\ [Next]_vars => ProviderInv'
<1> SUFFICES ASSUME ProviderInv, [Next]_vars PROVE ProviderInv'
  OBVIOUS
<1>1. CASE UNCHANGED vars
  <2>1. UNCHANGED nodeVars /\ UNCHANGED mutexVars /\ request' = request /\ sent' = sent
    BY <1>1 DEF vars
  <2>2. Mutexed' /\ Unspent' = Unspent
    BY <2>1 DEF ProviderInv, Mutexed, Mutex!TypeOK, Mutex!Waiting, mutexVars, Unspent
  <2>3. IsFiniteSet(Unspent') /\ Cardinality(Unspent') \in Nat
        /\ Cardinality(Unspent') - sent' <= Cardinality(Unspent) - sent
    BY <2>1, <2>2, CountsAreNumbers DEF ProviderInv, Budgeted
  <2>4. sent' \in 0 .. MaxRequests
    BY <2>1 DEF ProviderInv
  <2> QED
    BY <2>1, <2>2, <2>3, <2>4, SameNode
<1>2. ASSUME NEW c \in Clients, NEW r \in Requests, SendRequest(c, r) PROVE ProviderInv'
  BY <1>2, SendKeeps
<1>3. CASE MutexTick
  BY <1>3, TickKeeps
<1>4. ASSUME NEW c \in Callers, Serve(c) PROVE ProviderInv'
  <2>1. CASE InitFails(c)
    BY <2>1, AnswerKeeps DEF InitFails, NeedsNode
  <2>2. CASE HandleRequest(c)
    BY <2>2, AnswerKeeps DEF HandleRequest, Holds
  <2> QED
    BY <1>4, <2>1, <2>2, RefuseKeeps, InitNodeKeeps, SetIntervalKeeps, ResetKeeps DEF Serve
<1>5. ASSUME NEW n \in Nodes, NEW h \in Handles, FireTimer(n, h) \/ LoopContinues(n, h)
      PROVE  ProviderInv'
  BY <1>5, TimerKeeps
<1> QED
  BY <1>1, <1>2, <1>3, <1>4, <1>5 DEF Next

LEMMA ProviderAlways == Spec => []ProviderInv
BY ProviderInit, ProviderStep, PTL DEF Spec

LEMMA ProviderTyped == ProviderInv => TypeOK
<1> SUFFICES ASSUME ProviderInv PROVE TypeOK
  OBVIOUS
<1>1. node \in Nodes \union {0} /\ created \in Nodes \union {0}
  BY CountsAreNumbers DEF ProviderInv, Nodes
<1> QED
  BY <1>1 DEF ProviderInv, Mutexed, TimersTyped, TypeOK

\* The provider's variables keep their types, and who waits for the mutex has sent a
\* request: the numbers of nodes and of timeouts that the bounds leave room for are
\* enough, because each node but the first and each restart of a timer takes a request.
THEOREM TypeCorrect == Spec => []TypeOK
BY ProviderAlways, ProviderTyped, PTL

-----------------------------------------------------------------------------
(* The mutex goes from request to request.  Its one permit is free or held by *)
(* one caller, and a free one that somebody waits for is about to be handed   *)
(* out.                                                                       *)

OnePermit ==
    /\ \/ count = 1 /\ holders = {}
       \/ count = 0 /\ \E c \in Callers : holders = {c}
    /\ tasks # << >> /\ count = 1 => ticks > 0

\* Only clients send params as an object.
ObjectParamsOfClients ==
    \A c \in Callers :
        request[c] # NoRequest /\ request[c].method = "objectParams" => c \in Clients

TurnInv == ProviderInv /\ OnePermit /\ ObjectParamsOfClients

HoldersHaveRequests == \A c \in holders : request[c] # NoRequest

\* _sched with the permit free hands it to the first caller that waits, if there is one.
LEMMA SchedHandsOut ==
    ASSUME Mutex!TypeOK, Mutex!Sched(1, {})
    PROVE  /\ \/ count' = 1 /\ holders' = {} /\ tasks' = << >>
              \/ count' = 0 /\ \E c \in Callers : holders' = {c}
           /\ holders' \subseteq Mutex!Waiting
<1>1. tasks \in Seq(Callers)
  BY DEF Mutex!TypeOK
<1>2. CASE tasks = << >>
  BY <1>2 DEF Mutex!Sched
<1>3. CASE tasks # << >>
  <2>1. count' = 0 /\ holders' = {Head(tasks)}
    BY <1>3 DEF Mutex!Sched
  <2>2. Head(tasks) \in Callers /\ Head(tasks) \in Mutex!Waiting
    <3>1. Len(tasks) \in Nat \ {0} /\ DOMAIN tasks = 1 .. Len(tasks) /\ Head(tasks) = tasks[1]
      BY <1>1, <1>3
    <3>2. 1 \in DOMAIN tasks
      BY <3>1
    <3> QED
      BY <1>1, <3>1, <3>2, ElementOfSeq DEF Mutex!Waiting
  <2> QED
    BY <2>1, <2>2
<1> QED
  BY <1>2, <1>3

LEMMA TickTurns ==
    ASSUME Mutex!TypeOK, OnePermit, Mutex!Tick
    PROVE  OnePermit' /\ holders' \subseteq holders \union Mutex!Waiting
<1>1. ticks \in Nat /\ ticks > 0 /\ ticks' = ticks - 1 /\ Mutex!Sched(count, holders)
  BY DEF Mutex!Tick, Mutex!TypeOK
<1>2. CASE count = 1 /\ holders = {}
  <2>1. Mutex!Sched(1, {})
    BY <1>1, <1>2
  <2> QED
    BY <2>1, SchedHandsOut DEF OnePermit
<1>3. CASE count = 0 /\ \E c \in Callers : holders = {c}
  <2>1. count' = count /\ holders' = holders
    BY <1>1, <1>3 DEF Mutex!Sched
  <2> QED
    BY <1>3, <2>1 DEF OnePermit
<1> QED
  BY <1>2, <1>3 DEF OnePermit

LEMMA ReleaseTurns ==
    ASSUME Mutex!TypeOK, OnePermit, NEW c, Mutex!Release(c)
    PROVE  OnePermit' /\ holders' \subseteq Mutex!Waiting
<1>1. c \in holders /\ Mutex!Sched(count + 1, holders \ {c})
  BY DEF Mutex!Release
<1>2. count + 1 = 1 /\ holders \ {c} = {}
  BY <1>1 DEF OnePermit
<1>3. Mutex!Sched(1, {})
  BY <1>1, <1>2
<1> QED
  BY <1>3, SchedHandsOut DEF OnePermit

LEMMA AcquireTurns ==
    ASSUME Mutex!TypeOK, OnePermit, NEW c, Mutex!Acquire(c)
    PROVE  OnePermit' /\ holders' = holders
BY DEF OnePermit, Mutex!Acquire, Mutex!TypeOK

LEMMA ObjectParamsStay ==
    ASSUME TurnInv, NEW c \in Callers, NEW r \in {NoRequest, IntervalMine, Resetting},
           request' = [request EXCEPT ![c] = r]
    PROVE  ObjectParamsOfClients'
<1>1. request \in [Callers -> AnyRequest \union {NoRequest}]
  BY DEF TurnInv, ProviderInv, Mutexed
<1>2. \A d \in Callers : request'[d] = IF d = c THEN r ELSE request[d]
  BY <1>1
<1>3. r = NoRequest \/ r.method # "objectParams"
  BY DEF IntervalMine, Resetting
<1> QED
  BY <1>2, <1>3 DEF TurnInv, ObjectParamsOfClients

\* An answer gives the mutex to a caller that waits for it, and has a request of its own.
LEMMA AnswerTurns ==
    ASSUME TurnInv, NEW c \in holders, Answer(c)
    PROVE  OnePermit' /\ ObjectParamsOfClients' /\ HoldersHaveRequests'
<1>1. Mutex!TypeOK /\ OnePermit /\ c \in Callers /\ Mutex!Waiting \subseteq Callers
  <2>1. Mutex!TypeOK
    BY DEF TurnInv, ProviderInv, Mutexed
  <2> QED
    BY <2>1, ElementOfSeq, LenProperties DEF TurnInv, Mutex!TypeOK, Mutex!Waiting
<1>2. request' = [request EXCEPT ![c] = NoRequest] /\ Mutex!Release(c)
  BY DEF Answer
<1>3. OnePermit' /\ holders' \subseteq Mutex!Waiting
  BY <1>1, <1>2, ReleaseTurns
<1>4. c \notin Mutex!Waiting
  BY <1>1 DEF Mutex!TypeOK
<1>5. /\ request \in [Callers -> AnyRequest \union {NoRequest}]
      /\ \A d \in Mutex!Waiting : request[d] # NoRequest
  BY DEF TurnInv, ProviderInv, Mutexed
<1>6. \A d \in holders' : request'[d] # NoRequest
  BY <1>1, <1>2, <1>3, <1>4, <1>5
<1>7. ObjectParamsOfClients'
  BY <1>1, <1>2, ObjectParamsStay
<1> QED
  BY <1>3, <1>6, <1>7 DEF HoldersHaveRequests

\* A caller asks for the mutex, with a request that only a client may send as it likes.
LEMMA AskingTurns ==
    ASSUME TurnInv, NEW c \in Callers, NEW r, Mutex!Acquire(c), request' = [request EXCEPT ![c] = r],
           (r \in Requests /\ c \in Clients) \/ r = IntervalMine
    PROVE  OnePermit' /\ ObjectParamsOfClients' /\ (HoldersHaveRequests => HoldersHaveRequests')
<1>1. Mutex!TypeOK /\ OnePermit /\ request \in [Callers -> AnyRequest \union {NoRequest}]
  BY DEF TurnInv, ProviderInv, Mutexed
<1>2. OnePermit' /\ holders' = holders /\ c \notin holders
  BY <1>1, AcquireTurns DEF Mutex!Acquire
<1>3. \A d \in Callers : request'[d] = IF d = c THEN r ELSE request[d]
  BY <1>1
<1>4. r.method = "objectParams" => c \in Clients
  BY DEF IntervalMine
<1>5. ObjectParamsOfClients'
  BY <1>3, <1>4 DEF TurnInv, ObjectParamsOfClients
<1>6. HoldersHaveRequests => HoldersHaveRequests'
  BY <1>1, <1>2, <1>3 DEF HoldersHaveRequests, Mutex!TypeOK
<1> QED
  BY <1>2, <1>5, <1>6

\* The request refused for its params was sent by a client, as an object.
LEMMA RefusedIsOfClient ==
    ASSUME TurnInv, NEW c, RefuseObjectParams(c)
    PROVE  ~ ArrayParamsOnly
<1>1. c \in holders /\ request[c] # NoRequest /\ request[c].method = "objectParams"
  BY DEF RefuseObjectParams, Holds
<1>2. c \in Clients /\ request[c] \in AnyRequest
  BY <1>1 DEF TurnInv, ProviderInv, Mutexed, Mutex!TypeOK, ObjectParamsOfClients
<1>3. request[c] \in Requests
  BY <1>1, <1>2 DEF AnyRequest, IntervalMine, Resetting
<1>4. request[c] = [method |-> "objectParams"]
  BY <1>1, <1>3, RequestsAssumption DEF RequestType
<1> QED
  BY <1>2, <1>4 DEF ArrayParamsOnly

LEMMA SameTurn ==
    ASSUME OnePermit, UNCHANGED mutexVars
    PROVE  OnePermit'
BY DEF OnePermit, mutexVars

LEMMA TurnsStep ==
    ASSUME TurnInv, [Next]_vars
    PROVE  /\ OnePermit' /\ ObjectParamsOfClients'
           /\ HoldersHaveRequests /\ ArrayParamsOnly => HoldersHaveRequests'
<1>0. OnePermit /\ ObjectParamsOfClients
  BY DEF TurnInv
<1> DEFINE Goal ==
        /\ OnePermit' /\ ObjectParamsOfClients'
        /\ HoldersHaveRequests /\ ArrayParamsOnly => HoldersHaveRequests'
<1>1. ASSUME UNCHANGED <<mutexVars, request>> PROVE Goal
  <2>1. ObjectParamsOfClients' /\ HoldersHaveRequests' = HoldersHaveRequests
    BY <1>0, <1>1 DEF ObjectParamsOfClients, HoldersHaveRequests, mutexVars
  <2> QED
    BY <1>0, <1>1, <2>1, SameTurn
<1>2. ASSUME NEW c \in Clients, NEW r \in Requests, SendRequest(c, r) PROVE Goal
  <2>1. c \in Callers /\ Mutex!Acquire(c) /\ request' = [request EXCEPT ![c] = r]
    BY <1>2 DEF SendRequest, Callers
  <2> QED
    BY <2>1, AskingTurns
<1>3. ASSUME MutexTick PROVE Goal
  <2>1. Mutex!TypeOK /\ Mutex!Tick /\ request' = request
    BY <1>3 DEF MutexTick, TurnInv, ProviderInv, Mutexed
  <2>2. OnePermit' /\ holders' \subseteq holders \union Mutex!Waiting
    BY <1>0, <2>1, TickTurns
  <2>3. \A c \in Mutex!Waiting : request[c] # NoRequest
    BY DEF TurnInv, ProviderInv, Mutexed
  <2> QED
    BY <1>0, <2>1, <2>2, <2>3 DEF ObjectParamsOfClients, HoldersHaveRequests
<1>4. ASSUME NEW c \in Callers, Serve(c) PROVE Goal
  <2>1. CASE RefuseObjectParams(c)
    <3>1. UNCHANGED mutexVars /\ request' = [request EXCEPT ![c] = NoRequest]
      BY <2>1 DEF RefuseObjectParams
    <3> QED
      BY <1>0, <2>1, <3>1, SameTurn, ObjectParamsStay, RefusedIsOfClient
  <2>2. CASE InitNode(c)
    BY <1>1, <2>2 DEF InitNode
  <2>3. CASE InitFails(c) \/ HandleRequest(c) \/ SetIntervalMining(c)
    <3>1. c \in holders /\ Answer(c)
      BY <2>3 DEF InitFails, NeedsNode, HandleRequest, SetIntervalMining, Holds
    <3> QED
      BY <3>1, AnswerTurns
  <2>4. CASE ResetNode(c)
    <3>1. UNCHANGED mutexVars /\ request' = [request EXCEPT ![c] = Resetting]
      BY <2>4 DEF ResetNode
    <3>2. OnePermit' /\ ObjectParamsOfClients' /\ holders' = holders
      BY <1>0, <3>1, SameTurn, ObjectParamsStay DEF mutexVars
    <3>3. Resetting # NoRequest
      BY NoRequestAssumption DEF AnyRequest
    <3>4. /\ request \in [Callers -> AnyRequest \union {NoRequest}]
          /\ holders \subseteq Callers
      BY DEF TurnInv, ProviderInv, Mutexed, Mutex!TypeOK
    <3>5. HoldersHaveRequests => HoldersHaveRequests'
      BY <3>1, <3>2, <3>3, <3>4 DEF HoldersHaveRequests
    <3> QED
      BY <3>2, <3>5
  <2> HIDE DEF Goal
  <2> QED
    BY <1>4, <2>1, <2>2, <2>3, <2>4 DEF Serve
<1>5. ASSUME NEW n \in Nodes, NEW h \in Handles, FireTimer(n, h) PROVE Goal
  <2>1. CASE UNCHANGED <<mutexVars, request>>
    BY <1>1, <2>1
  <2>2. CASE Mutex!Acquire(<<n, h>>) /\ request' = [request EXCEPT ![<<n, h>>] = IntervalMine]
    <3>1. <<n, h>> \in Callers
      BY DEF Callers, Loops
    <3> QED
      BY <2>2, <3>1, AskingTurns
  <2> HIDE DEF Goal
  <2> QED
    BY <1>5, <2>1, <2>2 DEF FireTimer, mutexVars
<1>6. ASSUME NEW n \in Nodes, NEW h \in Handles, LoopContinues(n, h) PROVE Goal
  BY <1>1, <1>6 DEF LoopContinues
<1>7. ASSUME UNCHANGED vars PROVE Goal
  BY <1>1, <1>7 DEF vars
<1> HIDE DEF Goal
<1>8. Goal
  BY <1>2, <1>3, <1>4, <1>5, <1>6, <1>7 DEF Next
<1> QED
  BY <1>8 DEF Goal

LEMMA TurnInvInit == Init => TurnInv /\ HoldersHaveRequests
<1> SUFFICES ASSUME Init PROVE TurnInv /\ HoldersHaveRequests
  OBVIOUS
<1>1. OnePermit /\ HoldersHaveRequests
  BY DEF Init, Mutex!Init, OnePermit, HoldersHaveRequests
<1>2. ObjectParamsOfClients
  BY DEF Init, ObjectParamsOfClients
<1> QED
  BY <1>1, <1>2, ProviderInit DEF TurnInv

LEMMA TurnInvStep == TurnInv /\ [Next]_vars => TurnInv'
<1> SUFFICES ASSUME TurnInv, [Next]_vars PROVE TurnInv'
  OBVIOUS
<1>1. ProviderInv'
  BY ProviderStep DEF TurnInv
<1> QED
  BY <1>1, TurnsStep DEF TurnInv

\* Requests take turns, for any number of clients: one at a time has the mutex, and while
\* params are arrays a handler that threw, a node that could not be made and a reset give
\* it to the next one as an answer does.
THEOREM RequestsKeepTakingTurns == Spec => RequestsTakeTurns
<1> DEFINE Alone == \A c, d \in holders : c = d
           Handed == /\ \A c \in holders : request[c] # NoRequest
                     /\ Mutex!Waiting # {} /\ holders = {} => ticks > 0
<1>1. TurnInv => Alone
  BY DEF TurnInv, OnePermit
<1>2. TurnInv /\ HoldersHaveRequests => Handed
  <2> SUFFICES ASSUME TurnInv, HoldersHaveRequests PROVE Handed
    OBVIOUS
  <2>1. tasks \in Seq(Callers)
    BY DEF TurnInv, ProviderInv, Mutexed, Mutex!TypeOK
  <2>2. Mutex!Waiting # {} => tasks # << >>
    BY <2>1 DEF Mutex!Waiting
  <2> QED
    BY <2>2 DEF TurnInv, OnePermit, HoldersHaveRequests
<1>3. TurnInv /\ [Next]_vars => (HoldersHaveRequests /\ ArrayParamsOnly => HoldersHaveRequests')
  BY TurnsStep
<1> HIDE DEF Alone, Handed
<1>4. Spec => []Alone /\ ([]ArrayParamsOnly => []Handed)
  BY <1>1, <1>2, <1>3, TurnInvInit, TurnInvStep, PTL DEF Spec
<1> QED
  BY <1>4 DEF RequestsTakeTurns, Alone, Handed

=============================================================================
