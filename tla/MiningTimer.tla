---------------------------- MODULE MiningTimer -----------------------------
(***************************************************************************)
(* provider/MiningTimer.ts: the timer behind interval mining.              *)
(*                                                                         *)
(* A loop of the timer is a pending timeout, then a call of _loop that     *)
(* awaits the mining function, then the timeout that _loop sets next.  The *)
(* timer only remembers its latest timeout.  Durations are abstracted:     *)
(* a pending timeout may fire at any time, an awaited call may take any    *)
(* time, and only whether a block time is zero matters.                    *)
(***************************************************************************)
EXTENDS Integers, FiniteSets

CONSTANTS
    BlockTimes,     \* the block times the user may set, in milliseconds
    Handles         \* bound: the loops that may be alive at the same time

ASSUME BlockTimesAssumption == BlockTimes \subseteq Nat
ASSUME HandlesAssumption == Handles \subseteq Nat \ {0} /\ Handles # {}

VARIABLE timer

\* state and _blockTime are fields of the class; timeout is the handle it remembers;
\* pending are the timeouts the runtime holds and mining the calls of _loop that await
\* the mining function, each named by the timeout that made it.  A handle is given out
\* again when its loop is over: the remembered one is always the latest given out.
NoTimeout == 0

TimerType ==
    [state : {"STOP", "RUNNING"}, blockTime : BlockTimes,
     timeout : Handles \union {NoTimeout},
     pending : SUBSET Handles, mining : SUBSET Handles]

New(blockTime) ==
    [state |-> "STOP", blockTime |-> blockTime, timeout |-> NoTimeout,
     pending |-> {}, mining |-> {}]

FreeHandles(t) == Handles \ (t.pending \union t.mining)

\* setTimeout, with its handle kept in _timeout
WithTimeout(t) ==
    LET handle == CHOOSE h \in FreeHandles(t) : TRUE
    IN [t EXCEPT !.timeout = handle, !.pending = @ \union {handle}]

Enabled(t) == t.blockTime # 0

\* start
Started(t) ==
    IF t.state = "RUNNING" \/ ~ Enabled(t) THEN t
    ELSE WithTimeout([t EXCEPT !.state = "RUNNING"])

\* stop: only the latest timeout is cleared, and only if it has not fired yet
Stopped(t) ==
    IF t.state = "STOP" THEN t
    ELSE [t EXCEPT !.state = "STOP", !.pending = @ \ {t.timeout}]

\* mutant of WithBlockTime: the state says RUNNING, the old timeout is cleared, and
\* start() finds a running timer
WithBlockTime_NotRestarted(t, blockTime) ==
    IF blockTime = 0 THEN Stopped(t)
    ELSE Started([t EXCEPT !.blockTime = blockTime, !.pending = @ \ {t.timeout}])

\* setBlockTime: zero stops the timer and leaves the block time as it was
WithBlockTime(t, blockTime) ==
    IF blockTime = 0 THEN Stopped(t)
    ELSE Started(Stopped([t EXCEPT !.blockTime = blockTime]))

\* mutant of Fired: _loop does not look at the state
Fired_WhenStopped(t, handle) ==
    [t EXCEPT !.pending = @ \ {handle}, !.mining = @ \union {handle}]

\* mutant of Fired: an interval instead of a timeout
Fired_Interval(t, handle) ==
    [t EXCEPT !.mining = IF t.state = "STOP" THEN @ ELSE @ \union {handle}]

\* a timeout fires: _loop returns at once when the timer is stopped, and otherwise
\* calls the mining function
Fired(t, handle) ==
    [t EXCEPT !.pending = @ \ {handle},
              !.mining = IF t.state = "STOP" THEN @ ELSE @ \union {handle}]

\* mutant of Mined: the loop ends after one call
Mined_Once(t, handle) == [t EXCEPT !.mining = @ \ {handle}]

\* the mining function is done: _loop sets the next timeout whatever the state is now
Mined(t, handle) == WithTimeout([t EXCEPT !.mining = @ \ {handle}])

-----------------------------------------------------------------------------
TimerInit == \E blockTime \in BlockTimes : timer = Started(New(blockTime))

SetBlockTime(blockTime) ==
    /\ FreeHandles(timer) # {}
    /\ timer' = WithBlockTime(timer, blockTime)

Start ==
    /\ FreeHandles(timer) # {}
    /\ timer' = Started(timer)

Stop == timer' = Stopped(timer)

UserStep == (\E blockTime \in BlockTimes : SetBlockTime(blockTime)) \/ Start \/ Stop

Fire(handle) ==
    /\ handle \in timer.pending
    /\ timer' = Fired(timer, handle)

MineDone(handle) ==
    /\ handle \in timer.mining
    /\ timer' = Mined(timer, handle)

TimerNext ==
    \/ UserStep
    \/ \E handle \in Handles : Fire(handle) \/ MineDone(handle)

TimerSpec == TimerInit /\ [][TimerNext]_timer

\* The runtime fires every timeout that is not cleared, and the mining function returns.
TimerFairness ==
    \A handle \in Handles : WF_timer(Fire(handle)) /\ WF_timer(MineDone(handle))

TimerFairSpec == TimerSpec /\ TimerFairness

-----------------------------------------------------------------------------
(* Properties *)

\* The timer is well typed, and a loop is never pending and mining at the same time: its
\* next timeout is set after the mining function has returned.
TimerTypeOK ==
    /\ timer \in TimerType
    /\ timer.pending \cap timer.mining = {}

\* A running timer always has a loop: its latest timeout is pending, or the mining
\* function is being awaited and a timeout will follow.
RunningIsArmed ==
    timer.state = "RUNNING" => timer.timeout \in timer.pending \/ timer.mining # {}

\* A timer that stays stopped runs out: the loop that stop() found in the mining function
\* sets one more timeout, and that one ends it.
StoppedTimerRunsOut ==
    <>[](timer.state = "STOP") => <>[](timer.pending = {} /\ timer.mining = {})

\* A timer that is running when the last call to it is made mines again and again.
RunningTimerKeepsMining ==
    <>[][~ UserStep]_timer
        => []<>(timer.mining # {}) \/ <>[](timer.state = "STOP")

\* In the end the timer does what it was told last: it goes on mining, or it runs out.
TimerObeys == StoppedTimerRunsOut /\ RunningTimerKeepsMining

\* The loop awaits the mining function before it calls it again (the test "the loop
\* awaits for async callback execution before looping again").
MinesOneAtATime == Cardinality(timer.mining) <= 1

=============================================================================
