---------------------------- MODULE GasEstimation ----------------------------
(***************************************************************************)
(* eth_estimateGas: estimateGas, _correctInitialEstimation and             *)
(* _binarySearchEstimation of provider/node.ts.  The transaction is run    *)
(* with the gas of the call, then with the gas that took, and if this is   *)
(* not enough with more and more likely amounts.                           *)
(*                                                                         *)
(* Each run is made in the context of the same block, or of a pending      *)
(* block that is mined for it and taken back.  Its outcome is the EVM's.   *)
(***************************************************************************)
EXTENDS Integers

CONSTANTS
    Calls,          \* see Call
    BlockGasLimits

VARIABLES
    call,           \* the parameters of the call, with what the EVM makes of it
    blockGasLimit,  \* getBlockGasLimit()
    search,         \* what estimateGas is at
    succeeded       \* the amounts of gas it ran with and succeeded: only properties see them

estimationVars == <<call, blockGasLimit, search, succeeded>>

MAX_GAS_ESTIMATION_IMPROVEMENT_ROUNDS == 20

\* What the transaction is charged at the end, refunds deducted (spent), may be less than
\* what it needs to succeed (least), and even than what it costs before it is run
\* (intrinsic, getBaseFee of its class).  A steady one succeeds with least and with
\* anything above; one that looks at the gas left or at the time may do as it likes.
Call == [gas : Nat, intrinsic : Nat, spent : Nat, least : Nat, steady : BOOLEAN]

\* A steady one is charged no more than it needs, and needs what it costs before it is run.
ASSUME CallsAssumption ==
    /\ Calls \subseteq Call /\ BlockGasLimits \subseteq Nat
    /\ \A c \in Calls : c.steady => c.intrinsic <= c.least /\ c.spent <= c.least

\* runTx: does the transaction succeed with gas, if that is not below the intrinsic cost
Succeeds(gas) == IF call.steady THEN {gas >= call.least} ELSE BOOLEAN

Search == [phase : {"first run", "correct", "search", "done", "thrown"},
           highestFailing : Nat, lowestSuccessful : Nat, roundNumber : Nat,
           error : BOOLEAN]

EstimationInit ==
    /\ call \in Calls
    /\ blockGasLimit \in BlockGasLimits
    /\ search = [phase |-> "first run", highestFailing |-> 0, lowestSuccessful |-> 0,
                 roundNumber |-> 0, error |-> FALSE]
    /\ succeeded = {}

\* The end, with lowestSuccessful as the estimation.
Done(estimation, error) ==
    search' = [search EXCEPT !.phase = "done", !.lowestSuccessful = estimation, !.error = error]

\* The transaction is run with gas, and succeeds or not.
RunWith(gas, ok) ==
    /\ gas >= call.intrinsic
    /\ ok \in Succeeds(gas)
    /\ succeeded' = IF ok THEN succeeded \union {gas} ELSE succeeded
    /\ UNCHANGED <<call, blockGasLimit>>

-----------------------------------------------------------------------------
\* estimateGas: when the transaction fails with the gas of the call, this is the answer.
FirstRun(ok) ==
    /\ search.phase = "first run"
    /\ RunWith(call.gas, ok)
    /\ IF ok THEN search' = [search EXCEPT !.phase = "correct"] ELSE Done(blockGasLimit, TRUE)

\* mutant of InitialEstimation: the gas that was charged
InitialEstimation_Spent == call.spent

InitialEstimation == IF call.intrinsic >= call.spent THEN call.intrinsic + 1 ELSE call.spent

\* mutant of CorrectInitialEstimation: the initial estimation is not tried
CorrectInitialEstimation_Trusted(ok) ==
    /\ search.phase = "correct"
    /\ RunWith(InitialEstimation, ok)
    /\ Done(InitialEstimation, FALSE)

\* _correctInitialEstimation
CorrectInitialEstimation(ok) ==
    /\ search.phase = "correct"
    /\ RunWith(InitialEstimation, ok)
    /\ IF ok THEN Done(InitialEstimation, FALSE)
       ELSE search' = [search EXCEPT !.phase = "search", !.highestFailing = InitialEstimation,
                                     !.lowestSuccessful = blockGasLimit]

\* minDiff in _binarySearchEstimation
MinDiff(gas) ==
    IF gas >= 4000000 THEN 50000
    ELSE IF gas >= 1000000 THEN 10000
    ELSE IF gas >= 100000 THEN 1000
    ELSE IF gas >= 50000 THEN 500
    ELSE IF gas >= 30000 THEN 300
    ELSE 200

Diff == search.lowestSuccessful - search.highestFailing

\* "This shouldn't happen", says the code
NothingBetween == search.lowestSuccessful <= search.highestFailing

\* mutant of IsCloseEnough: the rounds end early
IsCloseEnough_TenRounds == Diff <= MinDiff(search.highestFailing) \/ search.roundNumber > 10

IsCloseEnough ==
    \/ Diff <= MinDiff(search.highestFailing)
    \/ search.roundNumber > MAX_GAS_ESTIMATION_IMPROVEMENT_ROUNDS

Middle == search.highestFailing + Diff \div 2

\* A transaction mostly needs little more than it is charged.
NewEstimation ==
    IF search.roundNumber = 0 /\ 3 * search.highestFailing <= Middle
    THEN 3 * search.highestFailing ELSE Middle

\* mutant of Bounds: the bounds are swapped
Bounds_Swapped(ok) ==
    IF ok THEN [search EXCEPT !.highestFailing = NewEstimation]
    ELSE [search EXCEPT !.lowestSuccessful = NewEstimation]

Bounds(ok) ==
    IF ok THEN [search EXCEPT !.lowestSuccessful = NewEstimation]
    ELSE [search EXCEPT !.highestFailing = NewEstimation]

\* _binarySearchEstimation, which gives up the event loop before each run; the mutex of the
\* provider keeps everyone out who could change the node meanwhile
BinarySearchEstimation(ok) ==
    /\ search.phase = "search"
    /\ ~ NothingBetween /\ ~ IsCloseEnough
    /\ RunWith(NewEstimation, ok)
    /\ search' = [Bounds(ok) EXCEPT !.roundNumber = @ + 1]

StopSearching ==
    /\ search.phase = "search"
    /\ NothingBetween \/ IsCloseEnough
    /\ Done(search.lowestSuccessful, FALSE)
    /\ UNCHANGED <<call, blockGasLimit, succeeded>>

NextAmount ==
    IF search.phase = "first run" THEN call.gas
    ELSE IF search.phase = "correct" THEN InitialEstimation ELSE NewEstimation

\* runTx throws when the gas is below the intrinsic cost, and the request with it.
Throw ==
    /\ search.phase \in {"first run", "correct", "search"}
    /\ search.phase = "search" => ~ NothingBetween /\ ~ IsCloseEnough
    /\ NextAmount < call.intrinsic
    /\ search' = [search EXCEPT !.phase = "thrown"]
    /\ UNCHANGED <<call, blockGasLimit, succeeded>>

EstimationNext ==
    \/ \E ok \in BOOLEAN : FirstRun(ok) \/ CorrectInitialEstimation(ok) \/ BinarySearchEstimation(ok)
    \/ StopSearching \/ Throw

EstimationSpec == EstimationInit /\ [][EstimationNext]_estimationVars

-----------------------------------------------------------------------------
(* Properties.                                                             *)

EstimationTypeOK ==
    /\ call \in Call /\ blockGasLimit \in Nat
    /\ search \in Search
    /\ succeeded \subseteq Nat

Answered == search.phase = "done" /\ ~ search.error

\* An amount is only given if the transaction was run with it and succeeded, or if it is
\* all that a block has.
EstimationsAreTried == Answered => search.lowestSuccessful \in succeeded \union {blockGasLimit}

\* How far above the least sufficient amount an answer may be: the tolerance of the code,
\* or what is left of a very large block after its rounds.
Tolerance ==
    LET left == blockGasLimit \div 1048576 + 1
    IN  IF left > MinDiff(call.least) THEN left ELSE MinDiff(call.least)

\* The answer to a steady call that fits in a block is enough, and nearly the least that is.
EstimationsAreTight ==
    (Answered /\ call.steady /\ call.least <= blockGasLimit) =>
        /\ search.lowestSuccessful >= call.least
        /\ search.lowestSuccessful <= call.least + Tolerance

\* Only the gas of the call itself may be below the intrinsic cost.
AttemptsAreValid == search.phase = "thrown" => call.gas < call.intrinsic

\* "This shouldn't happen" (_binarySearchEstimation): the bounds of the search never cross,
\* unless they did when it began, because more was charged than a block has.
BoundsNeverCross ==
    search.phase = "search" /\ InitialEstimation < blockGasLimit => ~ NothingBetween

\* What eth_estimateGas answers was tried, is enough and is close.
EstimationsAreSound ==
    EstimationsAreTried /\ EstimationsAreTight /\ AttemptsAreValid /\ BoundsNeverCross

=============================================================================
