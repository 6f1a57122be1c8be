------------------------ MODULE MCHardhatBlockchain -------------------------
(* Instance of HardhatBlockchain for TLC: reservations of two or three blocks *)
(* that reads split in the middle or shorten at either end, in a chain with   *)
(* room for two of them.  What goes with a chain is checked in the same run:  *)
(* the state manager and the client of a forked node, the filters of a node,  *)
(* the fixtures of a test, and the estimation of gas.  They share nothing,    *)
(* and part says which a behaviour is one of.  The state manager forks at     *)
(* block 2 of a chain whose first two blocks have the same state.             *)
EXTENDS HardhatBlockchain, ForkStateManager, JsonRpcClient, GasEstimation, Fixtures, Filters, TLC

VARIABLE part

RemoteAccounts(fields, code, value) ==
    [a \in Addresses |-> [fields |-> fields, code |-> code, storage |-> [k \in Keys |-> value]]]

MCRemote ==
    (0 :> RemoteAccounts("0", "c", "0")) @@ (1 :> RemoteAccounts("0", "c", "0")) @@ (2 :> RemoteAccounts("1", "c", "1"))

MCRemoteRoots == (0 :> -1) @@ (1 :> -1) @@ (2 :> -2)

\* The remote chain is such as exist; the theorems are about those.
ASSUME ForkAssumption == RemoteIsConsistent /\ ValuesAreValues

MCLogs == {{}} \union {{[address |-> "A", topics |-> <<"x", "y">>], [address |-> "B", topics |-> <<"y">>]}}

Asking(from, to, addresses, topics) ==
    [fromBlock |-> from, toBlock |-> to, addresses |-> addresses, topics |-> topics]

MCCriteria ==
    {Asking(-1, -1, {}, <<{"y"}>>), Asking(0, 2, {"A"}, <<{}, {"y"}>>), Asking(0, -1, {}, <<{"null", "x"}>>)}

Calling(gas, spent, least, steady) ==
    [gas |-> gas, intrinsic |-> 21000, spent |-> spent, least |-> least, steady |-> steady]

\* The charge may be below the intrinsic cost, the need just above a charge or a tolerance,
\* or more than a block has.
MCCalls ==
    {c \in {Calling(gas, spent, least, TRUE) :
                gas \in {20000, 60000, 30000000, 200000000}, spent \in {13000, 21000, 29000, 31000, 990000},
                least \in {21000, 21001, 29100, 31500, 63001, 99999, 130000, 1020000, 4100000, 29990000, 35000000}} :
        c.spent <= c.least}
    \union {Calling(30000000, 20000000, 20000000, FALSE)}

\* Each part with one initial state of the others, which stay as they are.
MCInit ==
    /\ part \in {"chain", "fork state", "fork client", "filters", "fixtures", "estimates"}
    /\ BlockchainInit /\ ForkInit /\ ClientInit /\ FiltersInit /\ FixturesInit /\ EstimationInit
    /\ part # "fork state" => \A a \in Addresses : state[a].fields = "undefined"
    /\ part # "fork client" => ~ forkCache /\ ~ chain[1].tx
    /\ part # "estimates" => ~ call.steady /\ blockGasLimit = 30000000
    /\ part # "chain" => data.blocksByNumber = {GenesisBlock(CHOOSE s \in States : TRUE)}

allVars == <<blockchainVars, forkVars, clientVars, filterVars, fixtureVars, estimationVars>>

MCNext ==
    \/ part = "chain" /\ BlockchainNext /\ UNCHANGED <<part, forkVars, clientVars, filterVars, fixtureVars, estimationVars>>
    \/ part = "fork state" /\ ForkNext /\ UNCHANGED <<part, blockchainVars, clientVars, filterVars, fixtureVars, estimationVars>>
    \/ part = "fork client" /\ ClientNext /\ UNCHANGED <<part, blockchainVars, forkVars, filterVars, fixtureVars, estimationVars>>
    \/ part = "filters" /\ FiltersNext /\ UNCHANGED <<part, blockchainVars, forkVars, clientVars, fixtureVars, estimationVars>>
    \/ part = "fixtures" /\ FixturesNext /\ UNCHANGED <<part, blockchainVars, forkVars, clientVars, filterVars, estimationVars>>
    \/ part = "estimates" /\ EstimationNext /\ UNCHANGED <<part, blockchainVars, forkVars, clientVars, filterVars, fixtureVars>>

MCSpec == MCInit /\ [][MCNext]_<<part, allVars>>

\* The parts are of their types.
TypesOK ==
    CASE part = "chain" -> BlockchainTypeOK
      [] part = "fork state" -> ForkTypeOK
      [] part = "fork client" -> ClientTypeOK
      [] part = "filters" -> FiltersTypeOK
      [] part = "fixtures" -> FixturesTypeOK
      [] part = "estimates" -> EstimationTypeOK

=============================================================================
