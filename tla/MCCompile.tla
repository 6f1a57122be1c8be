----------------------------- MODULE MCCompile ------------------------------
(* Instance of Compile and of Downloader for TLC: a file that may import a  *)
(* library, and one that does not; two processes that want a compiler.  The *)
(* two share nothing: part says which of them a behaviour is one of.        *)
EXTENDS Compile, Downloader, TLC

CONSTANT Parts

VARIABLE part

MCFileContents ==
    ("A" :> {"a1", "a2", "aBroken"}) @@ ("L" :> {"l1", "l2", Missing}) @@ ("B" :> {"b1", "bBroken"})
MCImports == ("a1" :> {"L"}) @@ ("a2" :> {}) @@ ("aBroken" :> {"L"}) @@ ("l1" :> {}) @@ ("l2" :> {}) @@ ("b1" :> {}) @@ ("bBroken" :> {})
MCContracts == ("a1" :> {"X"}) @@ ("a2" :> {"X", "Y"}) @@ ("aBroken" :> {"X"}) @@ ("l1" :> {"M"}) @@ ("l2" :> {"M"}) @@ ("b1" :> {"Z"}) @@ ("bBroken" :> {})
MCPragmas == [c \in DOMAIN MCImports |-> IF c = "b1" THEN {1} ELSE {1, 2}]

Solc(version, settings, bug) == [version |-> version, settings |-> settings, bug |-> bug]
NoOverrides == [f \in {} |-> 0]

MCConfigs ==
    {[compilers |-> {Solc(1, "s", FALSE), Solc(2, "s", FALSE)}, overrides |-> NoOverrides],
     [compilers |-> {Solc(1, "optimizer", TRUE)}, overrides |-> NoOverrides]}

\* Files that import nothing, and one configuration.
MCImportsOfNone == [c \in DOMAIN MCImports |-> {}]
MCOneConfig == {CHOOSE c \in MCConfigs : Cardinality(c.compilers) = 2}

\* The processes are ones that the theorem is about.
ASSUME ProcessesAssumption == NamesDiffer

\* Each part with one initial state of the other, which stays as it is.
MCInit ==
    /\ part \in Parts /\ Init /\ DownloadInit
    /\ part = "compile" => listed /\ nativeWorks
    /\ part = "download" =>
        /\ config = CHOOSE c \in Configs : TRUE
        /\ sources = CHOOSE files \in [Files -> UNION {FileContents[f] : f \in Files}] :
                        \A f \in Files : files[f] \in FileContents[f] \ (Broken \union {Missing})

MCNext ==
    \/ part = "compile" /\ Next /\ UNCHANGED <<part, downloadVars>>
    \/ part = "download" /\ DownloadNext /\ UNCHANGED <<part, vars>>

MCSpec == MCInit /\ [][MCNext]_<<part, vars, downloadVars>> /\ DownloadFairness

\* The parts are of their types.
TypesOK == TypeOK /\ DownloadTypeOK

=============================================================================
