SPECIFICATION MCSpec
CONSTANTS
    Sources = {"A", "B"}
    Libraries = {}
    FileContents <- MCFileContents
    Imports <- MCImportsOfNone
    Contracts <- MCContracts
    Pragmas <- MCPragmas
    Broken = {"aBroken", "bBroken"}
    Configs <- MCOneConfig
    MaxEvents = 7
    Parts = {"compile"}
    Processes = {p, q}
    MaxStarts = 3
    MaxFailures = 1
    MaxStops = 1
INVARIANTS
    CompilesTheEntireProject
CHECK_DEADLOCK FALSE
