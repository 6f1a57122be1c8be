SPECIFICATION MCSpec
CONSTANTS
    Sources = {"A", "B"}
    Libraries = {"L"}
    FileContents <- MCFileContents
    Imports <- MCImports
    Contracts <- MCContracts
    Pragmas <- MCPragmas
    Broken = {"aBroken", "bBroken"}
    Configs <- MCConfigs
    MaxEvents = 4
    Parts = {"compile", "download"}
    Processes = {p, q}
    MaxStarts = 3
    MaxFailures = 1
    MaxStops = 1
INVARIANTS
    TypesOK
    TasksAreComplete
    FilesAgree
    DownloadsAreSound
PROPERTIES
    DownloadsEnd
CHECK_DEADLOCK FALSE
