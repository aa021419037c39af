SPECIFICATION ToolsSpec
CONSTANTS
    Query <- MCQuery
    ConfigFiles <- MCConfigFiles
    Allowlist <- MCAllowlist
    Confined = TRUE
    MaxGrants = 2
    MaxFile = 4
    Pids = {1, 2, 3, 4}
    MaxForks = 4
    Callers = {"root", "sub"}
    Strings = {"x", "y"}
    MaxLines = 2
    MaxCalls = 2
    MaxOutside = 1
    Stdouts <- MCStdouts
    Stderrs <- MCStderrs
    PathLists <- MCPathLists
    StdoutHead = 1
    StdoutTail = 1
    RunMin = 3
    GlobMax = 3
    ShownLines = 6
    MaxBytes = 11
    HeadLines = 3
    TailLines = 2
    ConfinedCallers = {"root"}
    Names = {"lib"}
    Texts <- MCTexts
    Dirs = 2
INVARIANTS
    
    RulesKeepRank
    OutputTellsAll
    
PROPERTIES
    NothingOutlivesTheKill
    
CHECK_DEADLOCK FALSE
