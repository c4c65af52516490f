SPECIFICATION FairSpec
CONSTANTS
    read = read
    write = write
    shell = shell
    Tools = {read, write, shell}
    SafeTools = {read}
    AllowedTools = {read, write}
    Requirement <- TheRequirement
    Rules <- TheRules
    SessionModes = {"read-only", "workspace-write"}
    Prompter = TRUE
    PreHooks = 1
    ApiErrors <- OverflowAndNetwork
    PreserveRecent = 4
    ModelCompaction = FALSE
    MaxIterations = 2
    MaxCalls = 2
    MaxTurns = 1
INVARIANTS
    ResultsTellTheTruth
    UnsafeToolsRunAlone
PROPERTIES
    RunsOnlyWithLeave
    CallsRunOnce
    TurnEnds
    KeepsTurnProtocol
