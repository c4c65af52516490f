SPECIFICATION Spec
CONSTANTS
    read = read
    write = write
    shell = shell
    Tools = {read}
    SafeTools = {read}
    AllowedTools = {read}
    Requirement <- TheRequirement
    Rules <- NoRules
    SessionModes = {"allow"}
    Prompter = FALSE
    PreHooks = 1
    ApiErrors <- EveryError
    PreserveRecent = 4
    ModelCompaction = TRUE
    MaxIterations = 2
    MaxCalls = 2
    MaxTurns = 2
INVARIANTS
    EveryCallAnswered
    OrphansOnlyBehindSummary
    RequestEndsWithNews
    RequestsBounded
