SPECIFICATION Spec
CONSTANTS
    read = read
    write = write
    shell = shell
    Tools = {read, write}
    SafeTools = {read}
    AllowedTools = {write}
    Requirement <- TheRequirement
    Rules <- NoRules
    SessionModes = {"allow"}
    Prompter = FALSE
    PreHooks = 1
    ApiErrors = {}
    PreserveRecent = 4
    ModelCompaction = FALSE
    MaxIterations = 1
    MaxCalls = 2
    MaxTurns = 1
INVARIANT AllowListRespected
