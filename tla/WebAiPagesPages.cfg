SPECIFICATION OneLogin
CONSTANTS
    claude = claude
    qwen = qwen
    first = first
    Providers = {claude, qwen}
    OrgProviders = {claude}
    Requests = {first, second}
    Jobs <- TheJobs
    Chunks = 1
    RawRoom = 1
    ParsedRoom = 1
    None = None
INVARIANTS
    PoolIsAlive
    AnswersComplete
PROPERTY
    EveryRequestEnds
