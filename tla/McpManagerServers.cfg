SPECIFICATION Spec
CONSTANTS
    alpha = alpha
    beta = beta
    echo = echo
    grep = grep
    Servers = {alpha, beta}
    Order <- BothServers
    Transport <- Mixed
    Tools = {echo, grep}
    Names <- SharedNameSet
    QualifiedName <- SharedNames
    OwnIds = {5}
    MaxRequests = 5
    MaxPages = 1
    MaxNotices = 1
    MaxDeaths = 1
INVARIANTS
    AnswersAreOwn
    InitializeComesFirst
    InStepUnlessNotified
    NoServerLeftBehind
    OfferedToolsAreRouted
