SPECIFICATION FairSpec
CONSTANTS
    Threads = {left, right}
    Docs = {lib}
    Calls = {"query", "sync", "close"}
    MaxCalls = 3
    MaxConnects = 2
    MaxUnasked = 1
INVARIANTS
    AnswersAreOwn
    InitializedFirst
PROPERTIES
    QueriesFindTheirDocument
    ChangesInOrder
    CallsEnd
