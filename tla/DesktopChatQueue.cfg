SPECIFICATION FairSpec
CONSTANTS
    Kinds <- TheKinds
    MaxTasks = 3
    MaxRuns = 3
    MaxText <- TheTexts
    MaxCalls = 2
    MaxEdits = 1
INVARIANTS OneAtATime EachTaskOnce OwnWords
PROPERTIES QueueMoves
