SPECIFICATION ProviderSpec
CONSTANTS
    Routes <- TwoModels
    Errors <- TheErrors
    MaxRetries = 1
    Desktop = TRUE
    MaxCalls = 2
    MaxSaid = 4
    MaxStreams = 2
INVARIANTS ReplyIsOneStream CallsAreWhole
PROPERTIES EventsAreBlocks
