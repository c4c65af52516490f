SPECIFICATION Spec
CONSTANTS
    Clients = {c1, c2}
    Files = {f1, f2}
    Modes = {readOnly, fullAccess}
    everything = everything
    Labels <- SomeLabels
    Models = {primary, fallback}
    MaxTurns = 2
    MaxAstray = 1
SYMMETRY Interchangeable
INVARIANTS
    SavedTurnsSurvive
    SessionsDoNotMix
    
CHECK_DEADLOCK FALSE
