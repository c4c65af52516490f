SPECIFICATION Spec
CONSTANTS
    p1 = p1
    p2 = p2
    Processes <- MCProcesses
    Releases <- MCReleases
    First = 1
    MaxStarts = 2
    MaxCommands = 3
    MaxUpdates = 2
SYMMETRY MCSymmetry
CHECK_DEADLOCK FALSE
INVARIANT ABinaryRemains
PROPERTY DismissalHolds
