SPECIFICATION CrashSpec
CONSTANTS
    main = main
    other = other
    left = left
    right = right
    away = away
    Workers = {left, right, away}
    Sessions = {main, other}
    SessionOf <- SharedWorkspace
    NewStatuses = {"running", "stopped"}
    MaxTasks = 2
    MaxCalls = 4
SYMMETRY Threads
INVARIANTS
    ExitCodesAreTrue
    CreatedTasksAreTracked
    StatusSetStays
