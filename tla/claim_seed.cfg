\* The body inserted twice: a tab that outlived the room it was seeded by.
SPECIFICATION Spec
CONSTANTS
    Client = {c1}
    Server = server
    FlushCount = 2
    CompactionThreshold = 2
    MaxEdits = 1
    MaxConnections = 2
    MaxFailures = 0
    MaxStops = 0
INVARIANTS SeededOnce
CHECK_DEADLOCK FALSE
