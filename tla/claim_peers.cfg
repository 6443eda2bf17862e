\* A struct that waited at the server for one that another tab brought.
SPECIFICATION OneReturnSpec
CONSTANTS
    Client = {c1, c2}
    Server = server
    FlushCount = 9
    CompactionThreshold = 9
    MaxEdits = 1
    MaxConnections = 4
    MaxFailures = 0
    MaxStops = 0
INVARIANTS OpenTabsConverge
CHECK_DEADLOCK FALSE
