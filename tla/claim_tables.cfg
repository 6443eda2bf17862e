\* An op the tables refuse.
SPECIFICATION Spec
CONSTANTS
    Device = {1, 2}
    Note = {n1}
    Field = {body}
    Notebook = {1, 2}
    ServerVersions = {1}
    PageSize = 2
    BatchSize = 2
    CompactionThreshold = 1
    CompactionLag = 0
    Edits = {"create", "update"}
    MaxOps = 1
    MaxLamport = 1
    MaxFaults = 0
    MaxRestarts = 0
    MaxRest = 1
INVARIANTS TablesFollowLog
CHECK_DEADLOCK FALSE
