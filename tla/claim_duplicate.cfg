\* A clock that starts again after a restart.
SPECIFICATION Spec
CONSTANTS
    Device = {1, 2}
    Note = {n1}
    Field = {body}
    Notebook = {1}
    ServerVersions = {1}
    PageSize = 2
    BatchSize = 2
    CompactionThreshold = 1
    CompactionLag = 0
    Edits = {"create", "update"}
    MaxOps = 2
    MaxLamport = 2
    MaxFaults = 0
    MaxRestarts = 1
    MaxRest = 0
INVARIANTS DuplicateIsLogged
CHECK_DEADLOCK FALSE
