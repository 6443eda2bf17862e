\* Lost, late and repeated pushes, crashes of the server, a tab that ends.
SPECIFICATION Spec
CONSTANTS
    Device = {1, 2}
    Note = {n1}
    Field = {body}
    Notebook = {1}
    ServerVersions = {1}
    PageSize = 2
    BatchSize = 2
    CompactionThreshold = 1
    CompactionLag = 0
    Edits = {"create", "update"}
    MaxOps = 2
    MaxLamport = 2
    MaxFaults = 1
    MaxRestarts = 1
    MaxRest = 0
INVARIANTS TypeOK LogIdentity NoOpVanishes AppliedOnce
PROPERTIES OpLogSpec
CHECK_DEADLOCK FALSE
