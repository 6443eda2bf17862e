\* Two devices change two fields of one note.
SPECIFICATION Spec
CONSTANTS
    Device = {1, 2}
    Note = {n1}
    Field = {title, body}
    Notebook = {1}
    ServerVersions = {1}
    PageSize = 3
    BatchSize = 2
    CompactionThreshold = 1
    CompactionLag = 0
    Edits = {"create", "update"}
    MaxOps = 3
    MaxLamport = 2
    MaxFaults = 0
    MaxRestarts = 0
    MaxRest = 0
INVARIANTS SameLogSameRows
CHECK_DEADLOCK FALSE
