\* A merge, and its undo.
SPECIFICATION BulkSpec
CONSTANTS
    Seeded <- MCSeeded
    BulkOps <- MCBulkOps
    MaxBatches = 1
    MaxNoteOps = 1
    MaxKills = 1
PROPERTY DeletionsAreRecreated
CHECK_DEADLOCK FALSE
