\* All kinds of op, notebooks that are removed, REST writes, an incompatible server, pages;
\* two tabs that share an outbox; an import.
SPECIFICATION WritersSpec
CONSTANTS
    Device = {1, 2}
    Note = {n1}
    Field = {body}
    Notebook = {1, 2}
    ServerVersions = {1, 3}
    PageSize = 1
    BatchSize = 2
    CompactionThreshold = 1
    CompactionLag = 0
    Edits = {"create", "update", "trash", "purge", "restore"}
    MaxOps = 2
    MaxLamport = 2
    MaxFaults = 0
    MaxRestarts = 0
    MaxRest = 1
    Tab = {a, b}
    Patch = {p1}
    EngineOp = {o1}
    MaxRev = 1
    MaxCloses = 1
    Docs <- MCDocs
    UserTitle <- MCUserTitle
    MaxNotes = 2
    MaxRuns = 2
INVARIANTS AcceptedIsApplied RejectedAtMostOnce
INVARIANTS PatchAppliesOnce  OncePerDocument LinksReachTheirTarget
PROPERTIES RevNeverRegresses RemovedIsDecided DeletedForGood RollbackTakesItsOwn
SYMMETRY TabSymmetry
CHECK_DEADLOCK FALSE
