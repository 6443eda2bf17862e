\* Everything arrives in the end, page by page, with a message lost or a crash.
SPECIFICATION LiveSpec
CONSTANTS
    Device = {1, 2}
    Note = {n1}
    Field = {body}
    Notebook = {1}
    ServerVersions = {1}
    PageSize = 1
    BatchSize = 2
    CompactionThreshold = 1
    CompactionLag = 0
    Edits = {"create", "update"}
    MaxOps = 2
    MaxLamport = 2
    MaxFaults = 1
    MaxRestarts = 0
    MaxRest = 0
INVARIANTS CursorSkipsNothing
PROPERTIES OutboxDrains EveryEntryIsSeen
CHECK_DEADLOCK FALSE
