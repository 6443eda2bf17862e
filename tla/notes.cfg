\* Two editors, or an editor and a guest, over broken sockets and rebuilt rooms; bulk
\* operations.
SPECIFICATION NotesSpec
CONSTANTS
    Client = {c1, c2}
    Server = server
    FlushCount = 2
    CompactionThreshold = 2
    MaxEdits = 2
    MaxConnections = 2
    MaxFailures = 1
    MaxStops = 1
    Seeded <- MCSeeded
    BulkOps <- MCBulkOps
    MaxBatches = 2
    MaxNoteOps = 1
    MaxKills = 1
INVARIANTS CollabTypeOK Recoverable SyncedPeersAgree PeersKeepTheirRoom ReadOnlyReachesNobody
PROPERTIES StoredForGood PendingIsKept PendingIsStored EmptyRoomEnds UndoRestores
CHECK_DEADLOCK FALSE
