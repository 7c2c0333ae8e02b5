SPECIFICATION Spec
CONSTANTS
    LeaderTerm = 3
    MaxLog = 3
    MaxInFlight = 2
    MaxEntriesPerMsg = 1
    Pipelining = TRUE
    SnapshotAnswersLost = FALSE
    StartLogs <- ConflictingLogs

PROPERTIES Converges
