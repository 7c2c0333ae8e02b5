SPECIFICATION Spec
CONSTANTS
    LeaderTerm = 2
    MaxLog = 3
    MaxInFlight = 2
    MaxEntriesPerMsg = 1
    Pipelining = TRUE
    SnapshotAnswersLost = FALSE
    StartLogs <- BehindLogs
INVARIANTS TypeOK MatchIsReplicated KeepsCommitted
PROPERTIES ConvergesByAppends
