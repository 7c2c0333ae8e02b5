SPECIFICATION Spec
CONSTANTS
    None = None
    Candidate = c
    MaxTerm = 2
    MaxLog = 2
    Persistent <- States
    SegmentSize = 3
    MaxSize = 6
    HeaderLen = 1
    EntryLen = 1
    FsyncLinks = TRUE
    MaxSaves = 3
    MaxWaiting = 1
    FailWhileWaiting = TRUE
INVARIANT
    SyncedBeforeReleased
