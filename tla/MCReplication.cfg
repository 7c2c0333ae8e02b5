SPECIFICATION SpecSecondLeader
CONSTANTS
    s1 = s1
    s2 = s2
    s3 = s3
    c1 = c1
    Server = {s1, s2, s3}
    None = None
    Command = {c1}
    MaxTerm = 2
    MaxLog = 2
    MaxEntriesPerMsg = 1
    MaxUncommitted = 2
    ElectionTimeoutMin = 0
    PreVote = FALSE
    Pipelining = TRUE
    ParallelDiskWrite = TRUE
    Campaigners <- OnlyS2
    Proposers = {s2}
    Down = {s3}
    Crashing = {s2}
    TransferTargets = {}
VIEW ReplicationView
INVARIANTS LogMatching LogTermsOrdered AppendsAreContiguous OwnMatchIsDurable
PROPERTIES LeaderAppendOnly
