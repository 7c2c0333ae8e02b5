SPECIFICATION Spec
CONSTANTS
    s1 = s1
    s2 = s2
    s3 = s3
    Server = {s1, s2, s3}
    None = None
    Command = {}
    MaxTerm = 2
    MaxLog = 0
    MaxEntriesPerMsg = 1
    MaxUncommitted = 2
    ElectionTimeoutMin = 1
    PreVote = TRUE
    Pipelining = TRUE
    ParallelDiskWrite = FALSE
    Campaigners <- RivalsThenS2
    Proposers = {}
    Down = {}
    Crashing = {s1, s2}
    TransferTargets = {s1, s2}
VIEW ElectionView
INVARIANTS TypeOK ElectionSafety VotesAreDurable
PROPERTIES VoteOncePerTerm PreVoteFirst
