SPECIFICATION SpecDeposedLeader
CONSTANTS
    s1 = s1
    s2 = s2
    s3 = s3
    c1 = c1
    Server = {s1, s2, s3}
    None = None
    Command = {c1}
    MaxTerm = 3
    MaxLog = 2
    MaxEntriesPerMsg = 1
    MaxUncommitted = 2
    ElectionTimeoutMin = 0
    PreVote = FALSE
    Pipelining = TRUE
    ParallelDiskWrite = FALSE
    Campaigners <- ReturnOfS1
    Proposers = {s1, s2}
    Down = {}
    Crashing = {}
    TransferTargets = {}
VIEW ReplicationView
INVARIANTS StateMachineSafety
