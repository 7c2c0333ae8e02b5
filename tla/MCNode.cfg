SPECIFICATION Spec
CONSTANTS
    n1 = n1
    n2 = n2
    n3 = n3
    c1 = c1
    c2 = c2
    c3 = c3
    key = key
    long = long
    v = v
    Node = {n1, n2, n3}
    Client = {c1, c2}
    NoClient = none
    FirstLeader = n1
    Programs <- WritePrograms
    Campaigners <- Campaigns
    BaseLog <- Sessions
    MaxLog = 4
    MaxTerm = 3
    Restarting = {n1}
    Failing = {n2}
    Dropping = {n2}
    MaxSends <- Sends
    Delayed = {}
    TooLong = {long}
    U64Max = 4
INVARIANTS
    ReplicasAgree
    AnswerIsFirstResult
    ExactlyOnce
    CreatedOnce
    WaitersAreAwaited
CHECK_DEADLOCK FALSE
