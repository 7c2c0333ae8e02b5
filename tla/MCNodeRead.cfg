SPECIFICATION Spec
CONSTANTS
    n1 = n1
    n2 = n2
    n3 = n3
    c1 = c1
    c2 = c2
    c3 = c3
    key = key
    long = long
    v = v
    Node = {n1, n2, n3}
    Client = {c1, c2, c3}
    NoClient = none
    FirstLeader = n1
    Programs <- ReadPrograms
    Campaigners <- Campaigns
    BaseLog <- Sessions
    MaxLog = 4
    MaxTerm = 2
    Restarting = {}
    Failing = {}
    Dropping = {}
    MaxSends <- Once
    Delayed = {n1}
    TooLong = {long}
    U64Max = 4
INVARIANT ReadsAreFresh
CHECK_DEADLOCK FALSE
