SPECIFICATION Spec
CONSTANTS
    n1 = n1
    n2 = n2
    n3 = n3
    Node = {n1, n2, n3}
    FirstLeader = n1
    BaseLog <- Registered
    Campaigners <- Campaigns
    Apis = {"library", "coordinator", "none"}
    Entries <- LogBounds
    Terms <- TermBounds
    MaxLog = 4
    Coordinators = {n1}
    MaxTerm = 3
    MaxReads = 2
    MaxRounds = 2
    MaxSequence = 2
    Delayed = {}
INVARIANTS
    RoundsAreFresh
    ConfirmedReadsAreFresh
    ExecutedInOrder
    FirstReadIsFresh
CHECK_DEADLOCK FALSE
