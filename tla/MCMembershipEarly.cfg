SPECIFICATION Spec
CONSTANTS
    s1 = s1  s2 = s2  s3 = s3  s4 = s4
    Node = {s1, s2, s3, s4}
    Modes = {"SingleServer"}
    bootstrap_config <- Four
    Changes <- FourChanges
    MaxLog = 2
    MaxTerm = 3
    MaxChanges = 2
    Campaigners <- AnyOne
    Restarting = {}
    Links <- FourLinks
INVARIANT CommittedAgree
CHECK_DEADLOCK FALSE
