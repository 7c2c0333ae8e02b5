SPECIFICATION Spec
CONSTANTS
    s1 = s1  s2 = s2  s3 = s3  s4 = s4
    Node = {s1, s2, s3, s4}
    Modes = {"SingleServer", "JointConsensus"}
    bootstrap_config <- Three
    Changes <- ThreeChanges
    MaxLog = 2
    MaxTerm = 2
    MaxChanges = 2
    Campaigners <- AnyOne
    Restarting = {s1}
    Links <- ThreeLinks
INVARIANTS CommittedAgree QuorumsOverlap RemovedLeaderStepsDown
CHECK_DEADLOCK FALSE
