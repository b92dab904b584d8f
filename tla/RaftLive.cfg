CONSTANTS
    Server = {s1, s2, s3}
    None = None
    Value = {v1}
    RaftInitLogIndex = 5
    RaftInitLogTerm = 5
    Bound <- BoundSteady
SPECIFICATION FairSpec
CHECK_DEADLOCK FALSE
PROPERTIES
    CommitReachesAll
