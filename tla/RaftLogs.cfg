CONSTANTS
    Server = {s1, s2, s3}
    None = None
    Value = {v1}
    RaftInitLogIndex = 5
    RaftInitLogTerm = 5
    Bound <- BoundLogs
SPECIFICATION Spec
CONSTRAINT FewOrStale
SYMMETRY Symmetry
CHECK_DEADLOCK FALSE
INVARIANTS
    LogMatching
    StateMachineSafety
    CommittedOnQuorum
    DiskHoldsLog
    NoPanic
    PeersMatchRegion
