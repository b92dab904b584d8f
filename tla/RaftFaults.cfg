CONSTANTS
    Server = {s1, s2, s3}
    None = None
    Value = {v1}
    RaftInitLogIndex = 5
    RaftInitLogTerm = 5
    Bound <- BoundFaults
SPECIFICATION Spec
CONSTRAINT FewOrRivals
SYMMETRY Symmetry
CHECK_DEADLOCK FALSE
INVARIANTS
    
    SnapshotIsApplied
PROPERTIES
    ImplementsElection
    
    TransfereeCaughtUp
