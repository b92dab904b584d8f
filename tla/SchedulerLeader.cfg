CONSTANTS
    Server = {s1, s2}
    None = None
    Wall = {1, 5}
    Ms = 2
    SaveInterval = 3
    MaxObjects = 2
    MaxEra = 2
    TTL = 1
    MaxNow = 3
    MaxLease = 2
    MaxMoves = 1
    MaxCrash = 1
SPECIFICATION Spec
CONSTRAINT Few
SYMMETRY Symmetry
INVARIANT OneLeaderServes
PROPERTY ImplementsTSO
CHECK_DEADLOCK FALSE
