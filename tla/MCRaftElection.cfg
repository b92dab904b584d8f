CONSTANTS
    Server = {s1, s2, s3}
    None = None
    InitTerm = 5
    MaxTerm = 7
SPECIFICATION Spec
CONSTRAINT Few
SYMMETRY Symmetry
INVARIANTS
    TypeOK
    ElectedByMajority
    ElectionSafety
