CONSTANTS
    Server = {s1, s2}
    None = None
    Request = {r1, r2}
    Count = {2}
    Wall = {1, 6}
    Ms = 2
    SaveInterval = 3
    MaxLogical = 3
    MaxObjects = 3
    MaxEra = 2
    AllocStep = 2
    MaxId = 6
SPECIFICATION Spec
CONSTRAINT Few
SYMMETRY Symmetry
INVARIANTS TimestampsUnique WindowCovers IdsUnique
PROPERTIES TimestampOrder SavedMonotone
CHECK_DEADLOCK FALSE
