\* Up to three membership changes, a split and a crash, two messages under way.
CONSTANTS
    Store = {"s1", "s2"}
    InitStores <- FirstStore
    MaxRegion = 2
    EndKey = 2
    MaxConf = 3
    MaxSplit = 1
    MaxCrash = 1
    MaxNet = 2
SPECIFICATION Spec
CONSTRAINT Few
\* The bounds end every behaviour.
CHECK_DEADLOCK FALSE
INVARIANTS RangesCover StartsAgain RedoIsHarmless
PROPERTIES  NotReborn
