\* A Split that was skipped takes effect when it is applied again after a crash.
CONSTANTS
    Store = {"s1", "s2"}
    InitStores <- FirstStore
    MaxRegion = 2
    EndKey = 2
    MaxConf = 3
    MaxSplit = 1
    MaxCrash = 1
    MaxNet = 1
SPECIFICATION Spec
CHECK_DEADLOCK FALSE
INVARIANT ReplicasConverge
