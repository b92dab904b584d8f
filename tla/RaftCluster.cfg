SPECIFICATION FairSpec
CONSTANTS
    Store = {1, 2, 3}
    Nowhere = 0
    Region = {1, 2}
    MaxReplicas = 2
    FirstRegion <- SplitBefore
    Budgets <- Limits
    MaxCommands = 2
CONSTRAINT FewLate
INVARIANTS CacheConsistent ReplicasKept
PROPERTIES CacheCatchesUp 
