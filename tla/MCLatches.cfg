CONSTANTS
    Thread = {t1, t2, t3}
    Key = {k1, k2}
    Wg = {w1, w2, w3}
    NoWg = NoWg
SPECIFICATION FairSpec
INVARIANTS
    MutualExclusion
    OneWaitGroupPerHolder
    WaiterHasHolder
PROPERTIES
    WaiterWakes
    SomebodyHolds
