CONSTANTS
    k1 = k1
    k2 = k2
    k3 = k3
    t1 = t1
    t2 = t2
    NoThread = NoThread
    NoKey = NoKey
    Empty = Empty
    Threads = {t1, t2}
    Keys = {k1, k2, k3}
    NumObjs = 3
    HashOf <- CollidingHash
    Ops <- GrowOps
    Exclusive = FALSE
SPECIFICATION FairSpec
INVARIANTS TypeOK NoDuplicates ContentsOwn FindNeverMisses
PROPERTIES NoLiveOverwrite LockReleased FindReturns
