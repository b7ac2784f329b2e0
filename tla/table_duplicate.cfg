CONSTANTS
    k1 = k1
    k2 = k2
    k3 = k3
    t1 = t1
    t2 = t2
    NoThread = NoThread
    NoKey = NoKey
    Empty = Empty
    Threads = {t1}
    Keys = {k1, k2, k3}
    NumObjs = 3
    HashOf <- CollidingHash
    Ops <- NameOps
    Exclusive = TRUE
SPECIFICATION Spec
INVARIANT NoDuplicates
