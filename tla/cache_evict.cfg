CONSTANTS
    t1 = t1
    t2 = t2
    NoThread = NoThread
    Blank = Blank
    Junk = Junk
    Threads = {t1}
    Values = {Blank, full}
    Blocks = {1, 2, 3}
    Preallocated = {1, 2, 3}
    CACHE_PAGES = 4
    Ops <- AccessOps
    Wrap = TRUE
SPECIFICATION FairSpec
CHECK_DEADLOCK FALSE
PROPERTY CallReturns
