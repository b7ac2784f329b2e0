CONSTANTS
    t1 = t1
    t2 = t2
    NoThread = NoThread
    Blank = Blank
    Junk = Junk
    Threads = {t1, t2}
    Values = {Blank, full}
    Blocks = {1, 2}
    Preallocated = {1}
    CACHE_PAGES = 4
    Ops <- AllOps
    Wrap = TRUE
SPECIFICATION Spec
SYMMETRY ThreadSymmetry
CHECK_DEADLOCK FALSE
INVARIANTS TypeOK ReadsLatest  UnmountSaves
