CONSTANTS
    Keys = {k1, k2}
    Blocks = {1, 2, 3, 4, 5}
    POINTERS = 2
    ENTRIES = 2
    va = va
    vb = vb
    Bufs <- MCBufs
    Zero = Zero
    NoKey = NoKey
    MaxSteps = 8
SPECIFICATION MCSpec
SYMMETRY KeySymmetry
INVARIANT UnreachedUnused
