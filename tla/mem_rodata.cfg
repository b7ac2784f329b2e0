SPECIFICATION Spec
CONSTANTS
    OS_PT_REG = {1, 2, 3, 4, 5, 6, 7, 8, 9, 10, 11, 12, 13}
    USER_REG = {21, 22, 23, 24, 25, 26, 27}
    ENTRIES = 4
    Contexts = {c1}
    Kernels = {2}
    Layouts <- MCLayouts
    OS_INDEX = 0
    OS_PFN = 50
    PAGES <- MCPages
    SPAN = 2
    U32_PAGES = 8
    MaxSize = 3
    TLB_SIZE = 1
PROPERTY RodataWriteTerminates
