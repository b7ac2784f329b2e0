CONSTANTS
    MAX_PROCESSES = 4
    Cloners = {1}
    MaxSleep = 2
    MaxAlarm = 2
    Signals = {SIGSEGV, SIGALRM}
    SIGALRM = SIGALRM
    SIGSEGV = SIGSEGV
    Pfns = {f1, f2, f3, f4}
    f1 = f1
    f2 = f2
    f3 = f3
    f4 = f4
SPECIFICATION FairSpec
CHECK_DEADLOCK FALSE
PROPERTY ReadyRuns
