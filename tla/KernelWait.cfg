\* kmain's sys_waitpid runs with interrupts on.
SPECIFICATION Spec
CONSTANTS
    MaxThreads = 3
    SCH_ALG = "CFS"
    StaleFrom = {}
    Keys <- PrintingKeys
    KDB_BUFFER_SIZE = 1
    SLEEP_MS = 1
    SLEEPS = 1
    MaxVruntime = 1
INVARIANT SleepsWhileChildRuns
CHECK_DEADLOCK FALSE
