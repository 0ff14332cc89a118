\* The round robin of scheduler.c's #else branch, and every kind of key.
SPECIFICATION Spec
CONSTANTS
    MaxThreads = 4
    SCH_ALG = "RR"
    StaleFrom = {"keyboard", "exit"}
    Keys <- AllKeys
    KDB_BUFFER_SIZE = 1
    SLEEP_MS = 0
    SLEEPS = 1
    MaxVruntime = 1
PROPERTIES IdleOnlyWithoutWork
CHECK_DEADLOCK FALSE
