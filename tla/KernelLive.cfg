\* One user process, so one reader; keys that yield no NUL.
SPECIFICATION FairSpec
CONSTANTS
    MaxThreads = 3
    SCH_ALG = "CFS"
    StaleFrom = {"keyboard", "exit"}
    Keys <- PrintingKeys
    KDB_BUFFER_SIZE = 2
    SLEEP_MS = 1
    SLEEPS = 1
    MaxVruntime = 2
PROPERTIES KeyReachesReader IdleGivesWay
CHECK_DEADLOCK FALSE
