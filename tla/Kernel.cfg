SPECIFICATION Spec
CONSTANTS
    MaxThreads = 4
    SCH_ALG = "CFS"
    StaleFrom = {"keyboard", "exit"}
    Keys <- PrintingKeys
    KDB_BUFFER_SIZE = 2
    SLEEP_MS = 1
    SLEEPS = 1
    MaxVruntime = 1
CHECK_DEADLOCK FALSE
INVARIANTS SchedOK ConsoleOwnerInside ReadyHasSpace NoLostWakeup SleepingQueueExact EoiOwnerCanRun StopsOnlyWhere OwnerMissesKeyOnlyWithRival
PROPERTIES ImplementsProcessLife
