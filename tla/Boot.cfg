SPECIFICATION FairSpec
CONSTANTS
    Machines <- MCMachines
    Pins = 4
    MAX_CPU_COUNT = 3
    MaxKeys = 3
INVARIANTS StopsOnlyFor ReadyAfterBoot KeyboardNotStuck
PROPERTY BootEnds
CHECK_DEADLOCK FALSE
