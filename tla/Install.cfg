SPECIFICATION Spec
CONSTANTS
    Runs <- MCRuns
    guesses <- MCguesses
    lb_guesses <- MClb
    STAGE2 = 51
    MIN_LBA = 5
    MIN_PART = 60
    PRIMARY = 4
    SECONDARY = 3
    UNINSTALL_DATA_MAX = 40
    UINT32_MAX = 20000000
    UINT64_MAX = 2147483647
INVARIANTS UndoExact UninstallRestores StagesInPlace PartitionsUntouched
