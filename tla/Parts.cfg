SPECIFICATION Spec
CONSTANTS
    Years = 99
    Times <- MCTimes
    PAGE_SIZE = 4
    Programs <- MCPrograms
    max_col = 5
    max_line = 3
    tab_space = 2
    MaxDown = 4
    MaxRight = 3
    Files <- MCFiles
    Signature <- MCSignature
    HASH = 1
    Scancodes <- MCScancodes
    KDB_BUFFER_SIZE = 2
    LINE = 2
    HISTORY = 2
    EXIT <- MCExit
    MaxLate = 1
    Users = {"t1", "t2"}
    MAIN = "main"
    IDLE = "idle"
    FRAME = 1
    CALL = 1
    STACK = 7
    MaxTurns = 7
    MaxNodes = 5
INVARIANTS ClockRight ProgramLoaded ScreenSound EnrollsBehindFirstSignature LineAsTyped  WalkSound
PROPERTY TimestampAdvances ImplementsListSpec
CHECK_DEADLOCK FALSE
