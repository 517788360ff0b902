\* One board, which may close at any point.
CONSTANTS
    NumTargets = 1
    NumFiles = 1
    FileLen = 1
    NumCommands = 1
    MaxFds = 3
    Fragmented = FALSE
    MaxUnread = 0
    ReadErrors = FALSE
    Splits = FALSE
    CommandFiles <- OneCommand
SPECIFICATION Spec
INVARIANTS
    EveryStepIsReported
CHECK_DEADLOCK FALSE
