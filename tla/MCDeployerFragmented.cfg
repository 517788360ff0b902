\* Replies that may be cut in two, files that may not be readable, no commands.
CONSTANTS
    NumTargets = 1
    NumFiles = 1
    FileLen = 1
    NumCommands = 1
    MaxFds = 4
    Fragmented = TRUE
    MaxUnread = 2
    ReadErrors = TRUE
    Splits = FALSE
    CommandFiles <- NoCommand
SPECIFICATION FairSpec
INVARIANTS
    SocketBudget
PROPERTIES
    EveryTargetEnds
CHECK_DEADLOCK FALSE
