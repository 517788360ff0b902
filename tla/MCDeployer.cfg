\* Three boards, two files, two commands and a line that is none, texts that may be cut; five
\* descriptors, so that two failed boards leave the third one short of one.
CONSTANTS
    NumTargets = 3
    NumFiles = 2
    FileLen = 1
    NumCommands = 3
    MaxFds = 5
    Fragmented = FALSE
    MaxUnread = 0
    ReadErrors = FALSE
    Splits = TRUE
    CommandFiles <- TwoCommands
SPECIFICATION FairSpec
INVARIANTS
    DeployerTypeOK
    SocketBudget
    CloseClosesCommandSocket
    CommandsAsWritten
    DestroyedOnce
PROPERTIES
    DeploysAsPromised
    EveryTargetEnds
CHECK_DEADLOCK FALSE
