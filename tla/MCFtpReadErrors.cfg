\* Whole replies, and a deploy file that cannot be read.
CONSTANTS
    NumTargets = 1
    NumFiles = 1
    FileLen = 1
    MaxFds = 3
    Fragmented = FALSE
    MaxUnread = 0
    ReadErrors = TRUE
SPECIFICATION FtpSpec
INVARIANTS
    SuccessMeansStored
CHECK_DEADLOCK FALSE
