\* Whole replies: every call, in every order, against a server that may refuse,
\* abort or close at any point; three descriptors, so that they run out.
CONSTANTS
    NumTargets = 2
    NumFiles = 1
    FileLen = 2
    MaxFds = 3
    Fragmented = FALSE
    MaxUnread = 0
    ReadErrors = FALSE
SPECIFICATION FtpFairSpec
INVARIANTS
    FtpTypeOK
    RepliesMatchRequest
    UploadedMeansStored
    FtpInvariant
PROPERTIES
    CallsReturn
CHECK_DEADLOCK FALSE
