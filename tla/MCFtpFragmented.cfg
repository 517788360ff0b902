\* Replies cut in two: one put, against a comment of ftp_uploader_put.
CONSTANTS
    NumTargets = 1
    NumFiles = 1
    FileLen = 1
    MaxFds = 3
    Fragmented = TRUE
    MaxUnread = 2
    ReadErrors = FALSE
SPECIFICATION FtpSpec
PROPERTIES
    TransferEndsOn2xx
CHECK_DEADLOCK FALSE
