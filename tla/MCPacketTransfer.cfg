\* Two nodes, packets of three pieces, of which four may be joined.
SPECIFICATION PtSpec
CONSTANTS
    NumNodes = 2
    Commands <- SomeCommands
    BoardPorts <- ThreePorts
    RespTypes <- OneRespType
    Parities <- OneParity
    MaxPieces = 3
    MaxJoined = 4
    MaxCommands = 2
    MaxUnread = 2
INVARIANT PacketTransferTypeOK
PROPERTIES
    ResponsesWhole
    ReportsSurvived
    AnswerRemovesOldest
CHECK_DEADLOCK FALSE
