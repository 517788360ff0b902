SPECIFICATION FairSpec
CONSTANTS
    NumNodes = 2
    Commands <- SomeCommands
    BoardPorts <- OnePort
    RespTypes <- OneRespType
    Parities <- OneParity
    MaxPieces = 2
    MaxJoined = 2
    MaxCommands = 1
    MaxUnread = 1
    LenModulus = 8
    RecvBuf = 2
    MaxStreams = 2
    MaxExtra = 2
INVARIANTS
    AgentTypeOK
    FileAcceptedWhole
PROPERTIES
    OnlyStreamsStay
    AgentSurvives
    CommandPortServed
    ReprogramPortServed
CHECK_DEADLOCK FALSE
