SPECIFICATION FairSpec
CONSTANTS
    Telopts <- Echo
    MaxBuffer = 6
    Calls <- PeerCalls
    Supported <- PeerOptions
    Terminal <- Xterm
    RecvBuffer = 3
    MaxSends = 2
    MaxAsks = 3
    MaxCalls = 3
INVARIANTS
    PeersTypeOK
    DeliveredInOrder
    SettledAgree
    SettledAsAsked
PROPERTIES
    NegotiationEnds
CHECK_DEADLOCK FALSE
