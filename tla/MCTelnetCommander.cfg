\* Accounts of every kind, a board that may close at any point, three descriptors
\* that unclosed sessions use up, and texts that arrive whole.
CONSTANTS
    NumTargets = 2
    NumCommands = 2
    MaxFds = 3
    Splits = FALSE
SPECIFICATION TelnetFairSpec
INVARIANTS
    TelnetTypeOK
    AcceptedLoginMeansShell
    NoMutualWait
PROPERTIES
    PromptMeansRan
    TelnetCallsReturn
CHECK_DEADLOCK FALSE
