\* Accounts that the board may refuse.
CONSTANTS
    NumTargets = 1
    NumCommands = 1
    MaxFds = 2
    Splits = FALSE
SPECIFICATION TelnetSpec
INVARIANTS
    LoginMeansShell
CHECK_DEADLOCK FALSE
