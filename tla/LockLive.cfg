SPECIFICATION FairSpec
CONSTANTS
    NumKeys = 3
    a = a
    b = b
    n = n
    Command = {a, b, n}
    Keys <- MCKeysReentrant
    Parent <- MCParentReentrant
    NoCommand = NoCommand
    MaxCancels = 1
    MaxFaults = 1
CHECK_DEADLOCK FALSE
PROPERTIES
    EveryDispatchReturns
    FinishedHoldsNothing
