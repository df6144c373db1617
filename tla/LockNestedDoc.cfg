SPECIFICATION Spec
CONSTANTS
    NumKeys = 2
    a = a
    b = b
    n = n
    Command = {a, b, n}
    Keys <- MCKeysNested
    Parent <- MCParentNested
    NoCommand = NoCommand
    MaxCancels = 0
    MaxFaults = 0
CHECK_DEADLOCK FALSE
INVARIANTS
    NoDeadlock
