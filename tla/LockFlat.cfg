SPECIFICATION Spec
CONSTANTS
    NumKeys = 2
    a = a
    b = b
    n = n
    Command = {a, b, n}
    Keys <- MCKeysFlat
    Parent <- MCParentFlat
    NoCommand = NoCommand
    MaxCancels = 2
    MaxFaults = 1
CHECK_DEADLOCK FALSE
INVARIANTS
    HandlerHoldsItsKeys
    NoOrphanedHold
    NoDeadlock
PROPERTIES
    HoldEndsByOwnRelease
