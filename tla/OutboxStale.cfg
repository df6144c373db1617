SPECIFICATION Spec
CONSTANTS
    MaxEntries = 2
    Relay = {r1, r2}
    BatchSize = 2
    MaxAttempts = 2
    Unlimited = Unlimited
    Undeliverable = {2}
    MaxRefusals = 2
    MaxFaults = 1
    ClaimsOutlastPasses = FALSE
SYMMETRY Symmetry
INVARIANTS
    PublishedWasAccepted
    NeverBothSettlements
    NotGivenUpEarly
    OvershootBounded
PROPERTIES
    LateFailureLeavesNoTrace
    ImplementsDelivery
