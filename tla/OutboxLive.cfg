SPECIFICATION FairSpec
CONSTANTS
    MaxEntries = 3
    Relay = {r1, r2}
    BatchSize = 2
    MaxAttempts = 3
    Unlimited = Unlimited
    Undeliverable = {1, 2}
    MaxRefusals = 1
    MaxFaults = 1
    ClaimsOutlastPasses = TRUE
INVARIANTS
    OneRelayPerEntry
    DuplicatesNeedFaults
    DeadLetterReportsBudget
PROPERTIES
    EventuallySettled
    EventuallyPublished
    ImplementsFairDelivery
