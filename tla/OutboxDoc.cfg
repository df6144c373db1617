SPECIFICATION Spec
CONSTANTS
    MaxEntries = 1
    Relay = {r1, r2}
    BatchSize = 1
    MaxAttempts = 2
    Unlimited = Unlimited
    Undeliverable = {1}
    MaxRefusals = 2
    MaxFaults = 0
    ClaimsOutlastPasses = FALSE
INVARIANTS
    DeadLetterReportsBudget
