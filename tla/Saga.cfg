SPECIFICATION FairSpec
CONSTANTS
    e1 = e1
    e2 = e2
    Nudge = Nudge
    NoStep = NoStep
    Recovery = Recovery
    Timeouts = Timeouts
    Event = {e1, e2}
    HasUndo = {e1, e2}
    ResumesFrom <- Resumes
    MaxProcessed = 0
    MaxRetries = 1
    Bounds <- Small
CHECK_DEADLOCK FALSE
INVARIANTS
    CommandsAccountedFor
    OncePerCommandAndFault
PROPERTIES
    StalledIsRecovered
    CompensationAccountedFor
    CompensatesInReverse
    EndedReopensOnlyWithPending
