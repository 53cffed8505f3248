CONSTANTS
    Kinds = {"push", "pull"}
    Limits <- MCLimits
    InitialBackoff = 1
    MaxBackoff = 3
    CheckInterval = 1
    HealthyInterval = 3
    HealthyChecks = 2
    MaxLosses = 3
    MaxAttempts = 3
SPECIFICATION FairSpec
INVARIANTS
    OneLive
    GivesUpAfterRetries
PROPERTIES
    Healed
    CancelCleansUp
CHECK_DEADLOCK FALSE
