SPECIFICATION FairSpec
CONSTANTS
    Timeout = 2
    MaxFeeds = 2
INVARIANTS
    ClosedOnce
    HealthyIsSignature
PROPERTIES
    PrimaryFailureWins
    ImplementsAttempt
CHECK_DEADLOCK FALSE
