SPECIFICATION FairSpec
CONSTANTS
    MonitorInterval = 2
    PollInterval = 1
    Precision = 3
    MaxClock = 20
INVARIANTS
    AtMostOneLateRequest
    StopWithinOneIteration
    NeverTwiceAtOneInstant
PROPERTIES
    CycleRunsAgain
    StopHonoured
CHECK_DEADLOCK FALSE
