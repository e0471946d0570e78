SPECIFICATION StalledSpec
CONSTANTS
    MonitorInterval = 2
    PollInterval = 1
    Precision = 3
    MaxClock = 4
PROPERTIES
    StopHonoured
CHECK_DEADLOCK FALSE
