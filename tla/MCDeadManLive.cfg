\* Liveness of the oneshot cycle: every alert fits in the file.
SPECIFICATION FairSpec
CONSTANTS
    DOWN_CONFIRMATIONS = 2
    RECOVERY_CONFIRMATIONS = 2
    Time <- MCLiveTime
    MaxId = 3
    MaxPending = 3
    NoFile = NoFile
PROPERTIES
    EveryIntentDelivered
    OutageReported
