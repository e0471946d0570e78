\* The state file has reached its size limit with one intent pending.
SPECIFICATION FairSpec
CONSTANTS
    DOWN_CONFIRMATIONS = 3
    RECOVERY_CONFIRMATIONS = 2
    Time <- MCLiveTime
    MaxId = 3
    MaxPending = 1
    NoFile = NoFile
PROPERTIES
    EveryIntentDelivered
