\* The dead-man state file through power losses and edits: two instants,
\* three alerts, two pending intents.
SPECIFICATION DiskSpec
CONSTANTS
    DOWN_CONFIRMATIONS = 2
    RECOVERY_CONFIRMATIONS = 2
    Time <- MCTime
    MaxId = 3
    MaxPending = 2
    NoFile = NoFile
    UtcInstants <- MCUtcInstants
    Junk <- MCJunk
    MaxSurvivors = 2
    MaxLosses = 2
INVARIANTS
    SurvivorsReadable
    StrictDecoding
    SyncedLosesNothing
    HistoryConsistent
