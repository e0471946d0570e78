\* Safety of the oneshot cycle: three instants, four alerts, a file that
\* holds three pending intents.
SPECIFICATION Spec
CONSTANTS
    DOWN_CONFIRMATIONS = 3
    RECOVERY_CONFIRMATIONS = 2
    Time <- MCTime
    MaxId = 4
    MaxPending = 3
    NoFile = NoFile
INVARIANTS
    StatusAlwaysValid
    MemoryTracksFile
    NoIntentLost
    RecoveredFollowsDown
    DebounceMatchesHistory
    ChronologyPreserved
PROPERTIES
    FlipsOnlyWhenConfirmed
    ImplementsOutbox
