SPECIFICATION FairSpec
CONSTANTS
    web = web
    db = db
    Hosts <- MCHosts
    HostOrder <- MCHostOrder
    Settings <- MCSettings
    Time <- MCTime
INVARIANTS
    MemoryMatchesEvidence
    OperatorInSync
PROPERTIES
    FlipsOnlyWhenConfirmed
    OutageReported
