SPECIFICATION Spec
CONSTANTS
    web = web
    db = db
    spare = spare
    ghost = ghost
    webToken = webToken
    dbToken = dbToken
    NoNode = NoNode
    Hosts <- MCHosts
    Credentials <- MCCredentials
    Requests <- MCRequests
    Time <- MCTime
    Resolution = 2
    MaxInstant = 5
    MaxText <- MCMaxText
    MaxRows = 2
INVARIANTS
    AnswerMatchesStore
    RowsAuthenticated
    RefusalsAlike
    LengthJudgedByValue
    ProbeSignature
    LatestIsNewest
    RowsRestorable
