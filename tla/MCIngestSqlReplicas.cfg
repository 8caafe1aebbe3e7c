SPECIFICATION FairSpec
CONSTANTS
    u1 = u1
    u2 = u2
    g1 = g1
    NoEvent = NoEvent
    Users <- TwoUsers
    Games <- OneGame
    Workers = {"game", "purchase", "second"}
    Events = {"pub", "withdraw", "buy1", "buy2", "like"}
    Body <- MCBody
    TypesOf <- MCTypes
    HistoryCap = 2
    BackfillLimit = 2
    MaxRetries = 3
    Backlogs <- MCBacklogs
    MaxMishaps = 1
INVARIANTS
    TypeOK
    TablesTellTheTruth
PROPERTIES
    NothingSkipped
    ImplementsIngestUnlessStale
    EverythingProcessed
