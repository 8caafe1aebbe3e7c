SPECIFICATION FairSpec
CONSTANTS
    Records <- MCRecords
    Poison = {1}
    Dispatchers = {"replica1", "replica2"}
    MaxAttempts = 3
    BatchSize = 2
    MaxMishaps = 2
    MaxOutages = 1
INVARIANTS
    TypeOK
    PublishedWasSent
    DuplicatesHaveACause
    DeadOnlyAfterMaxAttempts
PROPERTIES
    OvertakenForACause
    EverySettled
