SPECIFICATION FairSpec
CONSTANTS
    Processes = {"replica1", "replica2"}
    Rounds <- MCRounds
    Length = 2
    Logs <- MCLogs
    MaxRetries = 2
    Nobody = Nobody
    MaxTrouble = 2
INVARIANTS
    TypeOK
    CommittedIsSettled
    InPartitionOrder
PROPERTIES
    FailingNeverBlocks
