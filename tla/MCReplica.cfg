SPECIFICATION ReplicaFairSpec
CONSTANTS
    Processes = {"replica1", "replica2"}
    Rounds <- MCRounds
    Mortal = {"replica1"}
    Length = 1
    Logs <- MCLogs
    MaxRetries = 2
    Nobody = Nobody
    MaxTrouble = 1
INVARIANTS
    ReplicaTypeOK
    RacingUpgradesAreHarmless
    StoppedLeavesOnlyStrays
PROPERTIES
    StartsAndSubscribes
