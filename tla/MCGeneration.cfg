SPECIFICATION FairSpec
CONSTANTS
    u1 = u1
    u2 = u2
    NoUser = NoUser
    Users <- OneUser
    Games <- MCGames
    Sweeps = {"replica1", "replica2"}
    Featureless = {1}
    Blend <- MCBlend
    Limit = 2
    BatchSize = 2
    DenseSweeps = {"replica1"}
    MaxEdits = 1
    MaxFailures = 1
INVARIANTS
    TypeOK
    NoHalfReplacedList
PROPERTIES
    AnnouncedIsStored
    ListsCatchUp
