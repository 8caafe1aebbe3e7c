SPECIFICATION Spec
CONSTANTS
    u1 = u1
    u2 = u2
    NoUser = NoUser
    Users <- OneUser
    Games <- MCGames
    Sweeps = {"replica1", "replica2"}
    Featureless = {1}
    Blend <- MCBlend
    Limit = 1
    BatchSize = 2
    DenseSweeps = {}
    MaxEdits = 0
    MaxFailures = 0
INVARIANTS
    OneListPerUser
