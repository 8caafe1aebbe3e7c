SPECIFICATION EmbedSpec
CONSTANTS
    u1 = u1
    g1 = g1
    g2 = g2
    NoEvent = NoEvent
    NoBatch = NoBatch
    Users <- MCUsers
    Games <- MCGames
    Events <- MCEvents
    Body <- MCBody
    HistoryCap = 2
    BackfillLimit = 1
    Sweeps = {"replica1", "replica2"}
    BatchSize = 1
PROPERTIES
    OnlyPublicationRestores
