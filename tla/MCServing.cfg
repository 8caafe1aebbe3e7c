SPECIFICATION FairSpec
CONSTANTS
    u1 = u1
    u2 = u2
    NoEntry = NoEntry
    Users <- MCUsers
    Games <- MCGames
    Features <- MCFeatures
    Labels <- MCLabels
    NeighbourLimit = 2
    Clients = {"page"}
    Actors <- MCActors
    Moderators <- MCActors
    Past <- MCPast
    Limits = {1, 2}
    ListLength = 2
    FallbackFactor = 2
    CatalogueLimit = 2
    Subjects = {1}
    Sales <- MCSales
    Reviews <- MCReviews
    Editions <- MCEditions
    MaxChanges = 2
INVARIANTS
    TypeOK
    AnswersFit
    StoresAgree
PROPERTIES
    NeverEmptyHanded
    AnswersCatchUp
