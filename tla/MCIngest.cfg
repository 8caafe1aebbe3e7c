SPECIFICATION FairSpec
CONSTANTS
    u1 = u1
    u2 = u2
    g1 = g1
    g2 = g2
    NoEvent = NoEvent
    Users <- MCUsers
    Games <- MCGames
    Events <- MCEvents
    Body <- MCBody
    HistoryCap = 2
    BackfillLimit = 2
INVARIANTS
    TypeOK
    CreditedIffCounted
    NoStrandedOwner
    ProcessedPurchaseTakesEffect
    CreditsBackedByPurchases
    CountBackedByPurchases
PROPERTIES
    NothingUnlearned
    ImplementsLibrary
    PurchaseEventuallyOwned
