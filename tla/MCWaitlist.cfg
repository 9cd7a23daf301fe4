SPECIFICATION Spec
CONSTANTS
    Users = {u1, u2}
    Tiers <- OneTier
    Purchases <- TwoPurchases
    Tickets = {}
    TierOf <- PairTierOf
    TicketsOf <- PairTickets
    Places <- PairPlaces
    Capacity <- OnePlace
    BuyerOf <- PairBuyerOf
    Requests = {r1}
    Tasks = {k1, k2}
    MaxRetry = 0
    OfferHours = 1
    MaxStamp = 2
    Nothing = Nothing
CHECK_DEADLOCK FALSE
SYMMETRY WaitSymmetry
INVARIANTS
    QueueInv
PROPERTIES
    ImplementsLine
