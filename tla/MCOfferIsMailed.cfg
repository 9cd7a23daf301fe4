SPECIFICATION Spec
CONSTANTS
    Users <- Named
    Tiers <- OneTier
    Purchases <- TwoPurchases
    Tickets = {}
    TierOf <- PairTierOf
    TicketsOf <- PairTickets
    Places <- PairPlaces
    Capacity <- OnePlace
    BuyerOf <- PairBuyerOf
    Requests = {r1}
    Tasks = {k1}
    MaxRetry = 1
    OfferHours = 1
    MaxStamp = 2
    Nothing = Nothing
CHECK_DEADLOCK FALSE
SYMMETRY TaskSymmetry
INVARIANTS
    OfferIsMailed
