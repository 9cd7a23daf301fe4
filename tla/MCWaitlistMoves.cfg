SPECIFICATION FairSpec
CONSTANTS
    Users = {u1, u2}
    Tiers <- OneTier
    Purchases <- OnePurchase
    Tickets = {}
    TierOf <- FirstTierOf
    TicketsOf <- FirstTickets
    Places <- FirstPlaces
    Capacity <- OnePlace
    BuyerOf <- FirstBuyerOf
    Requests = {r1}
    Tasks = {k1}
    MaxRetry = 1
    OfferHours = 1
    MaxStamp = 2
    Nothing = Nothing
CHECK_DEADLOCK FALSE
PROPERTIES
    OffersLapse
    PromotionsArrive
