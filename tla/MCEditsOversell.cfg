SPECIFICATION EditSpec
CONSTANTS
    Conns = {c1}
    Editors = {d1}
    Events <- OneEvent
    Tiers <- OneTier
    Purchases <- TwoPurchases
    Tickets <- TwoTickets
    EventOf <- TierEventOf
    TierOf <- PurchaseTierOf
    TicketsOf <- PurchaseTickets
    Capacity <- OnePlace
    Rules <- OpenRules
    EventCapacity <- Capacity2
    MaxQuantity = 3
    GracePeriod = 1
    MaxNow = 0
    Nothing = Nothing
CHECK_DEADLOCK FALSE
SYMMETRY Symmetry
INVARIANTS
    NoOversell
