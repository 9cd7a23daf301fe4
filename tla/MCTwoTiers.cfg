SPECIFICATION FairSpec
CONSTANTS
    Conns = {c1, c2}
    Events <- OneEvent
    Tiers <- TwoTiers
    Purchases <- TwoPurchases
    Tickets <- TwoTickets
    EventOf <- TwoEventOf
    TierOf <- TwoTierOf
    TicketsOf <- TwoTicketsOf
    Capacity <- UnevenCapacity
    Rules <- GraceRules
    GracePeriod = 1
    MaxNow = 0
    Nothing = Nothing
CHECK_DEADLOCK FALSE
INVARIANTS
    NoWaitCycle
PROPERTIES
    EventLifeCycle
    HandlersReturn
