SPECIFICATION Spec
CONSTANTS
    Conns = {c1, c2}
    Events <- OneEvent
    Tiers <- SoleTiers
    Purchases <- SolePurchases
    Tickets <- SoleTickets
    EventOf <- SoleEventOf
    TierOf <- SoleTierOf
    TicketsOf <- SoleTicketsOf
    Capacity <- SoleCapacity
    Rules <- SoleRules
    GracePeriod = 1
    MaxNow = 3
    Nothing = Nothing
CHECK_DEADLOCK FALSE
SYMMETRY ConnSymmetry
INVARIANTS
    TypeOK
    Conservation
    NoOversell
    TierStatusAgrees
    RefundedIsWhole
    SoleTierEventStatus
    AdmittedOnce
    IInv
PROPERTIES
    TicketLifeCycle
    ImplementsBoxOffice
