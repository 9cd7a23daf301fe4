SPECIFICATION Spec
CONSTANTS
    Requests = {r1, r2}
    floor = floor
    balcony = balcony
    first = first
    second = second
    Tiers <- TwoTiers
    Purchases <- OneOfEach
    TierOf <- EachTierOf
    Quantities = {1}
    Terms = {here, there}
    MaxStamp = 2
CHECK_DEADLOCK FALSE
SYMMETRY AdminSymmetry
INVARIANTS TypeOK
PROPERTIES AdminLifeCycle PublishedHasTiers PurchasesSurvive TiersAreFrozen TiersRespectCapacity ChangesAreStamped StampsAdvance
