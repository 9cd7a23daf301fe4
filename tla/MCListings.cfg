SPECIFICATION Spec
CONSTANTS
    Events = {1, 2, 3, 4}
    Starts = {1, 2}
    Limit = 2
    Purchases = {1, 2, 3, 4, 5}
    Nothing = Nothing
CHECK_DEADLOCK FALSE
INVARIANTS TypeOK FeedIsExact HistoryMissesNone
