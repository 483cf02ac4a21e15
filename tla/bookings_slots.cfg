SPECIFICATION FairSpec
CONSTANTS
    BookingIds = {b1, b2}
    RequestIds = {r1, r2}
    Courts = {c1}
    Intervals <- EarlyOverlap
    NoBooking = NoBooking
    DayLength = 4
    OpenAt = 1
    CloseAt = 3
    TTL = 1
    RefundCutoff = 1
    MaxBlocks = 1
    MaxTime = 5
INVARIANTS CashMatchesFulfilment OverlapOnlyAfterDeadline ApprovedRefundIsFinal
PROPERTIES RowsFollowLifecycle ExpiredPendingMovesOn PaidSettles
CHECK_DEADLOCK FALSE
