SPECIFICATION Spec
CONSTANTS
    BookingIds = {b1, b2}
    RequestIds = {}
    Courts = {c1}
    Intervals <- OverlappingIntervals
    NoBooking = NoBooking
    DayLength = 5
    OpenAt = 1
    CloseAt = 4
    TTL = 1
    RefundCutoff = 1
    MaxBlocks = 0
    MaxTime = 5
INVARIANT NoDoubleBooking
CHECK_DEADLOCK FALSE
