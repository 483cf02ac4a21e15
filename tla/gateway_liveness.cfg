SPECIFICATION FairSpec
CONSTANTS
    Attempts = {a1}
    Workers = {w1}
    None = None
PROPERTIES PaymentIsFound ExpiredBookingIsSwept
CHECK_DEADLOCK FALSE
