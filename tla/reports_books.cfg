CONSTANTS
    None = None
    Ids = {1, 2}
    Facts <- SampleFacts
    OwnerOf <- SampleOwners
    Rate = 500
    Inputs <- SampleInputs
    PerDay = 1
    WeekDays = 2
    MonthDays = 3
    MaxClock = 2
    MaxEntries = 1
SPECIFICATION Spec
INVARIANTS ReconcileFindsFaults ReportsAgree BooksBalance
PROPERTIES ClosedDayStable
CHECK_DEADLOCK FALSE
