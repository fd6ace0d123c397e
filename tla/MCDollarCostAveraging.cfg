SPECIFICATION Spec
CONSTANTS
    MonthLengths <- ThreeMonths
    Hours = 2
    Minutes = 2
    Seconds = 2
    HalfHour = 2
    Horizon = 88
INVARIANTS
    TypeOK
PROPERTIES
    DailyDatesAdvance
    MonthlyDatesAdvance
