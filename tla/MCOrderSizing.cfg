SPECIFICATION Spec
CONSTANTS
    Balances = {0, 2, 3, 10}
    Percentages = {20, 100}
    Amounts = {3}
    Quotes = {50, 100, 400}
    MinVolume = 1
    MaxVolume = 8
    Fee = 1
INVARIANTS
    TypeOK
    PlacedIsPaidFor
    PlacedAsBudgeted
    SellableWhereBaseIsCheap
CHECK_DEADLOCK FALSE
