SPECIFICATION Spec
CONSTANTS
    Balances = {3, 10}
    Percentages = {20, 100}
    Amounts = {3}
    Quotes = {100, 30000}
    MinVolume = 1
    MaxVolume = 8
    Fee = 1
INVARIANTS
    SellableIsPlaced
CHECK_DEADLOCK FALSE
