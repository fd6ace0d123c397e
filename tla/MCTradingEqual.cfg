SPECIFICATION Spec
CONSTANTS
    Strategies = {s1}
    NoFeedback = NoFeedback
    TxIds = {x1, x2}
    NoTx = NoTx
    Prices = {10}
    MaxLost = 0
    MaxPlain = 0
    MaxLives = 0
INVARIANTS
    NoEqualOrders
