SPECIFICATION Spec
CONSTANTS
    Strategies = {s1}
    NoFeedback = NoFeedback
    TxIds = {x1, x2, x3}
    NoTx = NoTx
    Prices = {10}
    MaxLost = 1
    MaxPlain = 0
    MaxLives = 0
INVARIANTS
    OneOrderPerMessage
