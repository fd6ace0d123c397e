SPECIFICATION Spec
CONSTANTS
    Strategies = {s1}
    NoFeedback = NoFeedback
    TxIds = {x1, x2, x3}
    NoTx = NoTx
    Prices = {10}
    MaxLost = 0
    MaxPlain = 1
    MaxLives = 0
PROPERTIES
    WaitersAreAnswered
    ImplementsOrderDesk
    EqualOrdersNeedTwoWaiters
