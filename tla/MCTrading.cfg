SPECIFICATION Spec
CONSTANTS
    Strategies = {s1}
    NoFeedback = NoFeedback
    TxIds = {x1, x2, x3, x4}
    NoTx = NoTx
    Prices = {10, 11}
    MaxLost = 1
    MaxPlain = 0
    MaxLives = 1
SYMMETRY TxIdSymmetry
INVARIANTS
    TypeOK
    OneFeedbackPerWaiter
    PlacedOrdersAreDone
    NoOrphanOrder
    ExposureBounded
    PositionConsistent
    OnlyLostOrdersAreRepeated
PROPERTIES
    KeepsOrderDesk
