SPECIFICATION Spec
CONSTANTS
    Changes <- SomeChanges
    Enough = 4
    Percent = 10
    MaxRows = 7
INVARIANTS
    OppositeSignalsApart
    DipIsNoTimeToSell
    ConvIsConvolution
