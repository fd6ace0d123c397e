SPECIFICATION Spec
CONSTANTS
    Currencies = 3
    Bases = 1
    Limit = 2
INVARIANTS
    TypeOK
    BurstNeedsAnException
    HeardKeepsAwake
PROPERTIES
    FailureEndsThePauses
    EarlierAreCollected
    FailureBlindsTheRest
    HeardIsLogged
    CurrenciesMaskPairs
