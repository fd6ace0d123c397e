SPECIFICATION Spec
CONSTANTS
    Currencies = 1
    Bases = 1
    Limit = 2
PROPERTIES
    EveryExceptionLogged
