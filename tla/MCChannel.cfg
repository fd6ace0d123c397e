SPECIFICATION Spec
CONSTANTS
    Threads = {t1, t2, t3}
    Items = {i1, i2}
    NoThread = NoThread
    QueueBound = 2
INVARIANTS
    TypeOK
    NoLostWakeup
PROPERTIES
    ImplementsFifo
