\* Two callers share a connector with two workers; one outage.
SPECIFICATION Spec
CONSTANTS
    Callers = {c1, c2}
    Workers = {w1, w2}
    MaxRetries = 1
    Threshold = 2
    Stray = Stray
    Free = Free
    MaxStrays = 1
    MaxOutages = 1
INVARIANTS
    TypeOK
    ShedsLoad
    OwnsOneCall
PROPERTIES
    EveryCallReturns
    ClosesOnceHealthy
