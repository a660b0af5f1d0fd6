\* A caller reads the breaker while another closes it.
SPECIFICATION Spec
CONSTANTS
    Callers = {c1, c2}
    Workers = {w1, w2}
    MaxRetries = 1
    Threshold = 2
    Stray = Stray
    Free = Free
    MaxStrays = 1
    MaxOutages = 1
INVARIANT
    FailuresAreTyped
