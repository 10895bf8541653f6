SPECIFICATION Spec
CONSTANTS
    i1 = i1
    i2 = i2
    c1 = c1
    c2 = c2
    Intents = {i1, i2}
    Cancellers = {c1}
    Concurrent = FALSE
    Refill = TRUE
    Faults = {"reject"}
    MaxFaults = 1
    MaxForeign = 1
    MaxRev = 2
    MaxNonce = 2
INVARIANTS AtMostOnce ReplacedIsForeign DroppedNotExecuted
