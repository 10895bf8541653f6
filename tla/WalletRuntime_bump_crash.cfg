SPECIFICATION Spec
CONSTANTS
    i1 = i1
    i2 = i2
    c1 = c1
    c2 = c2
    Intents = {i1}
    Cancellers = {}
    Concurrent = FALSE
    Refill = FALSE
    Faults = {"crash"}
    MaxFaults = 1
    MaxForeign = 0
    MaxRev = 1
    MaxNonce = 1
INVARIANTS ReplacedIsForeign
