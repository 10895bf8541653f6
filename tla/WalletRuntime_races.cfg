SPECIFICATION FairSpec
CONSTANTS
    i1 = i1
    i2 = i2
    c1 = c1
    c2 = c2
    Intents = {i1}
    Cancellers = {c1}
    Concurrent = TRUE
    Refill = TRUE
    Faults = {"crash", "store", "transient", "sign", "read"}
    MaxFaults = 1
    MaxForeign = 1
    MaxRev = 1
    MaxNonce = 1
INVARIANTS SentIsLogged 
 
