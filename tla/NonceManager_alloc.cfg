SPECIFICATION Spec
CONSTANTS
    p1 = p1
    p2 = p2
    p3 = p3
    Procs = {p1, p2, p3}
    BootMined = 1
    BootPool = 0
    OutOfBand = TRUE
    Crashes = TRUE
    StoreFaults = TRUE
    LostAcks = TRUE
    MaxVersion = 3
    MaxMined = 3
SYMMETRY Symmetry
INVARIANTS NoSharedNonce NoReuseOfBroadcast NoGap
PROPERTY RefinesAllocator
