SPECIFICATION QueriesSpec
CONSTANTS
    c1 = c1
    c2 = c2
    t1 = t1
    t2 = t2
    n1 = n1
    n2 = n2
    a1 = a1
    a2 = a2
    Chains <- MCChains
    Scans <- MCScans
    MaxActive = 1
    Requests <- MCRequests
    Batch = 3
    Listed = {t1}
    Names = {n1, n2}
    Holders = {a1, a2}
    MaxAge = 1
    Now <- MCNow
    ChainIds = {1, 10, 99}
    Embedded <- MCEmbedded
    Published <- MCPublished
    Malformed = {"bad"}
    Configs <- MCConfigs
    VendorSlugs <- MCSlugs
    AnyChain = {"thirdweb"}
    Hedges = {0, 1, 5}
    MaxDefault = 2
    Callers = {1, 2}
    MaxChanges = 2
    MaxReadFaults = 1
CHECK_DEADLOCK FALSE
INVARIANTS DiscoverySound BalancesAligned AnswersWereTrue  
