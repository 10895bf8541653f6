SPECIFICATION FairSpec
CONSTANTS
    Required = 2
    ReorgDepth = 1
    Modes = {"Depth", "Finalized"}
    SelfRelay = FALSE
    Foreign = FALSE
    Lagging = FALSE
    MaxHeight = 3
    MaxReorgs = 1
    MaxHashes = 2
    MaxFaults = 0
PROPERTY Settles
