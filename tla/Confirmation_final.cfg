SPECIFICATION Spec
CONSTANTS
    Required = 2
    ReorgDepth = 1
    Modes = {"Depth", "Finalized"}
    SelfRelay = TRUE
    Foreign = TRUE
    Lagging = FALSE
    MaxHeight = 3
    MaxReorgs = 1
    MaxHashes = 2
    MaxFaults = 1
INVARIANTS ConfirmedIsFinal FailedIsFinal
PROPERTY RewindOnlyOnReorg
