SPECIFICATION RefillSpec
CONSTANTS
    i1 = i1
    Intents = {i1}
    Asked <- MCRoutes
    Refuses = TRUE
    MaxBroadcasts = 3
    MaxFaults = 1
CHECK_DEADLOCK FALSE
INVARIANT NeverLeaks
