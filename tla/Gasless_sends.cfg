SPECIFICATION GaslessFairSpec
CONSTANTS
    s1 = s1
    i1 = i1
    Sends = {s1}
    IntentOf <- MCIntentOf
    Unrelayable = {}
    Relays <- MCRelays
    Refill = TRUE
    Resubmits = TRUE
    NewStates = TRUE
    MaxEoa = 1
    Relayed = {s1}
    Creations = {}
    Window <- MCWindow
    Ceiling <- MCCeiling
    MaxDeadline = 1
    MaxTime = 1
    Configured <- MCConfigured
    Required = 2
    MaxHead = 0
    MaxOthers = 1
    MaxFaults = 1
CHECK_DEADLOCK FALSE
INVARIANTS ConfirmedIncluded  RelayedConfirmedRan  
PROPERTIES TaskSettles RelayedSettles StopReturns
