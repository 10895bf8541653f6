SPECIFICATION FairSpec
CONSTANTS
    Top = 100000
    Ceiling = 30
    Ttl = 1
    MaxTime = 3
    BaseFees = {2, 8}
    Estimates <- MCEstimates
    Engines <- MCEngines
    Requests <- MCRequests
CHECK_DEADLOCK FALSE
INVARIANTS WithinOriginalEnvelope
PROPERTIES EachBumpReplaces SignedWhileAllowed OnlyPermittedApproved NeverWedged
