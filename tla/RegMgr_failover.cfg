CONSTANTS
    MaxCcm = 2
    MaxRetx = 1
    MaxQ = 1
    MaxAppQ = 1
    Calls = TRUE
    Responses <- AcceptOrRefuse
SPECIFICATION FairSpec
INVARIANT StandbyWatched
INVARIANT BackupIsStandby
PROPERTY StaysWatched
PROPERTY Registers
PROPERTY FailoverEnds
CHECK_DEADLOCK FALSE
