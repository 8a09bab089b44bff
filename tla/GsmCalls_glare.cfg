SPECIFICATION MCFairSpec
CONSTANTS
    a = a
    b = b
    n = n
    Calls = {a}
    Start <- OneConnected
    Incoming = {}
    Ui <- HoldResumeMedia
    MaxUi = 3
    MaxFaults = 2
    MaxMedia = 2
INVARIANTS TypeOK GateMatchesCalls WakesUnlessMisled ReinviteIsAnswered
PROPERTY PendingEnds
