SPECIFICATION MCSpec
CONSTANTS
    a = a
    b = b
    n = n
    Calls = {a}
    Start <- OneConnected
    Incoming = {}
    Ui <- HoldResumeMedia
    MaxUi = 2
    MaxFaults = 1
    MaxMedia = 0
INVARIANT WaitingCallWakes
