SPECIFICATION MCFairSpec
CONSTANTS
    a = a
    b = b
    n = n
    Calls = {a, b, n}
    Start <- Three
    Incoming <- Waiting
    Ui <- Busy
    MaxUi = 3
    MaxFaults = 0
    MaxMedia = 0
PROPERTY DeferredEventsRun
