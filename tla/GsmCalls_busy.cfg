SPECIFICATION MCFairSpec
CONSTANTS
    a = a
    b = b
    n = n
    Calls = {a, b, n}
    Start <- Three
    Incoming <- Waiting
    Ui <- Busy
    MaxUi = 3
    MaxFaults = 1
    MaxMedia = 0
INVARIANTS OneCallUsesAudio GateMatchesCalls
PROPERTY QueueDrains
