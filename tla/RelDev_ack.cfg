SPECIFICATION Spec
CONSTANTS
    N = 4
    Calls = {"out"}
    Reused = {}
    Msgs <- Answered
    None = None
INVARIANT AckWithFinal
