CONSTANTS
    MaxCcm = 3
    MaxRetx = 0
    MaxQ = 1
    MaxAppQ = 1
    Calls = FALSE
    Responses = {"200"}
SPECIFICATION Spec
PROPERTY FallbackToPreferred
CHECK_DEADLOCK FALSE
