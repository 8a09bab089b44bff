CONSTANTS
    MaxCcm = 2
    MaxRetx = 0
    MaxQ = 2
    MaxAppQ = 1
    Calls = TRUE
    Responses <- AnyAnswer
SPECIFICATION Spec
INVARIANT TypeOK
INVARIANT SlotsAccounted
INVARIANT OneRole
INVARIANT FailoverAnswered
CHECK_DEADLOCK FALSE
