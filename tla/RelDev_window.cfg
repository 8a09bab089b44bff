SPECIFICATION Spec
CONSTANTS
    N = 2
    Calls = {"in", "again"}
    Reused = {"again"}
    Msgs <- Exchange
    None = None
INVARIANT TypeOK
INVARIANT OwnAnswer
PROPERTIES IsWindow NewCallsAreNew
