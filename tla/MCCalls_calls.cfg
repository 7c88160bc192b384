SPECIFICATION FairSpec
CONSTANTS
    Nil = Nil
    Err = Err
    MaxInt32 = 7
    Millisecond = 2
    Second = 4
    Settings <- MCSettings
    StoredTask <- MCTask
    StoredConfig <- Push
    ExtendedCards <- MCExtendedCards
    SendResults <- MCSendResults
    Events <- MCEvents
    Interceptors = 2
    InterceptErrors <- MCInterceptErrors
    MaxEvents = 2
    Window = 1
INVARIANTS HandlerSeesRequest ClientSeesResult ErrorsSurvive StreamFaithful
PROPERTY CallsReturn
CHECK_DEADLOCK FALSE
