SPECIFICATION PartsSpec
CONSTANTS
    alice = alice  bob = bob  Anonymous = Anonymous  Nil = Nil
    Ids = {1, 2, 3}
    Underscored = {3}
    OwnerOf <- MCOwnerOf
    ContextOf <- MCContextOf
    States = {"working", "completed"}
    Requests <- MCRequests
    DefaultPageSize = 2
    MaxPageSize = 3
    MaxTime = 3
    MaxLog = 4
    Inactivity = TRUE
    Pullers = {p1}
    Pushers = {s1}
    Messages = {m1, m2}
    Malformed = {m2}
    MaxExecutions <- Places
    Goroutines = 2
    MaxFaults = 1
    Callbacks = TRUE
INVARIANTS PagesComplete InOrder CloseGetsOn WorkKept
CHECK_DEADLOCK FALSE
