SPECIFICATION ClusterSpec
CONSTANTS
    e1 = e1  c1 = c1  r1 = r1  m1 = m1
    Executors = {e1}
    Cancelers = {c1}
    Starters = {e1}
    Messages = {m1}
    MessageOf <- MCMessageOf
    Artifacts = {}
    AgentEvents <- AskingEvents
    CancelEvents <- MCCancelEvents
    Push = TRUE
    Cluster = TRUE
    FullSnapshot = FALSE
    MaxCancelationAttempts = 1
    MaxVersion = 2
    NoTask = NoTask
    Resubs = {r1}
    MaxExecutions = 2
    Failures = TRUE
    Leavers = {r1}
    None = None
INVARIANTS LeasesExact PermitsExact ToldIsStored CancelAnswersAreStored TerminalReachesEveryone CancelSeesItsResult
CHECK_DEADLOCK FALSE
