SPECIFICATION ClusterSpec
CONSTANTS
    e1 = e1  c1 = c1  r1 = r1  m1 = m1
    Executors = {e1}
    Cancelers = {}
    Starters = {e1}
    Messages = {m1}
    MessageOf <- MCMessageOf
    Artifacts = {}
    AgentEvents <- AskingEvents
    CancelEvents <- MCCancelEvents
    Push = FALSE
    Cluster = TRUE
    FullSnapshot = TRUE
    MaxCancelationAttempts = 1
    MaxVersion = 2
    NoTask = NoTask
    Resubs = {}
    MaxExecutions = 0
    Failures = FALSE
    Leavers = {}
    None = None
INVARIANT ExecuteSeesItsResult
CHECK_DEADLOCK FALSE
