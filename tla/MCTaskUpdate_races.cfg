SPECIFICATION Spec
CONSTANTS
    e1 = e1  e2 = e2  c1 = c1  m1 = m1  m2 = m2  a1 = a1
    Executors = {e1, e2}
    Cancelers = {c1}
    Starters = {e1}
    Messages = {m1, m2}
    MessageOf <- MCMessageOf
    Artifacts = {a1}
    AgentEvents <- MCAgentEvents
    CancelEvents <- MCCancelEvents
    Push = TRUE
    Cluster = TRUE
    FullSnapshot = TRUE
    MaxCancelationAttempts = 2
    MaxVersion = 3
    NoTask = NoTask
INVARIANTS TypeOK OutcomesAgree ResultsAreFinal
PROPERTIES TerminalImmutable UpdatesSerialize ExhaustedCancelGivesUp
