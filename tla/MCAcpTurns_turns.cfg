SPECIFICATION FairSpec
CONSTANTS
    t1 = t1  t2 = t2  c1 = c1
    Tasks = {t1, t2}
    Contexts = {c1}
    ContextOf <- MCContextOf
    Settings <- MCSettings
    MaxTurns = 2
    MaxQuestions = 1
    MaxProcs = 2
    MaxCalls = 8
    None = None
INVARIANTS TurnsExact AnsweredOnce EndReported
PROPERTIES AnswerBeatsExit EndedTasksLeave
CHECK_DEADLOCK FALSE
