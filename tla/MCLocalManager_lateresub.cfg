SPECIFICATION FairSpec
CONSTANTS
    t1 = t1  t2 = t2  x1 = x1  x2 = x2  x3 = x3  c1 = c1  c2 = c2  r1 = r1  s1 = s1  s2 = s2
    Tasks = {t1, t2}
    Execs = {x1, x2, x3}
    Starters = {x1}
    Cancels = {c1, c2}
    Resubs = {r1}
    TaskOf <- MCTaskOf
    Scopes = {s1, s2}
    ScopeOf <- MCScopeOf
    Settings <- LateSettings
    None = None
PROPERTY ResubscriptionsEnd
CHECK_DEADLOCK FALSE
