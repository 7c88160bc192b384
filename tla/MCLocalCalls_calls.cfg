SPECIFICATION LocalSpec
CONSTANTS
    r1 = r1  r2 = r2  w1 = w1  w2 = w2
    Readers = {r1, r2}
    Writers = {w1, w2}
    BufferSize = 1
    MaxWrites <- CallsMaxWrites
    MaxDestroys = 1
    NoQueue = NoQueue
    t1 = t1  x1 = x1  x2 = x2  c1 = c1  s1 = s1  s2 = s2
    Tasks = {t1}
    Execs = {x1, x2}
    Starters = {x1}
    Cancels = {c1}
    Resubs = {}
    TaskOf <- LocalTaskOf
    Scopes = {s1, s2}
    ScopeOf <- LocalScopeOf
    Settings <- FairSettings
    None = None
INVARIANTS NoChannelPanic OnlyDestroyTruncates
PROPERTIES KeepsPromise CallsReturn EverythingEnds
CHECK_DEADLOCK FALSE
