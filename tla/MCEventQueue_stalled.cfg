SPECIFICATION StallingSpec
CONSTANTS
    r1 = r1  r2 = r2  w1 = w1  w2 = w2
    Readers = {r1, r2}
    Writers = {w1}
    BufferSize = 1
    MaxWrites <- StalledMaxWrites
    MaxDestroys = 1
    NoQueue = NoQueue
PROPERTY DestroyReturns
CHECK_DEADLOCK FALSE
