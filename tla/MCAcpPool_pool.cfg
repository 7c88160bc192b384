SPECIFICATION FairSpec
CONSTANTS
    u1 = u1  u2 = u2  k1 = k1  k2 = k2
    Users = {u1, u2}
    Keys = {k1, k2}
    Settings <- MCSettings
    MaxSlots = 3
    MaxProcs = 3
    None = None
INVARIANTS PoolExact InUseIsNotIdle
PROPERTIES AcquiresReturn UnusedAgentsStop
CHECK_DEADLOCK FALSE
