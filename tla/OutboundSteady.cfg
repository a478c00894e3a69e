SPECIFICATION FairSpec
CONSTANTS
    j1 = j1  j2 = j2  w1 = w1  w2 = w2  alice = alice
    Jobs = {j1, j2}
    Workers = {w1, w2}
    From <- MCFrom
    MaxAttempts = 2
    FreezeThreshold = 2
    BounceLimit = 2
    Prefetch = 2
    MXHosts = 2
    MaxCrashes = 0
    MaxShutdowns = 0
    MaxTimeouts = 0
    MaxOld = 0
    MaxFaults = 0
INVARIANTS DeliveredOnceWhole SteadyInv
PROPERTIES EventuallySettled
CHECK_DEADLOCK FALSE
